-------------------------- MODULE MCProductService --------------------------
(* A small instance of ProductService, without orders-service, for TLC.    *)
EXTENDS ProductService, TLC

CONSTANTS p1, p2, n1, n2, c1, c2

MCTable ==
  { (p1 :> [name |-> n1, price |-> 1, stock |-> 1, labels |-> [k \in Kind |-> c1]]) @@
    (p2 :> NoRow) }

(* What an order that has read p1 may write back.                          *)
MCOtherSaves == { [name |-> n1, price |-> 1, stock |-> 0] }

(* Both kinds are handled alike: products are only given and refused       *)
(* categories and brands with the same id.                                 *)
AllCalls ==
  { c \in ProductCall : c.op = "create" => c.labels["category"] = c.labels["brand"] }
  \cup { c \in LabelCall : c.kind = "category" \/ c.op = "deleteLabel" }

=============================================================================
