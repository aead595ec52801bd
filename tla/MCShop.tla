------------------------------- MODULE MCShop -------------------------------
(* Small instances of Shop and ProductService for TLC.                     *)
EXTENDS Shop, TLC

CONSTANTS p1, p2, n1, n2, w1, c1

Labelled == [k \in Kind |-> IF k = "category" THEN c1 ELSE NoRow]

MCTable ==
  { (p1 :> [name |-> n1, price |-> 1, stock |-> 2, labels |-> Labelled]) @@
    (p2 :> NoRow) }

L(p, q) == [product |-> p, quantity |-> q]

(* One line, two lines, and more units than there are.                     *)
MCCart == { << L(p1, 1) >>, << L(p2, 1), L(p1, 1) >>, << L(p1, 3) >> }

(* The product calls that touch what the orders touch.                     *)
ShopCalls ==
  { [op |-> "create", name |-> n1, price |-> 1, stock |-> 1, labels |-> [k \in Kind |-> c1]],
    [op |-> "update", id |-> p1, name |-> n2, price |-> 2],
    [op |-> "update", id |-> p1, name |-> Absent, price |-> Absent],
    [op |-> "update", id |-> p2, name |-> n2, price |-> Absent],
    [op |-> "delete", id |-> p1],
    [op |-> "deleteLabel", kind |-> "category", id |-> c1] }

OneWorker == [t \in Topic |-> w1]

=============================================================================
