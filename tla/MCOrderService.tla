--------------------------- MODULE MCOrderService ---------------------------
(* Small instances of OrderService for TLC.                                *)
EXTENDS OrderService, TLC

CONSTANTS p1, p2, n1, n2, w1, w2

MCInitialTables ==
  { (p1 :> [name |-> n1, price |-> 1, stock |-> 2, labels |-> [k \in Kind |-> NoRow]]) @@
    (p2 :> [name |-> n2, price |-> 3, stock |-> 2, labels |-> [k \in Kind |-> NoRow]]) }

L(p, q) == [product |-> p, quantity |-> q]

(* One line, two lines, a product named twice, nothing, more money than    *)
(* MaxAmount on one line and on two.  Two of these and the stock is gone.  *)
MCCart == { << L(p1, 2) >>, << L(p2, 1), L(p1, 1) >>, << L(p1, 2), L(p1, 2) >>,
            << >>, << L(p2, 2) >>, << L(p2, 1), L(p1, 2) >> }

(* Fewer for two workers: they interleave.                                 *)
GroupCart == { << L(p2, 1), L(p1, 2) >>, << L(p1, 2), L(p1, 2) >> }

(* A product whose name p1 has at first, out of stock.                     *)
MCOtherSaves == { [name |-> n1, price |-> 2, stock |-> 0] }

OneWorker == [t \in Topic |-> w1]

(* Cancel's partition went to another member of the group.                 *)
TwoWorkers == [t \in Topic |-> IF t \in {"cancel", "delete"} THEN w2 ELSE w1]

OrderSymmetry == Permutations(OrderId)

=============================================================================
