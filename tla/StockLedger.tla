---------------------------- MODULE StockLedger ----------------------------
(***************************************************************************)
(* What order handling promises about stock, without handlers, rows or     *)
(* awaits: units move one order line at a time between the shelf and the   *)
(* account of an order.  Every unit that leaves the shelf is charged to an *)
(* order, every unit returned is credited to it, and nothing is taken that *)
(* is not there.                                                           *)
(***************************************************************************)
EXTENDS Integers

CONSTANTS
  Product,   \* what is stocked
  Account,   \* the orders units are charged to
  Quantity   \* how many units one order line may move

VARIABLES
  shelf,     \* shelf[p]: units of p for sale
  charged    \* charged[o][p]: units of p taken for o minus units returned

ledgerVars == <<shelf, charged>>

LedgerInit ==
  /\ shelf \in [Product -> Nat]
  /\ charged = [o \in Account |-> [p \in Product |-> 0]]

Take(o, p, n) ==
  /\ shelf[p] >= n
  /\ shelf' = [shelf EXCEPT ![p] = @ - n]
  /\ charged' = [charged EXCEPT ![o][p] = @ + n]

Give(o, p, n) ==
  /\ shelf' = [shelf EXCEPT ![p] = @ + n]
  /\ charged' = [charged EXCEPT ![o][p] = @ - n]

LedgerNext ==
  \E o \in Account, p \in Product, n \in Quantity : Take(o, p, n) \/ Give(o, p, n)

LedgerSpec == LedgerInit /\ [][LedgerNext]_ledgerVars

=============================================================================
