------------------------- MODULE OrderSerial_proofs -------------------------
(***************************************************************************)
(* What orders-service guarantees when it runs as one worker and nobody    *)
(* else writes its tables: it implements StockLedger and loses no unit, an *)
(* order's status only moves forward, a create that has saved its order    *)
(* goes through, and between requests the accounts of the orders agree     *)
(* with their items.  For every set of products, orders and carts and any  *)
(* number of crashes and database errors, but where a theorem counts them. *)
(***************************************************************************)
EXTENDS OrderService_proofs, WellFoundedInduction

OneWorkerOnly == \A u, v \in Worker : u = v

SerialInv ==
  /\ OrderInv
  /\ SnapshotsFresh
  /\ \A o \in OrderId : orders[o] # NoRow => o \in issued

Shelf == [p \in ProductId |-> IF products[p] = NoRow THEN 0 ELSE products[p].stock]

LEMMA InitSerial == OrderInit => SerialInv
<1> SUFFICES ASSUME OrderInit PROVE SerialInv
  OBVIOUS
<1>1. SnapshotsFresh
  BY DEF OrderInit, SnapshotsFresh
<1>2. \A o \in OrderId : orders[o] # NoRow => o \in issued
  BY DEF OrderInit
<1> QED BY <1>1, <1>2, InitInv DEF SerialInv

(* With one worker only its own awaits matter.                             *)
Fresh(w) ==
  /\ pc[w] \in {"saveOrder", "deduct"} => CartFresh(w)
  /\ pc[w] \in {"saveStatus", "findProduct", "returnStock", "saveCancelled",
                "deleteItems", "deleteOrder"} => RowFresh(w)
  /\ pc[w] = "returnStock" =>
       LET p == ReturnLine(w).product IN mem[w].snap[p] = LoadProduct(p)

LEMMA FreshIsEnough ==
  ASSUME OneWorkerOnly, NEW w \in Worker, Fresh(w)'
  PROVE  SnapshotsFresh'
BY DEF OneWorkerOnly, Fresh, SnapshotsFresh

-----------------------------------------------------------------------------
(* Steps that end the handler or begin it again have nothing to keep fresh.*)

LEMMA RestingFresh ==
  ASSUME SerialInv, NEW w \in Worker,
         NEW where \in {"idle", "received", "done"}, pc' = [pc EXCEPT ![w] = where]
  PROVE  Fresh(w)'
<1>1. pc'[w] = where
  BY DEF SerialInv, OrderInv, OrderTypeOK
<1> QED BY <1>1 DEF Fresh

LEMMA CreateAcceptFresh ==
  ASSUME SerialInv, NEW w \in Worker, CreateAccept(w)
  PROVE  Fresh(w)'
<1> DEFINE cart == msg[w].cart
           snap == SnapshotOf(cart)
<1>1. /\ Handles(w, "create")
      /\ mem' = [mem EXCEPT ![w].snap = snap]
      /\ pc' = [pc EXCEPT ![w] = "saveOrder"]
      /\ UNCHANGED msg /\ UNCHANGED products
  BY DEF CreateAccept, Continue, Goto, rows
<1>2. pc'[w] = "saveOrder" /\ mem'[w].snap = snap
  BY <1>1 DEF SerialInv, OrderInv, OrderTypeOK, Local
<1>3. \A i \in 1..Len(cart) : cart[i].product \in ProductId
  BY <1>1, CreateHandlerTyped DEF SerialInv, Lines
<1>4. \A i \in 1..Len(cart) : snap[cart[i].product] = LoadProduct(cart[i].product)
  BY <1>3 DEF SnapshotOf
<1>5. \A p : LoadProduct(p)' = LoadProduct(p)
  BY <1>1 DEF LoadProduct, Columns
<1> HIDE DEF snap
<1> QED BY <1>1, <1>2, <1>4, <1>5 DEF Fresh, CartFresh, Lines

LEMMA CreateSaveOrderFresh ==
  ASSUME SerialInv, NEW w \in Worker, CreateSaveOrder(w)
  PROVE  Fresh(w)'
<1>1. PICK o \in OrderId : mem' = [mem EXCEPT ![w].order = o]
  BY DEF CreateSaveOrder
<1>2. /\ pc[w] = "saveOrder" /\ pc' = [pc EXCEPT ![w] = "deduct"]
      /\ UNCHANGED <<msg, products>>
  BY DEF CreateSaveOrder, Continue, Goto
<1>3. /\ pc'[w] = "deduct"
      /\ mem'[w].snap = mem[w].snap /\ mem'[w].next = mem[w].next
  BY <1>1, <1>2 DEF SerialInv, OrderInv, OrderTypeOK, Local
<1>4. CartFresh(w)
  BY <1>2 DEF SerialInv, SnapshotsFresh
<1>5. \A p : LoadProduct(p)' = LoadProduct(p)
  BY <1>2 DEF LoadProduct, Columns
<1> QED BY <1>2, <1>3, <1>4, <1>5 DEF Fresh, CartFresh, Lines

(* The deduction: the products of the lines still to come are not the one  *)
(* that is written, so what was read of them is still what the table says. *)
LEMMA CreateDeductFresh ==
  ASSUME SerialInv, NEW w \in Worker, CreateDeduct(w)
  PROVE  Fresh(w)'
<1> DEFINE cart == msg[w].cart
           i == mem[w].next
           p == cart[i].product
           e == Deducted(w)
<1>1. /\ pc[w] = "deduct"
      /\ products' = [products EXCEPT ![p] = SavedProduct(p, e)]
      /\ mem' = [mem EXCEPT ![w].snap[p] = e, ![w].next = i + 1]
      /\ pc' = [pc EXCEPT ![w] = IF i = Len(cart) THEN "saveItems" ELSE "deduct"]
      /\ UNCHANGED msg
  BY DEF CreateDeduct, Continue, Goto, SaveProduct
<1>2. CartFresh(w) /\ CartCovered(w)
  BY <1>1 DEF SerialInv, SnapshotsFresh, OrderInv, HandlersOK, LocalsOK
<1>3. /\ i \in 1..Len(cart) /\ Len(cart) \in Nat /\ i \in Nat
      /\ \A j \in 1..Len(cart) : cart[j].product \in ProductId
      /\ \A j, k \in 1..Len(cart) : cart[j].product = cart[k].product => j = k
  <2>1. pc[w] \in AwaitsOf("create")
    BY <1>1 DEF AwaitsOf
  <2>2. /\ cart \in Seq(CartLine)
        /\ \A j \in 1..Len(cart) : cart[j].product \in ProductId
    BY <2>1, CreateHandlerTyped DEF SerialInv, Lines
  <2>3. Len(cart) \in Nat
    BY <2>2
  <2>4. i \in 1..Len(cart)
    <3>1. pc[w] # "saveItems"
      BY <1>1
    <3> QED BY ONLY <1>2, <3>1 DEF CartCovered, Lines
  <2>5. \A j, k \in 1..Len(cart) : cart[j].product = cart[k].product => j = k
    BY ONLY <1>2 DEF CartCovered, Lines
  <2> QED BY <2>2, <2>3, <2>4, <2>5
<1>4. /\ products \in [ProductId -> ProductRow \cup {NoRow}]
      /\ mem[w].snap \in [ProductId -> Entity \cup {NoRow}]
      /\ mem \in [Worker -> Local]
  BY DEF SerialInv, OrderInv, OrderTypeOK, ProductsTypeOK, Local
<1>5. pc'[w] = IF i = Len(cart) THEN "saveItems" ELSE "deduct"
  BY <1>1 DEF SerialInv, OrderInv, OrderTypeOK
<1>6. mem'[w].snap = [mem[w].snap EXCEPT ![p] = e] /\ mem'[w].next = i + 1
  <2>1. mem'[w] = [mem[w] EXCEPT !.snap[p] = e, !.next = i + 1]
    BY <1>1, <1>4
  <2>2. mem[w] \in Local
    BY <1>4
  <2> HIDE DEF e, p, i
  <2> QED BY <2>1, <2>2 DEF Local
<1>7. \A j \in 1..Len(cart) : j >= i + 1 =>
        /\ mem'[w].snap[cart[j].product] = mem[w].snap[cart[j].product]
        /\ products'[cart[j].product] = products[cart[j].product]
  <2> SUFFICES ASSUME NEW j \in 1..Len(cart), j >= i + 1
               PROVE  /\ mem'[w].snap[cart[j].product] = mem[w].snap[cart[j].product]
                      /\ products'[cart[j].product] = products[cart[j].product]
    OBVIOUS
  <2>1. cart[j].product # p /\ cart[j].product \in ProductId
    <3>1. j # i
      BY <1>3
    <3> QED BY <1>3, <3>1, Zenon
  <2> HIDE DEF p, e
  <2> QED BY <1>1, <1>4, <1>6, <2>1
<1>8. \A j \in 1..Len(cart) : j >= i + 1 =>
        mem'[w].snap[cart[j].product] = LoadProduct(cart[j].product)'
  <2> SUFFICES ASSUME NEW j \in 1..Len(cart), j >= i + 1
               PROVE  mem'[w].snap[cart[j].product] = LoadProduct(cart[j].product)'
    OBVIOUS
  <2>1. mem[w].snap[cart[j].product] = LoadProduct(cart[j].product)
    BY <1>2, <1>3 DEF CartFresh, Lines
  <2>2. LoadProduct(cart[j].product)' = LoadProduct(cart[j].product)
    BY <1>1, <1>7 DEF LoadProduct, Columns
  <2> QED BY <1>7, <2>1, <2>2
<1>9. CartFresh(w)'
  <2>1. msg' = msg /\ mem'[w].next = i + 1
    BY <1>1, <1>6
  <2> HIDE DEF e, p, i
  <2> QED BY <1>8, <2>1 DEF CartFresh, Lines, LoadProduct, Columns
<1> QED BY <1>5, <1>9 DEF Fresh

-----------------------------------------------------------------------------
LEMMA FindFresh ==
  ASSUME SerialInv, NEW w \in Worker, UpdateFind(w) \/ CancelFind(w) \/ DeleteFind(w)
  PROVE  Fresh(w)'
<1>1. PICK o \in OrderId,
           target \in {"saveStatus", "findProduct", "saveCancelled", "deleteItems"} :
        /\ orders[o] # NoRow
        /\ mem' = [mem EXCEPT ![w].order = o, ![w].row = orders[o]]
        /\ pc' = [pc EXCEPT ![w] = target]
        /\ UNCHANGED orders
  BY DEF UpdateFind, CancelFind, DeleteFind, FindOrder, Matching, Continue, Goto, rows
<1>2. pc'[w] = target /\ mem'[w].order = o /\ mem'[w].row = orders[o]
  BY <1>1 DEF SerialInv, OrderInv, OrderTypeOK, Local
<1> QED BY <1>1, <1>2 DEF Fresh, RowFresh

LEMMA ReturnFindFresh ==
  ASSUME SerialInv, NEW w \in Worker, ReturnFind(w)
  PROVE  Fresh(w)'
<1> DEFINE p == ReturnLine(w).product
<1>1. /\ pc[w] = "findProduct"
      /\ mem' = [mem EXCEPT ![w].snap[p] = LoadProduct(p)]
      /\ pc' = [pc EXCEPT ![w] = "returnStock"]
      /\ UNCHANGED <<orders, products>>
  BY DEF ReturnFind, Continue, Goto, rows
<1>2. p \in ProductId /\ mem[w] \in Local
  BY <1>1, ReturnLineTyped DEF SerialInv
<1>3. /\ pc'[w] = "returnStock"
      /\ mem'[w] = [mem[w] EXCEPT !.snap[p] = LoadProduct(p)]
  BY <1>1 DEF SerialInv, OrderInv, OrderTypeOK
<1>4. /\ mem'[w].row = mem[w].row /\ mem'[w].order = mem[w].order
      /\ mem'[w].next = mem[w].next /\ mem'[w].snap[p] = LoadProduct(p)
  <2> HIDE DEF p
  <2> QED BY <1>2, <1>3 DEF Local
<1>5. RowFresh(w)'
  BY <1>1, <1>4 DEF SerialInv, SnapshotsFresh, RowFresh
<1>6. ReturnLine(w)' = ReturnLine(w)
  BY <1>4 DEF ReturnLine
<1>7. LoadProduct(p)' = LoadProduct(p)
  BY <1>1, <1>6 DEF LoadProduct, Columns
<1> QED BY <1>3, <1>4, <1>5, <1>6, <1>7 DEF Fresh

LEMMA LoopStepFresh ==
  ASSUME SerialInv, NEW w \in Worker, ReturnSkip(w) \/ ReturnSave(w)
  PROVE  Fresh(w)'
<1>1. /\ pc[w] \in {"findProduct", "returnStock"}
      /\ pc' = [pc EXCEPT ![w] = NextReturn(w)]
      /\ UNCHANGED orders
      /\ \/ mem' = [mem EXCEPT ![w].next = @ + 1]
         \/ mem' = [mem EXCEPT ![w].snap = EmptySnap, ![w].next = @ + 1]
  BY DEF ReturnSkip, ReturnSave, Continue, Goto, rows
<1>2. /\ pc'[w] \in {"findProduct", "saveCancelled", "deleteItems"}
      /\ mem'[w].row = mem[w].row /\ mem'[w].order = mem[w].order
  BY <1>1 DEF NextReturn, AfterReturns, SerialInv, OrderInv, OrderTypeOK, Local
<1>3. RowFresh(w)'
  BY <1>1, <1>2 DEF SerialInv, SnapshotsFresh, RowFresh
<1> QED BY <1>2, <1>3 DEF Fresh

LEMMA DeleteItemsFresh ==
  ASSUME SerialInv, NEW w \in Worker, DeleteItems(w)
  PROVE  Fresh(w)'
<1> DEFINE o == mem[w].order
<1>1. /\ pc[w] = "deleteItems" /\ RowFresh(w) /\ o \in OrderId
      /\ orders' = [orders EXCEPT ![o].items = << >>]
      /\ pc' = [pc EXCEPT ![w] = "deleteOrder"]
      /\ UNCHANGED mem
  BY DEF DeleteItems, Continue, Goto, SerialInv, SnapshotsFresh, RowFresh, OrderInv,
         HandlersOK, LocalsOK, OrderRead
<1>2. orders[o] \in OrderRow /\ orders'[o] = [orders[o] EXCEPT !.items = << >>]
  BY <1>1 DEF RowFresh, SerialInv, OrderInv, OrderTypeOK
<1>3. orders'[o] \in OrderRow /\ orders'[o].status = orders[o].status
  <2> << >> \in Seq(Item)
    OBVIOUS
  <2> QED BY <1>2 DEF OrderRow
<1>4. orders'[o] # NoRow /\ pc'[w] = "deleteOrder"
  BY <1>1, <1>3, NoRowIsNotAnOrder DEF SerialInv, OrderInv, OrderTypeOK
<1>5. RowFresh(w)'
  <2>1. mem' = mem /\ orders[o].status = mem[w].row.status
    BY <1>1 DEF RowFresh
  <2>2. orders'[mem'[w].order] # NoRow
    BY <1>4, <2>1
  <2>3. orders'[mem'[w].order].status = mem'[w].row.status
    BY <1>3, <2>1
  <2> QED BY <2>2, <2>3 DEF RowFresh
<1> QED BY <1>4, <1>5 DEF Fresh

(* Every step of the worker leaves its own locals fresh.                   *)
LEMMA StepFresh ==
  ASSUME SerialInv, NEW w \in Worker, WorkerStep(w)
  PROVE  Fresh(w)'
<1>1. CASE \/ CreateReject(w) \/ CreateTotalTooLarge(w) \/ CreateDeductRefused(w)
           \/ CreateSaveItems(w) \/ CreateItemsRefused(w) \/ OrderNotFound(w)
           \/ UpdateSave(w) \/ CancelSave(w) \/ DeleteOrder(w) \/ ReturnRefused(w)
           \/ DbError(w)
  <2>1. pc' = [pc EXCEPT ![w] = "done"]
    BY <1>1 DEF CreateReject, CreateTotalTooLarge, CreateDeductRefused, CreateSaveItems,
                CreateItemsRefused, OrderNotFound, UpdateSave, CancelSave, DeleteOrder,
                ReturnRefused, DbError, Finish, Goto
  <2> QED BY <2>1, RestingFresh
<1>2. CASE Receive(w) \/ Commit(w) \/ Crash(w)
  <2>1. PICK where \in {"idle", "received"} : pc' = [pc EXCEPT ![w] = where]
    BY <1>2 DEF Receive, NewRequest, Redeliver, Begin, Commit, Crash, Goto
  <2> QED BY <2>1, RestingFresh
<1>3. CASE CreateAccept(w) \/ CreateSaveOrder(w) \/ CreateDeduct(w)
  BY <1>3, CreateAcceptFresh, CreateSaveOrderFresh, CreateDeductFresh
<1>4. CASE \/ UpdateFind(w) \/ CancelFind(w) \/ DeleteFind(w) \/ ReturnFind(w)
           \/ ReturnSkip(w) \/ ReturnSave(w) \/ DeleteItems(w)
  BY <1>4, FindFresh, ReturnFindFresh, LoopStepFresh, DeleteItemsFresh
<1> QED
  BY <1>1, <1>2, <1>3, <1>4 DEF WorkerStep, HandlerStep, CreateStep, ReturnStep

-----------------------------------------------------------------------------
(* What one step may do to `orders`: insert one new row, or rewrite or     *)
(* remove one row that is there, moving its status only forward.           *)
MovesOn(old, new) ==
  /\ new.status \in {0, old.status, NextStatus(old.status)}
  /\ old.status = 0 => new.status = 0

InsertsOrder ==
  \E o \in OrderId \ issued, row \in OrderRow :
    /\ orders' = [orders EXCEPT ![o] = row]
    /\ issued' = issued \cup {o}

RewritesOrder ==
  \E o \in OrderId :
    /\ orders[o] # NoRow
    /\ \E row \in OrderRow \cup {NoRow} :
         /\ orders' = [orders EXCEPT ![o] = row]
         /\ row # NoRow => MovesOn(orders[o], row)
    /\ UNCHANGED issued

OrdersStep == InsertsOrder \/ RewritesOrder \/ UNCHANGED <<orders, issued>>

LEMMA InsertStep ==
  ASSUME SerialInv, NEW w \in Worker, CreateSaveOrder(w)
  PROVE  OrdersStep
<1> DEFINE total == CartTotal(msg[w].cart, mem[w].snap)
           row   == [status |-> 1, total |-> total, user |-> msg[w].user, items |-> << >>]
<1>1. /\ total \in 0..MaxAmount /\ pc[w] = "saveOrder"
      /\ \E o \in OrderId \ issued : /\ orders' = [orders EXCEPT ![o] = row]
                                     /\ issued' = issued \cup {o}
  BY DEF CreateSaveOrder
<1>2. msg[w].user \in User
  BY <1>1 DEF SerialInv, OrderInv, HandlersOK, LocalsOK, CartCovered
<1>3. << >> \in Seq(Item)
  OBVIOUS
<1>4. row \in OrderRow
  <2> HIDE DEF total
  <2> QED BY <1>1, <1>2, <1>3 DEF OrderRow
<1> HIDE DEF row
<1> QED BY <1>1, <1>4 DEF OrdersStep, InsertsOrder

LEMMA ItemsStep ==
  ASSUME SerialInv, OrderInv', NEW w \in Worker, CreateSaveItems(w) \/ DeleteItems(w)
  PROVE  OrdersStep
<1>1. PICK items : \/ orders' = [orders EXCEPT ![mem[w].order].items = items]
                   \/ orders' = orders
  BY DEF CreateSaveItems, DeleteItems
<1>2. UNCHANGED issued /\ mem[w].order \in OrderId
  BY DEF CreateSaveItems, DeleteItems, SerialInv, OrderInv, HandlersOK, LocalsOK, OrderRead
<1>3. orders[mem[w].order] # NoRow
  <2>1. CASE CreateSaveItems(w)
    BY <2>1 DEF CreateSaveItems, ItemsStorable
  <2>2. CASE DeleteItems(w)
    BY <2>2 DEF DeleteItems, SerialInv, SnapshotsFresh, RowFresh
  <2> QED BY <2>1, <2>2
<1>4. CASE orders' = orders
  BY <1>2, <1>4 DEF OrdersStep
<1>5. CASE orders' = [orders EXCEPT ![mem[w].order].items = items]
  <2> DEFINE old == orders[mem[w].order]
             row == [old EXCEPT !.items = items]
  <2>1. orders' = [orders EXCEPT ![mem[w].order] = row]
    BY <1>5
  <2>2. old \in OrderRow /\ orders'[mem[w].order] = row
    BY <1>2, <1>3, <1>5 DEF SerialInv, OrderInv, OrderTypeOK
  <2>3. row \in OrderRow \cup {NoRow}
    <3>1. orders'[mem[w].order] \in OrderRow \cup {NoRow}
      BY <1>2 DEF SerialInv, OrderInv, OrderTypeOK
    <3> QED BY <2>2, <3>1
  <2>4. row.status = old.status
    BY <2>2 DEF OrderRow
  <2>5. MovesOn(old, row)
    BY <2>4 DEF MovesOn
  <2> HIDE DEF row
  <2> QED BY <1>2, <1>3, <2>1, <2>3, <2>5 DEF OrdersStep, RewritesOrder
<1> QED BY <1>1, <1>4, <1>5

LEMMA WriteStep ==
  ASSUME SerialInv, OrderInv', NEW w \in Worker,
         UpdateSave(w) \/ CancelSave(w) \/ DeleteOrder(w)
  PROVE  OrdersStep
<1> DEFINE o   == mem[w].order
           old == orders[o]
<1>1. /\ pc[w] \in {"saveStatus", "saveCancelled", "deleteOrder"}
      /\ UNCHANGED issued
  BY DEF UpdateSave, CancelSave, DeleteOrder, WriteOrder
<1>2. /\ o \in OrderId /\ mem[w].row \in OrderRow
      /\ old # NoRow /\ old.status = mem[w].row.status /\ old \in OrderRow
  BY <1>1 DEF SerialInv, SnapshotsFresh, RowFresh, OrderInv, OrderTypeOK, HandlersOK,
              LocalsOK, OrderRead
<1>3. \E row : /\ orders' = [orders EXCEPT ![o] = row]
               /\ row # NoRow => MovesOn(old, row)
  <2>1. CASE DeleteOrder(w)
    BY <2>1 DEF DeleteOrder, WriteOrder
  <2>2. CASE CancelSave(w)
    <3> DEFINE row == [mem[w].row EXCEPT !.status = 0]
    <3>1. orders' = [orders EXCEPT ![o] = row]
      BY <2>2 DEF CancelSave, WriteOrder
    <3>2. row.status = 0
      BY <1>2 DEF OrderRow
    <3> HIDE DEF row
    <3> QED BY <3>1, <3>2 DEF MovesOn
  <2>3. CASE UpdateSave(w)
    <3>1. PICK items :
            orders' = [orders EXCEPT ![o] =
              [mem[w].row EXCEPT !.status = NextStatus(@), !.items = items]]
      BY <2>3 DEF UpdateSave, WriteOrder
    <3> DEFINE row == [mem[w].row EXCEPT !.status = NextStatus(@), !.items = items]
    <3>2. row.status = NextStatus(old.status)
      BY <1>2 DEF OrderRow
    <3>3. old.status \in 0..3
      BY <1>2 DEF OrderRow
    <3>4. MovesOn(old, row)
      <4> HIDE DEF row
      <4> QED BY <3>2, <3>3 DEF MovesOn, NextStatus
    <3> HIDE DEF row
    <3> QED BY <3>1, <3>4 DEF row
  <2> QED BY <2>1, <2>2, <2>3
<1>4. orders'[o] \in OrderRow \cup {NoRow} /\ orders \in [OrderId -> OrderRow \cup {NoRow}]
  BY <1>2 DEF SerialInv, OrderInv, OrderTypeOK
<1> HIDE DEF o
<1> QED BY <1>1, <1>2, <1>3, <1>4 DEF OrdersStep, RewritesOrder

-----------------------------------------------------------------------------
LEMMA OrdersStepHolds ==
  ASSUME SerialInv, OrderInv', NEW w \in Worker, WorkerStep(w)
  PROVE  OrdersStep
<1>1. CASE CreateSaveOrder(w)
  BY <1>1, InsertStep
<1>2. CASE CreateSaveItems(w) \/ DeleteItems(w)
  BY <1>2, ItemsStep
<1>3. CASE UpdateSave(w) \/ CancelSave(w) \/ DeleteOrder(w)
  BY <1>3, WriteStep
<1>4. CASE \/ CreateReject(w) \/ CreateTotalTooLarge(w) \/ CreateDeductRefused(w)
           \/ CreateItemsRefused(w) \/ OrderNotFound(w) \/ ReturnRefused(w) \/ DbError(w)
           \/ Receive(w) \/ Commit(w) \/ Crash(w)
  <2>1. UNCHANGED rows
    BY <1>4 DEF CreateReject, CreateTotalTooLarge, CreateDeductRefused,
                CreateItemsRefused, OrderNotFound, ReturnRefused, DbError,
                Receive, NewRequest, Redeliver, Begin, Commit, Crash
  <2> QED BY <2>1 DEF rows, OrdersStep
<1>5. CASE \/ CreateAccept(w) \/ UpdateFind(w) \/ CancelFind(w) \/ DeleteFind(w)
           \/ ReturnFind(w) \/ ReturnSkip(w)
  <2>1. UNCHANGED rows
    BY <1>5 DEF CreateAccept, UpdateFind, CancelFind, DeleteFind, FindOrder, ReturnFind,
                ReturnSkip
  <2> QED BY <2>1 DEF rows, OrdersStep
<1>6. CASE CreateDeduct(w) \/ ReturnSave(w)
  BY <1>6 DEF CreateDeduct, ReturnSave, OrdersStep
<1> QED
  BY <1>1, <1>2, <1>3, <1>4, <1>5, <1>6 DEF WorkerStep, HandlerStep, CreateStep, ReturnStep

LEMMA RowsStayIssued ==
  ASSUME SerialInv, OrdersStep
  PROVE  \A o \in OrderId : orders'[o] # NoRow => o \in issued'
<1>1. orders \in [OrderId -> OrderRow \cup {NoRow}]
  BY DEF SerialInv, OrderInv, OrderTypeOK
<1>2. \A o \in OrderId : orders[o] # NoRow => o \in issued
  BY DEF SerialInv
<1>3. CASE InsertsOrder
  BY <1>1, <1>2, <1>3 DEF InsertsOrder
<1>4. CASE RewritesOrder
  BY <1>1, <1>2, <1>4 DEF RewritesOrder
<1>5. CASE UNCHANGED <<orders, issued>>
  BY <1>2, <1>5
<1> QED BY <1>3, <1>4, <1>5 DEF OrdersStep

LEMMA SerialStep ==
  ASSUME OneWorkerOnly
  PROVE  SerialInv /\ [OrderNext]_orderVars => SerialInv'
<1> SUFFICES ASSUME SerialInv, [OrderNext]_orderVars PROVE SerialInv'
  OBVIOUS
<1>1. OrderInv'
  BY StepInv DEF SerialInv
<1>2. CASE UNCHANGED orderVars
  <2>1. SnapshotsFresh'
    BY <1>2 DEF orderVars, SerialInv, SnapshotsFresh, CartFresh, RowFresh, Lines,
                ReturnLine, LoadProduct, Columns
  <2> QED BY <1>1, <1>2, <2>1 DEF orderVars, SerialInv
<1>3. CASE OrderNext
  <2>1. PICK w \in Worker : WorkerStep(w)
    BY <1>3 DEF OrderNext, WorkerStep
  <2>2. SnapshotsFresh'
    BY <2>1, StepFresh, FreshIsEnough
  <2> QED BY <1>1, <2>1, <2>2, OrdersStepHolds, RowsStayIssued DEF SerialInv
<1> QED BY <1>2, <1>3

-----------------------------------------------------------------------------
(* What a handler writes back is what the table holds plus its own change. *)
THEOREM WritesBackWhatItRead ==
  ASSUME OneWorkerOnly
  PROVE  OrderSpec => []SnapshotsFresh
<1>1. SerialInv => SnapshotsFresh
  BY DEF SerialInv
<1> QED BY <1>1, InitSerial, SerialStep, PTL DEF OrderSpec

(* An order's status moves 1, 2, 3 or to 0, a cancelled order stays        *)
(* cancelled and a deleted one stays deleted, across any crashes and       *)
(* rejected database calls.                                                *)
LEMMA StatusMovesOn ==
  ASSUME OneWorkerOnly, SerialInv, [OrderNext]_orderVars
  PROVE  \A o \in issued :
           /\ orders[o] = NoRow => orders'[o] = NoRow
           /\ orders[o] # NoRow /\ orders'[o] # NoRow => MovesOn(orders[o], orders'[o])
<1>1. /\ orders \in [OrderId -> OrderRow \cup {NoRow}]
      /\ issued \subseteq OrderId
  BY DEF SerialInv, OrderInv, OrderTypeOK
<1>2. CASE UNCHANGED orders
  BY <1>1, <1>2 DEF MovesOn
<1>3. CASE OrderNext
  <2>1. PICK w \in Worker : WorkerStep(w)
    BY <1>3 DEF OrderNext, WorkerStep
  <2>2. OrdersStep
    BY <2>1, StepInv, OrdersStepHolds DEF SerialInv
  <2>3. CASE InsertsOrder
    <3>1. \A o \in issued : orders'[o] = orders[o]
      BY <1>1, <2>3 DEF InsertsOrder
    <3> QED BY <3>1 DEF MovesOn
  <2>4. CASE RewritesOrder
    <3>1. PICK r \in OrderId, row \in OrderRow \cup {NoRow} :
             /\ orders[r] # NoRow
             /\ orders' = [orders EXCEPT ![r] = row]
             /\ row # NoRow => MovesOn(orders[r], row)
      BY <2>4 DEF RewritesOrder
    <3>2. \A o \in OrderId : orders'[o] = IF o = r THEN row ELSE orders[o]
      BY <1>1, <3>1
    <3> QED BY <1>1, <3>1, <3>2 DEF MovesOn
  <2>5. CASE UNCHANGED <<orders, issued>>
    BY <2>5 DEF MovesOn
  <2> QED BY <2>2, <2>3, <2>4, <2>5 DEF OrdersStep
<1> QED BY <1>2, <1>3 DEF orderVars

THEOREM StatusOnlyMovesForward ==
  ASSUME OneWorkerOnly
  PROVE  OrderSpec => OrderLifecycle
<1> DEFINE Forward ==
      \A o \in issued :
        /\ orders[o] = NoRow => orders'[o] = NoRow
        /\ orders[o] # NoRow /\ orders'[o] # NoRow =>
             orders'[o].status \in {0, orders[o].status, NextStatus(orders[o].status)}
        /\ orders[o] # NoRow /\ orders'[o] # NoRow /\ orders[o].status = 0 =>
             orders'[o].status = 0
<1>1. SerialInv /\ [OrderNext]_orderVars => [Forward]_orderVars
  BY StatusMovesOn DEF MovesOn
<1> HIDE DEF Forward
<1>2. OrderSpec => [][Forward]_orderVars
  BY <1>1, InitSerial, SerialStep, PTL DEF OrderSpec
<1> QED BY <1>2 DEF Forward, OrderLifecycle

-----------------------------------------------------------------------------
(* Stock: the serial service implements StockLedger.                       *)

LEMMA ShelfTyped ==
  ASSUME OrderInv
  PROVE  Shelf \in [ProductId -> Nat]
<1> SUFFICES ASSUME NEW p \in ProductId
             PROVE  (IF products[p] = NoRow THEN 0 ELSE products[p].stock) \in Nat
  BY DEF Shelf
<1>1. products[p] # NoRow => products[p].stock \in Int /\ products[p].stock >= 0
  BY DEF OrderInv, OrderTypeOK, HandlersOK, ProductsTypeOK, StockNonNegative, ProductRow
<1> QED BY <1>1

(* A save of a product's row moves its shelf to the stock that is saved.   *)
LEMMA SaveMovesShelf ==
  ASSUME OrderInv, NEW p \in ProductId, NEW e \in Entity, SaveProduct(p, e)
  PROVE  Shelf' = [Shelf EXCEPT ![p] = e.stock]
<1>1. products \in [ProductId -> ProductRow \cup {NoRow}]
  BY DEF OrderInv, OrderTypeOK, ProductsTypeOK
<1>2. products' = [products EXCEPT ![p] = SavedProduct(p, e)]
  BY DEF SaveProduct
<1>3. SavedProduct(p, e) \in ProductRow /\ SavedProduct(p, e).stock = e.stock
  <2>1. products[p] # NoRow => products[p].labels \in [Kind -> LabelId \cup {NoRow}]
    BY <1>1 DEF ProductRow
  <2> QED BY <2>1 DEF SavedProduct, ProductRow, Entity
<1>4. SavedProduct(p, e) # NoRow
  BY <1>3, NoRowIsNoRow
<1>5. \A q \in ProductId : products'[q] = IF q = p THEN SavedProduct(p, e) ELSE products[q]
  BY <1>1, <1>2
<1> QED BY <1>3, <1>4, <1>5 DEF Shelf

LEMMA DeductTakes ==
  ASSUME SerialInv, NEW w \in Worker, CreateDeduct(w)
  PROVE  Ledger!LedgerNext
<1> DEFINE i == mem[w].next
           p == msg[w].cart[i].product
           n == msg[w].cart[i].quantity
           e == Deducted(w)
           o == mem[w].order
<1>1. /\ pc[w] = "deduct" /\ SaveProduct(p, e)
      /\ charged' = [charged EXCEPT ![o][p] = @ + n]
  BY DEF CreateDeduct
<1>2. /\ CartFresh(w) /\ CartCovered(w) /\ o \in OrderId
      /\ i \in Lines(w)
  BY <1>1 DEF SerialInv, SnapshotsFresh, OrderInv, HandlersOK, LocalsOK, CartCovered
<1>3. p \in ProductId /\ n \in Nat \ {0} /\ n \in Quantity
  <2>1. pc[w] \in AwaitsOf("create")
    BY <1>1 DEF AwaitsOf
  <2>2. msg[w].cart[i] \in CartLine
    BY <1>2, <2>1, CreateHandlerTyped DEF SerialInv
  <2> QED BY <2>2, QuantityPositive DEF CartLine
<1>4. i \in Int /\ i >= i
  BY <1>2 DEF Lines
<1>5. mem[w].snap[p] # NoRow /\ mem[w].snap[p].stock >= n /\ mem[w].snap[p] = LoadProduct(p)
  BY <1>1, <1>2, <1>4 DEF CartFresh, CartCovered
<1>6. mem[w].snap[p] \in Entity /\ products[p] # NoRow /\ products[p].stock = mem[w].snap[p].stock
  BY <1>3, <1>5, LoadTyped DEF SerialInv
<1>7. e \in Entity /\ e.stock = mem[w].snap[p].stock - n
  <2>1. e = [mem[w].snap[p] EXCEPT !.stock = @ - n]
    BY DEF Deducted
  <2>2. mem[w].snap[p].stock \in Int
    BY <1>6 DEF Entity
  <2> HIDE DEF e, p, n
  <2> QED BY <1>3, <1>6, <2>1, <2>2 DEF Entity
<1>8. Shelf[p] = mem[w].snap[p].stock
  BY <1>3, <1>6 DEF Shelf
<1>9. Shelf' = [Shelf EXCEPT ![p] = @ - n]
  <2>1. Shelf' = [Shelf EXCEPT ![p] = e.stock]
    BY <1>1, <1>3, <1>7, SaveMovesShelf DEF SerialInv
  <2> HIDE DEF e, p, n
  <2> QED BY <1>7, <1>8, <2>1
<1>10. Shelf[p] >= n
  BY <1>5, <1>8
<1> HIDE DEF p, n, e, o
<1> QED
  BY <1>1, <1>2, <1>3, <1>9, <1>10 DEF Ledger!LedgerNext, Ledger!Take, Shelf

LEMMA ReturnGives ==
  ASSUME SerialInv, NEW w \in Worker, ReturnSave(w)
  PROVE  Ledger!LedgerNext
<1> DEFINE p == ReturnLine(w).product
           n == ReturnLine(w).quantity
           e == Returned(w)
           o == mem[w].order
<1>1. /\ pc[w] = "returnStock" /\ SaveProduct(p, e)
      /\ charged' = [charged EXCEPT ![o][p] = @ - n]
  BY DEF ReturnSave
<1>2. p \in ProductId /\ n \in Nat \ {0} /\ o \in OrderId
  BY <1>1, ReturnLineTyped DEF SerialInv
<1>3. n \in Quantity
  <2>1. OrderRead(w) /\ mem[w].next \in 1..Len(mem[w].row.items)
    BY <1>1 DEF SerialInv, OrderInv, HandlersOK, LocalsOK, LoopInside
  <2>2. ReturnLine(w) \in Item
    BY <2>1 DEF ReturnLine, OrderRead, OrderRow
  <2> QED BY <2>2 DEF Item
<1>4. mem[w].snap[p] # NoRow /\ mem[w].snap[p] = LoadProduct(p)
  BY <1>1 DEF SerialInv, SnapshotsFresh, OrderInv, HandlersOK, LocalsOK, LoopInside
<1>5. mem[w].snap[p] \in Entity /\ products[p] # NoRow /\ products[p].stock = mem[w].snap[p].stock
  BY <1>2, <1>4, LoadTyped DEF SerialInv
<1>6. e \in Entity /\ e.stock = mem[w].snap[p].stock + n
  <2>1. e = [mem[w].snap[p] EXCEPT !.stock = @ + n]
    BY DEF Returned
  <2>2. mem[w].snap[p].stock \in Int
    BY <1>5 DEF Entity
  <2> HIDE DEF e, p, n
  <2> QED BY <1>2, <1>5, <2>1, <2>2 DEF Entity
<1>7. Shelf[p] = mem[w].snap[p].stock
  BY <1>2, <1>5 DEF Shelf
<1>8. Shelf' = [Shelf EXCEPT ![p] = @ + n]
  <2>1. Shelf' = [Shelf EXCEPT ![p] = e.stock]
    BY <1>1, <1>2, <1>6, SaveMovesShelf DEF SerialInv
  <2> HIDE DEF e, p, n
  <2> QED BY <1>6, <1>7, <2>1
<1> HIDE DEF p, n, e, o
<1> QED
  BY <1>1, <1>2, <1>3, <1>8 DEF Ledger!LedgerNext, Ledger!Give, Shelf

LEMMA LedgerInitially == OrderInit => Ledger!LedgerInit
<1> SUFFICES ASSUME OrderInit PROVE Ledger!LedgerInit
  OBVIOUS
<1>1. Shelf \in [ProductId -> Nat]
  BY InitInv, ShelfTyped
<1> QED BY <1>1 DEF OrderInit, Shelf, Ledger!LedgerInit

LEMMA LedgerStep ==
  ASSUME OneWorkerOnly
  PROVE  SerialInv /\ [OrderNext]_orderVars => [Ledger!LedgerNext]_(Ledger!ledgerVars)
<1> SUFFICES ASSUME SerialInv, [OrderNext]_orderVars
             PROVE  Ledger!LedgerNext \/ UNCHANGED Ledger!ledgerVars
  OBVIOUS
<1>1. CASE UNCHANGED <<products, charged>>
  BY <1>1 DEF Ledger!ledgerVars
<1>2. CASE OrderNext
  <2>1. PICK w \in Worker : WorkerStep(w)
    BY <1>2 DEF OrderNext, WorkerStep
  <2> QED BY <1>1, <2>1, DeductTakes, ReturnGives, OthersLeaveStock DEF WorkerStep
<1> QED BY <1>1, <1>2 DEF orderVars

(* One worker, alone on the tables, implements StockLedger: it takes and   *)
(* returns stock one order line at a time, never more than the shelf       *)
(* holds, and charges every unit to an order - whatever it is asked to do, *)
(* in whatever order, and wherever it crashes.                             *)
THEOREM SerialServiceKeepsLedger ==
  ASSUME OneWorkerOnly
  PROVE  OrderSpec => ImplementsLedger
BY LedgerInitially, LedgerStep, InitSerial, SerialStep, PTL
DEF OrderSpec, ImplementsLedger, Ledger!LedgerSpec


-----------------------------------------------------------------------------
(* Sums.  Induction over the natural numbers is used in its set form: what *)
(* the prover cannot take is an induction rule with an operator parameter. *)

(* A set of numbers with 0 in it and closed under successor has them all.  *)
LEMMA SetInduction ==
  ASSUME NEW S \in SUBSET Nat, 0 \in S, \A n \in S : n + 1 \in S
  PROVE  S = Nat
<1> DEFINE Missing == Nat \ S
<1> SUFFICES ASSUME Missing # {} PROVE FALSE
  OBVIOUS
<1>1. PICK n \in Missing : \A m \in Missing : ~(<<m, n>> \in OpToRel(<, Nat))
  <2> HIDE DEF Missing
  <2>1. Missing \subseteq Nat
    BY DEF Missing
  <2> QED BY <2>1, NatLessThanWellFounded, WFMin
<1>2. n - 1 \in Nat /\ n - 1 < n /\ n \in Nat
  OBVIOUS
<1>3. <<n - 1, n>> \in OpToRel(<, Nat)
  BY <1>2 DEF OpToRel
<1>4. n - 1 \in S
  BY <1>1, <1>2, <1>3
<1>5. (n - 1) + 1 \in S
  BY <1>4
<1> QED BY <1>2, <1>5

(* f holds the partial sums of a.                                          *)
PartialSums(f, a) == f = [n \in 0..Len(a) |-> IF n = 0 THEN 0 ELSE f[n - 1] + a[n]]

(* The recursive function in SumOver exists: its equation has a solution.  *)
LEMMA SumDef ==
  ASSUME NEW a \in Seq(Int)
  PROVE  \E f : PartialSums(f, a) /\ SumOver(a) = f[Len(a)]
<1> DEFINE Sums(m, f) == f = [n \in 0..m |-> IF n = 0 THEN 0 ELSE f[n - 1] + a[n]]
           S == {m \in Nat : \E f : Sums(m, f)}
<1>1. 0 \in S
  <2>1. Sums(0, [n \in {0} |-> 0])
    OBVIOUS
  <2> QED BY <2>1
<1>2. ASSUME NEW m \in S PROVE m + 1 \in S
  <2>1. m \in Nat
    OBVIOUS
  <2>2. PICK f : Sums(m, f)
    OBVIOUS
  <2> DEFINE g == [n \in 0..(m + 1) |-> IF n = m + 1 THEN f[m] + a[m + 1] ELSE f[n]]
  <2>3. \A n \in 0..m : f[n] = IF n = 0 THEN 0 ELSE f[n - 1] + a[n]
    BY <2>2
  <2>4. \A n \in 0..m : g[n] = f[n]
    BY <2>1
  <2>5. g[m + 1] = f[m] + a[m + 1] /\ m \in 0..m
    BY <2>1
  <2>6. \A n \in 0..(m + 1) : g[n] = IF n = 0 THEN 0 ELSE g[n - 1] + a[n]
    <3> TAKE n \in 0..(m + 1)
    <3>1. CASE n = m + 1
      BY <2>1, <2>4, <2>5, <3>1
    <3>2. CASE n # m + 1
      <4>1. n \in 0..m /\ (n # 0 => n - 1 \in 0..m)
        BY <2>1, <3>2
      <4> HIDE DEF g
      <4> QED BY <2>3, <2>4, <4>1
    <3> QED BY <3>1, <3>2
  <2>7. g = [n \in 0..(m + 1) |-> g[n]]
    OBVIOUS
  <2> HIDE DEF g
  <2>8. Sums(m + 1, g)
    BY <2>6, <2>7
  <2>9. \E h : Sums(m + 1, h)
    BY <2>8
  <2> HIDE DEF Sums
  <2> QED BY <2>1, <2>9
<1>3. Len(a) \in S
  <2> HIDE DEF S
  <2>1. S \in SUBSET Nat
    BY DEF S
  <2>2. S = Nat
    BY <1>1, <1>2, <2>1, SetInduction
  <2> QED BY <2>2
<1>4. \E f : PartialSums(f, a)
  BY <1>3 DEF PartialSums
<1> DEFINE chosen == CHOOSE f : PartialSums(f, a)
<1>5. PartialSums(chosen, a)
  BY <1>4
<1>6. SumOver(a) = chosen[Len(a)]
  BY DEF SumOver, PartialSums
<1> QED BY <1>5, <1>6

(* One term after the other: what holds of the empty sum and is kept by    *)
(* every term holds of the whole.  S collects the lengths it holds for.    *)
LEMMA SumInduction ==
  ASSUME NEW a \in Seq(Int), NEW f, PartialSums(f, a), NEW S,
         0 \in S,
         \A n \in 1..Len(a) : n - 1 \in S /\ f[n] = f[n - 1] + a[n] => n \in S
  PROVE  Len(a) \in S
<1> DEFINE Good == {n \in Nat : n \in 0..Len(a) => n \in S}
<1>1. Len(a) \in Nat
  OBVIOUS
<1>2. \A n \in 1..Len(a) : f[n] = f[n - 1] + a[n]
  BY <1>1 DEF PartialSums
<1>3. 0 \in Good /\ \A n \in Good : n + 1 \in Good
  <2>1. ASSUME NEW n \in Good, n + 1 \in 0..Len(a) PROVE n + 1 \in S
    <3>1. n + 1 \in 1..Len(a) /\ n \in 0..Len(a) /\ (n + 1) - 1 = n
      BY <1>1, <2>1
    <3>2. n \in S
      BY <3>1
    <3> HIDE DEF Good
    <3> QED BY <1>2, <3>1, <3>2
  <2> QED BY <2>1
<1>4. Good = Nat
  <2> HIDE DEF Good
  <2>1. Good \in SUBSET Nat
    BY DEF Good
  <2> QED BY <1>3, <2>1, SetInduction
<1> QED BY <1>1, <1>4

(* No term of a sum of natural numbers is larger than the sum.             *)
LEMMA SumBounds ==
  ASSUME NEW a \in Seq(Nat)
  PROVE  SumOver(a) \in Nat /\ \A i \in 1..Len(a) : a[i] <= SumOver(a)
<1>1. a \in Seq(Int) /\ Len(a) \in Nat /\ \A i \in 1..Len(a) : a[i] \in Nat
  OBVIOUS
<1>2. PICK f : PartialSums(f, a) /\ SumOver(a) = f[Len(a)]
  BY <1>1, SumDef
<1> DEFINE S == {n \in 0..Len(a) : f[n] \in Nat /\ \A i \in 1..n : a[i] <= f[n]}
<1>3. 0 \in S
  BY <1>1, <1>2 DEF PartialSums
<1>4. ASSUME NEW n \in 1..Len(a), n - 1 \in S, f[n] = f[n - 1] + a[n]
      PROVE  n \in S
  <2>1. f[n - 1] \in Nat /\ a[n] \in Nat /\ \A i \in 1..(n - 1) : a[i] <= f[n - 1]
    BY <1>1, <1>4
  <2>2. f[n] \in Nat /\ f[n] >= a[n] /\ f[n] >= f[n - 1]
    BY <1>4, <2>1
  <2>3. \A i \in 1..n : a[i] <= f[n]
    <3> TAKE i \in 1..n
    <3>1. CASE i = n
      BY <2>2, <3>1, <2>1
    <3>2. CASE i # n
      <4>1. i \in 1..(n - 1) /\ a[i] \in Nat
        BY <1>1, <3>2
      <4> QED BY <2>1, <2>2, <4>1
    <3> QED BY <3>1, <3>2
  <2> QED BY <1>1, <2>2, <2>3
<1>5. Len(a) \in S
  <2> HIDE DEF S
  <2> QED BY <1>1, <1>2, <1>3, <1>4, SumInduction
<1> QED BY <1>2, <1>5

(* A sum with at most one term that is not 0 is that term.                 *)
LEMMA SumOfOne ==
  ASSUME NEW a \in Seq(Int), NEW k \in 1..Len(a), \A i \in 1..Len(a) : i # k => a[i] = 0
  PROVE  SumOver(a) = a[k]
<1>1. Len(a) \in Nat /\ a[k] \in Int /\ k \in Nat
  OBVIOUS
<1>2. PICK f : PartialSums(f, a) /\ SumOver(a) = f[Len(a)]
  BY SumDef
<1> DEFINE S == {n \in 0..Len(a) : f[n] = IF n >= k THEN a[k] ELSE 0}
<1>3. 0 \in S
  BY <1>1, <1>2 DEF PartialSums
<1>4. ASSUME NEW n \in 1..Len(a), n - 1 \in S, f[n] = f[n - 1] + a[n]
      PROVE  n \in S
  <2>1. f[n - 1] = IF n - 1 >= k THEN a[k] ELSE 0
    BY <1>4
  <2>2. CASE n = k
    BY <1>1, <1>4, <2>1, <2>2
  <2>3. CASE n # k
    <3>1. a[n] = 0
      BY <2>3
    <3> QED BY <1>1, <1>4, <2>1, <2>3, <3>1
  <2> QED BY <2>2, <2>3
<1>5. Len(a) \in S
  <2> HIDE DEF S
  <2> QED BY <1>2, <1>3, <1>4, SumInduction
<1> QED BY <1>1, <1>2, <1>5

LEMMA SumOfNone ==
  ASSUME NEW a \in Seq(Int), \A i \in 1..Len(a) : a[i] = 0
  PROVE  SumOver(a) = 0
<1>1. Len(a) \in Nat
  OBVIOUS
<1>2. PICK f : PartialSums(f, a) /\ SumOver(a) = f[Len(a)]
  BY SumDef
<1> DEFINE S == {n \in 0..Len(a) : f[n] = 0}
<1>3. 0 \in S
  BY <1>1, <1>2 DEF PartialSums
<1>4. ASSUME NEW n \in 1..Len(a), n - 1 \in S, f[n] = f[n - 1] + a[n]
      PROVE  n \in S
  BY <1>4
<1>5. Len(a) \in S
  <2> HIDE DEF S
  <2> QED BY <1>2, <1>3, <1>4, SumInduction
<1> QED BY <1>2, <1>5

-----------------------------------------------------------------------------
(* The writes of update, cancel and delete when the row that was read is   *)
(* still there.                                                            *)

LEMMA UpdateEffect ==
  ASSUME SerialInv, NEW w \in Worker, UpdateSave(w)
  PROVE  LET o == mem[w].order
         IN  /\ pc[w] = "saveStatus" /\ pc'[w] = "done"
             /\ o \in OrderId /\ orders[o] # NoRow
             /\ UNCHANGED <<products, issued, charged, mem, msg, delivery>>
             /\ orders' = [orders EXCEPT ![o] = orders'[o]] /\ orders'[o] # NoRow
             /\ orders'[o].items = orders[o].items
             /\ orders'[o].status = NextStatus(orders[o].status)
<1> DEFINE o   == mem[w].order
           new == [mem[w].row EXCEPT !.status = NextStatus(@), !.items = orders[o].items]
<1>1. /\ pc[w] = "saveStatus" /\ pc' = [pc EXCEPT ![w] = "done"]
      /\ UNCHANGED <<products, issued, charged, mem, msg, delivery>>
  BY DEF UpdateSave, WriteOrder, Finish, Goto
<1>2. o \in OrderId /\ mem[w].row \in OrderRow /\ orders[o] # NoRow
      /\ orders[o].status = mem[w].row.status
  BY <1>1 DEF SerialInv, SnapshotsFresh, RowFresh, OrderInv, HandlersOK, LocalsOK, OrderRead
<1>3. orders' = [orders EXCEPT ![o] = new]
  BY <1>2 DEF UpdateSave, WriteOrder
<1>4. new.status = NextStatus(mem[w].row.status) /\ new.items = orders[o].items
  BY <1>2 DEF OrderRow
<1>6. new # NoRow
  <2>1. NextStatus(mem[w].row.status) \in 0..3 /\ orders[o] \in OrderRow
    BY <1>2 DEF OrderRow, NextStatus, SerialInv, OrderInv, OrderTypeOK
  <2>2. new \in OrderRow
    BY <1>2, <2>1 DEF OrderRow
  <2> QED BY <2>2, NoRowIsNotAnOrder
<1> HIDE DEF new
<1>5. orders'[o] = new /\ pc'[w] = "done"
  BY <1>1, <1>2, <1>3 DEF SerialInv, OrderInv, OrderTypeOK
<1> QED BY <1>1, <1>2, <1>3, <1>4, <1>5, <1>6

LEMMA CancelEffect ==
  ASSUME SerialInv, NEW w \in Worker, CancelSave(w)
  PROVE  LET o == mem[w].order
         IN  /\ pc[w] = "saveCancelled" /\ pc'[w] = "done"
             /\ o \in OrderId /\ orders[o] # NoRow
             /\ UNCHANGED <<products, issued, charged, mem, msg, delivery>>
             /\ orders' = [orders EXCEPT ![o] = orders'[o]]
             /\ orders'[o].items = mem[w].row.items
             /\ orders'[o].status = 0
<1> DEFINE o   == mem[w].order
           new == [mem[w].row EXCEPT !.status = 0]
<1>1. /\ pc[w] = "saveCancelled" /\ pc' = [pc EXCEPT ![w] = "done"]
      /\ orders' = [orders EXCEPT ![o] = new]
      /\ UNCHANGED <<products, issued, charged, mem, msg, delivery>>
  BY DEF CancelSave, WriteOrder, Finish, Goto
<1>2. o \in OrderId /\ mem[w].row \in OrderRow /\ orders[o] # NoRow
  BY <1>1 DEF SerialInv, SnapshotsFresh, RowFresh, OrderInv, HandlersOK, LocalsOK, OrderRead
<1>3. new.status = 0 /\ new.items = mem[w].row.items
  BY <1>2 DEF OrderRow
<1> HIDE DEF new
<1>4. orders'[o] = new /\ pc'[w] = "done"
  BY <1>1, <1>2 DEF SerialInv, OrderInv, OrderTypeOK
<1> QED BY <1>1, <1>2, <1>3, <1>4

LEMMA DeleteItemsEffect ==
  ASSUME SerialInv, NEW w \in Worker, DeleteItems(w)
  PROVE  LET o == mem[w].order
         IN  /\ pc[w] = "deleteItems" /\ pc'[w] = "deleteOrder"
             /\ o \in OrderId /\ orders[o] # NoRow
             /\ UNCHANGED <<products, issued, charged, mem, msg, reply, delivery>>
             /\ orders' = [orders EXCEPT ![o] = orders'[o]]
             /\ orders'[o].items = << >>
             /\ orders'[o].status = orders[o].status
<1> DEFINE o   == mem[w].order
           new == [orders[o] EXCEPT !.items = << >>]
<1>1. /\ pc[w] = "deleteItems" /\ pc' = [pc EXCEPT ![w] = "deleteOrder"]
      /\ UNCHANGED <<products, issued, charged, mem, msg, reply, delivery>>
  BY DEF DeleteItems, Continue, Goto
<1>2. o \in OrderId /\ orders[o] # NoRow /\ orders[o] \in OrderRow
  BY <1>1 DEF SerialInv, SnapshotsFresh, RowFresh, OrderInv, OrderTypeOK, HandlersOK,
              LocalsOK, OrderRead
<1>3. orders' = [orders EXCEPT ![o] = new]
  BY <1>2 DEF DeleteItems
<1>4. new.status = orders[o].status /\ new.items = << >>
  BY <1>2 DEF OrderRow
<1> HIDE DEF new
<1>5. orders'[o] = new /\ pc'[w] = "deleteOrder"
  BY <1>1, <1>2, <1>3 DEF SerialInv, OrderInv, OrderTypeOK
<1> QED BY <1>1, <1>2, <1>3, <1>4, <1>5

LEMMA DeleteOrderEffect ==
  ASSUME SerialInv, NEW w \in Worker, DeleteOrder(w)
  PROVE  /\ pc[w] = "deleteOrder" /\ pc'[w] = "done" /\ mem[w].order \in OrderId
         /\ UNCHANGED <<products, issued, charged, mem, msg, delivery>>
         /\ orders' = [orders EXCEPT ![mem[w].order] = NoRow]
<1>1. /\ pc[w] = "deleteOrder" /\ pc' = [pc EXCEPT ![w] = "done"]
      /\ orders' = [orders EXCEPT ![mem[w].order] = NoRow]
      /\ UNCHANGED <<products, issued, charged, mem, msg, delivery>>
  BY DEF DeleteOrder, WriteOrder, Finish, Goto
<1> QED BY <1>1 DEF SerialInv, OrderInv, OrderTypeOK, HandlersOK, LocalsOK, OrderRead

-----------------------------------------------------------------------------
(* Nothing but the database refuses a write of a lone worker once it has   *)
(* begun to write.  The names in the table are unique; an order's lines    *)
(* name different products, which are in the table; an order that a        *)
(* handler is about to write is in the table as the handler has it.        *)

UniqueNames ==
  \A p, q \in ProductId :
    products[p] # NoRow /\ products[q] # NoRow /\ products[p].name = products[q].name => p = q

Distinct(lines) ==
  \A i, j \in 1..Len(lines) : lines[i].product = lines[j].product => i = j

InTable(lines) ==
  \A i \in 1..Len(lines) : lines[i].product \in ProductId /\ products[lines[i].product] # NoRow

RowLines(o) ==
  orders[o] # NoRow => Distinct(orders[o].items) /\ InTable(orders[o].items)

InHand(w) ==
  LET o == mem[w].order
  IN  /\ pc[w] \in {"idle", "received", "saveOrder"} => o = Null
      /\ pc[w] \in {"saveOrder", "deduct", "saveItems"} => InTable(msg[w].cart)
      /\ pc[w] \in {"deduct", "saveItems"} =>
           orders[o] # NoRow /\ orders[o].status = 1 /\ orders[o].items = << >>
      /\ pc[w] \in {"saveStatus", "findProduct", "returnStock", "saveCancelled",
                    "deleteItems"} => orders[o] = mem[w].row
      /\ pc[w] = "done" /\ msg[w].topic = "create" /\ reply[w] = "error" /\ dbErrors = 0 =>
           o = Null

AloneInv ==
  /\ SerialInv /\ OneTotal /\ UniqueNames
  /\ \A o \in OrderId : RowLines(o)
  /\ \A w \in Worker : InHand(w)

LEMMA AloneInitially == OrderInit => AloneInv
<1> SUFFICES ASSUME OrderInit PROVE AloneInv
  OBVIOUS
<1>1. UniqueNames
  BY TablesAreLegal DEF OrderInit, UniqueNames
<1>2. \A w \in Worker : InHand(w)
  BY DEF OrderInit, InHand, NoLocals
<1>3. \A o \in OrderId : RowLines(o)
  BY DEF OrderInit, RowLines
<1> QED BY <1>1, <1>2, <1>3, InitSerial, TotalsInitially DEF AloneInv

(* A save that the unique index lets through keeps the names unique and    *)
(* takes no product out of the table.                                      *)
LEMMA SaveKeepsNames ==
  ASSUME OrderInv, UniqueNames, NEW p \in ProductId, NEW e \in Entity, SaveProduct(p, e)
  PROVE  /\ UniqueNames'
         /\ \A q \in ProductId : products[q] # NoRow => products'[q] # NoRow
<1>1. /\ products \in [ProductId -> ProductRow \cup {NoRow}]
      /\ products' = [products EXCEPT ![p] = SavedProduct(p, e)]
      /\ NameFree(p, e.name)
  BY DEF OrderInv, OrderTypeOK, ProductsTypeOK, SaveProduct
<1>2. SavedProduct(p, e) # NoRow /\ SavedProduct(p, e).name = e.name
  <2>1. products[p] # NoRow => products[p].labels \in [Kind -> LabelId \cup {NoRow}]
    BY <1>1 DEF ProductRow
  <2>2. SavedProduct(p, e) \in ProductRow
    BY <2>1 DEF SavedProduct, ProductRow, Entity
  <2> QED BY <2>2, NoRowIsNoRow DEF SavedProduct
<1>3. \A q \in ProductId : products'[q] = IF q = p THEN SavedProduct(p, e) ELSE products[q]
  BY <1>1
<1> QED BY <1>1, <1>2, <1>3 DEF UniqueNames, NameFree

LEMMA NamesStay ==
  ASSUME OrderInv, UniqueNames, NEW w \in Worker, WorkerStep(w)
  PROVE  /\ UniqueNames'
         /\ \A q \in ProductId : products[q] # NoRow => products'[q] # NoRow
<1>1. CASE CreateDeduct(w) \/ ReturnSave(w)
  BY <1>1, DeductSaves, ReturnSaves, SaveKeepsNames
<1>2. CASE UNCHANGED products
  BY <1>2 DEF UniqueNames
<1> QED BY <1>1, <1>2, OthersLeaveStock DEF WorkerStep

(* What was read is in the table under its own name, so saving it back     *)
(* with another stock is not refused.                                      *)
LEMMA OwnNameIsFree ==
  ASSUME OrderInv, UniqueNames, NEW p \in ProductId, products[p] # NoRow
  PROVE  NameFree(p, LoadProduct(p).name)
BY DEF UniqueNames, NameFree, LoadProduct, Columns

LEMMA DeductNotRefused ==
  ASSUME AloneInv, NEW w \in Worker
  PROVE  ~CreateDeductRefused(w)
<1> SUFFICES ASSUME CreateDeductRefused(w) PROVE FALSE
  OBVIOUS
<1> DEFINE p == msg[w].cart[mem[w].next].product
<1>1. pc[w] = "deduct" /\ ~NameFree(p, Deducted(w).name)
  BY DEF CreateDeductRefused
<1>2. CartFresh(w) /\ CartCovered(w) /\ OrderInv /\ UniqueNames
  BY <1>1 DEF AloneInv, SerialInv, SnapshotsFresh, OrderInv, HandlersOK, LocalsOK
<1>3. mem[w].next \in Lines(w) /\ mem[w].next >= mem[w].next
  <2>1. mem[w].next \in Lines(w)
    BY <1>1, <1>2 DEF CartCovered
  <2>2. mem[w].next \in Nat
    BY <1>2 DEF OrderInv, OrderTypeOK, Local
  <2> QED BY <2>1, <2>2
<1>4. mem[w].snap[p] # NoRow /\ mem[w].snap[p] = LoadProduct(p)
  BY <1>2, <1>3 DEF CartCovered, CartFresh
<1>5. p \in ProductId
  <2>1. pc[w] \in AwaitsOf("create")
    BY <1>1 DEF AwaitsOf
  <2> QED BY <1>2, <1>3, <2>1, CreateHandlerTyped
<1>6. mem[w].snap[p] \in Entity /\ products[p] # NoRow
  BY <1>2, <1>4, <1>5, LoadTyped
<1>7. Deducted(w).name = mem[w].snap[p].name
  <2> DEFINE s == mem[w].snap[p]
             n == msg[w].cart[mem[w].next].quantity
  <2>1. Deducted(w) = [s EXCEPT !.stock = @ - n]
    BY DEF Deducted
  <2> HIDE DEF p, n
  <2> QED BY <1>6, <2>1 DEF Entity
<1> HIDE DEF p
<1> QED BY <1>1, <1>2, <1>4, <1>5, <1>6, <1>7, OwnNameIsFree

LEMMA ReturnNotRefused ==
  ASSUME AloneInv, NEW w \in Worker
  PROVE  ~ReturnRefused(w)
<1> SUFFICES ASSUME ReturnRefused(w) PROVE FALSE
  OBVIOUS
<1> DEFINE p == ReturnLine(w).product
<1>1. pc[w] = "returnStock" /\ ~NameFree(p, Returned(w).name)
  BY DEF ReturnRefused
<1>2. /\ mem[w].snap[p] # NoRow /\ mem[w].snap[p] = LoadProduct(p)
      /\ OrderInv /\ UniqueNames
  BY <1>1 DEF AloneInv, SerialInv, SnapshotsFresh, OrderInv, HandlersOK, LocalsOK, LoopInside
<1>3. p \in ProductId
  BY <1>1, <1>2, ReturnLineTyped
<1>4. mem[w].snap[p] \in Entity /\ products[p] # NoRow
  BY <1>2, <1>3, LoadTyped
<1>5. Returned(w).name = mem[w].snap[p].name
  <2> DEFINE s == mem[w].snap[p]
             n == ReturnLine(w).quantity
  <2>1. Returned(w) = [s EXCEPT !.stock = @ + n]
    BY DEF Returned
  <2> HIDE DEF p, n
  <2> QED BY <1>4, <2>1 DEF Entity
<1> HIDE DEF p
<1> QED BY <1>1, <1>2, <1>3, <1>4, <1>5, OwnNameIsFree

(* No product that was ordered is gone when its units are returned.        *)
LEMMA ReturnNotSkipped ==
  ASSUME AloneInv, NEW w \in Worker
  PROVE  ~ReturnSkip(w)
<1> SUFFICES ASSUME ReturnSkip(w) PROVE FALSE
  OBVIOUS
<1>1. pc[w] = "findProduct" /\ products[ReturnLine(w).product] = NoRow
  BY DEF ReturnSkip
<1>2. /\ mem[w].order \in OrderId /\ mem[w].next \in 1..Len(mem[w].row.items)
      /\ mem[w].row \in OrderRow /\ orders[mem[w].order] = mem[w].row
  BY <1>1 DEF AloneInv, SerialInv, OrderInv, HandlersOK, LocalsOK, LoopInside, OrderRead, InHand
<1>3. InTable(mem[w].row.items)
  BY <1>2, NoRowIsNotAnOrder DEF AloneInv, RowLines
<1> QED BY <1>1, <1>2, <1>3 DEF InTable, ReturnLine

(* Each item of an order whose total fits its column fits its own.         *)
LEMMA ItemsNotRefused ==
  ASSUME AloneInv, NEW w \in Worker
  PROVE  ~CreateItemsRefused(w)
<1> SUFFICES ASSUME CreateItemsRefused(w) PROVE FALSE
  OBVIOUS
<1> DEFINE o    == mem[w].order
           cart == msg[w].cart
           snap == mem[w].snap
           a    == [i \in 1..Len(cart) |-> snap[cart[i].product].price * cart[i].quantity]
<1>1. pc[w] = "saveItems" /\ ~ItemsStorable(w)
  BY DEF CreateItemsRefused
<1>2. /\ o \in OrderId /\ orders[o] # NoRow /\ CartCovered(w) /\ OrderInv
      /\ orders[o] \in OrderRow
  BY <1>1 DEF AloneInv, SerialInv, OrderInv, OrderTypeOK, HandlersOK, LocalsOK, InHand
<1>3. cart \in Seq(CartLine) /\ \A i \in 1..Len(cart) : /\ cart[i].product \in ProductId
                                                        /\ cart[i].quantity \in Nat
  <2>1. pc[w] \in AwaitsOf("create")
    BY <1>1 DEF AwaitsOf
  <2> QED BY <1>2, <2>1, CreateHandlerTyped DEF Lines
<1>4. \A i \in 1..Len(cart) : snap[cart[i].product].price \in Nat
  <2>1. \A i \in 1..Len(cart) : snap[cart[i].product] \in Entity
    BY <1>2, <1>3 DEF CartCovered, Lines, OrderInv, OrderTypeOK, Local
  <2> QED BY <2>1 DEF Entity
<1>5. a \in Seq(Nat) /\ Len(a) = Len(cart)
  <2>1. \A m, n \in Nat : m * n \in Nat
    OBVIOUS
  <2>2. \A i \in 1..Len(cart) : snap[cart[i].product].price * cart[i].quantity \in Nat
    BY <1>3, <1>4, <2>1
  <2>3. Len(cart) \in Nat
    BY <1>3
  <2> HIDE DEF cart, snap
  <2> QED BY <2>2, <2>3
<1>6. SumOver(a) \in 0..MaxAmount
  <2>1. PICK T : TotalsAre(T)
    BY DEF AloneInv, OneTotal
  <2>2. SumOver(a) = T[o] /\ orders[o].total = T[o]
    BY <1>1, <1>2, <2>1 DEF TotalsAre, RowTotal, WorkerTotal, CartTotal
  <2> HIDE DEF a
  <2> QED BY <1>2, <2>2 DEF OrderRow
<1>7. \A i \in 1..Len(cart) : a[i] \in 0..MaxAmount
  <2> HIDE DEF a
  <2>1. \A i \in 1..Len(a) : a[i] \in Nat /\ a[i] <= SumOver(a)
    BY <1>5, SumBounds
  <2> QED BY <1>5, <1>6, <2>1, BoundsAreNatural
<1>8. \A i \in 1..Len(cart) : PricedItems(cart, snap)[i].total = a[i]
  <2> HIDE DEF cart, snap
  <2> QED BY DEF PricedItems
<1> QED BY <1>1, <1>2, <1>7, <1>8 DEF ItemsStorable

(* Orders whose items stay, or go, keep what RowLines says.                *)
LEMMA RowLinesStay ==
  ASSUME AloneInv, NEW w \in Worker, WorkerStep(w), NEW o \in OrderId,
         orders'[o] # NoRow =>
           \/ orders'[o].items = << >>
           \/ orders[o] # NoRow /\ orders'[o].items = orders[o].items
  PROVE  RowLines(o)'
<1>1. \A q \in ProductId : products[q] # NoRow => products'[q] # NoRow
  BY NamesStay DEF AloneInv, SerialInv
<1>2. RowLines(o)
  BY DEF AloneInv
<1> QED BY <1>1, <1>2 DEF RowLines, Distinct, InTable

LEMMA InTableStays ==
  ASSUME AloneInv, NEW w \in Worker, WorkerStep(w), UNCHANGED msg, InTable(msg[w].cart)
  PROVE  InTable(msg[w].cart)'
<1>1. \A q \in ProductId : products[q] # NoRow => products'[q] # NoRow
  BY NamesStay DEF AloneInv, SerialInv
<1> QED BY <1>1 DEF InTable

(* Between requests, and at the end of one.                                *)
LEMMA RestKeepsHand ==
  ASSUME AloneInv, NEW w \in Worker,
         Receive(w) \/ Commit(w) \/ Crash(w) \/ DbError(w)
  PROVE  InHand(w)' /\ \A o \in OrderId : RowLines(o)'
<1>1. OrderInv /\ InHand(w) /\ dbErrors \in Nat
  BY DEF AloneInv, SerialInv, OrderInv, OrderTypeOK
<1>2. UNCHANGED rows /\ WorkerStep(w)
  BY <1>1, RestEffect DEF WorkerStep, HandlerStep
<1>3. \A o \in OrderId : RowLines(o)'
  BY <1>2, RowLinesStay DEF rows, RowLines
<1>4. InHand(w)'
  <2>1. CASE Receive(w)
    BY <1>1, <2>1, RestEffect DEF InHand
  <2>2. CASE Commit(w) \/ Crash(w)
    BY <1>1, <2>2, RestEffect DEF InHand, NoLocals
  <2>3. CASE DbError(w)
    <3>1. pc'[w] = "done" /\ dbErrors' # 0
      BY <1>1, <2>3, RestEffect
    <3> QED BY <3>1 DEF InHand
  <2> QED BY <2>1, <2>2, <2>3
<1> QED BY <1>3, <1>4

LEMMA RefusalsKeepHand ==
  ASSUME AloneInv, NEW w \in Worker, CreateReject(w) \/ CreateTotalTooLarge(w) \/ OrderNotFound(w)
  PROVE  InHand(w)' /\ \A o \in OrderId : RowLines(o)'
<1>1. OrderInv /\ InHand(w)
  BY DEF AloneInv, SerialInv
<1>2. /\ pc[w] \in {"received", "saveOrder"} /\ pc'[w] = "done"
      /\ UNCHANGED rows /\ UNCHANGED mem
  BY <1>1, RefusalEffect
<1>3. WorkerStep(w)
  BY DEF WorkerStep, HandlerStep, CreateStep
<1>4. \A o \in OrderId : RowLines(o)'
  BY <1>2, <1>3, RowLinesStay DEF rows, RowLines
<1> QED BY <1>1, <1>2, <1>4 DEF InHand

(* createOrder.                                                            *)
LEMMA CreateKeepsHand ==
  ASSUME AloneInv, NEW w \in Worker, CreateAccept(w) \/ CreateSaveOrder(w) \/ CreateDeduct(w)
  PROVE  InHand(w)' /\ \A o \in OrderId : RowLines(o)'
<1>1. OrderInv /\ InHand(w)
  BY DEF AloneInv, SerialInv
<1>2. WorkerStep(w)
  BY DEF WorkerStep, HandlerStep, CreateStep
<1>3. CASE CreateAccept(w)
  <2>1. /\ pc[w] = "received" /\ pc'[w] = "saveOrder" /\ mem'[w].order = mem[w].order
        /\ UNCHANGED rows /\ UNCHANGED msg /\ Handles(w, "create")
        /\ Acceptable(msg[w], SnapshotOf(msg[w].cart))
    BY <1>1, <1>3, AcceptEffect DEF Handles
  <2>2. \A i \in 1..Len(msg[w].cart) : msg[w].cart[i].product \in ProductId
    BY <1>1, <2>1, CreateHandlerTyped DEF Lines
  <2>3. \A i \in 1..Len(msg[w].cart) : products[msg[w].cart[i].product] # NoRow
    <3> TAKE i \in 1..Len(msg[w].cart)
    <3> DEFINE p == msg[w].cart[i].product
    <3>1. p \in ProductId /\ SnapshotOf(msg[w].cart)[p] # NoRow
      BY <2>1, <2>2 DEF Acceptable
    <3>2. SnapshotOf(msg[w].cart)[p] = LoadProduct(p)
      BY <3>1 DEF SnapshotOf
    <3> QED BY <1>1, <3>1, <3>2, LoadTyped
  <2>4. InTable(msg[w].cart)'
    BY <2>1, <2>2, <2>3 DEF InTable, rows
  <2>5. \A o \in OrderId : RowLines(o)'
    BY <1>2, <2>1, RowLinesStay DEF rows, RowLines
  <2>6. mem[w].order = Null
    BY <1>1, <2>1 DEF InHand
  <2> QED BY <2>1, <2>4, <2>5, <2>6 DEF InHand
<1>4. CASE CreateSaveOrder(w)
  <2>1. /\ pc[w] = "saveOrder" /\ pc'[w] = "deduct" /\ UNCHANGED msg
        /\ \E o \in OrderId \ issued, row \in OrderRow :
              /\ row.status = 1 /\ row.items = << >>
              /\ orders' = [orders EXCEPT ![o] = row] /\ mem'[w].order = o
    BY <1>1, <1>4, InsertEffect
  <2>2. PICK o \in OrderId \ issued, row \in OrderRow :
              /\ row.status = 1 /\ row.items = << >>
              /\ orders' = [orders EXCEPT ![o] = row] /\ mem'[w].order = o
    BY <2>1
  <2>3. \A q \in OrderId : orders'[q] = IF q = o THEN row ELSE orders[q]
    BY <1>1, <2>2 DEF OrderInv, OrderTypeOK
  <2>4. \A q \in OrderId : RowLines(q)'
    BY <1>2, <2>2, <2>3, RowLinesStay
  <2>5. InTable(msg[w].cart)'
    BY <1>1, <1>2, <2>1, InTableStays DEF InHand
  <2>6. row # NoRow
    BY NoRowIsNotAnOrder
  <2> QED BY <2>1, <2>2, <2>3, <2>4, <2>5, <2>6 DEF InHand
<1>5. CASE CreateDeduct(w)
  <2>1. /\ pc[w] = "deduct" /\ pc'[w] \in {"deduct", "saveItems"}
        /\ mem'[w].order = mem[w].order /\ UNCHANGED <<orders, msg>>
    BY <1>1, <1>5, DeductEffect
  <2>2. InTable(msg[w].cart)'
    BY <1>1, <1>2, <2>1, InTableStays DEF InHand
  <2>3. \A q \in OrderId : RowLines(q)'
    BY <1>2, <2>1, RowLinesStay
  <2> QED BY <1>1, <2>1, <2>2, <2>3 DEF InHand
<1> QED BY <1>3, <1>4, <1>5

LEMMA ItemsKeepHand ==
  ASSUME AloneInv, NEW w \in Worker, CreateSaveItems(w)
  PROVE  InHand(w)' /\ \A o \in OrderId : RowLines(o)'
<1> DEFINE o    == mem[w].order
           cart == msg[w].cart
<1>1. OrderInv /\ InHand(w)
  BY DEF AloneInv, SerialInv
<1>2. WorkerStep(w)
  BY DEF WorkerStep, HandlerStep, CreateStep
<1>3. /\ pc[w] = "saveItems" /\ pc'[w] = "done" /\ reply'[w] = "ok" /\ o \in OrderId
      /\ orders' = [orders EXCEPT ![o] = orders'[o]] /\ UNCHANGED products
      /\ Len(orders'[o].items) = Len(cart)
      /\ \A i \in 1..Len(cart) : orders'[o].items[i].product = cart[i].product
  BY <1>1, SaveItemsEffect
<1>4. CartCovered(w) /\ InTable(cart)
  BY <1>1, <1>3 DEF InHand, OrderInv, HandlersOK, LocalsOK
<1>5. RowLines(o)'
  <2>1. PICK items : items = orders'[o].items
    OBVIOUS
  <2>2. /\ Len(items) = Len(cart)
        /\ \A i \in 1..Len(cart) : items[i].product = cart[i].product
    BY <1>3, <2>1
  <2>3. Distinct(items)
    BY <1>4, <2>2 DEF Distinct, CartCovered, Lines
  <2>4. \A i \in 1..Len(items) :
           items[i].product \in ProductId /\ products'[items[i].product] # NoRow
    BY <1>3, <1>4, <2>2 DEF InTable
  <2>5. mem' = mem
    BY <1>1, SaveItemsEffect
  <2> QED BY <2>1, <2>3, <2>4, <2>5 DEF RowLines, InTable
<1>6. \A q \in OrderId \ {o} : orders'[q] = orders[q]
  BY <1>1, <1>3 DEF OrderInv, OrderTypeOK
<1>7. \A q \in OrderId : RowLines(q)'
  <2> TAKE q \in OrderId
  <2>1. CASE q = o
    <3>1. mem' = mem
      BY <1>1, SaveItemsEffect
    <3> QED BY <1>5, <2>1, <3>1 DEF RowLines, InTable
  <2>2. CASE q # o
    BY <1>2, <1>6, <2>2, RowLinesStay
  <2> QED BY <2>1, <2>2
<1> QED BY <1>3, <1>7 DEF InHand

(* update, cancel and delete.                                              *)
LEMMA ReadsKeepHand ==
  ASSUME AloneInv, NEW w \in Worker,
         \/ UpdateFind(w) \/ CancelFind(w) \/ DeleteFind(w)
         \/ ReturnFind(w) \/ ReturnSave(w)
  PROVE  InHand(w)' /\ \A o \in OrderId : RowLines(o)'
<1>1. OrderInv /\ InHand(w)
  BY DEF AloneInv, SerialInv
<1>2. WorkerStep(w)
  BY DEF WorkerStep, HandlerStep, ReturnStep
<1>3. CASE UpdateFind(w) \/ CancelFind(w) \/ DeleteFind(w)
  <2>1. /\ pc'[w] \in {"saveStatus", "saveCancelled", "findProduct", "deleteItems"}
        /\ mem'[w].row = orders[mem'[w].order] /\ UNCHANGED orders
    BY <1>1, <1>3, FindEffect DEF rows
  <2> QED BY <1>2, <2>1, RowLinesStay DEF InHand, RowLines
<1>4. CASE ReturnFind(w)
  <2>1. /\ pc[w] = "findProduct" /\ pc'[w] = "returnStock" /\ UNCHANGED orders
        /\ mem'[w].row = mem[w].row /\ mem'[w].order = mem[w].order
    BY <1>1, <1>4, ReturnFindEffect DEF rows
  <2> QED BY <1>1, <1>2, <2>1, RowLinesStay DEF InHand, RowLines
<1>5. CASE ReturnSave(w)
  <2>1. /\ pc[w] = "returnStock" /\ pc'[w] = NextReturn(w) /\ UNCHANGED orders
        /\ mem'[w].row = mem[w].row /\ mem'[w].order = mem[w].order
    BY <1>1, <1>5, ReturnSaveEffect
  <2>2. pc'[w] \in {"findProduct", "saveCancelled", "deleteItems"}
    BY <2>1 DEF NextReturn, AfterReturns
  <2> QED BY <1>1, <1>2, <2>1, <2>2, RowLinesStay DEF InHand, RowLines
<1> QED BY <1>3, <1>4, <1>5

LEMMA WritesKeepHand ==
  ASSUME AloneInv, NEW w \in Worker,
         UpdateSave(w) \/ CancelSave(w) \/ DeleteItems(w) \/ DeleteOrder(w)
  PROVE  InHand(w)' /\ \A o \in OrderId : RowLines(o)'
<1> DEFINE o == mem[w].order
<1>1. SerialInv /\ InHand(w) /\ orders \in [OrderId -> OrderRow \cup {NoRow}]
  BY DEF AloneInv, SerialInv, OrderInv, OrderTypeOK
<1>2. WorkerStep(w)
  BY DEF WorkerStep, HandlerStep
<1>3. /\ o \in OrderId
      /\ orders' = [orders EXCEPT ![o] = orders'[o]]
      /\ orders'[o] # NoRow =>
           \/ orders'[o].items = << >>
           \/ orders[o] # NoRow /\ orders'[o].items = orders[o].items
  <2>1. CASE CancelSave(w)
    BY <1>1, <2>1, CancelEffect DEF InHand
  <2>2. CASE UpdateSave(w)
    BY <1>1, <2>2, UpdateEffect
  <2>3. CASE DeleteItems(w)
    BY <1>1, <2>3, DeleteItemsEffect
  <2>4. CASE DeleteOrder(w)
    BY <1>1, <2>4, DeleteOrderEffect
  <2> QED BY <2>1, <2>2, <2>3, <2>4
<1>4. \A q \in OrderId : q # o => orders'[q] = orders[q]
  BY <1>1, <1>3
<1>5. \A q \in OrderId : RowLines(q)'
  <2> TAKE q \in OrderId
  <2> QED BY <1>2, <1>3, <1>4, RowLinesStay
<1>6. /\ pc'[w] \in {"done", "deleteOrder"}
      /\ msg[w].topic # "create" /\ UNCHANGED msg
  <2>1. pc[w] \in {"saveStatus", "saveCancelled", "deleteItems", "deleteOrder"}
    BY <1>1, UpdateEffect, CancelEffect, DeleteItemsEffect, DeleteOrderEffect
  <2>2. pc[w] # "idle" /\ pc[w] \in {"received", "done"} \cup AwaitsOf(msg[w].topic)
    BY <1>1, <2>1 DEF SerialInv, OrderInv, OrderTypeOK
  <2>3. msg[w].topic # "create"
    BY <2>1, <2>2 DEF AwaitsOf
  <2> QED BY <1>1, <2>3, UpdateEffect, CancelEffect, DeleteItemsEffect, DeleteOrderEffect
<1> QED BY <1>5, <1>6 DEF InHand

LEMMA AloneStep ==
  ASSUME OneWorkerOnly
  PROVE  AloneInv /\ [OrderNext]_orderVars => AloneInv'
<1> SUFFICES ASSUME AloneInv, [OrderNext]_orderVars PROVE AloneInv'
  OBVIOUS
<1>1. SerialInv' /\ OneTotal'
  BY SerialStep, TotalsStep DEF AloneInv, SerialInv
<1>2. CASE UNCHANGED orderVars
  <2>1. UniqueNames' /\ \A o \in OrderId : RowLines(o)'
    BY <1>2 DEF orderVars, AloneInv, UniqueNames, RowLines, InTable
  <2>2. \A w \in Worker : InHand(w)'
    BY <1>2 DEF orderVars, AloneInv, InHand, InTable
  <2> QED BY <1>1, <2>1, <2>2 DEF AloneInv
<1>3. CASE OrderNext
  <2>1. PICK w \in Worker : WorkerStep(w)
    BY <1>3 DEF OrderNext, WorkerStep
  <2>2. UniqueNames'
    BY <2>1, NamesStay DEF AloneInv, SerialInv
  <2>3. InHand(w)' /\ \A o \in OrderId : RowLines(o)'
    BY <2>1, RestKeepsHand, RefusalsKeepHand, CreateKeepsHand, ItemsKeepHand, ReadsKeepHand,
       WritesKeepHand, DeductNotRefused, ItemsNotRefused, ReturnNotRefused, ReturnNotSkipped
    DEF WorkerStep, HandlerStep, CreateStep, ReturnStep
  <2>4. \A u \in Worker : InHand(u)'
    BY <2>3 DEF OneWorkerOnly
  <2> QED BY <1>1, <2>2, <2>3, <2>4 DEF AloneInv
<1> QED BY <1>2, <1>3

(* Once createOrder has saved the order row nothing but the database makes *)
(* it fail: the unique index has the product under its own name, the order *)
(* is there for the foreign key, and an item's amount is part of a total   *)
(* that was in range.  A crash begins the handler again with nothing saved.*)
THEOREM SavedOrdersGoThrough ==
  ASSUME OneWorkerOnly
  PROVE  OrderSpec => []CreateFailsBeforeSaving
<1>1. AloneInv => CreateFailsBeforeSaving
  BY DEF AloneInv, InHand, CreateFailsBeforeSaving
<1> QED BY <1>1, AloneInitially, AloneStep, PTL DEF OrderSpec

-----------------------------------------------------------------------------
(* The account of an order.  Billed: it has taken exactly the units of the *)
(* lines between two positions.                                            *)

Billed(o, lines, from, to) ==
  \A p \in ProductId :
    /\ \A i \in from..to : lines[i].product = p => charged[o][p] = lines[i].quantity
    /\ (\A i \in from..to : lines[i].product # p) => charged[o][p] = 0

ItemsBilled(o) == Billed(o, orders[o].items, 1, Len(orders[o].items))

GivenBack(o) == \A p \in ProductId : charged[o][p] <= 0

(* What Units adds up is the quantity of the one line with the product.    *)
LEMMA UnitsAreBilled ==
  ASSUME OrderInv, NEW o \in OrderId, orders[o] # NoRow, Distinct(orders[o].items),
         ItemsBilled(o), NEW p \in ProductId
  PROVE  charged[o][p] = Units(o, p)
<1> DEFINE items == orders[o].items
           a     == [i \in 1..Len(items) |-> IF items[i].product = p THEN items[i].quantity ELSE 0]
<1>1. items \in Seq(Item) /\ Len(items) \in Nat
  BY DEF OrderInv, OrderTypeOK, OrderRow
<1>2. \A i \in 1..Len(items) : items[i].quantity \in Nat
  <2>1. \A i \in 1..Len(items) : items[i] \in Item
    BY <1>1
  <2> QED BY <2>1, QuantityPositive DEF Item
<1>3. a \in Seq(Int) /\ Len(a) = Len(items)
  <2> HIDE DEF items
  <2> QED BY <1>1, <1>2
<1>4. CASE \E k \in 1..Len(items) : items[k].product = p
  <2>1. PICK k \in 1..Len(items) : items[k].product = p
    BY <1>4
  <2>2. \A i \in 1..Len(items) : i # k => a[i] = 0
    BY <2>1 DEF Distinct
  <2>3. SumOver(a) = a[k]
    <3> HIDE DEF a, items
    <3> QED BY <1>3, <2>2, SumOfOne
  <2>4. charged[o][p] = items[k].quantity
    BY <2>1 DEF ItemsBilled, Billed
  <2> QED BY <2>1, <2>3, <2>4 DEF Units
<1>5. CASE \A k \in 1..Len(items) : items[k].product # p
  <2>1. \A i \in 1..Len(items) : a[i] = 0
    BY <1>5
  <2>2. SumOver(a) = 0
    <3> HIDE DEF a, items
    <3> QED BY <1>3, <2>1, SumOfNone
  <2>3. charged[o][p] = 0
    BY <1>5 DEF ItemsBilled, Billed
  <2> QED BY <2>2, <2>3 DEF Units
<1> QED BY <1>4, <1>5

(* Taking the units of the next line, or returning those of the first.     *)
LEMMA TakingBills ==
  ASSUME OrderInv, NEW CONSTANT o \in OrderId, NEW CONSTANT lines, NEW CONSTANT i \in Nat,
         i \in 1..Len(lines), Distinct(lines), lines[i].product \in ProductId,
         lines[i].quantity \in Nat, Len(lines) \in Nat,
         Billed(o, lines, 1, i - 1),
         charged' = [charged EXCEPT ![o][lines[i].product] = @ + lines[i].quantity]
  PROVE  Billed(o, lines, 1, i)'
<1> DEFINE p == lines[i].product
           n == lines[i].quantity
<1>1. charged \in [OrderId -> [ProductId -> Int]]
  BY DEF OrderInv, OrderTypeOK
<1>2. \A j \in 1..(i - 1) : lines[j].product # p /\ j \in 1..i
  BY DEF Distinct
<1>3. charged[o][p] = 0
  BY <1>2 DEF Billed
<1>4. charged'[o][p] = n /\ \A q \in ProductId : q # p => charged'[o][q] = charged[o][q]
  BY <1>1, <1>3
<1>5. \A j \in 1..i : j = i \/ j \in 1..(i - 1)
  OBVIOUS
<1> HIDE DEF p, n
<1>6. ASSUME NEW q \in ProductId
      PROVE  /\ \A j \in 1..i : lines[j].product = q => charged'[o][q] = lines[j].quantity
             /\ (\A j \in 1..i : lines[j].product # q) => charged'[o][q] = 0
  <2>1. CASE q = p
    BY <1>2, <1>4, <1>5, <2>1 DEF p, n
  <2>2. CASE q # p
    BY <1>2, <1>4, <1>5, <2>2 DEF Billed, p
  <2> QED BY <2>1, <2>2
<1> QED BY <1>6 DEF Billed

LEMMA ReturningBills ==
  ASSUME OrderInv, NEW CONSTANT o \in OrderId, NEW CONSTANT lines, NEW CONSTANT i \in Nat,
         i \in 1..Len(lines), Distinct(lines), lines[i].product \in ProductId,
         lines[i].quantity \in Nat, Len(lines) \in Nat,
         Billed(o, lines, i, Len(lines)),
         charged' = [charged EXCEPT ![o][lines[i].product] = @ - lines[i].quantity]
  PROVE  Billed(o, lines, i + 1, Len(lines))'
<1> DEFINE p == lines[i].product
           n == lines[i].quantity
<1>1. charged \in [OrderId -> [ProductId -> Int]]
  BY DEF OrderInv, OrderTypeOK
<1>2. \A j \in (i + 1)..Len(lines) : lines[j].product # p /\ j \in i..Len(lines)
  BY DEF Distinct
<1>3. charged[o][p] = n
  BY DEF Billed
<1>4. charged'[o][p] = 0 /\ \A q \in ProductId : q # p => charged'[o][q] = charged[o][q]
  BY <1>1, <1>3
<1>5. \A j \in i..Len(lines) : j = i \/ j \in (i + 1)..Len(lines)
  OBVIOUS
<1> HIDE DEF p, n
<1>6. ASSUME NEW q \in ProductId
      PROVE  /\ \A j \in (i + 1)..Len(lines) :
                  lines[j].product = q => charged'[o][q] = lines[j].quantity
             /\ (\A j \in (i + 1)..Len(lines) : lines[j].product # q) => charged'[o][q] = 0
  <2>1. CASE q = p
    BY <1>2, <1>4, <2>1
  <2>2. CASE q # p
    BY <1>2, <1>4, <1>5, <2>2 DEF Billed, p
  <2> QED BY <2>1, <2>2
<1> QED BY <1>6 DEF Billed

(* What the loops of createOrder, and of cancel and delete, have done.     *)
CartBilled(w) ==
  /\ pc[w] = "deduct"    => Billed(mem[w].order, msg[w].cart, 1, mem[w].next - 1)
  /\ pc[w] = "saveItems" => Billed(mem[w].order, msg[w].cart, 1, Len(msg[w].cart))

UnissuedUncharged == \A o \in OrderId \ issued, p \in ProductId : charged[o][p] = 0

(* A step changes no account but that of the order in hand.                *)
LEMMA OtherAccounts ==
  ASSUME OrderInv, NEW w \in Worker, WorkerStep(w)
  PROVE  \A o \in OrderId : o # mem[w].order => charged'[o] = charged[o]
<1>1. charged \in [OrderId -> [ProductId -> Int]]
  BY DEF OrderInv, OrderTypeOK
<1>2. CASE CreateDeduct(w)
  BY <1>1, <1>2, DeductEffect
<1>3. CASE ReturnSave(w)
  BY <1>1, <1>3, ReturnSaveEffect
<1> QED BY <1>2, <1>3, OthersLeaveStock DEF WorkerStep

LEMMA UnissuedStay ==
  ASSUME AloneInv, UnissuedUncharged, NEW w \in Worker, WorkerStep(w)
  PROVE  UnissuedUncharged'
<1>1. OrderInv /\ issued \subseteq issued'
  <2>1. issued \subseteq issued'
    BY OrdersStepHolds, StepInv DEF AloneInv, SerialInv, WorkerStep, OrderNext, OrdersStep,
       InsertsOrder, RewritesOrder
  <2> QED BY <2>1 DEF AloneInv, SerialInv
<1>2. CASE CreateDeduct(w) \/ ReturnSave(w)
  <2>1. pc[w] \in {"deduct", "returnStock"} /\ mem[w].order \in OrderId
    BY <1>1, <1>2, DeductEffect, ReturnSaveEffect
  <2>2. orders[mem[w].order] # NoRow
    BY <2>1 DEF AloneInv, InHand, SerialInv, SnapshotsFresh, RowFresh
  <2>3. mem[w].order \in issued
    BY <2>1, <2>2 DEF AloneInv, SerialInv
  <2> QED BY <1>1, <2>3, OtherAccounts DEF UnissuedUncharged
<1>3. CASE UNCHANGED charged
  BY <1>1, <1>3 DEF UnissuedUncharged
<1> QED BY <1>2, <1>3, OthersLeaveStock DEF WorkerStep

LEMMA CartStaysBilled ==
  ASSUME AloneInv, UnissuedUncharged, NEW w \in Worker, CartBilled(w), WorkerStep(w)
  PROVE  CartBilled(w)'
<1>1. OrderInv
  BY DEF AloneInv, SerialInv
<1>2. CASE CreateSaveOrder(w)
  <2>1. /\ pc'[w] = "deduct" /\ mem'[w].next = 1 /\ UNCHANGED charged
        /\ mem'[w].order \in OrderId \ issued
    BY <1>1, <1>2, InsertEffect
  <2>2. \A p \in ProductId : charged'[mem'[w].order][p] = 0
    BY <2>1 DEF UnissuedUncharged
  <2>3. 1..(1 - 1) = {}
    OBVIOUS
  <2> QED BY <2>1, <2>2, <2>3 DEF CartBilled, Billed
<1>3. CASE CreateDeduct(w)
  <2>1. PICK o, cart, i : o = mem[w].order /\ cart = msg[w].cart /\ i = mem[w].next
    OBVIOUS
  <2>2. /\ pc[w] = "deduct" /\ i \in 1..Len(cart) /\ o \in OrderId
        /\ pc'[w] = IF i = Len(cart) THEN "saveItems" ELSE "deduct"
        /\ mem'[w].order = o /\ mem'[w].next = i + 1 /\ msg'[w].cart = cart
        /\ charged' = [charged EXCEPT ![o][cart[i].product] = @ + cart[i].quantity]
    BY <1>1, <1>3, <2>1, DeductEffect
  <2>3. /\ Billed(o, cart, 1, i - 1)
        /\ Distinct(cart)
    <3>1. Billed(o, cart, 1, i - 1)
      BY <2>1, <2>2 DEF CartBilled
    <3>2. CartCovered(w)
      BY <1>1, <2>2 DEF OrderInv, HandlersOK, LocalsOK
    <3> QED BY <2>1, <3>1, <3>2 DEF CartCovered, Lines, Distinct
  <2>4. /\ cart[i].product \in ProductId /\ cart[i].quantity \in Nat
        /\ i \in Nat /\ Len(cart) \in Nat
    <3>1. pc[w] \in AwaitsOf("create")
      BY <2>2 DEF AwaitsOf
    <3>2. cart \in Seq(CartLine) /\ cart[i].product \in ProductId /\ cart[i].quantity \in Nat
      BY <1>1, <2>1, <2>2, <3>1, CreateHandlerTyped DEF Lines
    <3> QED BY <2>2, <3>2
  <2>5. Billed(o, cart, 1, i)'
    BY <1>1, <2>2, <2>3, <2>4, TakingBills
  <2>6. (i + 1) - 1 = i /\ (i = Len(cart) \/ i # Len(cart))
    BY <2>4
  <2> QED BY <2>2, <2>5, <2>6 DEF CartBilled, Billed
<1>4. CASE ~CreateSaveOrder(w) /\ ~CreateDeduct(w)
  <2>1. pc'[w] \notin {"deduct", "saveItems"}
    <3>1. CASE Receive(w) \/ Commit(w) \/ Crash(w) \/ DbError(w)
      BY <1>1, <3>1, RestEffect
    <3>2. CASE UpdateFind(w) \/ CancelFind(w) \/ DeleteFind(w)
      BY <1>1, <3>2, FindEffect
    <3>3. CASE ReturnFind(w) \/ ReturnSave(w) \/ CreateAccept(w) \/ CreateSaveItems(w)
      BY <1>1, <3>3, ReturnFindEffect, ReturnSaveEffect, AcceptEffect, SaveItemsEffect
      DEF NextReturn, AfterReturns
    <3>4. CASE UpdateSave(w) \/ CancelSave(w) \/ DeleteItems(w) \/ DeleteOrder(w)
      BY <3>4, UpdateEffect, CancelEffect, DeleteItemsEffect, DeleteOrderEffect DEF AloneInv
    <3>5. CASE CreateReject(w) \/ CreateTotalTooLarge(w) \/ OrderNotFound(w)
      BY <1>1, <3>5, RefusalEffect
    <3> QED
      BY <1>4, <3>1, <3>2, <3>3, <3>4, <3>5, DeductNotRefused, ItemsNotRefused,
         ReturnNotRefused, ReturnNotSkipped
      DEF WorkerStep, HandlerStep, CreateStep, ReturnStep
  <2> QED BY <2>1 DEF CartBilled
<1> QED BY <1>2, <1>3, <1>4

(* The items that createOrder saves are the lines it has billed.           *)
LEMMA SavedItemsAreBilled ==
  ASSUME AloneInv, NEW w \in Worker, CartBilled(w), CreateSaveItems(w)
  PROVE  ItemsBilled(mem[w].order)'
<1>1. OrderInv
  BY DEF AloneInv, SerialInv
<1>2. PICK o, cart, items : o = mem[w].order /\ cart = msg[w].cart /\ items = orders'[o].items
  OBVIOUS
<1>3. /\ pc[w] = "saveItems" /\ UNCHANGED <<charged, mem>> /\ Len(items) = Len(cart)
      /\ \A i \in 1..Len(cart) : /\ items[i].product = cart[i].product
                                 /\ items[i].quantity = cart[i].quantity
  BY <1>1, <1>2, SaveItemsEffect
<1>4. Billed(o, cart, 1, Len(cart))
  BY <1>2, <1>3 DEF CartBilled
<1>5. Billed(o, items, 1, Len(items))'
  BY <1>3, <1>4 DEF Billed
<1>6. o = mem'[w].order
  BY <1>2, <1>3
<1> QED BY <1>2, <1>5, <1>6 DEF ItemsBilled, Billed

(* Faults leave a trace: while the counters are 0 there has been none.     *)
LEMMA DeliveryMoves ==
  ASSUME NEW w \in Worker, WorkerStep(w)
  PROVE  Receive(w) \/ Crash(w) \/ DbError(w) \/ UNCHANGED delivery
<1>1. CreateStep(w) => UNCHANGED delivery
  BY DEF CreateStep, CreateReject, CreateAccept, CreateSaveOrder, CreateTotalTooLarge,
         CreateDeduct, CreateDeductRefused, CreateSaveItems, CreateItemsRefused,
         Finish, Continue
<1>2. ReturnStep(w) => UNCHANGED delivery
  BY DEF ReturnStep, ReturnFind, ReturnSkip, ReturnSave, ReturnRefused, Finish, Continue
<1>3. OrderNotFound(w) \/ UpdateFind(w) \/ UpdateSave(w) => UNCHANGED delivery
  BY DEF OrderNotFound, UpdateFind, UpdateSave, FindOrder, Finish, Continue
<1>4. CancelFind(w) \/ CancelSave(w) \/ DeleteFind(w) => UNCHANGED delivery
  BY DEF CancelFind, CancelSave, DeleteFind, FindOrder, Finish, Continue
<1>5. DeleteItems(w) \/ DeleteOrder(w) \/ Commit(w) => UNCHANGED delivery
  BY DEF DeleteItems, DeleteOrder, Commit, Finish, Continue
<1> QED BY <1>1, <1>2, <1>3, <1>4, <1>5 DEF WorkerStep, HandlerStep

LEMMA FaultsAreCounted ==
  ASSUME AloneInv, NEW w \in Worker, WorkerStep(w)
  PROVE  /\ crashes' = 0 => crashes = 0 /\ ~Crash(w)
         /\ dbErrors' = 0 => dbErrors = 0 /\ ~DbError(w)
<1>1. OrderInv /\ crashes \in Nat /\ dbErrors \in Nat
  BY DEF AloneInv, SerialInv, OrderInv, OrderTypeOK
<1>2. CASE Crash(w)
  BY <1>1, <1>2, RestEffect DEF Crash, DbError
<1>3. CASE DbError(w)
  BY <1>1, <1>3, RestEffect
<1>4. CASE ~Crash(w) /\ ~DbError(w)
  BY <1>1, <1>4, DeliveryMoves, RestEffect DEF delivery
<1> QED BY <1>2, <1>3, <1>4

-----------------------------------------------------------------------------
(* Across crashes and rejected calls: a live order with items is billed    *)
(* for them while no loop is returning its stock, unless such a loop was   *)
(* broken off.  A broken cancel excuses the order for good.  A broken      *)
(* delete does so only while it is still to be handled: it names its order *)
(* and cannot end before the order is gone, unless the database refuses.   *)

Returning(w, o) == pc[w] \in ReturnAwaits /\ mem[w].order = o

DeletesNamed(w) ==
  pc[w] \notin {"idle", "received", "done"} /\ msg[w].topic = "delete" =>
    mem[w].order = msg[w].id

DeletePending(o) ==
  \/ \E m \in again : m.topic = "delete" /\ m.id = o
  \/ \E w \in Worker : /\ pc[w] \notin {"idle", "done"}
                       /\ msg[w].topic = "delete" /\ msg[w].id = o

Excused(o) ==
  \/ <<o, "cancel">> \in halfway
  \/ <<o, "delete">> \in halfway /\ (dbErrors > 0 \/ DeletePending(o))

LiveBilled(o) == Live(o) /\ orders[o].items # << >> => ItemsBilled(o)

LiveAccounts ==
  /\ UnissuedUncharged
  /\ \A w \in Worker : CartBilled(w) /\ DeletesNamed(w)
  /\ \A o \in OrderId : (\A w \in Worker : ~Returning(w, o)) /\ ~Excused(o) => LiveBilled(o)

LEMMA DeletesNamedStay ==
  ASSUME AloneInv, NEW w \in Worker, DeletesNamed(w), WorkerStep(w)
  PROVE  DeletesNamed(w)'
<1>1. OrderInv
  BY DEF AloneInv, SerialInv
<1>2. CASE UpdateFind(w) \/ CancelFind(w) \/ DeleteFind(w)
  <2>1. UNCHANGED msg /\ mem'[w].order \in Matching(msg[w])
    BY <1>1, <1>2, FindEffect
  <2>2. msg[w].topic = "delete" => mem'[w].order = msg[w].id
    BY <2>1 DEF Matching, SentField, ReadField
  <2> QED BY <2>1, <2>2 DEF DeletesNamed
<1>3. CASE ReturnFind(w) \/ ReturnSave(w)
  BY <1>1, <1>3, ReturnFindEffect, ReturnSaveEffect DEF DeletesNamed
<1>4. CASE DeleteItems(w)
  BY <1>4, DeleteItemsEffect DEF AloneInv, DeletesNamed
<1>5. CASE Receive(w) \/ Commit(w) \/ Crash(w) \/ DbError(w)
  BY <1>1, <1>5, RestEffect DEF DeletesNamed
<1>6. CASE CreateAccept(w) \/ CreateSaveOrder(w) \/ CreateDeduct(w) \/ CreateSaveItems(w)
  <2>1. UNCHANGED msg /\ msg[w].topic = "create"
    BY <1>1, <1>6, AcceptEffect, InsertEffect, DeductEffect, SaveItemsEffect, AwaitTopics
    DEF Handles
  <2> QED BY <2>1 DEF DeletesNamed
<1>7. CASE UpdateSave(w) \/ CancelSave(w) \/ DeleteOrder(w)
  BY <1>7, UpdateEffect, CancelEffect, DeleteOrderEffect DEF AloneInv, DeletesNamed
<1>8. CASE CreateReject(w) \/ CreateTotalTooLarge(w) \/ OrderNotFound(w)
  BY <1>1, <1>8, RefusalEffect DEF DeletesNamed
<1> QED
  BY <1>2, <1>3, <1>4, <1>5, <1>6, <1>7, <1>8, DeductNotRefused, ItemsNotRefused,
     ReturnNotRefused, ReturnNotSkipped
  DEF WorkerStep, HandlerStep, CreateStep, ReturnStep

(* The loop that returns an order's stock ends with the order not live or  *)
(* without items, or is broken off.                                        *)
LEMMA ReturningEnds ==
  ASSUME AloneInv, NEW w \in Worker, DeletesNamed(w), WorkerStep(w),
         NEW o \in OrderId, Returning(w, o), ~Returning(w, o)'
  PROVE  LiveBilled(o)' \/ Excused(o)'
<1>1. OrderInv /\ SerialInv /\ dbErrors \in Nat /\ orders \in [OrderId -> OrderRow \cup {NoRow}]
  BY DEF AloneInv, SerialInv, OrderInv, OrderTypeOK
<1>2. /\ pc[w] \in {"findProduct", "returnStock", "saveCancelled", "deleteItems"}
      /\ mem[w].order = o
  BY DEF Returning, ReturnAwaits
<1>3. CASE Crash(w) \/ DbError(w)
  <2>1. <<o, msg[w].topic>> \in halfway'
    BY <1>1, <1>2, <1>3, RestEffect DEF BreaksOff, ReturnAwaits
  <2>2. msg[w].topic \in {"cancel", "delete"}
    BY <1>1, <1>2, AwaitTopics
  <2>3. CASE msg[w].topic = "cancel"
    BY <2>1, <2>3 DEF Excused
  <2>4. CASE DbError(w)
    <3>1. dbErrors' > 0
      BY <1>1, <2>4, RestEffect
    <3> QED BY <2>1, <2>2, <3>1 DEF Excused
  <2>5. CASE Crash(w) /\ msg[w].topic = "delete"
    <3>1. msg[w] \in again' /\ msg[w].id = o
      BY <1>1, <1>2, <2>5, RestEffect DEF DeletesNamed
    <3> QED BY <2>1, <2>5, <3>1 DEF Excused, DeletePending
  <2> QED BY <1>3, <2>2, <2>3, <2>4, <2>5
<1>4. CASE CancelSave(w)
  BY <1>1, <1>2, <1>4, CancelEffect DEF LiveBilled, Live
<1>5. CASE DeleteItems(w)
  BY <1>1, <1>2, <1>5, DeleteItemsEffect DEF LiveBilled
<1>6. CASE ReturnFind(w) \/ ReturnSave(w)
  <2>1. pc'[w] \in {"findProduct", "returnStock", "saveCancelled", "deleteItems"}
        /\ mem'[w].order = o
    BY <1>1, <1>2, <1>6, ReturnFindEffect, ReturnSaveEffect DEF NextReturn, AfterReturns
  <2> QED BY <2>1 DEF Returning, ReturnAwaits
<1>7. CASE Receive(w) \/ Commit(w)
  BY <1>1, <1>2, <1>7, RestEffect
<1>8. CASE UpdateFind(w) \/ CancelFind(w) \/ DeleteFind(w)
  BY <1>1, <1>2, <1>8, FindEffect
<1>9. CASE CreateAccept(w) \/ CreateSaveOrder(w) \/ CreateDeduct(w) \/ CreateSaveItems(w)
  BY <1>1, <1>2, <1>9, AcceptEffect, InsertEffect, DeductEffect, SaveItemsEffect DEF Handles
<1>10. CASE UpdateSave(w) \/ DeleteOrder(w)
  BY <1>1, <1>2, <1>10, UpdateEffect, DeleteOrderEffect
<1>11. CASE CreateReject(w) \/ CreateTotalTooLarge(w) \/ OrderNotFound(w)
  BY <1>1, <1>2, <1>11, RefusalEffect
<1> QED
  BY <1>3, <1>4, <1>5, <1>6, <1>7, <1>8, <1>9, <1>10, <1>11, DeductNotRefused,
     ItemsNotRefused, ReturnNotRefused, ReturnNotSkipped
  DEF WorkerStep, HandlerStep, CreateStep, ReturnStep

(* A request to delete an order stays to be handled, across crashes, until *)
(* the order is gone, if the database rejects no call.                     *)
LEMMA DeleteEnds ==
  ASSUME AloneInv, NEW w \in Worker, DeletesNamed(w), WorkerStep(w), dbErrors' = 0,
         NEW o \in OrderId, pc[w] \notin {"idle", "done"}, msg[w].topic = "delete",
         msg[w].id = o
  PROVE  DeletePending(o)' \/ ~Live(o)'
<1>1. OrderInv /\ SerialInv /\ orders \in [OrderId -> OrderRow \cup {NoRow}]
  BY DEF AloneInv, SerialInv, OrderInv, OrderTypeOK
<1>2. CASE pc'[w] \notin {"idle", "done"} /\ UNCHANGED msg
  BY <1>2 DEF DeletePending
<1>3. CASE Crash(w)
  <2>1. msg[w] \in again'
    BY <1>1, <1>3, RestEffect
  <2> QED BY <2>1 DEF DeletePending
<1>4. CASE DeleteOrder(w)
  <2>1. /\ pc[w] = "deleteOrder" /\ mem[w].order = o
        /\ orders' = [orders EXCEPT ![mem[w].order] = NoRow]
    BY <1>1, <1>4, DeleteOrderEffect DEF DeletesNamed
  <2> QED BY <1>1, <2>1 DEF Live
<1>5. CASE OrderNotFound(w)
  <2>1. Matching(msg[w]) = {} /\ UNCHANGED orders
    BY <1>5 DEF OrderNotFound, rows
  <2>2. orders[o] = NoRow
    BY <2>1 DEF Matching, SentField, ReadField
  <2> QED BY <2>1, <2>2 DEF Live
<1>6. CASE Receive(w) \/ Commit(w) \/ DbError(w)
  BY <1>1, <1>6, RestEffect, FaultsAreCounted
<1>7. CASE UpdateFind(w) \/ CancelFind(w) \/ DeleteFind(w) \/ ReturnFind(w) \/ ReturnSave(w)
  <2>1. pc'[w] \notin {"idle", "done"} /\ UNCHANGED msg
    BY <1>1, <1>7, FindEffect, ReturnFindEffect, ReturnSaveEffect
    DEF NextReturn, AfterReturns
  <2> QED BY <1>2, <2>1
<1>8. CASE DeleteItems(w)
  <2>1. pc'[w] \notin {"idle", "done"} /\ UNCHANGED msg
    BY <1>1, <1>8, DeleteItemsEffect
  <2> QED BY <1>2, <2>1
<1>9. CASE CreateReject(w) \/ CreateAccept(w)
  BY <1>9 DEF CreateReject, CreateAccept, Handles
<1>10. CASE \/ CreateTotalTooLarge(w) \/ CreateSaveOrder(w) \/ CreateDeduct(w)
            \/ CreateSaveItems(w) \/ UpdateSave(w) \/ CancelSave(w)
  <2>1. pc[w] \in {"saveOrder", "deduct", "saveItems", "saveStatus", "saveCancelled"}
    BY <1>10 DEF CreateTotalTooLarge, CreateSaveOrder, CreateDeduct, CreateSaveItems,
       UpdateSave, CancelSave
  <2> QED BY <1>1, <2>1, AwaitTopics
<1> QED
  BY <1>3, <1>4, <1>5, <1>6, <1>7, <1>8, <1>9, <1>10, DeductNotRefused, ItemsNotRefused,
     ReturnNotRefused, ReturnNotSkipped
  DEF WorkerStep, HandlerStep, CreateStep, ReturnStep

LEMMA ExcuseLasts ==
  ASSUME OneWorkerOnly, AloneInv, NEW w \in Worker, DeletesNamed(w), WorkerStep(w),
         NEW o \in OrderId, Excused(o)
  PROVE  Excused(o)' \/ ~Live(o)'
<1>1. OrderInv /\ dbErrors \in Nat
  BY DEF AloneInv, SerialInv, OrderInv, OrderTypeOK
<1>2. /\ halfway \subseteq halfway'
      /\ dbErrors' \in Nat /\ (dbErrors > 0 => dbErrors' > 0)
      /\ again \subseteq again' \/ Receive(w)
  BY <1>1, DeliveryMoves, RestEffect DEF delivery, BreaksOff
<1>3. CASE \/ <<o, "cancel">> \in halfway
           \/ <<o, "delete">> \in halfway /\ dbErrors' > 0
  BY <1>2, <1>3 DEF Excused
<1>4. CASE <<o, "delete">> \in halfway /\ dbErrors' = 0 /\ DeletePending(o)
  <2>1. CASE \E m \in again : m.topic = "delete" /\ m.id = o
    <3>1. PICK m \in again : m.topic = "delete" /\ m.id = o
      BY <2>1
    <3>2. CASE m \in again'
      BY <1>2, <1>4, <3>1, <3>2 DEF Excused, DeletePending
    <3>3. CASE Receive(w) /\ m = msg'[w]
      <4>1. pc'[w] = "received" /\ msg'[w].topic = "delete" /\ msg'[w].id = o
        BY <1>1, <3>1, <3>3, RestEffect
      <4> QED BY <1>2, <1>4, <4>1 DEF Excused, DeletePending
    <3> QED BY <1>1, <1>2, <3>1, <3>2, <3>3, RestEffect
  <2>2. CASE \E u \in Worker : /\ pc[u] \notin {"idle", "done"}
                               /\ msg[u].topic = "delete" /\ msg[u].id = o
    <3>1. pc[w] \notin {"idle", "done"} /\ msg[w].topic = "delete" /\ msg[w].id = o
      BY <2>2 DEF OneWorkerOnly
    <3>2. DeletePending(o)' \/ ~Live(o)'
      BY <1>4, <3>1, DeleteEnds
    <3> QED BY <1>2, <1>4, <3>2 DEF Excused
  <2> QED BY <1>4, <2>1, <2>2 DEF DeletePending
<1> QED BY <1>1, <1>2, <1>3, <1>4 DEF Excused

(* The rest of what a step does leaves the bill of an order as it was.     *)
SameBill(o) ==
  /\ charged'[o] = charged[o]
  /\ Live(o)' <=> Live(o)
  /\ Live(o) => orders'[o].items = orders[o].items

LEMMA BillStays ==
  ASSUME AloneInv, NEW w \in Worker, WorkerStep(w), NEW o \in OrderId,
         CreateSaveOrder(w) => mem'[w].order # o,
         \/ mem[w].order # o
         \/ ~ \/ CreateDeduct(w) \/ CreateSaveItems(w) \/ ReturnSave(w)
              \/ CancelSave(w) \/ DeleteItems(w) \/ DeleteOrder(w)
  PROVE  SameBill(o)
<1>1. OrderInv /\ SerialInv /\ orders \in [OrderId -> OrderRow \cup {NoRow}]
  BY DEF AloneInv, SerialInv, OrderInv, OrderTypeOK
<1>2. charged'[o] = charged[o]
  BY <1>1, OtherAccounts, OthersLeaveStock DEF WorkerStep
<1>3. CASE UNCHANGED orders
  BY <1>2, <1>3 DEF SameBill, Live
<1>4. CASE CreateSaveOrder(w)
  <2>1. PICK q \in OrderId \ issued, row \in OrderRow :
          orders' = [orders EXCEPT ![q] = row] /\ mem'[w].order = q
    BY <1>1, <1>4, InsertEffect
  <2>2. orders'[o] = orders[o]
    BY <1>1, <1>4, <2>1
  <2> QED BY <1>2, <2>2 DEF SameBill, Live
<1>5. CASE UpdateSave(w)
  <2>1. PICK q : q = mem[w].order
    OBVIOUS
  <2>2. /\ q \in OrderId /\ orders[q] # NoRow
        /\ orders' = [orders EXCEPT ![q] = orders'[q]] /\ orders'[q] # NoRow
        /\ orders'[q].items = orders[q].items
        /\ orders'[q].status = NextStatus(orders[q].status)
    BY <1>1, <1>5, <2>1, UpdateEffect
  <2>3. NextStatus(orders[q].status) = 0 <=> orders[q].status = 0
    <3>1. orders[q].status \in 0..3
      BY <1>1, <2>2 DEF OrderRow
    <3> QED BY <3>1 DEF NextStatus
  <2>4. CASE o = q
    BY <1>2, <2>2, <2>3, <2>4 DEF SameBill, Live
  <2>5. CASE o # q
    <3>1. orders'[o] = orders[o]
      BY <1>1, <2>2, <2>5
    <3> QED BY <1>2, <3>1 DEF SameBill, Live
  <2> QED BY <2>4, <2>5
<1>6. CASE \/ CreateSaveItems(w) \/ CancelSave(w) \/ DeleteItems(w) \/ DeleteOrder(w)
  <2>1. o # mem[w].order
    BY <1>6
  <2>2. orders' = [orders EXCEPT ![mem[w].order] = orders'[mem[w].order]]
    <3>1. CASE CreateSaveItems(w)
      BY <1>1, <3>1, SaveItemsEffect
    <3>2. CASE CancelSave(w) \/ DeleteItems(w)
      BY <1>1, <3>2, CancelEffect, DeleteItemsEffect
    <3>3. CASE DeleteOrder(w)
      BY <1>1, <3>3, DeleteOrderEffect
    <3> QED BY <1>6, <3>1, <3>2, <3>3
  <2>3. orders'[o] = orders[o]
    BY <1>1, <2>1, <2>2
  <2> QED BY <1>2, <2>3 DEF SameBill, Live
<1>7. CASE Receive(w) \/ Commit(w) \/ Crash(w) \/ DbError(w)
  BY <1>1, <1>3, <1>7, RestEffect DEF rows
<1>8. CASE CreateReject(w) \/ CreateTotalTooLarge(w) \/ OrderNotFound(w)
  BY <1>1, <1>3, <1>8, RefusalEffect DEF rows
<1>9. CASE \/ UpdateFind(w) \/ CancelFind(w) \/ DeleteFind(w) \/ ReturnFind(w)
           \/ CreateAccept(w) \/ CreateDeduct(w) \/ ReturnSave(w)
  BY <1>1, <1>3, <1>9, FindEffect, ReturnFindEffect, AcceptEffect, DeductEffect, ReturnSaveEffect
  DEF rows
<1> QED
  BY <1>4, <1>5, <1>6, <1>7, <1>8, <1>9, DeductNotRefused, ItemsNotRefused,
     ReturnNotRefused, ReturnNotSkipped
  DEF WorkerStep, HandlerStep, CreateStep, ReturnStep

(* A live order stays billed for its items by every step of a handler that *)
(* is not, or is no longer, returning its stock.                           *)
LEMMA LiveStaysBilled ==
  ASSUME AloneInv, NEW w \in Worker, WorkerStep(w), CartBilled(w),
         NEW o \in OrderId, LiveBilled(o), ~Returning(w, o)'
  PROVE  LiveBilled(o)'
<1>1. OrderInv /\ SerialInv /\ InHand(w) /\ orders \in [OrderId -> OrderRow \cup {NoRow}]
  BY DEF AloneInv, SerialInv, OrderInv, OrderTypeOK
<1>2. CASE CreateSaveOrder(w) /\ mem'[w].order = o
  <2>1. PICK q \in OrderId \ issued, row \in OrderRow :
          row.items = << >> /\ orders' = [orders EXCEPT ![q] = row] /\ mem'[w].order = q
    BY <1>1, <1>2, InsertEffect
  <2>2. orders'[o].items = << >>
    BY <1>1, <1>2, <2>1
  <2> QED BY <2>2 DEF LiveBilled
<1>3. CASE CreateDeduct(w) /\ mem[w].order = o
  <2>1. pc[w] = "deduct" /\ UNCHANGED orders
    BY <1>1, <1>3, DeductEffect
  <2>2. orders'[o].items = << >>
    BY <1>1, <1>3, <2>1 DEF InHand
  <2> QED BY <2>2 DEF LiveBilled
<1>4. CASE CreateSaveItems(w) /\ mem[w].order = o
  <2>1. ItemsBilled(mem[w].order)' /\ UNCHANGED mem
    BY <1>1, <1>4, SavedItemsAreBilled, SaveItemsEffect
  <2> QED BY <1>4, <2>1 DEF LiveBilled, ItemsBilled, Billed
<1>5. CASE ReturnSave(w) /\ mem[w].order = o
  <2>1. pc'[w] = NextReturn(w) /\ mem'[w].order = o
    BY <1>1, <1>5, ReturnSaveEffect
  <2>2. pc'[w] \in {"findProduct", "saveCancelled", "deleteItems"}
    BY <2>1 DEF NextReturn, AfterReturns
  <2> QED BY <2>1, <2>2 DEF Returning, ReturnAwaits
<1>6. CASE (CancelSave(w) \/ DeleteItems(w) \/ DeleteOrder(w)) /\ mem[w].order = o
  <2>1. CASE CancelSave(w)
    BY <1>1, <1>6, <2>1, CancelEffect DEF LiveBilled, Live
  <2>2. CASE DeleteItems(w)
    BY <1>1, <1>6, <2>2, DeleteItemsEffect DEF LiveBilled
  <2>3. CASE DeleteOrder(w)
    BY <1>1, <1>6, <2>3, DeleteOrderEffect DEF LiveBilled, Live
  <2> QED BY <1>6, <2>1, <2>2, <2>3
<1>7. CASE SameBill(o)
  BY <1>7 DEF SameBill, LiveBilled, ItemsBilled, Billed, Live
<1> QED BY <1>2, <1>3, <1>4, <1>5, <1>6, <1>7, BillStays

LEMMA LiveAccountsInitially == OrderInit => LiveAccounts
BY DEF OrderInit, LiveAccounts, UnissuedUncharged, CartBilled, DeletesNamed, LiveBilled, Live

LEMMA LiveAccountsStep ==
  ASSUME OneWorkerOnly
  PROVE  AloneInv /\ LiveAccounts /\ [OrderNext]_orderVars => LiveAccounts'
<1> SUFFICES ASSUME AloneInv, LiveAccounts, [OrderNext]_orderVars PROVE LiveAccounts'
  OBVIOUS
<1>1. CASE UNCHANGED orderVars
  BY <1>1 DEF orderVars, LiveAccounts, UnissuedUncharged, CartBilled, DeletesNamed, Returning,
              Excused, DeletePending, LiveBilled, Live, ItemsBilled, Billed
<1>2. CASE OrderNext
  <2>1. PICK w \in Worker : WorkerStep(w)
    BY <1>2 DEF OrderNext, WorkerStep
  <2>2. UnissuedUncharged /\ CartBilled(w) /\ DeletesNamed(w)
    BY DEF LiveAccounts
  <2>3. UnissuedUncharged' /\ CartBilled(w)' /\ DeletesNamed(w)'
    BY <2>1, <2>2, UnissuedStay, CartStaysBilled, DeletesNamedStay
  <2>4. ASSUME NEW o \in OrderId, ~Returning(w, o)', ~Excused(o)'
        PROVE  LiveBilled(o)'
    <3>1. CASE Returning(w, o)
      BY <2>1, <2>2, <2>4, <3>1, ReturningEnds
    <3>2. CASE Excused(o)
      BY <2>1, <2>2, <2>4, <3>2, ExcuseLasts DEF LiveBilled
    <3>3. CASE ~Returning(w, o) /\ ~Excused(o)
      <4>1. LiveBilled(o)
        BY <3>3 DEF LiveAccounts, OneWorkerOnly
      <4> QED BY <2>1, <2>2, <2>4, <4>1, LiveStaysBilled
    <3> QED BY <3>1, <3>2, <3>3
  <2>5. \A u \in Worker : CartBilled(u)' /\ DeletesNamed(u)'
    BY <2>3 DEF OneWorkerOnly
  <2> QED BY <2>3, <2>4, <2>5 DEF LiveAccounts
<1> QED BY <1>1, <1>2

(* Whatever crashes, rejected calls and redeliveries there are, and in     *)
(* whatever order the topics come: while nothing is being handled or waits *)
(* to be, a live order that got its items has taken exactly their units    *)
(* from the stock, unless a cancel was broken off while it returned them,  *)
(* or a delete was and the database has rejected a call.  A delete that    *)
(* died halfway is handled again, finds the order it names and removes it. *)
THEOREM LiveOrdersStaySettled ==
  ASSUME OneWorkerOnly
  PROVE  OrderSpec => []LiveOrdersSettled
<1>1. AloneInv /\ LiveAccounts => LiveOrdersSettled
  <2> SUFFICES ASSUME AloneInv, LiveAccounts, Quiet, NEW o \in OrderId, NEW p \in ProductId,
                      Live(o), orders[o].items # << >>,
                      <<o, "cancel">> \notin halfway,
                      ~(<<o, "delete">> \in halfway /\ dbErrors > 0)
               PROVE  charged[o][p] = Units(o, p)
    BY DEF LiveOrdersSettled
  <2>1. \A w \in Worker : ~Returning(w, o)
    BY DEF Quiet, Returning, ReturnAwaits
  <2>2. ~Excused(o)
    BY DEF Quiet, Excused, DeletePending
  <2>3. ItemsBilled(o) /\ orders[o] # NoRow /\ Distinct(orders[o].items) /\ OrderInv
    BY <2>1, <2>2 DEF LiveAccounts, LiveBilled, Live, AloneInv, RowLines, SerialInv
  <2> QED BY <2>3, UnitsAreBilled
<1> QED BY <1>1, AloneInitially, AloneStep, LiveAccountsInitially, LiveAccountsStep, PTL
        DEF OrderSpec

-----------------------------------------------------------------------------
(* Without crashes every order can be accounted for at every await: one    *)
(* that no handler is at work on is billed for its items while it is live, *)
(* and has given back what it took when it is not.                         *)

Working(w, o) ==
  /\ mem[w].order = o
  /\ pc[w] \in {"deduct", "saveItems", "findProduct", "returnStock", "saveCancelled",
                "deleteItems", "deleteOrder"}

Closed(o) == IF Live(o) THEN ItemsBilled(o) ELSE GivenBack(o)

(* The units still to return are those of the lines the loop has not been  *)
(* at; the loop of a second cancel returns what is no longer owed.         *)
ReturnBilled(w) ==
  LET o   == mem[w].order
      row == mem[w].row
  IN  /\ pc[w] \in {"findProduct", "returnStock"} =>
           IF row.status = 0 THEN GivenBack(o)
           ELSE Billed(o, row.items, mem[w].next, Len(row.items))
      /\ pc[w] \in {"saveCancelled", "deleteItems", "deleteOrder"} => GivenBack(o)

SerialAccounts ==
  /\ UnissuedUncharged
  /\ \A w \in Worker : CartBilled(w) /\ ReturnBilled(w)
  /\ \A o \in OrderId : (\A w \in Worker : ~Working(w, o)) => Closed(o)

NoFaults == crashes = 0 /\ dbErrors = 0

(* A bill for no lines is for no units.                                    *)
LEMMA NothingBilled ==
  ASSUME NEW o \in OrderId, NEW lines, NEW from \in Int, NEW to \in Int, from > to,
         Billed(o, lines, from, to)
  PROVE  GivenBack(o)
<1>1. \A i \in from..to : FALSE
  OBVIOUS
<1>2. ASSUME NEW p \in ProductId PROVE charged[o][p] <= 0
  <2>1. charged[o][p] = 0
    BY <1>1 DEF Billed
  <2>2. 0 <= 0
    OBVIOUS
  <2> QED BY <2>1, <2>2, Zenon
<1> QED BY <1>2 DEF GivenBack

(* cancelOrder and deleteOrder begin with an order nobody is at work on.   *)
LEMMA FoundIsBilled ==
  ASSUME AloneInv, NEW w \in Worker, CancelFind(w) \/ DeleteFind(w),
         \A o \in OrderId : Closed(o)
  PROVE  ReturnBilled(w)'
<1>1. OrderInv
  BY DEF AloneInv, SerialInv
<1>2. PICK o, row : o = mem'[w].order /\ row = mem'[w].row
  OBVIOUS
<1>3. /\ mem'[w].next = 1 /\ o \in OrderId /\ row = orders[o] /\ orders[o] # NoRow
      /\ UNCHANGED <<orders, charged>>
  <2>1. o \in Matching(msg[w])
    BY <1>1, <1>2, FindEffect
  <2>2. o \in OrderId /\ orders[o] # NoRow
    BY <2>1 DEF Matching
  <2> QED BY <1>1, <1>2, <2>2, FindEffect DEF rows
<1>4. row \in OrderRow /\ row.items \in Seq(Item)
  BY <1>1, <1>3 DEF OrderInv, OrderTypeOK, OrderRow
<1>5. IF row.status = 0 THEN GivenBack(o) ELSE Billed(o, row.items, 1, Len(row.items))
  BY <1>3 DEF Closed, Live, ItemsBilled
<1>6. row.items = << >> => GivenBack(o)
  <2> SUFFICES ASSUME row.items = << >>, row.status # 0 PROVE GivenBack(o)
    BY <1>5
  <2>1. Len(row.items) = 0
    OBVIOUS
  <2> QED BY <1>3, <1>5, <2>1, NothingBilled
<1>7. \/ pc'[w] = "findProduct"
      \/ pc'[w] \in {"saveCancelled", "deleteItems"} /\ (row.status = 0 \/ row.items = << >>)
  <2>1. CASE CancelFind(w)
    <3>1. msg[w].topic = "cancel"
      BY <2>1 DEF CancelFind, FindOrder, Handles
    <3> QED BY <1>1, <1>2, <2>1, <3>1, FindEffect
  <2>2. CASE DeleteFind(w)
    <3>1. msg[w].topic = "delete"
      BY <2>2 DEF DeleteFind, FindOrder, Handles
    <3> QED BY <1>1, <1>2, <2>2, <3>1, FindEffect
  <2> QED BY <2>1, <2>2
<1>8. GivenBack(o) => GivenBack(o)'
  BY <1>3 DEF GivenBack
<1>9. CASE pc'[w] = "findProduct"
  <2>1. IF row.status = 0 THEN GivenBack(o)' ELSE Billed(o, row.items, 1, Len(row.items))'
    BY <1>3, <1>5 DEF GivenBack, Billed
  <2> QED BY <1>2, <1>3, <1>9, <2>1 DEF ReturnBilled, GivenBack, Billed
<1>10. CASE pc'[w] \in {"saveCancelled", "deleteItems"} /\ (row.status = 0 \/ row.items = << >>)
  BY <1>2, <1>5, <1>6, <1>8, <1>10 DEF ReturnBilled, GivenBack
<1> QED BY <1>7, <1>9, <1>10

(* The return loop takes its line off the bill.                            *)
LEMMA LoopStaysBilled ==
  ASSUME AloneInv, NEW w \in Worker, ReturnBilled(w), ReturnSave(w)
  PROVE  ReturnBilled(w)'
<1>1. OrderInv /\ InHand(w)
  BY DEF AloneInv, SerialInv
<1>2. PICK o, row, lines, i :
        o = mem[w].order /\ row = mem[w].row /\ lines = row.items /\ i = mem[w].next
  OBVIOUS
<1>3. /\ pc[w] = "returnStock" /\ pc'[w] = NextReturn(w)
      /\ o \in OrderId /\ i \in 1..Len(lines)
      /\ mem'[w].order = o /\ mem'[w].row = row /\ mem'[w].next = i + 1
      /\ charged' = [charged EXCEPT ![o][lines[i].product] = @ - lines[i].quantity]
  BY <1>1, <1>2, ReturnSaveEffect DEF ReturnLine
<1>4. row = orders[o] /\ row \in OrderRow /\ lines \in Seq(Item) /\ Distinct(lines)
  <2>1. row = orders[o] /\ row \in OrderRow
    BY <1>1, <1>2, <1>3 DEF InHand, OrderInv, HandlersOK, LocalsOK, OrderRead
  <2>2. RowLines(o) /\ orders[o] # NoRow
    BY <1>3, <2>1, NoRowIsNotAnOrder DEF AloneInv
  <2> QED BY <1>2, <2>1, <2>2 DEF RowLines, OrderRow
<1>5. /\ lines[i].product \in ProductId /\ lines[i].quantity \in Nat
      /\ i \in Nat /\ Len(lines) \in Nat
  <2>1. lines[i] \in Item
    BY <1>3, <1>4
  <2> QED BY <1>3, <1>4, <2>1, QuantityPositive DEF Item
<1>6. row.status = 0 => GivenBack(o)'
  <2> SUFFICES ASSUME row.status = 0 PROVE GivenBack(o)'
    OBVIOUS
  <2>1. GivenBack(o) /\ charged \in [OrderId -> [ProductId -> Int]]
    BY <1>1, <1>2, <1>3 DEF ReturnBilled, OrderInv, OrderTypeOK
  <2>2. PICK p, n : p = lines[i].product /\ n = lines[i].quantity
    OBVIOUS
  <2>3. p \in ProductId /\ n \in Nat /\ charged' = [charged EXCEPT ![o][p] = @ - n]
    BY <1>3, <1>5, <2>2
  <2> QED BY <1>3, <2>1, <2>3 DEF GivenBack
<1>7. row.status # 0 => Billed(o, lines, i + 1, Len(lines))'
  <2>1. row.status # 0 => Billed(o, lines, i, Len(lines))
    BY <1>2, <1>3 DEF ReturnBilled
  <2> QED BY <1>1, <1>3, <1>4, <1>5, <2>1, ReturningBills
<1>8. CASE i = Len(lines)
  <2>1. pc'[w] \in {"saveCancelled", "deleteItems"}
    BY <1>2, <1>3, <1>8 DEF NextReturn, AfterReturns
  <2>2. (i + 1)..Len(lines) = {}
    BY <1>5, <1>8
  <2>3. GivenBack(o)'
    BY <1>6, <1>7, <2>2 DEF Billed, GivenBack
  <2> QED BY <1>3, <2>1, <2>3 DEF ReturnBilled, GivenBack
<1>9. CASE i # Len(lines)
  <2>1. pc'[w] = "findProduct"
    BY <1>2, <1>3, <1>9 DEF NextReturn
  <2>2. CASE row.status = 0
    BY <1>3, <1>6, <2>1, <2>2 DEF ReturnBilled, GivenBack
  <2>3. CASE row.status # 0
    <3>1. /\ mem'[w].order = o /\ mem'[w].row = row /\ mem'[w].row.items = lines
          /\ mem'[w].next = i + 1
      BY <1>2, <1>3
    <3>2. Billed(o, lines, i + 1, Len(lines))'
      BY <1>7, <2>3
    <3> QED BY <2>1, <2>3, <3>1, <3>2 DEF ReturnBilled, Billed
  <2> QED BY <2>2, <2>3
<1> QED BY <1>8, <1>9

LEMMA ReturnStaysBilled ==
  ASSUME AloneInv, NEW w \in Worker, ReturnBilled(w), WorkerStep(w),
         \A o \in OrderId : ~Working(w, o) => Closed(o)
  PROVE  ReturnBilled(w)'
<1>1. OrderInv
  BY DEF AloneInv, SerialInv
<1>2. CASE CancelFind(w) \/ DeleteFind(w)
  <2>1. pc[w] = "received"
    BY <1>2 DEF CancelFind, DeleteFind, FindOrder, Handles
  <2>2. \A o \in OrderId : Closed(o)
    BY <2>1 DEF Working
  <2> QED BY <1>2, <2>2, FoundIsBilled
<1>3. CASE ReturnSave(w)
  BY <1>3, LoopStaysBilled
<1>4. CASE ReturnFind(w)
  <2>1. /\ pc[w] = "findProduct" /\ pc'[w] = "returnStock" /\ UNCHANGED charged
        /\ mem'[w].order = mem[w].order /\ mem'[w].row = mem[w].row
        /\ mem'[w].next = mem[w].next
    BY <1>1, <1>4, ReturnFindEffect DEF rows
  <2> QED BY <2>1 DEF ReturnBilled, GivenBack, Billed
<1>5. CASE DeleteItems(w)
  <2>1. /\ pc[w] = "deleteItems" /\ pc'[w] = "deleteOrder" /\ UNCHANGED <<charged, mem>>
    BY <1>5, DeleteItemsEffect DEF AloneInv
  <2> QED BY <2>1 DEF ReturnBilled, GivenBack
<1>6. CASE Receive(w) \/ Commit(w) \/ Crash(w) \/ DbError(w)
  BY <1>1, <1>6, RestEffect DEF ReturnBilled
<1>7. CASE \/ CreateAccept(w) \/ CreateSaveOrder(w) \/ CreateDeduct(w) \/ CreateSaveItems(w)
           \/ UpdateSave(w) \/ CancelSave(w) \/ DeleteOrder(w)
  BY <1>1, <1>7, AcceptEffect, InsertEffect, DeductEffect, SaveItemsEffect,
     UpdateEffect, CancelEffect, DeleteOrderEffect DEF AloneInv, ReturnBilled
<1>8. CASE CreateReject(w) \/ CreateTotalTooLarge(w) \/ OrderNotFound(w)
  BY <1>1, <1>8, RefusalEffect DEF ReturnBilled
<1>9. CASE UpdateFind(w)
  <2>1. pc'[w] = "saveStatus"
    <3>1. msg[w].topic = "update"
      BY <1>9 DEF UpdateFind, FindOrder, Handles
    <3> QED BY <1>1, <1>9, <3>1, FindEffect
  <2> QED BY <2>1 DEF ReturnBilled
<1> QED
  BY <1>2, <1>3, <1>4, <1>5, <1>6, <1>7, <1>8, <1>9, DeductNotRefused, ItemsNotRefused,
     ReturnNotRefused, ReturnNotSkipped
  DEF WorkerStep, HandlerStep, CreateStep, ReturnStep

(* A handler lets go of its order when the order is closed.                *)
LEMMA ReleasedClosed ==
  ASSUME AloneInv, NEW w \in Worker, CartBilled(w), ReturnBilled(w), WorkerStep(w),
         ~Crash(w), ~DbError(w), NEW o \in OrderId, Working(w, o), ~Working(w, o)'
  PROVE  Closed(o)'
<1>1. OrderInv /\ InHand(w) /\ mem[w].order = o
  BY DEF AloneInv, SerialInv, Working
<1>2. CASE CreateSaveItems(w)
  <2>1. /\ pc[w] = "saveItems" /\ UNCHANGED mem
        /\ orders[o] # NoRow /\ orders'[o].status = orders[o].status
    BY <1>1, <1>2, SaveItemsEffect
  <2>2. ItemsBilled(o)'
    <3>1. ItemsBilled(mem[w].order)'
      BY <1>2, SavedItemsAreBilled
    <3> QED BY <1>1, <2>1, <3>1 DEF ItemsBilled, Billed
  <2>3. Live(o)'
    <3>1. orders[o].status = 1
      BY <1>1, <2>1 DEF InHand
    <3>2. orders'[o] # NoRow
      BY <1>1, <1>2, SaveItemsEffect
    <3> QED BY <2>1, <3>1, <3>2 DEF Live
  <2> QED BY <2>2, <2>3 DEF Closed
<1>3. CASE CancelSave(w)
  <2>1. pc[w] = "saveCancelled" /\ UNCHANGED charged /\ orders'[o].status = 0
    BY <1>1, <1>3, CancelEffect DEF AloneInv
  <2>2. GivenBack(o)
    BY <1>1, <2>1 DEF ReturnBilled
  <2> QED BY <2>1, <2>2 DEF Closed, Live, GivenBack
<1>4. CASE DeleteOrder(w)
  <2>1. pc[w] = "deleteOrder" /\ UNCHANGED charged /\ orders'[o] = NoRow
    BY <1>1, <1>4, DeleteOrderEffect DEF AloneInv, OrderInv, OrderTypeOK
  <2>2. GivenBack(o)
    BY <1>1, <2>1 DEF ReturnBilled
  <2> QED BY <2>1, <2>2 DEF Closed, Live, GivenBack
<1>5. CASE CreateDeduct(w) \/ ReturnFind(w) \/ ReturnSave(w) \/ DeleteItems(w)
  <2>1. CASE CreateDeduct(w)
    BY <1>1, <2>1, DeductEffect DEF Working
  <2>2. CASE ReturnFind(w)
    BY <1>1, <2>2, ReturnFindEffect DEF Working
  <2>3. CASE ReturnSave(w)
    BY <1>1, <2>3, ReturnSaveEffect DEF Working, NextReturn, AfterReturns
  <2>4. CASE DeleteItems(w)
    BY <1>1, <2>4, DeleteItemsEffect DEF Working, AloneInv
  <2> QED BY <1>5, <2>1, <2>2, <2>3, <2>4
<1>6. CASE Receive(w) \/ Commit(w)
  BY <1>1, <1>6, RestEffect DEF Working
<1>7. CASE CreateReject(w) \/ CreateTotalTooLarge(w) \/ OrderNotFound(w)
  BY <1>1, <1>7, RefusalEffect DEF Working
<1>8. CASE \/ CreateAccept(w) \/ CreateSaveOrder(w) \/ UpdateSave(w)
           \/ UpdateFind(w) \/ CancelFind(w) \/ DeleteFind(w)
  <2>1. pc[w] \in {"received", "saveOrder", "saveStatus"}
    BY <1>8 DEF CreateAccept, CreateSaveOrder, UpdateSave, UpdateFind, CancelFind, DeleteFind,
                FindOrder, Handles
  <2> QED BY <2>1 DEF Working
<1> QED
  BY <1>2, <1>3, <1>4, <1>5, <1>6, <1>7, <1>8, DeductNotRefused, ItemsNotRefused,
     ReturnNotRefused, ReturnNotSkipped
  DEF WorkerStep, HandlerStep, CreateStep, ReturnStep

(* An order that no handler is at work on before or after a step.          *)
LEMMA IdleStaysClosed ==
  ASSUME AloneInv, NEW w \in Worker, WorkerStep(w), NEW o \in OrderId,
         ~Working(w, o), ~Working(w, o)', Closed(o)
  PROVE  Closed(o)'
<1>1. OrderInv /\ SerialInv
  BY DEF AloneInv, SerialInv
<1>2. CreateSaveOrder(w) => mem'[w].order # o
  BY <1>1, InsertEffect DEF Working
<1>3. \/ mem[w].order # o
      \/ ~ \/ CreateDeduct(w) \/ CreateSaveItems(w) \/ ReturnSave(w)
           \/ CancelSave(w) \/ DeleteItems(w) \/ DeleteOrder(w)
  BY DEF Working, CreateDeduct, CreateSaveItems, ReturnSave, CancelSave, DeleteItems, DeleteOrder
<1>4. SameBill(o)
  BY <1>2, <1>3, BillStays
<1> QED BY <1>4 DEF SameBill, Closed, ItemsBilled, GivenBack, Billed

LEMMA SerialAccountsInitially == OrderInit => SerialAccounts
<1> SUFFICES ASSUME OrderInit PROVE SerialAccounts
  OBVIOUS
<1>1. \A o \in OrderId : ~Live(o) /\ GivenBack(o)
  BY DEF OrderInit, Live, GivenBack
<1> QED BY <1>1 DEF OrderInit, SerialAccounts, UnissuedUncharged, CartBilled, ReturnBilled, Closed

LEMMA SerialAccountsStep ==
  ASSUME OneWorkerOnly
  PROVE  AloneInv /\ (NoFaults => SerialAccounts) /\ [OrderNext]_orderVars
           => (NoFaults' => SerialAccounts')
<1> SUFFICES ASSUME AloneInv, NoFaults => SerialAccounts, [OrderNext]_orderVars, NoFaults'
             PROVE  SerialAccounts'
  OBVIOUS
<1>1. CASE UNCHANGED orderVars
  <2>1. SerialAccounts
    BY <1>1 DEF orderVars, NoFaults, delivery
  <2>2. UnissuedUncharged'
    BY <1>1, <2>1 DEF orderVars, SerialAccounts, UnissuedUncharged
  <2>3. \A u \in Worker : CartBilled(u)' /\ ReturnBilled(u)'
    <3> SUFFICES ASSUME NEW u \in Worker PROVE CartBilled(u)' /\ ReturnBilled(u)'
      OBVIOUS
    <3>1. CartBilled(u)'
      BY <1>1, <2>1 DEF orderVars, SerialAccounts, CartBilled, Billed
    <3>2. ReturnBilled(u)'
      BY <1>1, <2>1 DEF orderVars, SerialAccounts, ReturnBilled, GivenBack, Billed
    <3> QED BY <3>1, <3>2
  <2>4. \A o \in OrderId : (\A u \in Worker : ~Working(u, o)') => Closed(o)'
    BY <1>1, <2>1 DEF orderVars, SerialAccounts, Working, Closed, Live, ItemsBilled, GivenBack, Billed
  <2> QED BY <2>2, <2>3, <2>4 DEF SerialAccounts
<1>2. CASE OrderNext
  <2>1. PICK w \in Worker : WorkerStep(w)
    BY <1>2 DEF OrderNext, WorkerStep
  <2>2. ~Crash(w) /\ ~DbError(w) /\ SerialAccounts
    BY <2>1, FaultsAreCounted DEF NoFaults
  <2>3. UnissuedUncharged /\ CartBilled(w) /\ ReturnBilled(w)
    BY <2>2 DEF SerialAccounts
  <2>4. \A o \in OrderId : ~Working(w, o) => Closed(o)
    BY <2>2 DEF SerialAccounts, OneWorkerOnly
  <2>5. UnissuedUncharged' /\ CartBilled(w)' /\ ReturnBilled(w)'
    BY <2>1, <2>3, <2>4, UnissuedStay, CartStaysBilled, ReturnStaysBilled
  <2>6. ASSUME NEW o \in OrderId, ~Working(w, o)'
        PROVE  Closed(o)'
    BY <2>1, <2>2, <2>3, <2>4, <2>6, ReleasedClosed, IdleStaysClosed
  <2>7. \A u \in Worker : CartBilled(u)' /\ ReturnBilled(u)'
    BY <2>5 DEF OneWorkerOnly
  <2> QED BY <2>5, <2>6, <2>7 DEF SerialAccounts
<1> QED BY <1>1, <1>2

(* As long as nothing has crashed and no call to the database has rejected *)
(* - for nothing undoes what was deducted or returned before - a live order*)
(* has between two requests taken exactly the units of its items from the  *)
(* stock, and a cancelled or deleted one has given back all it took, after *)
(* any sequence of create, update, cancel and delete, whichever order a    *)
(* cancel without an id hits.                                              *)
THEOREM OrdersStaySettled ==
  ASSUME OneWorkerOnly
  PROVE  OrderSpec => [](crashes = 0 /\ dbErrors = 0 => OrdersSettled)
<1>1. AloneInv /\ (NoFaults => SerialAccounts) => (NoFaults => OrdersSettled)
  <2> SUFFICES ASSUME AloneInv, SerialAccounts, Quiet, NEW o \in OrderId, NEW p \in ProductId
               PROVE  IF Live(o) THEN charged[o][p] = Units(o, p) ELSE charged[o][p] <= 0
    BY DEF OrdersSettled
  <2>1. Closed(o)
    BY DEF SerialAccounts, Quiet, Working
  <2>2. CASE Live(o)
    <3>1. ItemsBilled(o) /\ orders[o] # NoRow /\ Distinct(orders[o].items) /\ OrderInv
      BY <2>1, <2>2 DEF Closed, Live, AloneInv, RowLines, SerialInv
    <3> QED BY <2>2, <3>1, UnitsAreBilled
  <2>3. CASE ~Live(o)
    BY <2>1, <2>3 DEF Closed, GivenBack
  <2> QED BY <2>2, <2>3
<1> QED BY <1>1, AloneInitially, AloneStep, SerialAccountsInitially, SerialAccountsStep, PTL
        DEF OrderSpec, NoFaults

-----------------------------------------------------------------------------
(* What is returned twice, and by whom.                                    *)

DeleteSkips(w) ==
  pc[w] \in {"findProduct", "returnStock"} /\ msg[w].topic = "delete" => mem[w].row.status # 0

LEMMA DeleteSkipsStays ==
  ASSUME AloneInv, NEW w \in Worker, DeleteSkips(w), WorkerStep(w)
  PROVE  DeleteSkips(w)'
<1>1. OrderInv
  BY DEF AloneInv, SerialInv
<1>2. CASE UpdateFind(w) \/ CancelFind(w) \/ DeleteFind(w)
  BY <1>1, <1>2, FindEffect DEF DeleteSkips
<1>3. CASE ReturnFind(w) \/ ReturnSave(w)
  BY <1>1, <1>3, ReturnFindEffect, ReturnSaveEffect DEF DeleteSkips
<1>4. CASE Receive(w) \/ Commit(w) \/ Crash(w) \/ DbError(w)
  BY <1>1, <1>4, RestEffect DEF DeleteSkips
<1>5. CASE CreateAccept(w) \/ CreateSaveOrder(w) \/ CreateDeduct(w) \/ CreateSaveItems(w)
  BY <1>1, <1>5, AcceptEffect, InsertEffect, DeductEffect, SaveItemsEffect DEF DeleteSkips
<1>6. CASE UpdateSave(w) \/ CancelSave(w) \/ DeleteItems(w) \/ DeleteOrder(w)
  BY <1>6, UpdateEffect, CancelEffect, DeleteItemsEffect, DeleteOrderEffect
  DEF AloneInv, DeleteSkips
<1>7. CASE CreateReject(w) \/ CreateTotalTooLarge(w) \/ OrderNotFound(w)
  BY <1>1, <1>7, RefusalEffect DEF DeleteSkips
<1> QED
  BY <1>2, <1>3, <1>4, <1>5, <1>6, <1>7, DeductNotRefused, ItemsNotRefused,
     ReturnNotRefused, ReturnNotSkipped
  DEF WorkerStep, HandlerStep, CreateStep, ReturnStep

DeletesSkip == \A w \in Worker : DeleteSkips(w)

LEMMA DeletesSkipStep ==
  ASSUME OneWorkerOnly
  PROVE  AloneInv /\ DeletesSkip /\ [OrderNext]_orderVars => DeletesSkip'
<1> SUFFICES ASSUME AloneInv, DeletesSkip, [OrderNext]_orderVars PROVE DeletesSkip'
  OBVIOUS
<1>1. CASE UNCHANGED orderVars
  BY <1>1 DEF orderVars, DeletesSkip, DeleteSkips
<1>2. CASE OrderNext
  <2>1. PICK w \in Worker : WorkerStep(w)
    BY <1>2 DEF OrderNext, WorkerStep
  <2>2. DeleteSkips(w)'
    BY <2>1, DeleteSkipsStays DEF DeletesSkip
  <2> QED BY <2>2 DEF DeletesSkip, OneWorkerOnly
<1> QED BY <1>1, <1>2

(* A line that is returned for an order that was live when it was read is  *)
(* one the order still owes.                                               *)
LEMMA LiveReturnsOnce ==
  ASSUME AloneInv, NEW w \in Worker, ReturnBilled(w), ReturnSave(w), mem[w].row.status # 0,
         NEW p \in ProductId
  PROVE  charged'[mem[w].order][p] >= charged[mem[w].order][p] \/ charged'[mem[w].order][p] = 0
<1>1. OrderInv /\ charged \in [OrderId -> [ProductId -> Int]]
  BY DEF AloneInv, SerialInv, OrderInv, OrderTypeOK
<1>2. PICK o, lines, i : o = mem[w].order /\ lines = mem[w].row.items /\ i = mem[w].next
  OBVIOUS
<1>3. /\ pc[w] = "returnStock" /\ o \in OrderId /\ i \in 1..Len(lines)
      /\ charged' = [charged EXCEPT ![o][lines[i].product] = @ - lines[i].quantity]
  BY <1>1, <1>2, ReturnSaveEffect DEF ReturnLine
<1>4. lines[i].product \in ProductId /\ lines[i].quantity \in Nat /\ i \in i..Len(lines)
  <2>1. lines[i].product \in ProductId /\ lines[i].quantity \in Nat \ {0}
    BY <1>1, <1>2, <1>3, ReturnLineTyped DEF ReturnLine
  <2> QED BY <1>3, <2>1
<1>5. charged[o][lines[i].product] = lines[i].quantity
  BY <1>2, <1>3, <1>4 DEF ReturnBilled, Billed
<1>6. PICK q, n : q = lines[i].product /\ n = lines[i].quantity
  OBVIOUS
<1>7. charged' = [charged EXCEPT ![o][q] = @ - n] /\ q \in ProductId /\ n \in Nat /\ charged[o][q] = n
  BY <1>3, <1>4, <1>5, <1>6
<1>8. CASE p = q
  <2>1. charged'[o][q] = n - n
    BY <1>1, <1>3, <1>7
  <2>2. n - n = 0
    BY <1>7
  <2> QED BY <1>2, <1>8, <2>1, <2>2
<1>9. CASE p # q
  <2>1. charged'[o][p] = charged[o][p] /\ charged[o][p] \in Int
    BY <1>1, <1>3, <1>7, <1>9
  <2> QED BY <1>2, <2>1
<1> QED BY <1>8, <1>9

(* The double return of a second cancel is the only one there is: without  *)
(* faults no other step of a service that is alone on the tables gives     *)
(* back what an order has not taken.                                       *)
THEOREM OnlyCancelOverReturns ==
  ASSUME OneWorkerOnly
  PROVE  OrderSpec => OnlyCancelReturnsTwice
<1> DEFINE Step ==
      \A o \in OrderId, p \in ProductId :
        /\ crashes = 0 /\ dbErrors = 0
        /\ charged'[o][p] < charged[o][p] /\ charged'[o][p] < 0
        => \E w \in Worker : /\ pc[w] = "returnStock" /\ msg[w].topic = "cancel"
                              /\ mem[w].order = o /\ mem[w].row.status = 0
<1>1. AloneInv /\ (NoFaults => SerialAccounts) /\ DeletesSkip /\ [OrderNext]_orderVars
        => [Step]_orderVars
  <2> SUFFICES ASSUME AloneInv, NoFaults => SerialAccounts, DeletesSkip, OrderNext,
                      NEW o \in OrderId, NEW p \in ProductId, NoFaults,
                      charged'[o][p] < charged[o][p], charged'[o][p] < 0
               PROVE  \E w \in Worker : /\ pc[w] = "returnStock" /\ msg[w].topic = "cancel"
                                        /\ mem[w].order = o /\ mem[w].row.status = 0
    BY DEF NoFaults
  <2>1. PICK w \in Worker : WorkerStep(w)
    BY DEF OrderNext, WorkerStep
  <2>2. OrderInv /\ charged \in [OrderId -> [ProductId -> Int]]
    BY DEF AloneInv, SerialInv, OrderInv, OrderTypeOK
  <2>3. charged[o][p] \in Int /\ ~(charged[o][p] < charged[o][p])
    BY <2>2
  <2>4. mem[w].order = o
    BY <2>1, <2>2, <2>3, OtherAccounts
  <2>5. ~CreateDeduct(w)
    <3> SUFFICES ASSUME CreateDeduct(w) PROVE FALSE
      OBVIOUS
    <3>1. PICK q, n : q = msg[w].cart[mem[w].next].product /\ n = msg[w].cart[mem[w].next].quantity
      OBVIOUS
    <3>2. pc[w] = "deduct" /\ mem[w].next \in Lines(w)
      BY <2>2, DeductEffect DEF Lines
    <3>3. q \in ProductId /\ n \in Nat
      <4>1. pc[w] \in AwaitsOf("create")
        BY <3>2 DEF AwaitsOf
      <4> QED BY <2>2, <3>1, <3>2, <4>1, CreateHandlerTyped
    <3>4. charged' = [charged EXCEPT ![o][q] = @ + n]
      BY <2>2, <2>4, <3>1, DeductEffect
    <3> QED BY <2>2, <3>3, <3>4
  <2>6. ReturnSave(w)
    BY <2>1, <2>3, <2>5, OthersLeaveStock DEF WorkerStep
  <2>7. pc[w] = "returnStock" /\ msg[w].topic \in {"cancel", "delete"}
    BY <2>2, <2>6, ReturnSaveEffect, AwaitTopics
  <2>8. mem[w].row.status = 0
    <3> SUFFICES ASSUME mem[w].row.status # 0 PROVE FALSE
      OBVIOUS
    <3>1. charged'[o][p] >= charged[o][p] \/ charged'[o][p] = 0
      BY <2>4, <2>6, LiveReturnsOnce DEF SerialAccounts
    <3>2. charged'[o][p] \in Int
      BY StepInv DEF AloneInv, SerialInv, OrderInv, OrderTypeOK
    <3> QED BY <2>3, <3>1, <3>2
  <2>9. msg[w].topic = "cancel"
    BY <2>7, <2>8 DEF DeletesSkip, DeleteSkips
  <2> QED BY <2>4, <2>7, <2>8, <2>9
<1>2. OrderInit => DeletesSkip
  BY DEF OrderInit, DeletesSkip, DeleteSkips
<1> QED
  BY <1>1, <1>2, AloneInitially, AloneStep, SerialAccountsInitially, SerialAccountsStep,
     DeletesSkipStep, PTL
  DEF OrderSpec, OnlyCancelReturnsTwice

-----------------------------------------------------------------------------
(* What the ledger keeps: the units on the shelf and in the accounts.      *)

LEMMA Shift ==
  ASSUME NEW x \in Int, NEW y \in Int, NEW d \in Int
  PROVE  x + y \in Int /\ x + (y + d) = (x + y) + d /\ (x + d) + y = (x + y) + d
OBVIOUS

(* A sum changes by as much as its one term that changes.                  *)
LEMMA SumWithChange ==
  ASSUME NEW a \in Seq(Int), NEW b \in Seq(Int), Len(a) = Len(b),
         NEW k \in 1..Len(a), NEW d \in Int, b[k] = a[k] + d,
         \A i \in 1..Len(a) : i # k => b[i] = a[i]
  PROVE  SumOver(a) \in Int /\ SumOver(b) = SumOver(a) + d
<1>1. Len(a) \in Nat /\ k \in Nat /\ \A i \in 1..Len(a) : a[i] \in Int /\ b[i] \in Int
  OBVIOUS
<1>2. PICK f : PartialSums(f, a) /\ SumOver(a) = f[Len(a)]
  BY SumDef
<1>3. PICK g : PartialSums(g, b) /\ SumOver(b) = g[Len(b)]
  BY SumDef
<1> DEFINE S == {n \in 0..Len(a) : f[n] \in Int /\ g[n] = IF n >= k THEN f[n] + d ELSE f[n]}
<1>4. 0 \in S
  BY <1>1, <1>2, <1>3 DEF PartialSums
<1>5. ASSUME NEW n \in 1..Len(a), n - 1 \in S, f[n] = f[n - 1] + a[n]
      PROVE  n \in S
  <2>1. f[n - 1] \in Int /\ g[n - 1] = IF n - 1 >= k THEN f[n - 1] + d ELSE f[n - 1]
    BY <1>5
  <2>2. g[n] = g[n - 1] + b[n]
    <3>1. n \in 0..Len(b) /\ n # 0
      BY <1>1
    <3> QED BY <1>3, <3>1 DEF PartialSums
  <2>3. n \in 0..Len(a) /\ a[n] \in Int
    BY <1>1
  <2>4. f[n] = f[n - 1] + a[n]
    BY <1>5, Zenon
  <2>5. /\ f[n] \in Int /\ d \in Int
        /\ f[n - 1] + (a[n] + d) = f[n] + d
        /\ (f[n - 1] + d) + a[n] = f[n] + d
    <3>1. f[n - 1] \in Int
      BY <2>1
    <3>2. /\ f[n - 1] + a[n] \in Int /\ d \in Int
          /\ f[n - 1] + (a[n] + d) = (f[n - 1] + a[n]) + d
          /\ (f[n - 1] + d) + a[n] = (f[n - 1] + a[n]) + d
      <4> HIDE DEF S
      <4> QED BY <2>3, <3>1, Shift
    <3> QED BY <2>4, <3>2, Zenon
  <2>6. CASE n = k
    <3>1. ~(n - 1 >= k) /\ n >= k
      BY <1>1, <2>6
    <3>2. g[n] = f[n - 1] + (a[n] + d)
      BY <2>1, <2>2, <2>6, <3>1, Zenon
    <3>3. g[n] = f[n] + d
      BY <2>5, <3>2, Zenon
    <3> QED BY <2>3, <2>5, <3>1, <3>3, Zenon
  <2>7. CASE n # k
    <3>1. b[n] = a[n] /\ (n - 1 >= k <=> n >= k)
      BY <1>1, <2>7
    <3>2. CASE n >= k
      <4>1. g[n] = (f[n - 1] + d) + a[n]
        BY <2>1, <2>2, <3>1, <3>2, Zenon
      <4>2. g[n] = f[n] + d
        BY <2>5, <4>1, Zenon
      <4> QED BY <2>3, <2>5, <3>2, <4>2, Zenon
    <3>3. CASE ~(n >= k)
      BY <2>1, <2>2, <2>3, <2>4, <2>5, <3>1, <3>3, Zenon
    <3> QED BY <3>2, <3>3
  <2> QED BY <2>6, <2>7
<1>6. Len(a) \in S
  <2> HIDE DEF S
  <2> QED BY <1>2, <1>4, <1>5, SumInduction
<1> QED BY <1>1, <1>2, <1>3, <1>6

(* Moving d units of p to or from the account of o moves the sum by d.     *)
LEMMA HeldMoves ==
  ASSUME IsFiniteSet(OrderId), NEW CONSTANT ids \in OrderLists, NEW CONSTANT o \in OrderId,
         NEW CONSTANT p \in ProductId, NEW CONSTANT q \in ProductId, NEW CONSTANT d \in Int,
         charged \in [OrderId -> [ProductId -> Int]],
         charged' = [charged EXCEPT ![o][p] = @ + d]
  PROVE  /\ HeldBy(ids, q) \in Int
         /\ q = p => HeldBy(ids, q)' = HeldBy(ids, q) + d
         /\ q # p => HeldBy(ids, q)' = HeldBy(ids, q)
<1> DEFINE N == Cardinality(OrderId)
           a == [k \in 1..N |-> charged[ids[k]][q]]
           b == [k \in 1..N |-> charged'[ids[k]][q]]
           m == IF q = p THEN d ELSE 0
<1>1. N \in Nat
  BY FS_CardinalityType
<1>2. /\ ids \in [1..N -> OrderId]
      /\ \A i, j \in 1..N : ids[i] = ids[j] => i = j
      /\ \E i \in 1..N : ids[i] = o
  BY DEF OrderLists, Bijection, Injection, Surjection, IsInjective
<1>3. PICK k \in 1..N : ids[k] = o
  BY <1>2
<1>4. \A i \in 1..N : /\ charged[ids[i]][q] \in Int
                      /\ charged'[ids[i]][q] =
                           IF i = k THEN charged[ids[i]][q] + m ELSE charged[ids[i]][q]
  <2> TAKE i \in 1..N
  <2>1. ids[i] \in OrderId /\ (ids[i] = o <=> i = k)
    BY <1>2, <1>3
  <2>2. charged[ids[i]][q] \in Int /\ charged[ids[i]][q] + 0 = charged[ids[i]][q]
    BY <2>1
  <2> QED BY <2>1, <2>2
<1>5. a \in Seq(Int) /\ b \in Seq(Int) /\ Len(a) = N /\ Len(b) = N /\ m \in Int
  <2>1. \A i \in 1..N : charged[ids[i]][q] \in Int /\ charged'[ids[i]][q] \in Int
    BY <1>4
  <2> HIDE DEF N
  <2> QED BY <1>1, <2>1
<1>6. b[k] = a[k] + m /\ \A i \in 1..N : i # k => b[i] = a[i]
  BY <1>3, <1>4
<1>7. SumOver(a) \in Int /\ SumOver(b) = SumOver(a) + m
  <2> HIDE DEF a, b, m, N
  <2>1. k \in 1..Len(a) /\ \A i \in 1..Len(a) : i # k => b[i] = a[i]
    BY <1>3, <1>5, <1>6
  <2>2. b[k] = a[k] + m /\ Len(a) = Len(b)
    BY <1>5, <1>6
  <2> QED BY <1>5, <2>1, <2>2, SumWithChange
<1>8. HeldBy(ids, q) = SumOver(a) /\ HeldBy(ids, q)' = SumOver(b)
  BY DEF HeldBy
<1> QED BY <1>7, <1>8

LEMMA LedgerConserves ==
  ASSUME IsFiniteSet(OrderId), OrderInv, Ledger!LedgerNext, NEW ids \in OrderLists,
         NEW q \in ProductId
  PROVE  Shelf'[q] + HeldBy(ids, q)' = Shelf[q] + HeldBy(ids, q)
<1>1. Shelf \in [ProductId -> Nat] /\ charged \in [OrderId -> [ProductId -> Int]]
  BY ShelfTyped DEF OrderInv, OrderTypeOK
<1>2. PICK o \in OrderId, p \in ProductId, n \in Quantity : Ledger!Take(o, p, n) \/ Ledger!Give(o, p, n)
  BY DEF Ledger!LedgerNext
<1>3. PICK d \in Int : /\ Shelf' = [Shelf EXCEPT ![p] = @ - d]
                       /\ charged' = [charged EXCEPT ![o][p] = @ + d]
  <2>1. n \in Int /\ -n \in Int /\ Shelf[p] \in Int /\ charged[o][p] \in Int
    BY <1>1, QuantityPositive
  <2>2. CASE Ledger!Take(o, p, n)
    BY <2>1, <2>2 DEF Ledger!Take, Shelf
  <2>3. CASE Ledger!Give(o, p, n)
    <3>1. Shelf' = [Shelf EXCEPT ![p] = @ + n] /\ charged' = [charged EXCEPT ![o][p] = @ - n]
      BY <2>3 DEF Ledger!Give, Shelf
    <3>2. Shelf[p] + n = Shelf[p] - (-n) /\ charged[o][p] - n = charged[o][p] + (-n)
      BY <2>1
    <3>3. Shelf' = [Shelf EXCEPT ![p] = @ - (-n)] /\ charged' = [charged EXCEPT ![o][p] = @ + (-n)]
      BY <3>1, <3>2
    <3> QED BY <2>1, <3>3
  <2> QED BY <1>2, <2>2, <2>3
<1>4. /\ HeldBy(ids, q) \in Int
      /\ q = p => HeldBy(ids, q)' = HeldBy(ids, q) + d
      /\ q # p => HeldBy(ids, q)' = HeldBy(ids, q)
  <2>1. charged' = [charged EXCEPT ![o][p] = @ + d]
    BY <1>3
  <2>2. charged \in [OrderId -> [ProductId -> Int]]
    BY <1>1
  <2> QED BY <2>1, <2>2, HeldMoves
<1>5. Shelf[q] \in Int /\ Shelf'[q] = IF q = p THEN Shelf[q] - d ELSE Shelf[q]
  BY <1>1, <1>3
<1> QED BY <1>4, <1>5

LEMMA ConservedInitially ==
  ASSUME IsFiniteSet(OrderId)
  PROVE  OrderInit => UnitsConserved
<1> SUFFICES ASSUME OrderInit, NEW ids \in OrderLists, NEW p \in ProductId
             PROVE  StockIn(products, p) + HeldBy(ids, p) = StockIn(products, p)
  BY DEF UnitsConserved, OrderInit
<1> DEFINE N == Cardinality(OrderId)
           a == [k \in 1..N |-> charged[ids[k]][p]]
<1>1. N \in Nat /\ ids \in [1..N -> OrderId]
  BY FS_CardinalityType DEF OrderLists, Bijection, Injection
<1>2. \A k \in 1..N : charged[ids[k]][p] = 0
  BY <1>1 DEF OrderInit
<1>3. a \in Seq(Int) /\ Len(a) = N /\ \A k \in 1..N : a[k] = 0
  <2> HIDE DEF N
  <2> QED BY <1>1, <1>2
<1>4. HeldBy(ids, p) = 0
  <2>1. SumOver(a) = 0
    <3> HIDE DEF a, N
    <3> QED BY <1>3, SumOfNone
  <2> QED BY <2>1 DEF HeldBy
<1>5. StockIn(products, p) \in Nat
  BY InitInv, ShelfTyped DEF Shelf, StockIn
<1> QED BY <1>4, <1>5

LEMMA ConservedStep ==
  ASSUME OneWorkerOnly, IsFiniteSet(OrderId)
  PROVE  SerialInv /\ UnitsConserved /\ [OrderNext]_orderVars => UnitsConserved'
<1> SUFFICES ASSUME SerialInv, UnitsConserved, [OrderNext]_orderVars PROVE UnitsConserved'
  OBVIOUS
<1>1. PICK table \in InitialTables : \A ids \in OrderLists, p \in ProductId :
        StockIn(products, p) + HeldBy(ids, p) = StockIn(table, p)
  BY DEF UnitsConserved
<1>2. ASSUME NEW ids \in OrderLists, NEW p \in ProductId
      PROVE  StockIn(products, p)' + HeldBy(ids, p)' = StockIn(table, p)
  <2>1. Shelf[p] = StockIn(products, p) /\ Shelf'[p] = StockIn(products, p)'
    BY DEF Shelf, StockIn
  <2>2. CASE Ledger!LedgerNext
    <3>1. Shelf'[p] + HeldBy(ids, p)' = Shelf[p] + HeldBy(ids, p)
      BY <2>2, LedgerConserves DEF SerialInv
    <3> QED BY <1>1, <2>1, <3>1
  <2>3. CASE UNCHANGED Ledger!ledgerVars
    <3>1. UNCHANGED Shelf /\ UNCHANGED charged
      BY <2>3 DEF Ledger!ledgerVars, Shelf
    <3>2. HeldBy(ids, p)' = HeldBy(ids, p)
      BY <3>1 DEF HeldBy
    <3> QED BY <1>1, <2>1, <3>1, <3>2
  <2> QED BY <2>2, <2>3, LedgerStep
<1> QED BY <1>2 DEF UnitsConserved, StockIn

(* No unit is lost or made up: the shelf and the accounts of the orders    *)
(* always add up to the stock the shop began with.  It follows from the    *)
(* ledger that the service implements, whatever it is asked to do and      *)
(* wherever it crashes or the database rejects a call.                     *)
THEOREM StockIsConserved ==
  ASSUME OneWorkerOnly, IsFiniteSet(OrderId)
  PROVE  OrderSpec => []UnitsConserved
BY ConservedInitially, ConservedStep, InitSerial, SerialStep, PTL DEF OrderSpec
=============================================================================
