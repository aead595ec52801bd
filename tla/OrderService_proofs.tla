------------------------ MODULE OrderService_proofs ------------------------
(***************************************************************************)
(* Theorems about OrderService, for every set of products, orders, carts   *)
(* and workers and for any number of crashes and database errors.          *)
(***************************************************************************)
EXTENDS OrderService, FiniteSetTheorems, TLAPS

(* The inductive invariant that every other one contains.                  *)
OrderInv == OrderTypeOK /\ HandlersOK

-----------------------------------------------------------------------------
(* What createOrder's count check buys: as many rows as lines means that   *)
(* no product is named twice.                                              *)
LEMMA CountCheck ==
  ASSUME OrderTypeOK,
         NEW m \in CreateMsg,
         Acceptable(m, SnapshotOf(m.cart))
  PROVE  \A i, j \in 1..Len(m.cart) :
           m.cart[i].product = m.cart[j].product => i = j
<1> DEFINE n     == Len(m.cart)
           snap  == SnapshotOf(m.cart)
           found == {p \in ProductId : snap[p] # NoRow}
           f     == [i \in 1..n |-> m.cart[i].product]
<1>1. m.cart \in Seq(CartLine) /\ n \in Nat
  BY CartsAreLines DEF CreateMsg
<1>2. f \in [1..n -> found]
  <2>1. \A i \in 1..n : m.cart[i] \in CartLine
    BY <1>1
  <2>2. \A i \in 1..n : m.cart[i].product \in ProductId
    BY <2>1 DEF CartLine
  <2>3. \A i \in 1..n : snap[m.cart[i].product] # NoRow
    BY DEF Acceptable
  <2> HIDE DEF snap, n
  <2> QED BY <2>2, <2>3
<1>3. \A p \in found : \E i \in 1..n : f[i] = p
  BY <1>1 DEF SnapshotOf
<1>4. f \in Surjection(1..n, found)
  BY <1>2, <1>3 DEF Surjection
<1>5. IsFiniteSet(1..n) /\ Cardinality(1..n) = n
  <2> HIDE DEF n
  <2> QED BY <1>1, FS_Interval
<1>6. Cardinality(found) = n
  BY DEF Acceptable
<1>7. f \in Injection(1..n, found)
  <2> HIDE DEF f, found, n
  <2> QED BY <1>4, <1>5, <1>6, FS_SurjSameCardinalityImpliesInj
<1> QED BY <1>7 DEF Injection, IsInjective

(* A worker's part of the invariant is about that worker's variables only. *)
LEMMA LocalsFrame ==
  ASSUME NEW u \in Worker, LocalsOK(u),
         pc'[u] = pc[u], msg'[u] = msg[u], mem'[u] = mem[u]
  PROVE  LocalsOK(u)'
BY DEF LocalsOK, CartCovered, OrderRead, LoopInside, Lines, ReturnLine

WorkerTyped(u) ==
  IF pc[u] = "idle" THEN msg[u] = Null
  ELSE /\ msg[u] \in Message
       /\ pc[u] \in {"received", "done"} \cup AwaitsOf(msg[u].topic)

LEMMA OneWorkerMoves ==
  ASSUME OrderInv, NEW w \in Worker,
         ProductsTypeOK', StockNonNegative',
         orders' \in [OrderId -> OrderRow \cup {NoRow}],
         issued' \subseteq OrderId,
         charged' \in [OrderId -> [ProductId -> Int]],
         pc' \in [Worker -> Await],
         msg' \in [Worker -> Message \cup {Null}],
         mem' \in [Worker -> Local],
         reply' \in [Worker -> {"ok", "error", Null}],
         again' \subseteq Message, halfway' \subseteq OrderId \X {"cancel", "delete"},
         received' \in Nat, crashes' \in Nat, dbErrors' \in Nat,
         \A u \in Worker \ {w} : pc'[u] = pc[u] /\ msg'[u] = msg[u] /\ mem'[u] = mem[u],
         WorkerTyped(w)', LocalsOK(w)'
  PROVE  OrderInv'
<1>1. \A u \in Worker \ {w} : LocalsOK(u)'
  BY LocalsFrame DEF OrderInv, HandlersOK
<1>2. \A u \in Worker \ {w} : WorkerTyped(u)'
  BY DEF OrderInv, OrderTypeOK, WorkerTyped
<1> QED BY <1>1, <1>2 DEF OrderInv, OrderTypeOK, HandlersOK, WorkerTyped

LEMMA InitInv == OrderInit => OrderInv
<1> SUFFICES ASSUME OrderInit PROVE OrderInv
  OBVIOUS
<1>1. ProductsTypeOK /\ StockNonNegative
  BY TablesAreLegal DEF OrderInit, ProductsTypeOK, StockNonNegative
<1>2. NoLocals \in Local
  BY DEF NoLocals, Local, EmptySnap
<1>3. OrderTypeOK
  <2>1. charged \in [OrderId -> [ProductId -> Int]] /\ issued \subseteq OrderId
    BY DEF OrderInit
  <2>2. orders \in [OrderId -> OrderRow \cup {NoRow}]
    BY DEF OrderInit
  <2>3. mem \in [Worker -> Local]
    BY <1>2 DEF OrderInit
  <2>4. pc \in [Worker -> Await] /\ \A w \in Worker : pc[w] = "idle" /\ msg[w] = Null
    BY DEF OrderInit, Await
  <2>5. msg \in [Worker -> Message \cup {Null}] /\ reply \in [Worker -> {"ok", "error", Null}]
    BY DEF OrderInit
  <2>6. /\ again \subseteq Message /\ halfway \subseteq OrderId \X {"cancel", "delete"}
        /\ received \in Nat /\ crashes \in Nat /\ dbErrors \in Nat
    BY DEF OrderInit
  <2> QED BY <1>1, <2>1, <2>2, <2>3, <2>4, <2>5, <2>6 DEF OrderTypeOK
<1>4. \A w \in Worker : LocalsOK(w)
  BY DEF OrderInit, LocalsOK, NoLocals, EmptySnap
<1> QED BY <1>1, <1>3, <1>4 DEF OrderInv, HandlersOK

-----------------------------------------------------------------------------
(* Steps that leave the tables alone.                                      *)

LEMMA NoLocalsTyped ==
  /\ NoLocals \in Local
  /\ NoLocals.next = 1
  /\ \A p \in ProductId : NoLocals.snap[p] = NoRow
BY DEF NoLocals, Local, EmptySnap

LEMMA AwaitTopics ==
  ASSUME OrderInv, NEW w \in Worker
  PROVE  /\ pc[w] \in {"saveOrder", "deduct", "saveItems"} => msg[w].topic = "create"
         /\ pc[w] = "saveStatus" => msg[w].topic = "update"
         /\ pc[w] \in {"findProduct", "returnStock"} => msg[w].topic \in {"cancel", "delete"}
         /\ pc[w] = "saveCancelled" => msg[w].topic = "cancel"
         /\ pc[w] \in {"deleteItems", "deleteOrder"} => msg[w].topic = "delete"
         /\ pc[w] # "idle" => msg[w].topic \in Topic
<1> SUFFICES ASSUME pc[w] # "idle"
             PROVE  /\ msg[w].topic \in Topic
                    /\ pc[w] \in {"received", "done"} \cup AwaitsOf(msg[w].topic)
  BY DEF AwaitsOf, Topic
<1> QED BY DEF OrderInv, OrderTypeOK, Message, CreateMsg, IdMsg, Topic

LEMMA BreaksOffTyped ==
  ASSUME OrderInv, NEW w \in Worker, BreaksOff(w)
  PROVE  halfway' \subseteq OrderId \X {"cancel", "delete"}
<1>1. halfway \subseteq OrderId \X {"cancel", "delete"}
  BY DEF OrderInv, OrderTypeOK
<1>2. CASE pc[w] \in ReturnAwaits
  <2>1. mem[w].order \in OrderId
    BY <1>2 DEF ReturnAwaits, OrderInv, HandlersOK, LocalsOK, OrderRead
  <2>2. msg[w].topic \in {"cancel", "delete"}
    BY <1>2, AwaitTopics DEF ReturnAwaits
  <2>3. halfway' = halfway \cup {<<mem[w].order, msg[w].topic>>}
    BY <1>2 DEF BreaksOff
  <2> QED BY <1>1, <2>1, <2>2, <2>3
<1>3. CASE pc[w] \notin ReturnAwaits
  BY <1>1, <1>3 DEF BreaksOff
<1> QED BY <1>2, <1>3

LEMMA ReceiveInv ==
  ASSUME OrderInv, NEW w \in Worker, Receive(w)
  PROVE  OrderInv'
<1>1. PICK m \in Message : Begin(w, m)
  BY DEF Receive, NewRequest, Redeliver, OrderInv, OrderTypeOK
<1>2. again' \subseteq Message /\ received' \in Nat
  BY DEF Receive, NewRequest, Redeliver, OrderInv, OrderTypeOK
<1>3. WorkerTyped(w)'
  BY <1>1 DEF Begin, Goto, OrderInv, OrderTypeOK, WorkerTyped
<1>4. LocalsOK(w)'
  BY <1>1 DEF Begin, Goto, OrderInv, OrderTypeOK, HandlersOK, LocalsOK
<1>5. ProductsTypeOK' /\ StockNonNegative'
  BY <1>1 DEF Begin, rows, OrderInv, OrderTypeOK, HandlersOK, ProductsTypeOK, StockNonNegative
<1>6. pc' \in [Worker -> Await] /\ msg' \in [Worker -> Message \cup {Null}]
  BY <1>1 DEF Begin, Goto, OrderInv, OrderTypeOK, Await
<1> QED
  BY <1>1, <1>2, <1>3, <1>4, <1>5, <1>6, OneWorkerMoves
  DEF Begin, Goto, rows, OrderInv, OrderTypeOK

LEMMA CommitInv ==
  ASSUME OrderInv, NEW w \in Worker, Commit(w)
  PROVE  OrderInv'
<1>1. LocalsOK(w)' /\ WorkerTyped(w)'
  BY NoLocalsTyped
  DEF Commit, Goto, OrderInv, OrderTypeOK, LocalsOK, WorkerTyped
<1>2. ProductsTypeOK' /\ StockNonNegative'
  BY DEF Commit, rows, OrderInv, OrderTypeOK, HandlersOK, ProductsTypeOK, StockNonNegative
<1>3. /\ pc' \in [Worker -> Await] /\ msg' \in [Worker -> Message \cup {Null}]
      /\ mem' \in [Worker -> Local]
      /\ reply' \in [Worker -> {"ok", "error", Null}]
  BY NoLocalsTyped DEF Commit, Goto, OrderInv, OrderTypeOK, Await
<1> QED
  BY <1>1, <1>2, <1>3, OneWorkerMoves
  DEF Commit, Goto, rows, delivery, OrderInv, OrderTypeOK

LEMMA CrashInv ==
  ASSUME OrderInv, NEW w \in Worker, Crash(w)
  PROVE  OrderInv'
<1>1. LocalsOK(w)' /\ WorkerTyped(w)'
  BY NoLocalsTyped DEF Crash, Goto, OrderInv, OrderTypeOK, LocalsOK, WorkerTyped
<1>2. ProductsTypeOK' /\ StockNonNegative'
  BY DEF Crash, rows, OrderInv, OrderTypeOK, HandlersOK, ProductsTypeOK, StockNonNegative
<1>3. /\ pc' \in [Worker -> Await] /\ msg' \in [Worker -> Message \cup {Null}]
      /\ mem' \in [Worker -> Local]
      /\ reply' \in [Worker -> {"ok", "error", Null}]
  BY NoLocalsTyped DEF Crash, Goto, OrderInv, OrderTypeOK, Await
<1>4. again' \subseteq Message
  BY DEF Crash, OrderInv, OrderTypeOK
<1>5. halfway' \subseteq OrderId \X {"cancel", "delete"}
  BY BreaksOffTyped DEF Crash
<1> QED
  BY <1>1, <1>2, <1>3, <1>4, <1>5, OneWorkerMoves
  DEF Crash, Goto, rows, OrderInv, OrderTypeOK

(* A handler that ends without touching its locals leaves a good state if  *)
(* the tables are good.                                                    *)
LEMMA HandlerEnds ==
  ASSUME OrderInv, NEW w \in Worker, pc[w] # "idle",
         NEW answer \in {"ok", "error"},
         pc' = [pc EXCEPT ![w] = "done"],
         reply' = [reply EXCEPT ![w] = answer],
         UNCHANGED <<msg, mem, again, received, crashes>>, dbErrors' \in Nat,
         halfway' \subseteq OrderId \X {"cancel", "delete"},
         ProductsTypeOK', StockNonNegative',
         orders' \in [OrderId -> OrderRow \cup {NoRow}],
         issued' \subseteq OrderId,
         charged' \in [OrderId -> [ProductId -> Int]]
  PROVE  OrderInv'
<1>1. LocalsOK(w)'
  BY DEF OrderInv, OrderTypeOK, HandlersOK, LocalsOK
<1>2. WorkerTyped(w)'
  BY DEF OrderInv, OrderTypeOK, WorkerTyped
<1>3. pc' \in [Worker -> Await] /\ reply' \in [Worker -> {"ok", "error", Null}]
  BY DEF OrderInv, OrderTypeOK, Await
<1> QED
  BY <1>1, <1>2, <1>3, OneWorkerMoves DEF OrderInv, OrderTypeOK

LEMMA TablesUnchanged ==
  ASSUME OrderInv, UNCHANGED rows
  PROVE  /\ ProductsTypeOK' /\ StockNonNegative'
         /\ orders' \in [OrderId -> OrderRow \cup {NoRow}]
         /\ issued' \subseteq OrderId
         /\ charged' \in [OrderId -> [ProductId -> Int]]
BY DEF rows, OrderInv, OrderTypeOK, HandlersOK, ProductsTypeOK, StockNonNegative

LEMMA RefusalsInv ==
  ASSUME OrderInv, NEW w \in Worker,
         \/ CreateReject(w) \/ CreateTotalTooLarge(w) \/ CreateDeductRefused(w)
         \/ CreateItemsRefused(w) \/ OrderNotFound(w) \/ ReturnRefused(w) \/ DbError(w)
  PROVE  OrderInv'
<1>0. halfway' \subseteq OrderId \X {"cancel", "delete"}
  <2>1. CASE DbError(w)
    BY <2>1, BreaksOffTyped DEF DbError
  <2>2. CASE ~DbError(w)
    BY <2>2
    DEF CreateReject, CreateTotalTooLarge, CreateDeductRefused, CreateItemsRefused,
        OrderNotFound, ReturnRefused, Finish, delivery, OrderInv, OrderTypeOK
  <2> QED BY <2>1, <2>2
<1>1. UNCHANGED rows /\ UNCHANGED <<msg, mem, again, received, crashes>> /\ dbErrors' \in Nat
  BY DEF CreateReject, CreateTotalTooLarge, CreateDeductRefused, CreateItemsRefused,
         OrderNotFound, ReturnRefused, DbError, Finish, delivery, OrderInv, OrderTypeOK
<1>2. /\ pc[w] # "idle"
      /\ pc' = [pc EXCEPT ![w] = "done"]
      /\ reply' = [reply EXCEPT ![w] = "error"]
  BY DEF CreateReject, CreateTotalTooLarge, CreateDeductRefused, CreateItemsRefused,
         OrderNotFound, ReturnRefused, DbError, Finish, Goto, Handles
<1> QED
  BY <1>0, <1>1, <1>2, TablesUnchanged, HandlerEnds

-----------------------------------------------------------------------------
(* order.create.                                                           *)

LEMMA CreateHandlerTyped ==
  ASSUME OrderInv, NEW w \in Worker, Handles(w, "create") \/ pc[w] \in AwaitsOf("create")
  PROVE  /\ msg[w] \in CreateMsg /\ msg[w].topic = "create"
         /\ msg[w].cart \in Seq(CartLine)
         /\ \A i \in Lines(w) : /\ msg[w].cart[i] \in CartLine
                                /\ msg[w].cart[i].product \in ProductId
                                /\ msg[w].cart[i].quantity \in Nat \ {0}
<1>1. msg[w] \in Message /\ msg[w].topic = "create"
  BY DEF OrderInv, OrderTypeOK, Handles, AwaitsOf, Message, CreateMsg, IdMsg
<1>2. msg[w] \in CreateMsg
  BY <1>1 DEF Message, CreateMsg, IdMsg
<1>3. msg[w].cart \in Seq(CartLine)
  BY <1>2, CartsAreLines DEF CreateMsg
<1>4. \A i \in Lines(w) : msg[w].cart[i] \in CartLine
  BY <1>3 DEF Lines
<1> QED
  BY <1>1, <1>2, <1>3, <1>4, QuantityPositive DEF CartLine

LEMMA LoadTyped ==
  ASSUME OrderInv
  PROVE  \A p \in ProductId :
           /\ LoadProduct(p) \in Entity \cup {NoRow}
           /\ LoadProduct(p) = NoRow <=> products[p] = NoRow
           /\ products[p] # NoRow =>
                /\ LoadProduct(p) \in Entity
                /\ LoadProduct(p).stock = products[p].stock
                /\ LoadProduct(p).stock >= 0
<1> TAKE p \in ProductId
<1>1. products[p] # NoRow => products[p] \in ProductRow
  BY DEF OrderInv, OrderTypeOK, ProductsTypeOK
<1>2. products[p] # NoRow => LoadProduct(p) \in Entity
  BY <1>1 DEF LoadProduct, Columns, Entity, ProductRow
<1>3. NoRow \notin Entity
  BY NoRowIsNoRow
<1> QED
  BY <1>2, <1>3
  DEF LoadProduct, Columns, OrderInv, HandlersOK, StockNonNegative

LEMMA CreateAcceptInv ==
  ASSUME OrderInv, NEW w \in Worker, CreateAccept(w)
  PROVE  OrderInv'
<1> DEFINE cart == msg[w].cart
           snap == SnapshotOf(cart)
<1>1. /\ Handles(w, "create") /\ Acceptable(msg[w], snap)
      /\ mem' = [mem EXCEPT ![w].snap = snap]
      /\ pc' = [pc EXCEPT ![w] = "saveOrder"]
      /\ UNCHANGED <<msg, reply, delivery>> /\ UNCHANGED rows
  BY DEF CreateAccept, Continue, Goto
<1>2. msg[w] \in CreateMsg /\ cart \in Seq(CartLine)
  BY <1>1, CreateHandlerTyped
<1>3. /\ snap \in [ProductId -> Entity \cup {NoRow}]
      /\ \A p \in ProductId : snap[p] # NoRow => snap[p].stock >= 0
  BY LoadTyped DEF SnapshotOf
<1>4. \A i, j \in 1..Len(cart) : cart[i].product = cart[j].product => i = j
  BY <1>1, <1>2, CountCheck DEF OrderInv
<1>5. mem[w] \in Local /\ mem'[w] = [mem[w] EXCEPT !.snap = snap]
  BY <1>1 DEF OrderInv, OrderTypeOK
<1>6. mem'[w] \in Local /\ mem'[w].snap = snap /\ mem'[w].next = 1
  <2>1. mem[w].next = 1
    BY <1>1 DEF OrderInv, HandlersOK, LocalsOK, Handles
  <2> HIDE DEF snap
  <2> QED BY <1>3, <1>5, <2>1 DEF Local
<1>7. CartCovered(w)'
  <2>1. msg[w].user \in User
    BY <1>1, <1>2 DEF Acceptable, CreateMsg
  <2>2. Len(cart) \in Nat /\ Len(cart) # 0
    BY <1>1, <1>2 DEF Acceptable
  <2>3. \A i \in 1..Len(cart) : snap[cart[i].product] # NoRow
                                /\ snap[cart[i].product].stock >= cart[i].quantity
    BY <1>1 DEF Acceptable
  <2> HIDE DEF snap
  <2>4. /\ msg'[w] = msg[w] /\ mem'[w].snap = snap /\ mem'[w].next = 1
        /\ 1 \in 1..Len(cart)
    BY <1>1, <1>6, <2>2
  <2> HIDE DEF cart
  <2>5. /\ msg'[w].user \in User /\ msg'[w].cart = cart
        /\ mem'[w].next \in 1..Len(cart)
        /\ \A i \in 1..Len(cart) : i >= mem'[w].next =>
             mem'[w].snap[cart[i].product].stock >= cart[i].quantity
    <3> USE DEF cart
    <3> QED BY <2>1, <2>3, <2>4
  <2> QED BY <1>4, <2>3, <2>4, <2>5 DEF CartCovered, Lines
<1>8. LocalsOK(w)'
  <2>1. pc'[w] = "saveOrder"
    BY <1>1 DEF OrderInv, OrderTypeOK
  <2> HIDE DEF snap
  <2> QED BY <1>3, <1>6, <1>7, <2>1 DEF LocalsOK
<1>9. WorkerTyped(w)'
  BY <1>1, <1>2 DEF WorkerTyped, AwaitsOf, Message, CreateMsg, OrderInv, OrderTypeOK
<1>10. mem' \in [Worker -> Local] /\ pc' \in [Worker -> Await]
  <2> HIDE DEF snap
  <2> QED BY <1>1, <1>5, <1>6 DEF OrderInv, OrderTypeOK, Await
<1> HIDE DEF snap
<1> QED
  BY <1>1, <1>8, <1>9, <1>10, TablesUnchanged, OneWorkerMoves
  DEF delivery, OrderInv, OrderTypeOK

LEMMA CreateSaveOrderInv ==
  ASSUME OrderInv, NEW w \in Worker, CreateSaveOrder(w)
  PROVE  OrderInv'
<1> DEFINE total == CartTotal(msg[w].cart, mem[w].snap)
<1>1. PICK o \in OrderId \ issued :
        /\ orders' = [orders EXCEPT ![o] =
             [status |-> 1, total |-> total, user |-> msg[w].user, items |-> << >>]]
        /\ issued' = issued \cup {o}
        /\ mem' = [mem EXCEPT ![w].order = o]
  BY DEF CreateSaveOrder
<1>2. /\ pc[w] = "saveOrder" /\ total \in 0..MaxAmount
      /\ pc' = [pc EXCEPT ![w] = "deduct"]
      /\ UNCHANGED <<msg, reply, delivery, products, charged>>
  BY DEF CreateSaveOrder, Continue, Goto
<1>3. CartCovered(w) /\ LocalsOK(w)
  BY <1>2 DEF OrderInv, HandlersOK, LocalsOK
<1>4. orders' \in [OrderId -> OrderRow \cup {NoRow}]
  <2>1. msg[w].user \in User
    BY <1>3 DEF CartCovered
  <2>2. << >> \in Seq(Item)
    OBVIOUS
  <2> HIDE DEF total
  <2>3. [status |-> 1, total |-> total, user |-> msg[w].user, items |-> << >>] \in OrderRow
    BY <1>2, <2>1, <2>2 DEF OrderRow
  <2> QED BY <1>1, <2>3 DEF OrderInv, OrderTypeOK
<1>5. mem[w] \in Local /\ mem'[w] = [mem[w] EXCEPT !.order = o]
  BY <1>1 DEF OrderInv, OrderTypeOK
<1>6. /\ mem'[w] \in Local /\ mem'[w].order = o
      /\ mem'[w].snap = mem[w].snap /\ mem'[w].next = mem[w].next
  BY <1>5 DEF Local
<1>7. pc'[w] = "deduct" /\ msg'[w] = msg[w]
  BY <1>2 DEF OrderInv, OrderTypeOK
<1>8. CartCovered(w)'
  BY <1>2, <1>3, <1>6, <1>7 DEF CartCovered, Lines
<1>9. LocalsOK(w)'
  BY <1>3, <1>6, <1>7, <1>8 DEF LocalsOK
<1>10. WorkerTyped(w)'
  BY <1>2, <1>7, CreateHandlerTyped DEF WorkerTyped, AwaitsOf, Message
<1>11. mem' \in [Worker -> Local] /\ pc' \in [Worker -> Await]
  BY <1>1, <1>2, <1>5, <1>6 DEF OrderInv, OrderTypeOK, Await
<1>12. ProductsTypeOK' /\ StockNonNegative'
  BY <1>2 DEF OrderInv, OrderTypeOK, HandlersOK, ProductsTypeOK, StockNonNegative
<1> QED
  BY <1>1, <1>2, <1>4, <1>9, <1>10, <1>11, <1>12, OneWorkerMoves
  DEF delivery, OrderInv, OrderTypeOK

LEMMA SaveTyped ==
  ASSUME OrderInv, NEW p \in ProductId, NEW e \in Entity, e.stock >= 0,
         SaveProduct(p, e)
  PROVE  ProductsTypeOK' /\ StockNonNegative'
<1>1. products \in [ProductId -> ProductRow \cup {NoRow}]
  BY DEF OrderInv, OrderTypeOK, ProductsTypeOK
<1>2. products' = [products EXCEPT ![p] = SavedProduct(p, e)]
  BY DEF SaveProduct
<1>3. SavedProduct(p, e) \in ProductRow
  <2>1. products[p] # NoRow => products[p].labels \in [Kind -> LabelId \cup {NoRow}]
    BY <1>1 DEF ProductRow
  <2> QED BY <2>1 DEF SavedProduct, Entity, ProductRow
<1>4. SavedProduct(p, e).stock = e.stock
  BY DEF SavedProduct
<1>5. ProductsTypeOK'
  BY <1>1, <1>2, <1>3 DEF ProductsTypeOK
<1>6. StockNonNegative'
  BY <1>1, <1>2, <1>4 DEF StockNonNegative, OrderInv, HandlersOK
<1> QED BY <1>5, <1>6

LEMMA CreateDeductInv ==
  ASSUME OrderInv, NEW w \in Worker, CreateDeduct(w)
  PROVE  OrderInv'
<1> DEFINE cart == msg[w].cart
           i == mem[w].next
           line == cart[i]
           p == line.product
           snap == mem[w].snap
           e == Deducted(w)
           target == IF i = Len(cart) THEN "saveItems" ELSE "deduct"
<1>1. /\ pc[w] = "deduct"
      /\ SaveProduct(p, e)
      /\ charged' = [charged EXCEPT ![mem[w].order][p] = @ + line.quantity]
      /\ mem' = [mem EXCEPT ![w].snap[p] = e, ![w].next = i + 1]
      /\ pc' = [pc EXCEPT ![w] = target]
      /\ UNCHANGED <<msg, reply, delivery, orders, issued>>
  BY DEF CreateDeduct, Continue, Goto
<1>2. CartCovered(w) /\ LocalsOK(w) /\ mem[w].order \in OrderId
  BY <1>1 DEF OrderInv, HandlersOK, LocalsOK
<1>3. /\ msg[w] \in CreateMsg /\ msg[w].topic = "create"
      /\ Len(cart) \in Nat
      /\ \A j \in 1..Len(cart) : /\ cart[j].product \in ProductId
                                 /\ cart[j].quantity \in Nat \ {0}
  <2>1. pc[w] \in AwaitsOf("create")
    BY <1>1 DEF AwaitsOf
  <2> QED BY <2>1, CreateHandlerTyped DEF Lines
<1>4. /\ msg[w].user \in User
      /\ i \in 1..Len(cart)
      /\ \A j, k \in 1..Len(cart) : cart[j].product = cart[k].product => j = k
      /\ \A j \in 1..Len(cart) : snap[cart[j].product] # NoRow
      /\ \A j \in 1..Len(cart) : j >= i => snap[cart[j].product].stock >= cart[j].quantity
  BY <1>1, <1>2 DEF CartCovered, Lines
<1>5. mem[w] \in Local /\ snap \in [ProductId -> Entity \cup {NoRow}] /\ i \in Nat
  BY DEF OrderInv, OrderTypeOK, Local
<1>6. p \in ProductId /\ line.quantity \in Nat \ {0} /\ snap[p] \in Entity
      /\ snap[p].stock >= line.quantity
  <2>1. p \in ProductId /\ line.quantity \in Nat \ {0}
    BY <1>3, <1>4
  <2>2. snap[p] # NoRow /\ snap[p].stock >= line.quantity
    <3> HIDE DEF cart, snap, i
    <3> QED BY <1>4, <1>5
  <2> HIDE DEF cart, snap, i
  <2> QED BY <1>5, <2>1, <2>2
<1>7. e = [snap[p] EXCEPT !.stock = @ - line.quantity]
  BY DEF Deducted
<1>8. e \in Entity /\ e.stock >= 0 /\ e # NoRow
  <2>1. e \in Entity /\ e.stock = snap[p].stock - line.quantity
    <3> HIDE DEF e, line, snap, p
    <3> QED BY <1>6, <1>7 DEF Entity
  <2>2. snap[p].stock \in Int
    BY <1>6 DEF Entity
  <2> HIDE DEF e, line, snap
  <2> QED BY <1>6, <2>1, <2>2, NoRowIsNoRow
<1> HIDE DEF e
<1>9. ProductsTypeOK' /\ StockNonNegative'
  BY <1>1, <1>6, <1>8, SaveTyped
<1>10. /\ mem'[w] = [mem[w] EXCEPT !.snap[p] = e, !.next = i + 1]
       /\ pc'[w] = target /\ msg'[w] = msg[w]
  BY <1>1 DEF OrderInv, OrderTypeOK
<1>11. /\ mem'[w].snap = [snap EXCEPT ![p] = e]
       /\ mem'[w].next = i + 1
       /\ mem'[w].order = mem[w].order
       /\ mem'[w].row = mem[w].row
       /\ mem'[w] \in Local
  <2>1. [snap EXCEPT ![p] = e] \in [ProductId -> Entity \cup {NoRow}]
    BY <1>5, <1>8
  <2>2. mem'[w] = [mem[w] EXCEPT !.snap = [snap EXCEPT ![p] = e], !.next = i + 1]
    BY <1>10
  <2>3. i + 1 \in Nat \ {0}
    BY <1>5
  <2> HIDE DEF p, snap, i
  <2> QED BY <1>5, <2>1, <2>2, <2>3 DEF Local
<1>12. \A j \in 1..Len(cart) :
          /\ mem'[w].snap[cart[j].product] # NoRow
          /\ j # i => mem'[w].snap[cart[j].product] = snap[cart[j].product]
  <2> HIDE DEF snap, cart, i
  <2> QED BY <1>3, <1>4, <1>5, <1>8, <1>11
<1>13. CartCovered(w)'
  <2>1. target # "saveItems" => i + 1 \in 1..Len(cart)
    BY <1>3, <1>4
  <2>2. \A j \in 1..Len(cart) : j >= i + 1 =>
          mem'[w].snap[cart[j].product].stock >= cart[j].quantity
    <3> HIDE DEF snap, cart, i
    <3> QED BY <1>3, <1>4, <1>5, <1>12
  <2> HIDE DEF target
  <2> QED BY <1>4, <1>10, <1>11, <1>12, <2>1, <2>2 DEF CartCovered, Lines
<1>14. \A q \in ProductId : mem'[w].snap[q] # NoRow => mem'[w].snap[q].stock >= 0
  <2>1. \A q \in ProductId : snap[q] # NoRow => snap[q].stock >= 0
    BY <1>2 DEF LocalsOK
  <2> HIDE DEF snap
  <2> QED BY <1>5, <1>8, <1>11, <2>1
<1>15. LocalsOK(w)'
  BY <1>2, <1>10, <1>11, <1>13, <1>14 DEF LocalsOK
<1>16. WorkerTyped(w)'
  BY <1>3, <1>10 DEF WorkerTyped, AwaitsOf, Message
<1>17. /\ mem' \in [Worker -> Local] /\ pc' \in [Worker -> Await]
       /\ charged' \in [OrderId -> [ProductId -> Int]]
       /\ \A u \in Worker \ {w} : pc'[u] = pc[u] /\ mem'[u] = mem[u]
  <2>1. pc' \in [Worker -> Await] /\ \A u \in Worker \ {w} : pc'[u] = pc[u]
    BY <1>1 DEF OrderInv, OrderTypeOK, Await
  <2>2. mem' \in [Worker -> Local] /\ \A u \in Worker \ {w} : mem'[u] = mem[u]
    BY <1>1, <1>11 DEF OrderInv, OrderTypeOK
  <2>3. charged' \in [OrderId -> [ProductId -> Int]]
    <3> HIDE DEF p, line
    <3> QED BY <1>1, <1>2, <1>6 DEF OrderInv, OrderTypeOK
  <2> QED BY <2>1, <2>2, <2>3
<1> QED
  BY <1>1, <1>9, <1>15, <1>16, <1>17, OneWorkerMoves
  DEF delivery, OrderInv, OrderTypeOK

LEMMA SavedItemsTyped ==
  ASSUME OrderInv, NEW w \in Worker, CreateSaveItems(w)
  PROVE  PricedItems(msg[w].cart, mem[w].snap) \in Seq(Item)
<1> DEFINE cart == msg[w].cart
           snap == mem[w].snap
           items == PricedItems(cart, snap)
<1>1. pc[w] = "saveItems" /\ ItemsStorable(w)
  BY DEF CreateSaveItems
<1>2. CartCovered(w)
  BY <1>1 DEF OrderInv, HandlersOK, LocalsOK
<1>3. /\ Len(cart) \in Nat
      /\ \A j \in 1..Len(cart) : /\ cart[j].product \in ProductId
                                 /\ cart[j].quantity \in Quantity
  <2>1. pc[w] \in AwaitsOf("create")
    BY <1>1 DEF AwaitsOf
  <2> QED BY <2>1, CreateHandlerTyped DEF Lines, CartLine
<1>4. snap \in [ProductId -> Entity \cup {NoRow}]
  BY DEF OrderInv, OrderTypeOK, Local
<1>5. \A j \in 1..Len(cart) : snap[cart[j].product] \in Entity
  BY <1>2, <1>3, <1>4 DEF CartCovered, Lines
<1>6. \A j \in 1..Len(cart) : items[j] \in Item
  <2> TAKE j \in 1..Len(cart)
  <2>1. snap[cart[j].product].price \in Nat
    BY <1>5 DEF Entity
  <2>2. items[j].total \in 0..MaxAmount
    BY <1>1 DEF ItemsStorable
  <2>3. items[j] = [product |-> cart[j].product, quantity |-> cart[j].quantity,
                    price |-> snap[cart[j].product].price, total |-> items[j].total]
    BY DEF PricedItems
  <2> HIDE DEF items, snap, cart
  <2> QED BY <1>3, <2>1, <2>2, <2>3 DEF Item
<1>7. items = [j \in 1..Len(cart) |-> items[j]]
  BY DEF PricedItems
<1>8. items \in Seq(Item)
  <2> HIDE DEF items, cart
  <2> QED BY <1>3, <1>6, <1>7
<1> QED BY <1>8

LEMMA CreateSaveItemsInv ==
  ASSUME OrderInv, NEW w \in Worker, CreateSaveItems(w)
  PROVE  OrderInv'
<1> DEFINE items == PricedItems(msg[w].cart, mem[w].snap)
<1>1. /\ pc[w] = "saveItems" /\ ItemsStorable(w)
      /\ orders' = [orders EXCEPT ![mem[w].order].items = items]
      /\ pc' = [pc EXCEPT ![w] = "done"] /\ reply' = [reply EXCEPT ![w] = "ok"]
      /\ UNCHANGED <<msg, delivery, products, issued, charged, mem>>
  BY DEF CreateSaveItems, Finish, Goto
<1>2. mem[w].order \in OrderId
  BY <1>1 DEF OrderInv, HandlersOK, LocalsOK
<1>3. items \in Seq(Item)
  BY SavedItemsTyped
<1> HIDE DEF items
<1>4. orders' \in [OrderId -> OrderRow \cup {NoRow}]
  <2>1. orders[mem[w].order] \in OrderRow
    BY <1>1, <1>2 DEF ItemsStorable, OrderInv, OrderTypeOK
  <2>2. [orders[mem[w].order] EXCEPT !.items = items] \in OrderRow
    BY <1>3, <2>1 DEF OrderRow
  <2> QED BY <1>1, <2>2 DEF OrderInv, OrderTypeOK
<1>5. ProductsTypeOK' /\ StockNonNegative'
  BY <1>1 DEF OrderInv, OrderTypeOK, HandlersOK, ProductsTypeOK, StockNonNegative
<1> QED
  BY <1>1, <1>4, <1>5, HandlerEnds DEF delivery, OrderInv, OrderTypeOK

-----------------------------------------------------------------------------
(* order.update, order.cancel and order.delete.                            *)

LEMMA IdHandlerTyped ==
  ASSUME OrderInv, NEW w \in Worker, pc[w] # "idle", msg[w].topic # "create"
  PROVE  msg[w] \in IdMsg /\ msg[w].topic \in {"update", "cancel", "delete"}
BY DEF OrderInv, OrderTypeOK, Message, CreateMsg, IdMsg

LEMMA FindInv ==
  ASSUME OrderInv, NEW w \in Worker, UpdateFind(w) \/ CancelFind(w) \/ DeleteFind(w)
  PROVE  OrderInv'
<1> DEFINE topic == msg[w].topic
<1>1. PICK o \in Matching(msg[w]), target \in AwaitsOf(topic) :
        /\ pc[w] = "received" /\ topic \in {"update", "cancel", "delete"}
        /\ mem' = [mem EXCEPT ![w].order = o, ![w].row = orders[o]]
        /\ pc' = [pc EXCEPT ![w] = target]
        /\ target # "returnStock"
        /\ target = "findProduct" => orders[o].items # << >>
        /\ UNCHANGED <<msg, reply, delivery>> /\ UNCHANGED rows
  <2>1. CASE UpdateFind(w)
    BY <2>1 DEF UpdateFind, FindOrder, Handles, Continue, Goto, AwaitsOf
  <2>2. CASE CancelFind(w)
    BY <2>2 DEF CancelFind, FindOrder, Handles, Continue, Goto, AwaitsOf
  <2>3. CASE DeleteFind(w)
    BY <2>3 DEF DeleteFind, FindOrder, Handles, Continue, Goto, AwaitsOf
  <2> QED BY <2>1, <2>2, <2>3
<1>2. o \in OrderId /\ orders[o] \in OrderRow
  BY <1>1 DEF Matching, OrderInv, OrderTypeOK
<1>3. mem[w] \in Local /\ mem'[w] = [mem[w] EXCEPT !.order = o, !.row = orders[o]]
  BY <1>1 DEF OrderInv, OrderTypeOK
<1>4. /\ mem'[w] \in Local /\ mem'[w].order = o /\ mem'[w].row = orders[o]
      /\ mem'[w].snap = mem[w].snap /\ mem'[w].next = mem[w].next
  BY <1>2, <1>3 DEF Local
<1>5. pc'[w] = target /\ msg'[w] = msg[w]
  BY <1>1 DEF OrderInv, OrderTypeOK
<1>6. target \in {"saveStatus", "findProduct", "saveCancelled", "deleteItems", "deleteOrder"}
  BY <1>1 DEF AwaitsOf
<1>7. mem[w].next = 1
  BY <1>1 DEF OrderInv, HandlersOK, LocalsOK
<1>8. target = "findProduct" => LoopInside(w)'
  <2> SUFFICES ASSUME target = "findProduct" PROVE LoopInside(w)'
    OBVIOUS
  <2>1. orders[o].items \in Seq(Item) /\ orders[o].items # << >>
    BY <1>1, <1>2 DEF OrderRow
  <2>2. 1 \in 1..Len(orders[o].items)
    BY <2>1
  <2> QED BY <1>4, <1>5, <1>7, <2>2 DEF LoopInside
<1>9. LocalsOK(w)'
  <2>1. OrderRead(w)'
    BY <1>2, <1>4 DEF OrderRead
  <2>2. \A p \in ProductId : mem'[w].snap[p] # NoRow => mem'[w].snap[p].stock >= 0
    BY <1>4 DEF OrderInv, HandlersOK, LocalsOK
  <2> QED BY <1>5, <1>6, <1>8, <2>1, <2>2 DEF LocalsOK
<1>10. WorkerTyped(w)'
  <2>1. msg[w] \in Message
    BY <1>1 DEF OrderInv, OrderTypeOK
  <2> QED BY <1>1, <1>5, <1>6, <2>1 DEF WorkerTyped
<1>11. mem' \in [Worker -> Local] /\ pc' \in [Worker -> Await]
  BY <1>1, <1>3, <1>4, <1>6 DEF OrderInv, OrderTypeOK, Await
<1>12. \A u \in Worker \ {w} : pc'[u] = pc[u] /\ msg'[u] = msg[u] /\ mem'[u] = mem[u]
  BY <1>1 DEF OrderInv, OrderTypeOK
<1> QED
  BY <1>1, <1>9, <1>10, <1>11, <1>12, TablesUnchanged, OneWorkerMoves
  DEF delivery, OrderInv, OrderTypeOK

LEMMA RowsTyped ==
  ASSUME OrderInv, NEW w \in Worker, OrderRead(w), NEW row \in OrderRow \cup {NoRow},
         WriteOrder(w, row)
  PROVE  /\ ProductsTypeOK' /\ StockNonNegative'
         /\ orders' \in [OrderId -> OrderRow \cup {NoRow}]
         /\ issued' \subseteq OrderId
         /\ charged' \in [OrderId -> [ProductId -> Int]]
         /\ UNCHANGED mem
BY DEF WriteOrder, OrderInv, OrderTypeOK, HandlersOK, OrderRead, ProductsTypeOK,
       StockNonNegative

LEMMA WritesInv ==
  ASSUME OrderInv, NEW w \in Worker, UpdateSave(w) \/ CancelSave(w) \/ DeleteOrder(w)
  PROVE  OrderInv'
<1>1. OrderRead(w)
  BY DEF UpdateSave, CancelSave, DeleteOrder, OrderInv, HandlersOK, LocalsOK
<1>2. PICK row \in OrderRow \cup {NoRow} : WriteOrder(w, row) /\ Finish(w, "ok")
  <2>1. CASE UpdateSave(w)
    <3> DEFINE current == orders[mem[w].order]
               items == IF current = NoRow THEN << >> ELSE current.items
               new == [mem[w].row EXCEPT !.status = NextStatus(@), !.items = items]
    <3>1. current \in OrderRow \cup {NoRow} /\ mem[w].row \in OrderRow
      BY <1>1 DEF OrderRead, OrderInv, OrderTypeOK
    <3>2. << >> \in Seq(Item)
      OBVIOUS
    <3>3. items \in Seq(Item)
      <4> HIDE DEF current
      <4> QED BY <3>1, <3>2 DEF OrderRow
    <3>4. NextStatus(mem[w].row.status) \in 0..3
      BY <3>1 DEF OrderRow, NextStatus
    <3>5. new \in OrderRow
      <4> HIDE DEF items
      <4> QED BY <3>1, <3>3, <3>4 DEF OrderRow
    <3>6. WriteOrder(w, new) /\ Finish(w, "ok")
      BY <2>1 DEF UpdateSave
    <3> HIDE DEF new
    <3> QED BY <3>5, <3>6
  <2>2. CASE CancelSave(w)
    <3>1. [mem[w].row EXCEPT !.status = 0] \in OrderRow
      BY <1>1 DEF OrderRead, OrderRow
    <3> QED BY <2>2, <3>1 DEF CancelSave
  <2>3. CASE DeleteOrder(w)
    BY <2>3 DEF DeleteOrder
  <2> QED BY <2>1, <2>2, <2>3
<1>3. pc[w] # "idle"
  BY DEF UpdateSave, CancelSave, DeleteOrder
<1> QED
  BY <1>1, <1>2, <1>3, RowsTyped, HandlerEnds
  DEF Finish, Goto, delivery, OrderInv, OrderTypeOK

LEMMA DeleteItemsInv ==
  ASSUME OrderInv, NEW w \in Worker, DeleteItems(w)
  PROVE  OrderInv'
<1> DEFINE o == mem[w].order
<1>1. /\ pc[w] = "deleteItems"
      /\ orders' = IF orders[o] = NoRow THEN orders ELSE [orders EXCEPT ![o].items = << >>]
      /\ pc' = [pc EXCEPT ![w] = "deleteOrder"]
      /\ UNCHANGED <<msg, reply, delivery, products, issued, charged, mem>>
  BY DEF DeleteItems, Continue, Goto
<1>2. LocalsOK(w) /\ OrderRead(w) /\ o \in OrderId
  BY <1>1 DEF OrderInv, HandlersOK, LocalsOK, OrderRead
<1>3. orders' \in [OrderId -> OrderRow \cup {NoRow}]
  <2>1. << >> \in Seq(Item)
    OBVIOUS
  <2>2. orders[o] # NoRow => [orders[o] EXCEPT !.items = << >>] \in OrderRow
    BY <1>2, <2>1 DEF OrderRow, OrderInv, OrderTypeOK
  <2> HIDE DEF o
  <2> QED BY <1>1, <1>2, <2>2 DEF OrderInv, OrderTypeOK
<1>4. pc'[w] = "deleteOrder" /\ msg'[w] = msg[w] /\ mem'[w] = mem[w]
  BY <1>1 DEF OrderInv, OrderTypeOK
<1>5. LocalsOK(w)'
  BY <1>2, <1>4 DEF LocalsOK, OrderRead
<1>6. WorkerTyped(w)'
  <2>1. msg[w] \in Message /\ "deleteItems" \in AwaitsOf(msg[w].topic)
    BY <1>1 DEF OrderInv, OrderTypeOK
  <2>2. msg[w].topic = "delete"
    BY <2>1 DEF Message, CreateMsg, IdMsg, AwaitsOf
  <2> QED BY <1>4, <2>1, <2>2 DEF WorkerTyped, AwaitsOf
<1>7. ProductsTypeOK' /\ StockNonNegative'
  BY <1>1 DEF OrderInv, OrderTypeOK, HandlersOK, ProductsTypeOK, StockNonNegative
<1>8. pc' \in [Worker -> Await] /\ \A u \in Worker \ {w} : pc'[u] = pc[u]
  BY <1>1 DEF OrderInv, OrderTypeOK, Await
<1> QED
  BY <1>1, <1>3, <1>5, <1>6, <1>7, <1>8, OneWorkerMoves
  DEF delivery, OrderInv, OrderTypeOK

(* The two ways the return loop moves on to the next line.                 *)
LEMMA NextLine ==
  ASSUME NEW l \in Local
  PROVE  /\ [l EXCEPT !.next = @ + 1] \in Local
         /\ [l EXCEPT !.next = @ + 1].next = l.next + 1
         /\ [l EXCEPT !.next = @ + 1].snap = l.snap
         /\ [l EXCEPT !.next = @ + 1].row = l.row
         /\ [l EXCEPT !.next = @ + 1].order = l.order
BY DEF Local

LEMMA NextLineForgets ==
  ASSUME NEW l \in Local
  PROVE  /\ [l EXCEPT !.snap = EmptySnap, !.next = @ + 1] \in Local
         /\ [l EXCEPT !.snap = EmptySnap, !.next = @ + 1].next = l.next + 1
         /\ [l EXCEPT !.snap = EmptySnap, !.next = @ + 1].snap = EmptySnap
         /\ [l EXCEPT !.snap = EmptySnap, !.next = @ + 1].row = l.row
         /\ [l EXCEPT !.snap = EmptySnap, !.next = @ + 1].order = l.order
<1>1. EmptySnap \in [ProductId -> Entity \cup {NoRow}]
  BY DEF EmptySnap
<1> DEFINE k == l.next + 1
<1>2. k \in Nat \ {0}
  BY DEF Local
<1> HIDE DEF k
<1>3. /\ [l EXCEPT !.snap = EmptySnap, !.next = k] \in Local
      /\ [l EXCEPT !.snap = EmptySnap, !.next = k].next = k
      /\ [l EXCEPT !.snap = EmptySnap, !.next = k].snap = EmptySnap
      /\ [l EXCEPT !.snap = EmptySnap, !.next = k].row = l.row
      /\ [l EXCEPT !.snap = EmptySnap, !.next = k].order = l.order
  BY <1>1, <1>2 DEF Local
<1> QED BY <1>3 DEF k

(* Going on with the return loop, at its next line or after it.            *)
LEMMA LoopGoesOn ==
  ASSUME OrderInv, NEW w \in Worker, pc[w] \in {"findProduct", "returnStock"},
         NEW l \in Local, l.next = mem[w].next + 1,
         l.row = mem[w].row, l.order = mem[w].order,
         \A p \in ProductId : l.snap[p] # NoRow => l.snap[p].stock >= 0,
         mem' = [mem EXCEPT ![w] = l],
         pc' = [pc EXCEPT ![w] = NextReturn(w)],
         UNCHANGED <<msg, reply, delivery>>,
         ProductsTypeOK', StockNonNegative',
         orders' \in [OrderId -> OrderRow \cup {NoRow}],
         issued' \subseteq OrderId,
         charged' \in [OrderId -> [ProductId -> Int]]
  PROVE  OrderInv'
<1> DEFINE n == Len(mem[w].row.items)
<1>1. /\ LocalsOK(w) /\ OrderRead(w)
      /\ mem[w].next \in 1..n /\ mem[w] \in Local /\ n \in Nat
  BY DEF OrderInv, OrderTypeOK, HandlersOK, LocalsOK, LoopInside, OrderRead, OrderRow
<1>3. mem'[w] = l
  BY DEF OrderInv, OrderTypeOK
<1>4. pc'[w] = NextReturn(w) /\ msg'[w] = msg[w]
  BY DEF OrderInv, OrderTypeOK
<1>5. msg[w] \in Message /\ msg[w].topic \in {"cancel", "delete"}
  <2>1. msg[w] \in Message /\ pc[w] \in AwaitsOf(msg[w].topic)
    BY DEF OrderInv, OrderTypeOK
  <2>2. msg[w].topic \in Topic
    BY <2>1 DEF Message, CreateMsg, IdMsg, Topic
  <2> QED BY <2>1, <2>2 DEF AwaitsOf, Topic
<1>6. NextReturn(w) \in {"findProduct", "saveCancelled", "deleteItems"}
      /\ NextReturn(w) \in AwaitsOf(msg[w].topic)
  BY <1>5 DEF NextReturn, AfterReturns, AwaitsOf
<1>7. NextReturn(w) = "findProduct" => LoopInside(w)'
  <2> SUFFICES ASSUME NextReturn(w) = "findProduct" PROVE LoopInside(w)'
    OBVIOUS
  <2>1. mem[w].next # n
    BY DEF NextReturn, AfterReturns
  <2>2. mem[w].next + 1 \in 1..n
    BY <1>1, <2>1
  <2> QED BY <1>3, <1>4, <2>2 DEF LoopInside
<1>8. LocalsOK(w)'
  <2>1. OrderRead(w)'
    BY <1>1, <1>3 DEF OrderRead
  <2> QED BY <1>3, <1>4, <1>6, <1>7, <2>1 DEF LocalsOK
<1>9. WorkerTyped(w)'
  BY <1>4, <1>5, <1>6 DEF WorkerTyped
<1>10. mem' \in [Worker -> Local] /\ \A u \in Worker \ {w} : mem'[u] = mem[u]
  BY <1>3 DEF OrderInv, OrderTypeOK
<1>11. pc' \in [Worker -> Await] /\ \A u \in Worker \ {w} : pc'[u] = pc[u]
  BY <1>6 DEF OrderInv, OrderTypeOK, Await
<1> QED
  BY <1>8, <1>9, <1>10, <1>11, OneWorkerMoves DEF delivery, OrderInv, OrderTypeOK

LEMMA ReturnLineTyped ==
  ASSUME OrderInv, NEW w \in Worker, pc[w] \in {"findProduct", "returnStock"}
  PROVE  /\ ReturnLine(w).product \in ProductId
         /\ ReturnLine(w).quantity \in Nat \ {0}
         /\ mem[w].order \in OrderId /\ mem[w].row \in OrderRow
         /\ mem[w] \in Local
<1>1. OrderRead(w) /\ mem[w].next \in 1..Len(mem[w].row.items) /\ mem[w] \in Local
  BY DEF OrderInv, OrderTypeOK, HandlersOK, LocalsOK, LoopInside
<1>2. mem[w].row.items \in Seq(Item)
  BY <1>1 DEF OrderRead, OrderRow
<1>3. ReturnLine(w) \in Item
  BY <1>1, <1>2 DEF ReturnLine
<1> QED BY <1>1, <1>3, QuantityPositive DEF Item, OrderRead

LEMMA ReturnFindInv ==
  ASSUME OrderInv, NEW w \in Worker, ReturnFind(w)
  PROVE  OrderInv'
<1> DEFINE p == ReturnLine(w).product
           snap == [mem[w].snap EXCEPT ![p] = LoadProduct(p)]
<1>1. /\ pc[w] = "findProduct" /\ products[p] # NoRow
      /\ mem' = [mem EXCEPT ![w].snap[p] = LoadProduct(p)]
      /\ pc' = [pc EXCEPT ![w] = "returnStock"]
      /\ UNCHANGED <<msg, reply, delivery>> /\ UNCHANGED rows
  BY DEF ReturnFind, Continue, Goto
<1>2. /\ p \in ProductId /\ mem[w] \in Local
      /\ mem[w].order \in OrderId /\ mem[w].row \in OrderRow
  BY <1>1, ReturnLineTyped
<1>3. LoadProduct(p) \in Entity /\ LoadProduct(p) # NoRow /\ LoadProduct(p).stock >= 0
  BY <1>1, <1>2, LoadTyped
<1>4. mem[w].snap \in [ProductId -> Entity \cup {NoRow}]
  BY <1>2 DEF Local
<1>5. mem'[w] = [mem[w] EXCEPT !.snap = snap]
  BY <1>1 DEF OrderInv, OrderTypeOK
<1>6. snap \in [ProductId -> Entity \cup {NoRow}] /\ snap[p] = LoadProduct(p)
  <2> HIDE DEF p
  <2> QED BY <1>2, <1>3, <1>4
<1>7. LocalsOK(w) /\ LoopInside(w)
  BY <1>1 DEF OrderInv, HandlersOK, LocalsOK
<1>8. \A q \in ProductId : snap[q] # NoRow => snap[q].stock >= 0
  <2> HIDE DEF p
  <2> QED BY <1>2, <1>3, <1>4, <1>7 DEF LocalsOK
<1> HIDE DEF snap
<1>9. /\ mem'[w] \in Local /\ mem'[w].snap = snap /\ mem'[w].next = mem[w].next
      /\ mem'[w].row = mem[w].row /\ mem'[w].order = mem[w].order
  BY <1>2, <1>5, <1>6 DEF Local
<1>10. pc'[w] = "returnStock" /\ msg'[w] = msg[w]
  BY <1>1 DEF OrderInv, OrderTypeOK
<1>11. LoopInside(w)'
  <2>1. ReturnLine(w)' = ReturnLine(w)
    BY <1>9 DEF ReturnLine
  <2> QED BY <1>3, <1>6, <1>7, <1>9, <2>1 DEF LoopInside
<1>12. LocalsOK(w)'
  BY <1>2, <1>8, <1>9, <1>10, <1>11 DEF LocalsOK, OrderRead
<1>13. WorkerTyped(w)'
  <2>1. msg[w] \in Message /\ pc[w] \in AwaitsOf(msg[w].topic) /\ msg[w].topic \in Topic
    BY <1>1 DEF OrderInv, OrderTypeOK, Message, CreateMsg, IdMsg, Topic
  <2>2. msg[w].topic \in {"cancel", "delete"}
    BY <1>1, <2>1 DEF AwaitsOf, Topic
  <2> QED BY <1>10, <2>1, <2>2 DEF WorkerTyped, AwaitsOf
<1>14. mem' \in [Worker -> Local] /\ pc' \in [Worker -> Await]
  BY <1>1, <1>9 DEF OrderInv, OrderTypeOK, Await
<1>15. \A u \in Worker \ {w} : pc'[u] = pc[u] /\ mem'[u] = mem[u]
  BY <1>1 DEF OrderInv, OrderTypeOK
<1> QED
  BY <1>1, <1>12, <1>13, <1>14, <1>15, TablesUnchanged, OneWorkerMoves
  DEF delivery, OrderInv, OrderTypeOK

LEMMA ReturnSkipInv ==
  ASSUME OrderInv, NEW w \in Worker, ReturnSkip(w)
  PROVE  OrderInv'
<1> DEFINE l == [mem[w] EXCEPT !.next = @ + 1]
<1>1. /\ pc[w] = "findProduct"
      /\ mem' = [mem EXCEPT ![w] = l]
      /\ pc' = [pc EXCEPT ![w] = NextReturn(w)]
      /\ UNCHANGED <<msg, reply, delivery>> /\ UNCHANGED rows
  BY DEF ReturnSkip, Continue, Goto
<1>2. mem[w] \in Local /\ LocalsOK(w)
  BY <1>1 DEF OrderInv, OrderTypeOK, HandlersOK
<1>3. /\ l \in Local /\ l.next = mem[w].next + 1 /\ l.snap = mem[w].snap
      /\ l.row = mem[w].row /\ l.order = mem[w].order
  BY <1>2, NextLine
<1>4. \A p \in ProductId : l.snap[p] # NoRow => l.snap[p].stock >= 0
  BY <1>2, <1>3 DEF LocalsOK
<1> HIDE DEF l
<1> QED BY <1>1, <1>3, <1>4, TablesUnchanged, LoopGoesOn

LEMMA ReturnSaveInv ==
  ASSUME OrderInv, NEW w \in Worker, ReturnSave(w)
  PROVE  OrderInv'
<1> DEFINE p == ReturnLine(w).product
           q == ReturnLine(w).quantity
           e == Returned(w)
           l == [mem[w] EXCEPT !.snap = EmptySnap, !.next = @ + 1]
<1>1. /\ pc[w] = "returnStock"
      /\ SaveProduct(p, e)
      /\ charged' = [charged EXCEPT ![mem[w].order][p] = @ - q]
      /\ mem' = [mem EXCEPT ![w] = l]
      /\ pc' = [pc EXCEPT ![w] = NextReturn(w)]
      /\ UNCHANGED <<msg, reply, delivery, orders, issued>>
  BY DEF ReturnSave, Continue, Goto
<1>2. p \in ProductId /\ q \in Nat \ {0} /\ mem[w].order \in OrderId /\ mem[w] \in Local
  BY <1>1, ReturnLineTyped
<1>3. mem[w].snap[p] \in Entity /\ mem[w].snap[p].stock >= 0
  BY <1>1, <1>2 DEF OrderInv, HandlersOK, LocalsOK, LoopInside, Local
<1>4. e = [mem[w].snap[p] EXCEPT !.stock = @ + q]
  BY DEF Returned
<1>5. e \in Entity /\ e.stock >= 0
  <2> HIDE DEF p, q, e
  <2>1. mem[w].snap[p].stock \in Int
    BY <1>3 DEF Entity
  <2>2. e \in Entity /\ e.stock = mem[w].snap[p].stock + q
    BY <1>2, <1>3, <1>4 DEF Entity
  <2> QED BY <1>2, <1>3, <2>1, <2>2
<1> HIDE DEF e
<1>6. ProductsTypeOK' /\ StockNonNegative'
  BY <1>1, <1>2, <1>5, SaveTyped
<1>7. charged' \in [OrderId -> [ProductId -> Int]]
  <2> HIDE DEF p, q
  <2> QED BY <1>1, <1>2 DEF OrderInv, OrderTypeOK
<1>8. /\ l \in Local /\ l.next = mem[w].next + 1 /\ l.snap = EmptySnap
      /\ l.row = mem[w].row /\ l.order = mem[w].order
  BY <1>2, NextLineForgets
<1>9. \A r \in ProductId : EmptySnap[r] = NoRow
  BY DEF EmptySnap
<1> HIDE DEF l
<1> QED
  BY <1>1, <1>6, <1>7, <1>8, <1>9, LoopGoesOn DEF OrderInv, OrderTypeOK

-----------------------------------------------------------------------------
LEMMA StepInv == OrderInv /\ [OrderNext]_orderVars => OrderInv'
<1> SUFFICES ASSUME OrderInv, [OrderNext]_orderVars PROVE OrderInv'
  OBVIOUS
<1>1. CASE UNCHANGED orderVars
  <2>1. \A w \in Worker : LocalsOK(w)'
    BY <1>1, LocalsFrame DEF orderVars, OrderInv, HandlersOK
  <2>2. OrderTypeOK'
    BY <1>1 DEF orderVars, OrderInv, OrderTypeOK, ProductsTypeOK
  <2> QED BY <1>1, <2>1, <2>2 DEF orderVars, OrderInv, HandlersOK, StockNonNegative
<1>2. CASE OrderNext
  <2>1. PICK w \in Worker : Receive(w) \/ HandlerStep(w) \/ Crash(w) \/ DbError(w)
    BY <1>2 DEF OrderNext
  <2> QED
    BY <2>1, ReceiveInv, CommitInv, CrashInv, RefusalsInv, CreateAcceptInv,
       CreateSaveOrderInv, CreateDeductInv, CreateSaveItemsInv, FindInv, WritesInv,
       DeleteItemsInv, ReturnFindInv, ReturnSkipInv, ReturnSaveInv
    DEF HandlerStep, CreateStep, ReturnStep
<1> QED BY <1>1, <1>2

(* Whatever somebody else makes of the table, the handlers' part of the    *)
(* invariant is about their own variables.                                 *)
LEMMA TableInv ==
  ASSUME OrderInv, UNCHANGED ordersOnly, ProductsTypeOK', StockNonNegative'
  PROVE  OrderInv'
<1>1. \A w \in Worker : LocalsOK(w)'
  BY LocalsFrame DEF ordersOnly, OrderInv, HandlersOK
<1>2. OrderTypeOK'
  BY DEF ordersOnly, OrderInv, OrderTypeOK
<1> QED BY <1>1, <1>2 DEF OrderInv, HandlersOK

(* Saves and removals by products-service, at any await.                   *)
LEMMA CatalogInv ==
  ASSUME OrderInv, CatalogSave \/ CatalogRemove
  PROVE  OrderInv'
<1>1. UNCHANGED ordersOnly
  BY DEF CatalogSave, CatalogRemove
<1>2. ProductsTypeOK' /\ StockNonNegative'
  <2>1. CASE CatalogSave
    <3>1. PICK p \in ProductId, e \in OtherSaves : SaveProduct(p, e)
      BY <2>1 DEF CatalogSave, OtherSave
    <3> QED BY <3>1, OtherSavesAreLegal, SaveTyped
  <2>2. CASE CatalogRemove
    <3>1. PICK p \in ProductId : products' = [products EXCEPT ![p] = NoRow]
      BY <2>2 DEF CatalogRemove, OtherRemove
    <3> QED
      BY <3>1 DEF OrderInv, OrderTypeOK, HandlersOK, ProductsTypeOK, StockNonNegative
  <2> QED BY <2>1, <2>2
<1> QED BY <1>1, <1>2, TableInv

LEMMA OpenStepInv == OrderInv /\ [OpenOrderNext]_orderVars => OrderInv'
BY StepInv, CatalogInv DEF OpenOrderNext

(* Type correctness of the service, for any number of workers, crashes and *)
(* rejected database calls, and beside a products-service that saves and   *)
(* removes products at any await: in particular a handler never deducts a  *)
(* product it has not read and never walks past the end of an order's      *)
(* items.                                                                  *)
THEOREM OrderTypeCorrect == OpenOrderSpec => []OrderTypeOK
<1>1. OrderInv => OrderTypeOK
  BY DEF OrderInv
<1> QED BY <1>1, InitInv, OpenStepInv, PTL DEF OpenOrderSpec

(* The stock of a product is never negative, and every handler's locals    *)
(* stay what its next write relies on, however the handlers of any number  *)
(* of workers interleave, wherever they crash, and whatever legal stock    *)
(* products-service writes in between (createOrder checks a snapshot and   *)
(* writes it back line by line, cancel and delete add to a row they have   *)
(* just read).  A unit may still be sold twice: two creates that write     *)
(* back the same read leave a stock that is not negative.                  *)
THEOREM StockNeverNegative == OpenOrderSpec => []HandlersOK
<1>1. OrderInv => HandlersOK
  BY DEF OrderInv
<1> QED BY <1>1, InitInv, OpenStepInv, PTL DEF OpenOrderSpec

-----------------------------------------------------------------------------
(* What a step writes to `products`.                                       *)

(* A deduction saves an entity with the units that were read, less some.   *)
LEMMA DeductSaves ==
  ASSUME OrderInv, NEW w \in Worker, CreateDeduct(w)
  PROVE  \E p \in ProductId, e \in Entity : SaveProduct(p, e)
<1> DEFINE line == msg[w].cart[mem[w].next]
           p == line.product
           e == Deducted(w)
<1>1. pc[w] = "deduct" /\ SaveProduct(p, e)
  BY DEF CreateDeduct
<1>2. /\ mem[w].next \in Lines(w)
      /\ \A i \in Lines(w) : mem[w].snap[msg[w].cart[i].product] # NoRow
  BY <1>1 DEF OrderInv, HandlersOK, LocalsOK, CartCovered
<1>3. p \in ProductId /\ line.quantity \in Nat
  <2>1. pc[w] \in AwaitsOf("create")
    BY <1>1 DEF AwaitsOf
  <2> QED BY <1>2, <2>1, CreateHandlerTyped
<1>4. mem[w].snap[p] \in Entity
  BY <1>2, <1>3 DEF OrderInv, OrderTypeOK, Local
<1>5. e = [mem[w].snap[p] EXCEPT !.stock = @ - line.quantity]
  BY DEF Deducted
<1>6. e \in Entity
  <2> HIDE DEF p, e, line
  <2> QED BY <1>3, <1>4, <1>5 DEF Entity
<1> QED BY <1>1, <1>3, <1>6

(* A return saves an entity with the units that were read, and some more.  *)
LEMMA ReturnSaves ==
  ASSUME OrderInv, NEW w \in Worker, ReturnSave(w)
  PROVE  \E p \in ProductId, e \in Entity : SaveProduct(p, e)
<1> DEFINE p == ReturnLine(w).product
           q == ReturnLine(w).quantity
           e == Returned(w)
<1>1. pc[w] = "returnStock" /\ SaveProduct(p, e)
  BY DEF ReturnSave
<1>2. p \in ProductId /\ q \in Nat /\ mem[w] \in Local
  BY <1>1, ReturnLineTyped
<1>3. mem[w].snap[p] \in Entity
  BY <1>1, <1>2 DEF OrderInv, HandlersOK, LocalsOK, LoopInside, Local
<1>4. e = [mem[w].snap[p] EXCEPT !.stock = @ + q]
  BY DEF Returned
<1>5. e \in Entity
  <2> HIDE DEF p, e, q
  <2> QED BY <1>2, <1>3, <1>4 DEF Entity
<1> QED BY <1>1, <1>2, <1>5

(* The other steps leave the stock and the accounts of the orders alone.   *)
LEMMA OthersLeaveStock ==
  ASSUME NEW w \in Worker, Receive(w) \/ HandlerStep(w) \/ Crash(w) \/ DbError(w),
         ~CreateDeduct(w), ~ReturnSave(w)
  PROVE  UNCHANGED <<products, charged>>
BY DEF HandlerStep, CreateStep, ReturnStep, rows,
       Receive, NewRequest, Redeliver, Begin, Commit, Crash, DbError, CreateReject, CreateAccept, CreateSaveOrder,
       CreateTotalTooLarge, CreateDeductRefused, CreateSaveItems, CreateItemsRefused,
       OrderNotFound, UpdateFind, CancelFind, DeleteFind, FindOrder, UpdateSave,
       CancelSave, DeleteOrder, WriteOrder, DeleteItems, ReturnFind, ReturnSkip,
       ReturnRefused

-----------------------------------------------------------------------------
(* TotalMatchesItems.  An order has one total for good: T[o] is what its   *)
(* row says, what every handler that has read the row says, and what the   *)
(* cart comes to that its createOrder is working on.                       *)
RowAwaits == {"saveStatus", "findProduct", "returnStock", "saveCancelled",
              "deleteItems", "deleteOrder"}

RowTotal(o, T) ==
  orders[o] # NoRow => /\ o \in issued /\ orders[o].total = T[o]
                       /\ SumsUp(T[o], orders[o].items)

WorkerTotal(w, T) ==
  LET o == mem[w].order
  IN  /\ pc[w] \in RowAwaits =>
           o \in issued /\ mem[w].row.total = T[o] /\ SumsUp(T[o], mem[w].row.items)
      /\ pc[w] \in {"deduct", "saveItems"} =>
           o \in issued /\ CartTotal(msg[w].cart, mem[w].snap) = T[o]

TotalsAre(T) ==
  /\ \A o \in OrderId : RowTotal(o, T)
  /\ \A w \in Worker : WorkerTotal(w, T)

OneTotal == \E T \in [OrderId -> Nat] : TotalsAre(T)

(* A step that changes no total: what it writes has the order's total, and *)
(* so has what its worker holds afterwards.                                *)
LEMMA TotalsKept ==
  ASSUME OrderInv, NEW CONSTANT T \in [OrderId -> Nat], TotalsAre(T), NEW w \in Worker,
         UNCHANGED issued,
         \A o \in OrderId : orders'[o] = orders[o] \/ RowTotal(o, T)',
         \A u \in Worker \ {w} : pc'[u] = pc[u] /\ msg'[u] = msg[u] /\ mem'[u] = mem[u],
         WorkerTotal(w, T)'
  PROVE  OneTotal'
<1>1. \A o \in OrderId : RowTotal(o, T)'
  BY DEF TotalsAre, RowTotal
<1>2. \A u \in Worker \ {w} : WorkerTotal(u, T)'
  BY DEF TotalsAre, WorkerTotal
<1>3. TotalsAre(T)'
  BY <1>1, <1>2 DEF TotalsAre
<1> QED BY <1>3 DEF OneTotal

(* Reception, refusals, commit and faults.                                 *)
LEMMA RestKeepsTotals ==
  ASSUME OrderInv, OneTotal, NEW w \in Worker,
         \/ Receive(w) \/ Commit(w) \/ Crash(w) \/ DbError(w)
         \/ CreateReject(w) \/ CreateAccept(w) \/ CreateTotalTooLarge(w)
         \/ CreateDeductRefused(w) \/ CreateItemsRefused(w) \/ OrderNotFound(w)
         \/ ReturnRefused(w)
  PROVE  OneTotal'
<1>1. PICK T \in [OrderId -> Nat] : TotalsAre(T)
  BY DEF OneTotal
<1>2. PICK where \in {"received", "idle", "done", "saveOrder"} : pc' = [pc EXCEPT ![w] = where]
  BY DEF Receive, NewRequest, Redeliver, Begin, Commit, Crash, DbError, CreateReject, CreateAccept, CreateTotalTooLarge,
         CreateDeductRefused, CreateItemsRefused, OrderNotFound, ReturnRefused,
         Finish, Continue, Goto
<1>3. /\ UNCHANGED <<orders, issued>>
      /\ \A u \in Worker \ {w} : msg'[u] = msg[u] /\ mem'[u] = mem[u]
  <2>1. CASE Receive(w) \/ Commit(w) \/ Crash(w)
    BY <2>1 DEF Receive, NewRequest, Redeliver, Begin, Commit, Crash, rows, OrderInv, OrderTypeOK
  <2>2. CASE CreateAccept(w)
    BY <2>2 DEF CreateAccept, Continue, rows, OrderInv, OrderTypeOK
  <2>3. CASE \/ DbError(w) \/ CreateReject(w) \/ CreateTotalTooLarge(w)
             \/ CreateDeductRefused(w) \/ CreateItemsRefused(w) \/ OrderNotFound(w)
             \/ ReturnRefused(w)
    BY <2>3 DEF DbError, CreateReject, CreateTotalTooLarge, CreateDeductRefused,
       CreateItemsRefused, OrderNotFound, ReturnRefused, Finish, rows
  <2> QED BY <2>1, <2>2, <2>3
<1>4. pc'[w] = where /\ \A u \in Worker \ {w} : pc'[u] = pc[u]
  BY <1>2 DEF OrderInv, OrderTypeOK
<1>5. WorkerTotal(w, T)'
  BY <1>4 DEF WorkerTotal, RowAwaits
<1> QED BY <1>1, <1>3, <1>4, <1>5, TotalsKept

(* createOrder's insert gives a new order its total.                       *)
LEMMA InsertSetsTotal ==
  ASSUME OrderInv, OneTotal, NEW w \in Worker, CreateSaveOrder(w)
  PROVE  OneTotal'
<1> DEFINE total == CartTotal(msg[w].cart, mem[w].snap)
<1>1. PICK T \in [OrderId -> Nat] : TotalsAre(T)
  BY DEF OneTotal
<1>2. PICK o \in OrderId \ issued :
        /\ orders' = [orders EXCEPT ![o] =
             [status |-> 1, total |-> total, user |-> msg[w].user, items |-> << >>]]
        /\ issued' = issued \cup {o}
        /\ mem' = [mem EXCEPT ![w].order = o]
  BY DEF CreateSaveOrder
<1>3. /\ total \in Nat
      /\ pc' = [pc EXCEPT ![w] = "deduct"] /\ UNCHANGED msg
  <2>1. total \in 0..MaxAmount /\ MaxAmount \in Nat
    BY BoundsAreNatural DEF CreateSaveOrder
  <2> HIDE DEF total
  <2> QED BY <2>1 DEF CreateSaveOrder, Continue, Goto
<1> HIDE DEF total
<1>4. PICK U \in [OrderId -> Nat] : U[o] = total /\ \A q \in issued : U[q] = T[q]
  <2>1. [T EXCEPT ![o] = total] \in [OrderId -> Nat]
    BY <1>3
  <2> QED BY <2>1 DEF OrderInv, OrderTypeOK
<1>5. /\ orders'[o].total = total /\ orders'[o].items = << >> /\ o \in issued'
      /\ \A q \in OrderId \ {o} : orders'[q] = orders[q]
  BY <1>2 DEF OrderInv, OrderTypeOK
<1>6. /\ mem'[w].order = o /\ mem'[w].snap = mem[w].snap /\ pc'[w] = "deduct"
      /\ \A u \in Worker \ {w} : pc'[u] = pc[u] /\ mem'[u] = mem[u]
  BY <1>2, <1>3 DEF OrderInv, OrderTypeOK, Local
<1>7. TotalsAre(U)'
  <2>1. ASSUME NEW q \in OrderId PROVE RowTotal(q, U)'
    <3>1. CASE q = o
      BY <1>4, <1>5, <3>1 DEF RowTotal, SumsUp
    <3>2. CASE q # o
      BY <1>1, <1>2, <1>4, <1>5, <3>2 DEF RowTotal, TotalsAre
    <3> QED BY <3>1, <3>2
  <2>2. ASSUME NEW u \in Worker PROVE WorkerTotal(u, U)'
    <3>1. CASE u = w
      BY <1>2, <1>3, <1>4, <1>6, <3>1 DEF WorkerTotal, RowAwaits, total
    <3>2. CASE u # w
      BY <1>1, <1>2, <1>3, <1>4, <1>6, <3>2 DEF WorkerTotal, TotalsAre
    <3> QED BY <3>1, <3>2
  <2> QED BY <2>1, <2>2 DEF TotalsAre
<1> QED BY <1>7 DEF OneTotal

(* A deduction leaves every price of the snapshot alone.                   *)
LEMMA DeductKeepsTotals ==
  ASSUME OrderInv, OneTotal, NEW w \in Worker, CreateDeduct(w)
  PROVE  OneTotal'
<1> DEFINE cart == msg[w].cart
           snap == mem[w].snap
           p == cart[mem[w].next].product
           e == Deducted(w)
<1>1. PICK T \in [OrderId -> Nat] : TotalsAre(T)
  BY DEF OneTotal
<1>2. /\ pc[w] = "deduct"
      /\ mem' = [mem EXCEPT ![w].snap[p] = e, ![w].next = mem[w].next + 1]
      /\ UNCHANGED <<orders, issued, msg>>
  BY DEF CreateDeduct, Continue
<1>3. pc' = [pc EXCEPT ![w] = IF mem[w].next = Len(cart) THEN "saveItems" ELSE "deduct"]
  BY DEF CreateDeduct, Continue, Goto
<1>4. pc'[w] \in {"deduct", "saveItems"} /\ \A u \in Worker \ {w} : pc'[u] = pc[u]
  BY <1>3 DEF OrderInv, OrderTypeOK
<1>5. /\ mem'[w].order = mem[w].order /\ mem'[w].snap = [snap EXCEPT ![p] = e]
      /\ \A u \in Worker \ {w} : mem'[u] = mem[u]
  BY <1>2 DEF OrderInv, OrderTypeOK, Local
<1>6. snap \in [ProductId -> Entity \cup {NoRow}] /\ snap[p] # NoRow
  <2>1. CartCovered(w)
    BY <1>2 DEF OrderInv, HandlersOK, LocalsOK
  <2>2. mem[w].next \in Lines(w)
    BY <1>2, <2>1 DEF CartCovered
  <2> QED BY <2>1, <2>2 DEF CartCovered, OrderInv, OrderTypeOK, Local
<1>7. \A j \in 1..Len(cart) : cart[j].product \in ProductId
  <2>1. pc[w] \in AwaitsOf("create")
    BY <1>2 DEF AwaitsOf
  <2> QED BY <2>1, CreateHandlerTyped DEF Lines
<1>8. e = [snap[p] EXCEPT !.stock = @ - cart[mem[w].next].quantity]
  BY DEF Deducted
<1>9. \A q \in ProductId : mem'[w].snap[q].price = snap[q].price
  <2> SUFFICES ASSUME NEW q \in ProductId, q = p PROVE mem'[w].snap[q].price = snap[q].price
    BY <1>5, <1>6
  <2>1. snap[p] \in Entity /\ mem'[w].snap[p] = e
    BY <1>5, <1>6
  <2>2. e.price = snap[p].price
    <3> HIDE DEF snap, cart, p, e
    <3> QED BY <1>8, <2>1 DEF Entity
  <2> QED BY <2>1, <2>2
<1>10. CartTotal(cart, mem'[w].snap) = CartTotal(cart, snap)
  <2>1. [j \in 1..Len(cart) |-> mem'[w].snap[cart[j].product].price * cart[j].quantity]
          = [j \in 1..Len(cart) |-> snap[cart[j].product].price * cart[j].quantity]
    BY <1>7, <1>9
  <2> QED BY <2>1 DEF CartTotal
<1>11. WorkerTotal(w, T)'
  <2>1. mem[w].order \in issued /\ CartTotal(cart, snap) = T[mem[w].order]
    BY <1>1, <1>2 DEF TotalsAre, WorkerTotal
  <2>2. CartTotal(msg'[w].cart, mem'[w].snap) = T[mem[w].order]
    BY <1>2, <1>10, <2>1
  <2>3. mem'[w].order = mem[w].order
    BY <1>5
  <2>4. mem'[w].order \in issued'
    <3>1. UNCHANGED issued
      BY DEF CreateDeduct
    <3> QED BY ONLY <2>1, <2>3, <3>1
  <2>5. pc'[w] \notin RowAwaits
    BY <1>4 DEF RowAwaits
  <2> QED BY <2>2, <2>3, <2>4, <2>5 DEF WorkerTotal
<1> QED BY <1>1, <1>2, <1>4, <1>5, <1>11, TotalsKept

(* The items saved at the end are those whose amounts were added up.       *)
LEMMA ItemsMakeTotal ==
  ASSUME OrderInv, OneTotal, NEW w \in Worker, CreateSaveItems(w)
  PROVE  OneTotal'
<1> DEFINE cart == msg[w].cart
           snap == mem[w].snap
           items == PricedItems(cart, snap)
           o == mem[w].order
<1>1. PICK T \in [OrderId -> Nat] : TotalsAre(T)
  BY DEF OneTotal
<1>2. /\ pc[w] = "saveItems" /\ orders[o] # NoRow
      /\ orders' = [orders EXCEPT ![o].items = items]
      /\ pc' = [pc EXCEPT ![w] = "done"] /\ UNCHANGED <<issued, msg, mem>>
  BY DEF CreateSaveItems, ItemsStorable, Finish, Goto
<1>3. Len(cart) \in Nat
  <2>1. pc[w] \in AwaitsOf("create")
    BY <1>2 DEF AwaitsOf
  <2>2. cart \in Seq(CartLine)
    BY <2>1, CreateHandlerTyped
  <2> QED BY <2>2
<1>4. o \in OrderId /\ orders[o] \in OrderRow
  BY <1>2 DEF OrderInv, OrderTypeOK, HandlersOK, LocalsOK
<1>5. o \in issued /\ CartTotal(cart, snap) = T[o]
  BY <1>1, <1>2 DEF TotalsAre, WorkerTotal
<1>6. SumsUp(T[o], items)
  <2>1. Len(items) = Len(cart)
    <3> HIDE DEF cart, snap
    <3> QED BY <1>3 DEF PricedItems
  <2>2. [i \in 1..Len(items) |-> items[i].total]
          = [i \in 1..Len(cart) |-> snap[cart[i].product].price * cart[i].quantity]
    BY <2>1 DEF PricedItems
  <2>3. \A i \in 1..Len(items) : items[i].total = items[i].price * items[i].quantity
    BY <2>1 DEF PricedItems
  <2> HIDE DEF items
  <2> QED BY <1>5, <2>2, <2>3 DEF SumsUp, CartTotal
<1> HIDE DEF items
<1>7. RowTotal(o, T)'
  <2>1. orders[o].total = T[o]
    BY <1>1, <1>2, <1>4 DEF TotalsAre, RowTotal
  <2>2. orders'[o] = [orders[o] EXCEPT !.items = items]
    BY <1>2, <1>4 DEF OrderInv, OrderTypeOK
  <2>3. orders'[o].total = T[o] /\ orders'[o].items = items
    BY <1>4, <2>1, <2>2 DEF OrderRow
  <2> QED BY <1>2, <1>5, <1>6, <2>3 DEF RowTotal
<1>8. \A q \in OrderId : orders'[q] = orders[q] \/ RowTotal(q, T)'
  BY <1>2, <1>4, <1>7 DEF OrderInv, OrderTypeOK
<1>9. pc'[w] = "done" /\ \A u \in Worker \ {w} : pc'[u] = pc[u]
  BY <1>2 DEF OrderInv, OrderTypeOK
<1>10. WorkerTotal(w, T)'
  BY <1>9 DEF WorkerTotal, RowAwaits
<1> QED BY <1>1, <1>2, <1>8, <1>9, <1>10, TotalsKept

(* A handler reads a row with the order's total.                           *)
LEMMA FindReadsTotal ==
  ASSUME OrderInv, OneTotal, NEW w \in Worker, UpdateFind(w) \/ CancelFind(w) \/ DeleteFind(w)
  PROVE  OneTotal'
<1>1. PICK T \in [OrderId -> Nat] : TotalsAre(T)
  BY DEF OneTotal
<1>2. PICK o \in Matching(msg[w]), where \in RowAwaits :
        /\ mem' = [mem EXCEPT ![w].order = o, ![w].row = orders[o]]
        /\ pc' = [pc EXCEPT ![w] = where]
        /\ UNCHANGED <<msg, orders, issued>>
  BY DEF UpdateFind, CancelFind, DeleteFind, FindOrder, Continue, Goto, rows, RowAwaits
<1>3. o \in OrderId /\ orders[o] # NoRow
  BY <1>2 DEF Matching
<1>4. /\ pc'[w] = where /\ mem'[w].order = o /\ mem'[w].row = orders[o]
      /\ \A u \in Worker \ {w} : pc'[u] = pc[u] /\ mem'[u] = mem[u]
  BY <1>2 DEF OrderInv, OrderTypeOK, Local
<1>5. WorkerTotal(w, T)'
  BY <1>1, <1>2, <1>3, <1>4 DEF TotalsAre, RowTotal, WorkerTotal, RowAwaits
<1> QED BY <1>1, <1>2, <1>4, <1>5, TotalsKept

(* The writes of update, cancel and delete, and the removal of the items:  *)
(* whatever row is written, it has the total of the row that was read.     *)
LEMMA WritesKeepTotals ==
  ASSUME OrderInv, OneTotal, NEW w \in Worker,
         UpdateSave(w) \/ CancelSave(w) \/ DeleteItems(w) \/ DeleteOrder(w)
  PROVE  OneTotal'
<1> DEFINE o == mem[w].order
           row == mem[w].row
<1>1. PICK T \in [OrderId -> Nat] : TotalsAre(T)
  BY DEF OneTotal
<1>2. /\ pc[w] \in RowAwaits /\ o \in OrderId /\ row \in OrderRow
      /\ orders[o] \in OrderRow \cup {NoRow} /\ orders \in [OrderId -> OrderRow \cup {NoRow}]
  BY DEF UpdateSave, CancelSave, DeleteItems, DeleteOrder, RowAwaits, OrderInv, OrderTypeOK,
     HandlersOK, LocalsOK, OrderRead
<1>3. o \in issued /\ row.total = T[o] /\ SumsUp(T[o], row.items)
  BY <1>1, <1>2 DEF TotalsAre, WorkerTotal
<1>4. RowTotal(o, T)
  BY <1>1, <1>2 DEF TotalsAre
<1>5. UNCHANGED <<issued, msg, mem>>
  BY DEF UpdateSave, CancelSave, DeleteItems, DeleteOrder, WriteOrder, Finish, Continue
<1>6. PICK where \in {"done", "deleteOrder"} : pc' = [pc EXCEPT ![w] = where]
  BY DEF UpdateSave, CancelSave, DeleteItems, DeleteOrder, Finish, Continue, Goto
<1>7. pc'[w] \in {"done", "deleteOrder"} /\ \A u \in Worker \ {w} : pc'[u] = pc[u]
  BY <1>6 DEF OrderInv, OrderTypeOK
<1>8. PICK new : /\ orders' = [orders EXCEPT ![o] = new]
                 /\ new # NoRow => new.total = T[o] /\ SumsUp(T[o], new.items)
  <2>1. CASE UpdateSave(w)
    <3> DEFINE items == IF orders[o] = NoRow THEN << >> ELSE orders[o].items
               new == [row EXCEPT !.status = NextStatus(@), !.items = items]
    <3>1. orders' = [orders EXCEPT ![o] = new]
      BY <2>1 DEF UpdateSave, WriteOrder
    <3>2. SumsUp(T[o], items)
      BY <1>4 DEF RowTotal, SumsUp
    <3>3. new.total = row.total /\ new.items = items
      <4> HIDE DEF row, items
      <4> QED BY <1>2 DEF OrderRow
    <3> HIDE DEF items, new
    <3> QED BY <1>3, <3>1, <3>2, <3>3
  <2>2. CASE CancelSave(w)
    <3> DEFINE new == [row EXCEPT !.status = 0]
    <3>1. orders' = [orders EXCEPT ![o] = new]
      BY <2>2 DEF CancelSave, WriteOrder
    <3>2. new.total = row.total /\ new.items = row.items
      <4> HIDE DEF row
      <4> QED BY <1>2 DEF OrderRow
    <3> HIDE DEF new
    <3> QED BY <1>3, <3>1, <3>2
  <2>3. CASE DeleteItems(w)
    <3>1. CASE orders[o] = NoRow
      <4>1. orders' = [orders EXCEPT ![o] = NoRow]
        BY <1>2, <2>3, <3>1 DEF DeleteItems
      <4> QED BY <4>1
    <3>2. CASE orders[o] # NoRow
      <4> DEFINE new == [orders[o] EXCEPT !.items = << >>]
      <4>1. orders' = [orders EXCEPT ![o] = new]
        BY <2>3, <3>2 DEF DeleteItems
      <4>2. new.total = orders[o].total /\ new.items = << >>
        BY <1>2, <3>2 DEF OrderRow
      <4>3. new.total = T[o] /\ SumsUp(T[o], new.items)
        BY <1>4, <3>2, <4>2 DEF RowTotal, SumsUp
      <4> HIDE DEF new
      <4> QED BY <4>1, <4>3
    <3> QED BY <3>1, <3>2
  <2>4. CASE DeleteOrder(w)
    <3>1. orders' = [orders EXCEPT ![o] = NoRow]
      BY <2>4 DEF DeleteOrder, WriteOrder
    <3> QED BY <3>1
  <2> QED BY <2>1, <2>2, <2>3, <2>4
<1>9. \A q \in OrderId : orders'[q] = orders[q] \/ RowTotal(q, T)'
  BY <1>2, <1>3, <1>5, <1>8 DEF RowTotal
<1>10. WorkerTotal(w, T)'
  BY <1>3, <1>5, <1>7 DEF WorkerTotal
<1> QED BY <1>1, <1>5, <1>7, <1>9, <1>10, TotalsKept

(* The loop that returns stock keeps the order it has read.                *)
LEMMA ReturnsKeepTotals ==
  ASSUME OrderInv, OneTotal, NEW w \in Worker, ReturnFind(w) \/ ReturnSkip(w) \/ ReturnSave(w)
  PROVE  OneTotal'
<1>1. PICK T \in [OrderId -> Nat] : TotalsAre(T)
  BY DEF OneTotal
<1>2. /\ pc[w] \in RowAwaits /\ UNCHANGED <<orders, issued, msg>>
      /\ pc' = [pc EXCEPT ![w] = pc'[w]]
      /\ pc'[w] \in RowAwaits
  BY DEF ReturnFind, ReturnSkip, ReturnSave, Continue, Goto, rows, RowAwaits, NextReturn,
     AfterReturns, OrderInv, OrderTypeOK
<1>3. /\ mem'[w].order = mem[w].order /\ mem'[w].row = mem[w].row
      /\ \A u \in Worker \ {w} : mem'[u] = mem[u]
  BY DEF ReturnFind, ReturnSkip, ReturnSave, OrderInv, OrderTypeOK, Local
<1>4. \A u \in Worker \ {w} : pc'[u] = pc[u]
  BY <1>2 DEF OrderInv, OrderTypeOK
<1>5. WorkerTotal(w, T)'
  BY <1>1, <1>2, <1>3 DEF TotalsAre, WorkerTotal, RowAwaits
<1> QED BY <1>1, <1>2, <1>3, <1>4, <1>5, TotalsKept

(* Initially there is no order, and no step gives one a second total; the  *)
(* products somebody else writes are no part of it.                        *)
LEMMA TotalsInitially == OrderInit => OneTotal
<1> SUFFICES ASSUME OrderInit PROVE OneTotal
  OBVIOUS
<1> DEFINE T == [o \in OrderId |-> 0]
<1>1. TotalsAre(T)
  BY DEF OrderInit, TotalsAre, RowTotal, WorkerTotal, RowAwaits
<1>2. T \in [OrderId -> Nat]
  OBVIOUS
<1> HIDE DEF T
<1> QED BY <1>1, <1>2 DEF OneTotal

LEMMA TotalsFrame ==
  ASSUME OneTotal, UNCHANGED <<orders, issued, pc, msg, mem>>
  PROVE  OneTotal'
<1>1. PICK T \in [OrderId -> Nat] : TotalsAre(T)
  BY DEF OneTotal
<1>2. (\A o \in OrderId : RowTotal(o, T)') /\ (\A w \in Worker : WorkerTotal(w, T)')
  BY <1>1 DEF TotalsAre, RowTotal, WorkerTotal
<1>3. TotalsAre(T)'
  BY <1>2 DEF TotalsAre
<1> QED BY <1>3 DEF OneTotal

LEMMA TotalsStep == OrderInv /\ OneTotal /\ [OrderNext]_orderVars => OneTotal'
<1> SUFFICES ASSUME OrderInv, OneTotal, [OrderNext]_orderVars PROVE OneTotal'
  OBVIOUS
<1>1. CASE UNCHANGED orderVars
  BY <1>1, TotalsFrame DEF orderVars
<1>2. CASE OrderNext
  <2>1. PICK w \in Worker : Receive(w) \/ HandlerStep(w) \/ Crash(w) \/ DbError(w)
    BY <1>2 DEF OrderNext
  <2> QED
    BY <2>1, RestKeepsTotals, InsertSetsTotal, DeductKeepsTotals, ItemsMakeTotal,
       FindReadsTotal, WritesKeepTotals, ReturnsKeepTotals
    DEF HandlerStep, CreateStep, ReturnStep
<1> QED BY <1>1, <1>2

(* An order that has items has their total, and each item is worth its     *)
(* price times its quantity: createOrder adds up and fills in the prices   *)
(* it read once, although it awaits in between while others change them,   *)
(* and update, cancel and delete of any number of workers write orders     *)
(* back as they read them.                                                 *)
THEOREM OrdersAddUp == OpenOrderSpec => []TotalMatchesItems
<1>1. OneTotal => TotalMatchesItems
  BY DEF OneTotal, TotalsAre, RowTotal, TotalMatchesItems
<1>2. OrderInv /\ OneTotal /\ [OpenOrderNext]_orderVars => OneTotal'
  BY TotalsStep, TotalsFrame DEF OpenOrderNext, CatalogSave, CatalogRemove, ordersOnly
<1> QED BY <1>1, <1>2, InitInv, OpenStepInv, TotalsInitially, PTL DEF OpenOrderSpec

-----------------------------------------------------------------------------
(* What a step does, seen from outside the handler: where the worker goes, *)
(* which order it has in hand, what becomes of the order and its account.  *)

WorkerStep(w) == Receive(w) \/ HandlerStep(w) \/ Crash(w) \/ DbError(w)

LEMMA FindEffect ==
  ASSUME OrderInv, NEW w \in Worker, UpdateFind(w) \/ CancelFind(w) \/ DeleteFind(w)
  PROVE  /\ pc[w] = "received" /\ msg[w].topic \in {"update", "cancel", "delete"}
         /\ UNCHANGED rows /\ UNCHANGED <<msg, reply, delivery>>
         /\ mem'[w].next = 1 /\ mem'[w].order \in Matching(msg[w])
         /\ mem'[w].row = orders[mem'[w].order]
         /\ msg[w].topic = "update" => pc'[w] = "saveStatus"
         /\ msg[w].topic = "cancel" =>
              pc'[w] = IF mem'[w].row.items = << >> THEN "saveCancelled" ELSE "findProduct"
         /\ msg[w].topic = "delete" =>
              pc'[w] = IF mem'[w].row.status = 0 \/ mem'[w].row.items = << >>
                       THEN "deleteItems" ELSE "findProduct"
<1>1. mem[w].next = 1
  BY DEF UpdateFind, CancelFind, DeleteFind, FindOrder, Handles, OrderInv, HandlersOK, LocalsOK
<1>2. ASSUME NEW o, NEW where, mem' = [mem EXCEPT ![w].order = o, ![w].row = orders[o]],
             pc' = [pc EXCEPT ![w] = where]
      PROVE  /\ pc'[w] = where /\ mem'[w].order = o /\ mem'[w].row = orders[o]
             /\ mem'[w].next = mem[w].next
  BY <1>2 DEF OrderInv, OrderTypeOK, Local
<1>3. CASE UpdateFind(w)
  <2>1. PICK o \in Matching(msg[w]) : /\ mem' = [mem EXCEPT ![w].order = o, ![w].row = orders[o]]
                                      /\ pc' = [pc EXCEPT ![w] = "saveStatus"]
    BY <1>3 DEF UpdateFind, FindOrder, Continue, Goto
  <2> QED BY <1>1, <1>2, <1>3, <2>1 DEF UpdateFind, FindOrder, Handles, Continue
<1>4. CASE CancelFind(w)
  <2>1. PICK o \in Matching(msg[w]), where \in {"saveCancelled", "findProduct"} :
          /\ mem' = [mem EXCEPT ![w].order = o, ![w].row = orders[o]]
          /\ where = IF orders[o].items = << >> THEN "saveCancelled" ELSE "findProduct"
          /\ pc' = [pc EXCEPT ![w] = where]
    BY <1>4 DEF CancelFind, FindOrder, Continue, Goto
  <2>2. /\ pc'[w] = where /\ mem'[w].order = o /\ mem'[w].row = orders[o]
        /\ mem'[w].next = mem[w].next
    BY <1>2, <2>1
  <2>3. /\ pc[w] = "received" /\ msg[w].topic = "cancel"
        /\ UNCHANGED rows /\ UNCHANGED <<msg, reply, delivery>>
    BY <1>4 DEF CancelFind, FindOrder, Handles, Continue
  <2> QED BY <1>1, <2>1, <2>2, <2>3
<1>5. CASE DeleteFind(w)
  <2>1. PICK o \in Matching(msg[w]), where \in {"deleteItems", "findProduct"} :
          /\ mem' = [mem EXCEPT ![w].order = o, ![w].row = orders[o]]
          /\ where = IF orders[o].status = 0 \/ orders[o].items = << >>
                     THEN "deleteItems" ELSE "findProduct"
          /\ pc' = [pc EXCEPT ![w] = where]
    BY <1>5 DEF DeleteFind, FindOrder, Continue, Goto
  <2>2. /\ pc'[w] = where /\ mem'[w].order = o /\ mem'[w].row = orders[o]
        /\ mem'[w].next = mem[w].next
    BY <1>2, <2>1
  <2>3. /\ pc[w] = "received" /\ msg[w].topic = "delete"
        /\ UNCHANGED rows /\ UNCHANGED <<msg, reply, delivery>>
    BY <1>5 DEF DeleteFind, FindOrder, Handles, Continue
  <2> QED BY <1>1, <2>1, <2>2, <2>3
<1> QED BY <1>3, <1>4, <1>5

LEMMA InsertEffect ==
  ASSUME OrderInv, NEW w \in Worker, CreateSaveOrder(w)
  PROVE  /\ pc[w] = "saveOrder" /\ pc'[w] = "deduct" /\ mem'[w].next = 1
         /\ UNCHANGED <<products, charged, msg, reply, delivery>>
         /\ \E o \in OrderId \ issued, row \in OrderRow :
              /\ row.status = 1 /\ row.items = << >>
              /\ orders' = [orders EXCEPT ![o] = row]
              /\ issued' = issued \cup {o} /\ mem'[w].order = o
<1> DEFINE total == CartTotal(msg[w].cart, mem[w].snap)
           row   == [status |-> 1, total |-> total, user |-> msg[w].user, items |-> << >>]
<1>1. PICK o \in OrderId \ issued :
        /\ orders' = [orders EXCEPT ![o] = row]
        /\ issued' = issued \cup {o} /\ mem' = [mem EXCEPT ![w].order = o]
  BY DEF CreateSaveOrder
<1>2. /\ pc[w] = "saveOrder" /\ total \in 0..MaxAmount
      /\ pc' = [pc EXCEPT ![w] = "deduct"]
      /\ UNCHANGED <<products, charged, msg, reply, delivery>>
  BY DEF CreateSaveOrder, Continue, Goto
<1>3. msg[w].user \in User /\ mem[w].next = 1 /\ << >> \in Seq(Item)
  BY <1>2 DEF OrderInv, HandlersOK, LocalsOK, CartCovered
<1>4. row \in OrderRow /\ row.status = 1 /\ row.items = << >>
  <2> HIDE DEF total
  <2> QED BY <1>2, <1>3 DEF OrderRow
<1>5. /\ pc'[w] = "deduct" /\ mem'[w].order = o /\ mem'[w].next = 1
  BY <1>1, <1>2, <1>3 DEF OrderInv, OrderTypeOK, Local
<1> HIDE DEF row
<1> QED BY <1>1, <1>2, <1>4, <1>5

LEMMA DeductEffect ==
  ASSUME OrderInv, NEW w \in Worker, CreateDeduct(w)
  PROVE  LET i    == mem[w].next
             cart == msg[w].cart
         IN  /\ pc[w] = "deduct" /\ i \in 1..Len(cart) /\ mem[w].order \in OrderId
             /\ pc'[w] = IF i = Len(cart) THEN "saveItems" ELSE "deduct"
             /\ mem'[w].order = mem[w].order /\ mem'[w].next = i + 1
             /\ charged' = [charged EXCEPT ![mem[w].order][cart[i].product] =
                              @ + cart[i].quantity]
             /\ UNCHANGED <<orders, issued, msg, reply, delivery>>
<1> DEFINE i == mem[w].next
           p == msg[w].cart[i].product
           e == Deducted(w)
<1>1. /\ pc[w] = "deduct"
      /\ mem' = [mem EXCEPT ![w].snap[p] = e, ![w].next = i + 1]
      /\ charged' = [charged EXCEPT ![mem[w].order][p] = @ + msg[w].cart[i].quantity]
      /\ pc' = [pc EXCEPT ![w] = IF i = Len(msg[w].cart) THEN "saveItems" ELSE "deduct"]
      /\ UNCHANGED <<orders, issued, msg, reply, delivery>>
  BY DEF CreateDeduct, Continue, Goto
<1>2. i \in 1..Len(msg[w].cart) /\ mem[w].order \in OrderId
  BY <1>1 DEF OrderInv, HandlersOK, LocalsOK, CartCovered, Lines
<1>3. mem'[w].order = mem[w].order /\ mem'[w].next = i + 1
  <2>1. mem'[w] = [mem[w] EXCEPT !.snap[p] = e, !.next = i + 1] /\ mem[w] \in Local
    BY <1>1 DEF OrderInv, OrderTypeOK
  <2> HIDE DEF e, p, i
  <2> QED BY <2>1 DEF Local
<1>4. pc'[w] = IF i = Len(msg[w].cart) THEN "saveItems" ELSE "deduct"
  BY <1>1 DEF OrderInv, OrderTypeOK
<1> HIDE DEF e
<1> QED BY <1>1, <1>2, <1>3, <1>4

LEMMA SaveItemsEffect ==
  ASSUME OrderInv, NEW w \in Worker, CreateSaveItems(w)
  PROVE  LET o    == mem[w].order
             cart == msg[w].cart
         IN  /\ pc[w] = "saveItems" /\ pc'[w] = "done" /\ reply'[w] = "ok"
             /\ o \in OrderId /\ orders[o] # NoRow
             /\ UNCHANGED <<products, issued, charged, mem, msg, delivery>>
             /\ orders' = [orders EXCEPT ![o] = orders'[o]] /\ orders'[o] # NoRow
             /\ orders'[o].status = orders[o].status
             /\ Len(orders'[o].items) = Len(cart)
             /\ \A i \in 1..Len(cart) : /\ orders'[o].items[i].product = cart[i].product
                                        /\ orders'[o].items[i].quantity = cart[i].quantity
<1> DEFINE o     == mem[w].order
           items == PricedItems(msg[w].cart, mem[w].snap)
<1>1. /\ pc[w] = "saveItems" /\ orders[o] # NoRow
      /\ orders' = [orders EXCEPT ![o].items = items]
      /\ pc' = [pc EXCEPT ![w] = "done"] /\ reply' = [reply EXCEPT ![w] = "ok"]
      /\ UNCHANGED <<products, issued, charged, mem, msg, delivery>>
  BY DEF CreateSaveItems, ItemsStorable, Finish, Goto
<1>2. o \in OrderId /\ orders[o] \in OrderRow
  BY <1>1 DEF OrderInv, OrderTypeOK, HandlersOK, LocalsOK
<1>3. orders'[o] = [orders[o] EXCEPT !.items = items]
  BY <1>1, <1>2 DEF OrderInv, OrderTypeOK
<1>4. orders'[o].items = items /\ orders'[o].status = orders[o].status
  <2> HIDE DEF items
  <2> QED BY <1>2, <1>3 DEF OrderRow
<1>5. msg[w].cart \in Seq(CartLine)
  <2>1. pc[w] \in AwaitsOf("create")
    BY <1>1 DEF AwaitsOf
  <2> QED BY <2>1, CreateHandlerTyped
<1>6. /\ Len(items) = Len(msg[w].cart)
      /\ \A i \in 1..Len(msg[w].cart) : /\ items[i].product = msg[w].cart[i].product
                                        /\ items[i].quantity = msg[w].cart[i].quantity
  <2> DEFINE cart == msg[w].cart
             snap == mem[w].snap
  <2>1. Len(cart) \in Nat
    BY <1>5
  <2> HIDE DEF cart, snap
  <2>2. Len(PricedItems(cart, snap)) = Len(cart)
    BY <2>1 DEF PricedItems
  <2>3. \A i \in 1..Len(cart) : /\ PricedItems(cart, snap)[i].product = cart[i].product
                               /\ PricedItems(cart, snap)[i].quantity = cart[i].quantity
    BY DEF PricedItems
  <2> QED BY <2>2, <2>3 DEF cart, snap
<1>7. pc'[w] = "done" /\ reply'[w] = "ok"
  BY <1>1 DEF OrderInv, OrderTypeOK
<1>8. orders' = [orders EXCEPT ![o] = orders'[o]] /\ orders'[o] # NoRow
  <2>1. items \in Seq(Item)
    BY SavedItemsTyped
  <2> HIDE DEF items
  <2>2. [orders[o] EXCEPT !.items = items] \in OrderRow
    BY <1>2, <2>1 DEF OrderRow
  <2> QED BY <1>1, <1>2, <1>3, <2>2, NoRowIsNotAnOrder DEF OrderInv, OrderTypeOK
<1> HIDE DEF items
<1> QED BY <1>1, <1>2, <1>4, <1>6, <1>7, <1>8

LEMMA ReturnFindEffect ==
  ASSUME OrderInv, NEW w \in Worker, ReturnFind(w)
  PROVE  /\ pc[w] = "findProduct" /\ pc'[w] = "returnStock"
         /\ mem'[w].order = mem[w].order /\ mem'[w].row = mem[w].row
         /\ mem'[w].next = mem[w].next
         /\ UNCHANGED rows /\ UNCHANGED <<msg, reply, delivery>>
<1> DEFINE p == ReturnLine(w).product
           e == LoadProduct(p)
<1>1. /\ pc[w] = "findProduct"
      /\ mem' = [mem EXCEPT ![w].snap[p] = e]
      /\ pc' = [pc EXCEPT ![w] = "returnStock"]
      /\ UNCHANGED rows /\ UNCHANGED <<msg, reply, delivery>>
  BY DEF ReturnFind, Continue, Goto
<1> HIDE DEF e, p
<1> QED BY <1>1 DEF OrderInv, OrderTypeOK, Local

LEMMA ReturnSaveEffect ==
  ASSUME OrderInv, NEW w \in Worker, ReturnSave(w)
  PROVE  LET line == ReturnLine(w)
         IN  /\ pc[w] = "returnStock" /\ pc'[w] = NextReturn(w)
             /\ mem[w].order \in OrderId /\ mem[w].next \in 1..Len(mem[w].row.items)
             /\ mem'[w].order = mem[w].order /\ mem'[w].row = mem[w].row
             /\ mem'[w].next = mem[w].next + 1
             /\ charged' = [charged EXCEPT ![mem[w].order][line.product] = @ - line.quantity]
             /\ UNCHANGED <<orders, issued, msg, reply, delivery>>
<1>1. /\ pc[w] = "returnStock" /\ pc' = [pc EXCEPT ![w] = NextReturn(w)]
      /\ mem' = [mem EXCEPT ![w].snap = EmptySnap, ![w].next = @ + 1]
      /\ charged' = [charged EXCEPT ![mem[w].order][ReturnLine(w).product] =
                       @ - ReturnLine(w).quantity]
      /\ UNCHANGED <<orders, issued, msg, reply, delivery>>
  BY DEF ReturnSave, Continue, Goto
<1>2. mem[w].order \in OrderId /\ mem[w].next \in 1..Len(mem[w].row.items)
  BY <1>1 DEF OrderInv, HandlersOK, LocalsOK, LoopInside, OrderRead
<1>3. /\ mem'[w].order = mem[w].order /\ mem'[w].row = mem[w].row
      /\ mem'[w].next = mem[w].next + 1
  BY <1>1, NextLineForgets DEF OrderInv, OrderTypeOK
<1>4. pc'[w] = NextReturn(w)
  BY <1>1 DEF OrderInv, OrderTypeOK
<1> QED BY <1>1, <1>2, <1>3, <1>4

(* Requests that come, are answered or are begun again.                    *)
LEMMA RestEffect ==
  ASSUME OrderInv, NEW w \in Worker
  PROVE  /\ Receive(w) => /\ pc[w] = "idle" /\ pc'[w] = "received" /\ msg'[w] \in Message
                          /\ again \subseteq again' \cup {msg'[w]} /\ again' \subseteq again
                          /\ UNCHANGED rows
                          /\ UNCHANGED <<mem, reply, halfway, crashes, dbErrors>>
         /\ Commit(w)  => /\ pc[w] = "done" /\ pc'[w] = "idle" /\ mem'[w] = NoLocals
                          /\ UNCHANGED rows /\ UNCHANGED delivery
         /\ Crash(w)   => /\ pc[w] # "idle" /\ pc'[w] = "idle" /\ mem'[w] = NoLocals
                          /\ crashes' = crashes + 1 /\ again' = again \cup {msg[w]}
                          /\ BreaksOff(w)
                          /\ UNCHANGED rows /\ UNCHANGED <<received, dbErrors>>
         /\ DbError(w) => /\ pc[w] # "idle" /\ pc'[w] = "done" /\ dbErrors' = dbErrors + 1
                          /\ BreaksOff(w)
                          /\ UNCHANGED rows /\ UNCHANGED <<msg, mem, again, crashes>>
<1>1. ASSUME Receive(w)
      PROVE  /\ pc[w] = "idle" /\ pc'[w] = "received" /\ msg'[w] \in Message
             /\ again \subseteq again' \cup {msg'[w]} /\ again' \subseteq again
             /\ UNCHANGED rows
             /\ UNCHANGED <<mem, reply, halfway, crashes, dbErrors>>
  <2>1. PICK m \in Message : /\ Begin(w, m)
                             /\ again \subseteq again' \cup {m} /\ again' \subseteq again
    BY <1>1 DEF Receive, NewRequest, Redeliver, OrderInv, OrderTypeOK
  <2>2. pc'[w] = "received" /\ msg'[w] = m
    BY <2>1 DEF Begin, Goto, OrderInv, OrderTypeOK
  <2> QED BY <2>1, <2>2 DEF Begin
<1>2. Commit(w) => /\ pc[w] = "done" /\ pc'[w] = "idle" /\ mem'[w] = NoLocals
                   /\ UNCHANGED rows /\ UNCHANGED delivery
  BY DEF Commit, Goto, OrderInv, OrderTypeOK
<1>3. Crash(w) => /\ pc[w] # "idle" /\ pc'[w] = "idle" /\ mem'[w] = NoLocals
                  /\ crashes' = crashes + 1 /\ again' = again \cup {msg[w]}
                  /\ BreaksOff(w)
                  /\ UNCHANGED rows /\ UNCHANGED <<received, dbErrors>>
  BY DEF Crash, Goto, OrderInv, OrderTypeOK
<1>4. DbError(w) => /\ pc[w] # "idle" /\ pc'[w] = "done" /\ dbErrors' = dbErrors + 1
                    /\ BreaksOff(w)
                    /\ UNCHANGED rows /\ UNCHANGED <<msg, mem, again, crashes>>
  BY DEF DbError, Goto, OrderInv, OrderTypeOK
<1> QED BY <1>1, <1>2, <1>3, <1>4

LEMMA RefusalEffect ==
  ASSUME OrderInv, NEW w \in Worker,
         \/ CreateReject(w) \/ CreateTotalTooLarge(w) \/ CreateDeductRefused(w)
         \/ CreateItemsRefused(w) \/ OrderNotFound(w) \/ ReturnRefused(w)
  PROVE  /\ pc'[w] = "done" /\ UNCHANGED rows /\ UNCHANGED <<mem, msg, delivery>>
         /\ CreateReject(w) \/ OrderNotFound(w) => pc[w] = "received"
         /\ CreateTotalTooLarge(w) => pc[w] = "saveOrder"
<1>1. /\ pc' = [pc EXCEPT ![w] = "done"]
      /\ UNCHANGED rows /\ UNCHANGED <<mem, msg, delivery>>
  BY DEF CreateReject, CreateTotalTooLarge, CreateDeductRefused, CreateItemsRefused,
         OrderNotFound, ReturnRefused, Finish, Goto
<1>2. /\ CreateReject(w) \/ OrderNotFound(w) => pc[w] = "received"
      /\ CreateTotalTooLarge(w) => pc[w] = "saveOrder"
  BY DEF CreateReject, OrderNotFound, CreateTotalTooLarge, Handles
<1> QED BY <1>1, <1>2 DEF OrderInv, OrderTypeOK

LEMMA AcceptEffect ==
  ASSUME OrderInv, NEW w \in Worker, CreateAccept(w)
  PROVE  /\ Handles(w, "create") /\ pc'[w] = "saveOrder"
         /\ mem'[w].order = mem[w].order /\ mem'[w].next = mem[w].next
         /\ mem'[w].snap = SnapshotOf(msg[w].cart)
         /\ Acceptable(msg[w], SnapshotOf(msg[w].cart))
         /\ UNCHANGED rows /\ UNCHANGED <<msg, reply, delivery>>
<1> DEFINE snap == SnapshotOf(msg[w].cart)
<1>1. /\ Handles(w, "create") /\ Acceptable(msg[w], snap)
      /\ mem' = [mem EXCEPT ![w].snap = snap]
      /\ pc' = [pc EXCEPT ![w] = "saveOrder"]
      /\ UNCHANGED rows /\ UNCHANGED <<msg, reply, delivery>>
  BY DEF CreateAccept, Continue, Goto
<1> HIDE DEF snap
<1>2. mem'[w].order = mem[w].order /\ mem'[w].next = mem[w].next /\ mem'[w].snap = snap
  BY <1>1 DEF OrderInv, OrderTypeOK, Local
<1>3. pc'[w] = "saveOrder"
  BY <1>1 DEF OrderInv, OrderTypeOK
<1> QED BY <1>1, <1>2, <1>3 DEF snap

LEMMA SkipEffect ==
  ASSUME OrderInv, NEW w \in Worker, ReturnSkip(w)
  PROVE  /\ pc[w] = "findProduct" /\ pc'[w] = NextReturn(w)
         /\ mem'[w].order = mem[w].order /\ mem'[w].row = mem[w].row
         /\ mem'[w].next = mem[w].next + 1
         /\ UNCHANGED rows /\ UNCHANGED <<msg, reply, delivery>>
<1>1. /\ pc[w] = "findProduct" /\ mem' = [mem EXCEPT ![w].next = @ + 1]
      /\ pc' = [pc EXCEPT ![w] = NextReturn(w)]
      /\ UNCHANGED rows /\ UNCHANGED <<msg, reply, delivery>>
  BY DEF ReturnSkip, Continue, Goto
<1>2. /\ mem'[w].order = mem[w].order /\ mem'[w].row = mem[w].row
      /\ mem'[w].next = mem[w].next + 1
  BY <1>1, NextLine DEF OrderInv, OrderTypeOK
<1> QED BY <1>1, <1>2 DEF OrderInv, OrderTypeOK

(* A worker's step is about its own variables.                             *)
LEMMA OthersRest ==
  ASSUME OrderInv, NEW w \in Worker, WorkerStep(w), NEW u \in Worker, u # w
  PROVE  pc'[u] = pc[u] /\ msg'[u] = msg[u] /\ mem'[u] = mem[u] /\ reply'[u] = reply[u]
<1>1. CASE Receive(w) \/ Commit(w) \/ Crash(w) \/ DbError(w)
  BY <1>1 DEF Receive, NewRequest, Redeliver, Begin, Commit, Crash, DbError, Goto, OrderInv, OrderTypeOK
<1>2. CASE CreateStep(w)
  BY <1>2 DEF CreateStep, CreateReject, CreateAccept, CreateSaveOrder, CreateTotalTooLarge,
     CreateDeduct, CreateDeductRefused, CreateSaveItems, CreateItemsRefused,
     Finish, Continue, Goto, OrderInv, OrderTypeOK
<1>3. CASE ReturnStep(w)
  BY <1>3 DEF ReturnStep, ReturnFind, ReturnSkip, ReturnSave, ReturnRefused,
     Finish, Continue, Goto, OrderInv, OrderTypeOK
<1>4. CASE OrderNotFound(w) \/ UpdateFind(w) \/ CancelFind(w) \/ DeleteFind(w)
  BY <1>4 DEF OrderNotFound, UpdateFind, CancelFind, DeleteFind, FindOrder,
     Finish, Continue, Goto, OrderInv, OrderTypeOK
<1>5. CASE UpdateSave(w) \/ CancelSave(w) \/ DeleteItems(w) \/ DeleteOrder(w)
  BY <1>5 DEF UpdateSave, CancelSave, DeleteItems, DeleteOrder, WriteOrder,
     Finish, Continue, Goto, OrderInv, OrderTypeOK
<1> QED BY <1>1, <1>2, <1>3, <1>4, <1>5 DEF WorkerStep, HandlerStep

-----------------------------------------------------------------------------
(* CancelHitsNamedOrder.  It fails because the gateway puts the id in a    *)
(* field that cancelOrder does not read; nothing else can make it fail.    *)

CancelsNamed(w) ==
  msg[w].topic = "cancel" =>
    /\ pc[w] \in {"findProduct", "returnStock", "saveCancelled"} => mem[w].order = msg[w].id
    /\ pc[w] = "done" /\ reply[w] = "ok" => mem[w].order = msg[w].id

LEMMA CancelsNamedStep ==
  ASSUME CancelField = "orderId", OrderInv, NEW w \in Worker, CancelsNamed(w), WorkerStep(w)
  PROVE  CancelsNamed(w)'
<1>1. CASE UpdateFind(w) \/ CancelFind(w) \/ DeleteFind(w)
  <2>1. UNCHANGED msg /\ mem'[w].order \in Matching(msg[w]) /\ pc'[w] # "done"
    BY <1>1, FindEffect
  <2>2. msg[w].topic = "cancel" => mem'[w].order = msg[w].id
    BY <2>1 DEF Matching, SentField, ReadField
  <2> QED BY <2>1, <2>2 DEF CancelsNamed
<1>2. CASE ReturnFind(w) \/ ReturnSave(w) \/ ReturnSkip(w)
  <2>1. /\ pc[w] \in {"findProduct", "returnStock"} /\ pc'[w] # "done"
        /\ mem'[w].order = mem[w].order /\ UNCHANGED msg
    BY <1>2, ReturnFindEffect, ReturnSaveEffect, SkipEffect DEF NextReturn, AfterReturns
  <2> QED BY <2>1 DEF CancelsNamed
<1>3. CASE CancelSave(w)
  <2>1. pc[w] = "saveCancelled" /\ pc'[w] = "done" /\ UNCHANGED <<mem, msg>>
    BY <1>3 DEF CancelSave, WriteOrder, Finish, Goto, OrderInv, OrderTypeOK
  <2> QED BY <2>1 DEF CancelsNamed
<1>4. CASE Receive(w) \/ Commit(w) \/ Crash(w) \/ DbError(w)
  <2>1. \/ pc'[w] \in {"idle", "received"}
        \/ pc'[w] = "done" /\ reply'[w] = "error"
    BY <1>4, RestEffect DEF DbError, OrderInv, OrderTypeOK
  <2> QED BY <2>1 DEF CancelsNamed
<1>5. CASE \/ CreateReject(w) \/ CreateTotalTooLarge(w) \/ CreateDeductRefused(w)
           \/ CreateItemsRefused(w) \/ OrderNotFound(w) \/ ReturnRefused(w)
  <2>1. pc'[w] = "done" /\ reply'[w] = "error"
    BY <1>5 DEF CreateReject, CreateTotalTooLarge, CreateDeductRefused, CreateItemsRefused,
       OrderNotFound, ReturnRefused, Finish, Goto, OrderInv, OrderTypeOK
  <2> QED BY <2>1 DEF CancelsNamed
<1>6. CASE \/ CreateAccept(w) \/ CreateSaveOrder(w) \/ CreateDeduct(w) \/ CreateSaveItems(w)
           \/ UpdateSave(w) \/ DeleteItems(w) \/ DeleteOrder(w)
  <2>1. /\ pc[w] \in {"received", "saveOrder", "deduct", "saveItems", "saveStatus",
                      "deleteItems", "deleteOrder"}
        /\ pc[w] = "received" => msg[w].topic = "create"
        /\ UNCHANGED msg
    BY <1>6 DEF CreateAccept, CreateSaveOrder, CreateDeduct, CreateSaveItems, UpdateSave,
       DeleteItems, DeleteOrder, WriteOrder, Handles, Finish, Continue
  <2>2. msg'[w].topic # "cancel"
    BY <2>1, AwaitTopics
  <2> QED BY <2>2 DEF CancelsNamed
<1> QED
  BY <1>1, <1>2, <1>3, <1>4, <1>5, <1>6 DEF WorkerStep, HandlerStep, CreateStep, ReturnStep

(* With the id in the field that cancelOrder reads, a cancel that is       *)
(* answered "ok" cancelled the order the client named: for any number of   *)
(* workers, crashes and rejected calls, and whatever products-service does.*)
THEOREM NamedOrdersAreHit ==
  ASSUME CancelField = "orderId"
  PROVE  OpenOrderSpec => []CancelHitsNamedOrder
<1> DEFINE Named == \A w \in Worker : CancelsNamed(w)
<1>1. OrderInit => Named
  BY DEF OrderInit, CancelsNamed
<1>2. OrderInv /\ Named /\ [OpenOrderNext]_orderVars => Named'
  <2> SUFFICES ASSUME OrderInv, Named, [OpenOrderNext]_orderVars, NEW u \in Worker
               PROVE  CancelsNamed(u)'
    OBVIOUS
  <2>1. CASE UNCHANGED ordersOnly
    BY <2>1 DEF ordersOnly, CancelsNamed
  <2>2. CASE OrderNext
    <3>1. PICK w \in Worker : WorkerStep(w)
      BY <2>2 DEF OrderNext, WorkerStep
    <3>2. CASE u = w
      BY <3>1, <3>2, CancelsNamedStep
    <3>3. CASE u # w
      <4>1. pc'[u] = pc[u] /\ msg'[u] = msg[u] /\ mem'[u] = mem[u] /\ reply'[u] = reply[u]
        BY <3>1, <3>3, OthersRest
      <4> QED BY <4>1 DEF CancelsNamed
    <3> QED BY <3>2, <3>3
  <2> QED BY <2>1, <2>2 DEF OpenOrderNext, CatalogSave, CatalogRemove, orderVars, ordersOnly
<1>3. OrderInv /\ Named => CancelHitsNamedOrder
  BY DEF CancelsNamed, CancelHitsNamedOrder, OrderInv, OrderTypeOK
<1> QED BY <1>1, <1>2, <1>3, InitInv, OpenStepInv, PTL DEF OpenOrderSpec
=============================================================================
