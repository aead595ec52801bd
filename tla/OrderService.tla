---------------------------- MODULE OrderService ----------------------------
(***************************************************************************)
(* orders-service: the Kafka handlers order.create, order.update,          *)
(* order.cancel and order.delete over the tables orders, order_items and   *)
(* products.                                                               *)
(*                                                                         *)
(* One action per await of a handler: the code between two awaits runs     *)
(* without interruption, anything else may happen at the await.  A worker  *)
(* is one consumer of the group 'order-service-consumer'.  It runs one     *)
(* handler at a time and commits the offset when the handler is over, so a *)
(* crash before that makes Kafka deliver the same request again.  A topic  *)
(* has one partition, hence one worker and one order; between the topics   *)
(* there is no order, and after a crash requests of another topic may come *)
(* before the one that is delivered again.                                 *)
(*                                                                         *)
(* order_items rows live in the `items` field of their order.  Addresses,  *)
(* phones, dates and the item's name and image are left out.               *)
(***************************************************************************)
EXTENDS OfflineDb, Sequences, FiniteSets, FiniteSetsExt

CONSTANTS
  Worker,        \* instances of orders-service
  OrderId,       \* uuids for order rows
  User,          \* user ids
  Null,          \* undefined / null / the empty string
  Quantity,      \* quantities a line may have (@IsPositive in the gateway)
  Cart,          \* the orderItems a client may send
  MaxAmount,     \* largest value of a decimal(10,2) column, in cents
  CancelField,   \* the field of order.cancel that carries the order's id
  Assigned,      \* Assigned[topic]: the worker that owns its partition
  MaxRequests,   \* bound: requests the clients send
  MaxCrashes,    \* bound: crashes of a worker
  MaxDbErrors    \* bound: database calls that reject

Topic == {"create", "update", "cancel", "delete"}
CartLine == [ product : ProductId, quantity : Quantity ]

ASSUME QuantityPositive == Quantity \subseteq Nat \ {0}
ASSUME CartsAreLines    == Cart \subseteq Seq(CartLine)
ASSUME FieldIsKnown     == CancelField \in {"id", "orderId"}
ASSUME TopicsAreOwned   == Assigned \in [Topic -> Worker]
ASSUME BoundsAreNatural == {MaxAmount, MaxRequests, MaxCrashes, MaxDbErrors} \subseteq Nat
ASSUME NullIsNoValue    == Null \notin OrderId \cup User

VARIABLES
  orders,     \* orders[o]: the order row and its items, or NoRow
  issued,     \* order uuids handed out so far (history)
  charged,    \* charged[o][p]: units taken minus units returned (history)
  pc,         \* pc[w]: the await worker w is at
  msg,        \* msg[w]: the request being handled, or Null
  mem,        \* mem[w]: the handler's local variables
  reply,      \* reply[w]: "ok" or "error" once the handler is over
  again,      \* requests whose worker died, to be delivered again
  halfway,    \* orders and the topic of a return broken off (history)
  received,   \* requests delivered so far
  crashes,    \* crashes so far
  dbErrors    \* database calls rejected so far

rows == <<products, orders, issued, charged>>
delivery == <<again, halfway, received, crashes, dbErrors>>
orderVars == <<products, orders, issued, charged, pc, msg, mem, reply,
               again, halfway, received, crashes, dbErrors>>
ordersOnly == <<orders, issued, charged, pc, msg, mem, reply,
                again, halfway, received, crashes, dbErrors>>

-----------------------------------------------------------------------------
(* Data.                                                                   *)

Item == [ product : ProductId, quantity : Quantity, price : Nat,
          total : 0..MaxAmount ]

(* status: 0 cancelled, 1 created, 2 and 3 the steps of updateOrder.       *)
OrderRow == [ status : 0..3, total : 0..MaxAmount, user : User,
              items : Seq(Item) ]

(* The field the gateway puts the order's id in, and the field the handler *)
(* reads it from.                                                          *)
SentField(topic) == CASE topic = "update" -> "orderId"
                      [] topic = "cancel" -> CancelField
                      [] topic = "delete" -> "id"
ReadField(topic) == IF topic = "delete" THEN "id" ELSE "orderId"

CreateMsg == [ topic : {"create"}, cart : Cart, user : User \cup {Null} ]
IdMsg     == [ topic : {"update", "cancel", "delete"}, id : OrderId ]
Message   == CreateMsg \cup IdMsg

Local == [ order : OrderId \cup {Null},             \* const order / id
           row   : OrderRow \cup {NoRow},           \* the order as it was read
           snap  : [ProductId -> Entity \cup {NoRow}], \* the products as read
           next  : Nat \ {0} ]                      \* loop position

EmptySnap == [p \in ProductId |-> NoRow]
NoLocals == [ order |-> Null, row |-> NoRow, snap |-> EmptySnap, next |-> 1 ]

(* findOne({ where: { id } }): an undefined id is no condition at all, and *)
(* the query returns whichever order the table yields first.               *)
Matching(m) ==
  { o \in OrderId : /\ orders[o] # NoRow
                    /\ SentField(m.topic) = ReadField(m.topic) => o = m.id }

(* amounts.reduce((sum, amount) => sum + amount, 0)                        *)
SumOver(amounts) ==
  LET sum[n \in 0..Len(amounts)] == IF n = 0 THEN 0 ELSE sum[n - 1] + amounts[n]
  IN  sum[Len(amounts)]

(* Mutant: the lines are priced anew when they are saved.                  *)
PricedItemsNow(cart, snap) ==
  [ i \in 1..Len(cart) |->
      LET now   == LoadProduct(cart[i].product)
          price == IF now = NoRow THEN snap[cart[i].product].price ELSE now.price
      IN  [ product  |-> cart[i].product,
            quantity |-> cart[i].quantity,
            price    |-> price,
            total    |-> price * cart[i].quantity ] ]

(* The order lines of a cart at the prices of the products as read.        *)
PricedItems(cart, snap) ==
  [ i \in 1..Len(cart) |->
      LET price == snap[cart[i].product].price
      IN  [ product  |-> cart[i].product,
            quantity |-> cart[i].quantity,
            price    |-> price,
            total    |-> price * cart[i].quantity ] ]

(* Mutant: the sum forgets the quantities.                                 *)
CartTotalOfPrices(cart, snap) ==
  SumOver([ i \in 1..Len(cart) |-> snap[cart[i].product].price ])

(* const totalPrice = dto.orderItems.reduce(...)                           *)
CartTotal(cart, snap) ==
  SumOver([ i \in 1..Len(cart) |-> snap[cart[i].product].price * cart[i].quantity ])

(* findBy({ id: In(productIds) })                                          *)
SnapshotOf(cart) ==
  [ p \in ProductId |->
      IF \E i \in 1..Len(cart) : cart[i].product = p THEN LoadProduct(p) ELSE NoRow ]

(* Mutants: a line may name a product again; the stock check is missing.   *)
AcceptableUncounted(m, snap) ==
  /\ m.cart # << >>
  /\ \A i \in 1..Len(m.cart) :
       /\ snap[m.cart[i].product] # NoRow
       /\ snap[m.cart[i].product].stock >= m.cart[i].quantity
  /\ m.user # Null
AcceptableAnyStock(m, snap) ==
  /\ m.cart # << >>
  /\ Cardinality({p \in ProductId : snap[p] # NoRow}) = Len(m.cart)
  /\ \A i \in 1..Len(m.cart) : snap[m.cart[i].product] # NoRow
  /\ m.user # Null

(* The checks of createOrder after the read: as many rows as lines, stock  *)
(* for every line, and a user.                                             *)
Acceptable(m, snap) ==
  /\ m.cart # << >>
  /\ Cardinality({p \in ProductId : snap[p] # NoRow}) = Len(m.cart)
  /\ \A i \in 1..Len(m.cart) :
       /\ snap[m.cart[i].product] # NoRow
       /\ snap[m.cart[i].product].stock >= m.cart[i].quantity
  /\ m.user # Null

(* Mutants: the status runs past its last step; a cancelled order moves on.*)
NextStatusUncapped(s) == IF s = 0 THEN s ELSE s + 1
NextStatusRevives(s) == IF s \in {0, 1, 2} THEN s + 1 ELSE s

NextStatus(s) == IF s \in {1, 2} THEN s + 1 ELSE s

ASSUME NoRowIsNotAnOrder == NoRow \notin OrderRow

-----------------------------------------------------------------------------
(* Steps every handler is made of.                                         *)

Goto(w, where) == pc' = [pc EXCEPT ![w] = where]

(* The handler returns or throws; either way the gateway gets a reply.     *)
Finish(w, answer) ==
  /\ Goto(w, "done")
  /\ reply' = [reply EXCEPT ![w] = answer]
  /\ UNCHANGED <<msg, delivery>>

Continue(w, where) ==
  /\ Goto(w, where)
  /\ UNCHANGED <<msg, reply, delivery>>

Handles(w, topic) == pc[w] = "received" /\ msg[w].topic = topic

OrderInit ==
  /\ products \in InitialTables
  /\ orders = [o \in OrderId |-> NoRow]
  /\ issued = {}
  /\ charged = [o \in OrderId |-> [p \in ProductId |-> 0]]
  /\ pc = [w \in Worker |-> "idle"]
  /\ msg = [w \in Worker |-> Null]
  /\ mem = [w \in Worker |-> NoLocals]
  /\ reply = [w \in Worker |-> Null]
  /\ again = {} /\ halfway = {}
  /\ received = 0 /\ crashes = 0 /\ dbErrors = 0

-----------------------------------------------------------------------------
(* Kafka delivers the next request of one of the worker's partitions; one  *)
(* that was not committed comes before the others of its topic.  A create  *)
(* is only sent while a uuid is left for it and for its redeliveries:      *)
(* OrderId is finite, uuids are not.                                       *)

IdsLeft == Cardinality(OrderId \ issued) > MaxCrashes - crashes

Begin(w, m) ==
  /\ pc[w] = "idle" /\ Assigned[m.topic] = w
  /\ msg' = [msg EXCEPT ![w] = m]
  /\ Goto(w, "received")
  /\ UNCHANGED <<rows, mem, reply, halfway, crashes, dbErrors>>

NewRequest(w) ==
  /\ received < MaxRequests
  /\ \E m \in Message :
       /\ \A n \in again : n.topic # m.topic
       /\ m.topic = "create" => IdsLeft
       /\ Begin(w, m)
  /\ received' = received + 1
  /\ UNCHANGED again

Redeliver(w) ==
  /\ \E m \in again : Begin(w, m) /\ again' = again \ {m}
  /\ UNCHANGED received

Receive(w) == NewRequest(w) \/ Redeliver(w)

(* Mutant: the offset of a failed request is not committed.                *)
CommitOnlySuccess(w) ==
  /\ pc[w] = "done" /\ reply[w] = "ok"
  /\ Goto(w, "idle")
  /\ msg' = [msg EXCEPT ![w] = Null]
  /\ mem' = [mem EXCEPT ![w] = NoLocals]
  /\ reply' = [reply EXCEPT ![w] = Null]
  /\ UNCHANGED <<rows, delivery>>

(* The reply is sent and the offset committed.                             *)
Commit(w) ==
  /\ pc[w] = "done"
  /\ Goto(w, "idle")
  /\ msg' = [msg EXCEPT ![w] = Null]
  /\ mem' = [mem EXCEPT ![w] = NoLocals]
  /\ reply' = [reply EXCEPT ![w] = Null]
  /\ UNCHANGED <<rows, delivery>>

-----------------------------------------------------------------------------
(* order.create                                                            *)

CreateReject(w) ==
  /\ Handles(w, "create")
  /\ ~Acceptable(msg[w], SnapshotOf(msg[w].cart))
  /\ Finish(w, "error")
  /\ UNCHANGED <<rows, mem>>

CreateAccept(w) ==
  /\ Handles(w, "create")
  /\ LET snap == SnapshotOf(msg[w].cart)
     IN  /\ Acceptable(msg[w], snap)
         /\ mem' = [mem EXCEPT ![w].snap = snap]
  /\ Continue(w, "saveOrder")
  /\ UNCHANGED rows

(* await orderRepo.save(order): the insert, unless the total does not fit  *)
(* its column.                                                             *)
CreateSaveOrder(w) ==
  /\ pc[w] = "saveOrder"
  /\ LET total == CartTotal(msg[w].cart, mem[w].snap)
     IN  /\ total \in 0..MaxAmount
         /\ \E o \in OrderId \ issued :
              /\ orders' = [orders EXCEPT ![o] =
                   [status |-> 1, total |-> total, user |-> msg[w].user, items |-> << >>]]
              /\ issued' = issued \cup {o}
              /\ mem' = [mem EXCEPT ![w].order = o]
  /\ Continue(w, "deduct")
  /\ UNCHANGED <<products, charged>>

CreateTotalTooLarge(w) ==
  /\ pc[w] = "saveOrder"
  /\ CartTotal(msg[w].cart, mem[w].snap) \notin 0..MaxAmount
  /\ Finish(w, "error")
  /\ UNCHANGED <<rows, mem>>

(* Mutant: one unit a line.                                                *)
DeductedOne(w) ==
  [mem[w].snap[msg[w].cart[mem[w].next].product] EXCEPT !.stock = @ - 1]

(* The product object with this line's units taken off.                    *)
Deducted(w) ==
  LET line == msg[w].cart[mem[w].next]
  IN  [mem[w].snap[line.product] EXCEPT !.stock = @ - line.quantity]

(* product.stock -= item.quantity; await productRepo.save(product)         *)
CreateDeduct(w) ==
  LET i    == mem[w].next
      line == msg[w].cart[i]
  IN  /\ pc[w] = "deduct"
      /\ SaveProduct(line.product, Deducted(w))
      /\ charged' = [charged EXCEPT ![mem[w].order][line.product] = @ + line.quantity]
      /\ mem' = [mem EXCEPT ![w].snap[line.product] = Deducted(w), ![w].next = i + 1]
      /\ Continue(w, IF i = Len(msg[w].cart) THEN "saveItems" ELSE "deduct")
      /\ UNCHANGED <<orders, issued>>

CreateDeductRefused(w) ==
  /\ pc[w] = "deduct"
  /\ ~NameFree(msg[w].cart[mem[w].next].product, Deducted(w).name)
  /\ Finish(w, "error")
  /\ UNCHANGED <<rows, mem>>

(* await orderItemRepo.save(orderItems): one transaction, refused when the *)
(* foreign key has lost its order or an amount does not fit its column.    *)
ItemsStorable(w) ==
  /\ orders[mem[w].order] # NoRow
  /\ \A i \in 1..Len(msg[w].cart) :
       PricedItems(msg[w].cart, mem[w].snap)[i].total \in 0..MaxAmount

CreateSaveItems(w) ==
  /\ pc[w] = "saveItems"
  /\ ItemsStorable(w)
  /\ orders' = [orders EXCEPT ![mem[w].order].items = PricedItems(msg[w].cart, mem[w].snap)]
  /\ Finish(w, "ok")
  /\ UNCHANGED <<products, issued, charged, mem>>

CreateItemsRefused(w) ==
  /\ pc[w] = "saveItems"
  /\ ~ItemsStorable(w)
  /\ Finish(w, "error")
  /\ UNCHANGED <<rows, mem>>

-----------------------------------------------------------------------------
(* The read order.update, order.cancel and order.delete begin with.        *)

FindOrder(w, topic, where(_)) ==
  /\ Handles(w, topic)
  /\ \E o \in Matching(msg[w]) :
       /\ mem' = [mem EXCEPT ![w].order = o, ![w].row = orders[o]]
       /\ Continue(w, where(orders[o]))
  /\ UNCHANGED rows

OrderNotFound(w) ==
  /\ pc[w] = "received"
  /\ msg[w].topic # "create"
  /\ Matching(msg[w]) = {}
  /\ Finish(w, "error")
  /\ UNCHANGED <<rows, mem>>

(* await orderRepo.save(order): the row as this handler has it, back in    *)
(* the table even if it was deleted meanwhile.                             *)
WriteOrder(w, row) ==
  /\ orders' = [orders EXCEPT ![mem[w].order] = row]
  /\ UNCHANGED <<products, issued, charged, mem>>

(* order.update                                                            *)
UpdateFind(w) == FindOrder(w, "update", LAMBDA row : "saveStatus")

(* The items were not loaded, so save leaves those in the table alone.     *)
UpdateSave(w) ==
  LET current == orders[mem[w].order]
  IN  /\ pc[w] = "saveStatus"
      /\ WriteOrder(w, [mem[w].row EXCEPT
           !.status = NextStatus(@),
           !.items  = IF current = NoRow THEN << >> ELSE current.items])
      /\ Finish(w, "ok")

-----------------------------------------------------------------------------
(* The loop of order.cancel and order.delete that returns stock.           *)

AfterReturns(topic) == IF topic = "cancel" THEN "saveCancelled" ELSE "deleteItems"

ReturnLine(w) == mem[w].row.items[mem[w].next]

NextReturn(w) ==
  IF mem[w].next = Len(mem[w].row.items) THEN AfterReturns(msg[w].topic) ELSE "findProduct"

(* const product = await productRepo.findOne(...); if (product) ...        *)
ReturnFind(w) ==
  LET p == ReturnLine(w).product
  IN  /\ pc[w] = "findProduct"
      /\ products[p] # NoRow
      /\ mem' = [mem EXCEPT ![w].snap[p] = LoadProduct(p)]
      /\ Continue(w, "returnStock")
      /\ UNCHANGED rows

(* Mutant: the loop stays at a product that is gone.                       *)
ReturnSkipStays(w) ==
  /\ pc[w] = "findProduct"
  /\ products[ReturnLine(w).product] = NoRow
  /\ Continue(w, "findProduct")
  /\ UNCHANGED <<rows, mem>>

ReturnSkip(w) ==
  /\ pc[w] = "findProduct"
  /\ products[ReturnLine(w).product] = NoRow
  /\ mem' = [mem EXCEPT ![w].next = @ + 1]
  /\ Continue(w, NextReturn(w))
  /\ UNCHANGED rows

Returned(w) ==
  [mem[w].snap[ReturnLine(w).product] EXCEPT !.stock = @ + ReturnLine(w).quantity]

(* product.stock += item.quantity; await productRepo.save(product)         *)
ReturnSave(w) ==
  LET line == ReturnLine(w)
  IN  /\ pc[w] = "returnStock"
      /\ SaveProduct(line.product, Returned(w))
      /\ charged' = [charged EXCEPT ![mem[w].order][line.product] = @ - line.quantity]
      /\ mem' = [mem EXCEPT ![w].snap = EmptySnap, ![w].next = @ + 1]
      /\ Continue(w, NextReturn(w))
      /\ UNCHANGED <<orders, issued>>

ReturnRefused(w) ==
  /\ pc[w] = "returnStock"
  /\ ~NameFree(ReturnLine(w).product, Returned(w).name)
  /\ Finish(w, "error")
  /\ UNCHANGED <<rows, mem>>

(* order.cancel: the stock of every item is returned whatever the status.  *)
CancelFind(w) ==
  FindOrder(w, "cancel", LAMBDA row :
    IF row.items = << >> THEN "saveCancelled" ELSE "findProduct")

(* Mutant: the status is left as it was.                                   *)
CancelSaveKeepsStatus(w) ==
  /\ pc[w] = "saveCancelled"
  /\ WriteOrder(w, mem[w].row)
  /\ Finish(w, "ok")

(* order.status = 0; the items were loaded and cascade with the order.     *)
CancelSave(w) ==
  /\ pc[w] = "saveCancelled"
  /\ WriteOrder(w, [mem[w].row EXCEPT !.status = 0])
  /\ Finish(w, "ok")

(* Mutant: only an order nobody has updated gives its stock back.          *)
DeleteFindNewOnly(w) ==
  FindOrder(w, "delete", LAMBDA row :
    IF row.status # 1 \/ row.items = << >> THEN "deleteItems" ELSE "findProduct")

(* Mutant: a cancelled order gives its stock back again.                   *)
DeleteFindCancelled(w) ==
  FindOrder(w, "delete", LAMBDA row :
    IF row.items = << >> THEN "deleteItems" ELSE "findProduct")

(* order.delete: a cancelled order has had its stock returned already.     *)
DeleteFind(w) ==
  FindOrder(w, "delete", LAMBDA row :
    IF row.status = 0 \/ row.items = << >> THEN "deleteItems" ELSE "findProduct")

(* Mutant: the order goes before its items.                                *)
DeleteItemsOrderFirst(w) ==
  /\ pc[w] = "deleteItems"
  /\ orders' = [orders EXCEPT ![mem[w].order] = NoRow]
  /\ Continue(w, "deleteOrder")
  /\ UNCHANGED <<products, issued, charged, mem>>

(* await orderItemRepo.delete({ order: { id } })                           *)
DeleteItems(w) ==
  LET o == mem[w].order
  IN  /\ pc[w] = "deleteItems"
      /\ orders' = IF orders[o] = NoRow THEN orders ELSE [orders EXCEPT ![o].items = << >>]
      /\ Continue(w, "deleteOrder")
      /\ UNCHANGED <<products, issued, charged, mem>>

(* await orderRepo.delete(id)                                              *)
DeleteOrder(w) ==
  /\ pc[w] = "deleteOrder"
  /\ WriteOrder(w, NoRow)
  /\ Finish(w, "ok")

-----------------------------------------------------------------------------
(* Faults.                                                                 *)

(* History: the loop that returns stock does not come to its end.          *)
ReturnAwaits == {"findProduct", "returnStock", "saveCancelled", "deleteItems"}

BreaksOff(w) ==
  halfway' = IF pc[w] \in ReturnAwaits
             THEN halfway \cup {<<mem[w].order, msg[w].topic>>} ELSE halfway

(* The process dies before the offset is committed: the request is handled *)
(* again from the start, in its turn, by the restarted worker.             *)
Crash(w) ==
  /\ pc[w] # "idle"
  /\ crashes < MaxCrashes
  /\ crashes' = crashes + 1
  /\ again' = again \cup {msg[w]}
  /\ Goto(w, "idle")
  /\ msg' = [msg EXCEPT ![w] = Null]
  /\ mem' = [mem EXCEPT ![w] = NoLocals]
  /\ reply' = [reply EXCEPT ![w] = Null]
  /\ BreaksOff(w)
  /\ UNCHANGED <<rows, received, dbErrors>>

(* The awaited call rejects: the handler throws and nothing is undone.     *)
DbError(w) ==
  /\ pc[w] \notin {"idle", "done"}
  /\ dbErrors < MaxDbErrors
  /\ dbErrors' = dbErrors + 1
  /\ Goto(w, "done")
  /\ reply' = [reply EXCEPT ![w] = "error"]
  /\ BreaksOff(w)
  /\ UNCHANGED <<rows, msg, mem, again, received, crashes>>

-----------------------------------------------------------------------------
CreateStep(w) ==
  \/ CreateReject(w) \/ CreateAccept(w) \/ CreateSaveOrder(w) \/ CreateTotalTooLarge(w)
  \/ CreateDeduct(w) \/ CreateDeductRefused(w) \/ CreateSaveItems(w) \/ CreateItemsRefused(w)

ReturnStep(w) ==
  ReturnFind(w) \/ ReturnSkip(w) \/ ReturnSave(w) \/ ReturnRefused(w)

HandlerStep(w) ==
  \/ CreateStep(w)
  \/ OrderNotFound(w) \/ UpdateFind(w) \/ UpdateSave(w)
  \/ ReturnStep(w) \/ CancelFind(w) \/ CancelSave(w)
  \/ DeleteFind(w) \/ DeleteItems(w) \/ DeleteOrder(w)
  \/ Commit(w)

OrderNext == \E w \in Worker : Receive(w) \/ HandlerStep(w) \/ Crash(w) \/ DbError(w)

OrderSpec == OrderInit /\ [][OrderNext]_orderVars

(* The service beside products-service, which inserts, changes and removes *)
(* products between any two awaits.                                        *)
CatalogSave   == (\E p \in ProductId : OtherSave(p)) /\ UNCHANGED ordersOnly
CatalogRemove == (\E p \in ProductId : OtherRemove(p)) /\ UNCHANGED ordersOnly

OpenOrderNext == OrderNext \/ CatalogSave \/ CatalogRemove

OpenOrderSpec == OrderInit /\ [][OpenOrderNext]_orderVars

(* A running handler goes on: the event loop resumes it when the database  *)
(* answers or rejects, and a crashed worker is restarted and is sent the   *)
(* uncommitted requests again.  Nobody has to send requests.               *)
HandlersGoOn ==
  \A w \in Worker : WF_orderVars(HandlerStep(w)) /\ WF_orderVars(Redeliver(w))

FairOrderSpec     == OrderSpec /\ HandlersGoOn
FairOpenOrderSpec == OpenOrderSpec /\ HandlersGoOn

-----------------------------------------------------------------------------
(* Properties.                                                             *)

Await == {"idle", "received", "saveOrder", "deduct", "saveItems", "saveStatus",
          "findProduct", "returnStock", "saveCancelled", "deleteItems",
          "deleteOrder", "done"}

(* The awaits of each handler.                                             *)
AwaitsOf(topic) ==
  CASE topic = "create" -> {"saveOrder", "deduct", "saveItems"}
    [] topic = "update" -> {"saveStatus"}
    [] topic = "cancel" -> {"findProduct", "returnStock", "saveCancelled"}
    [] topic = "delete" -> {"findProduct", "returnStock", "deleteItems", "deleteOrder"}

(* Every variable has its type, and a worker is only ever at an await of   *)
(* the handler of the request it holds.                                    *)
OrderTypeOK ==
  /\ ProductsTypeOK
  /\ orders \in [OrderId -> OrderRow \cup {NoRow}]
  /\ issued \subseteq OrderId
  /\ charged \in [OrderId -> [ProductId -> Int]]
  /\ msg \in [Worker -> Message \cup {Null}]
  /\ mem \in [Worker -> Local]
  /\ reply \in [Worker -> {"ok", "error", Null}]
  /\ again \subseteq Message
  /\ halfway \subseteq OrderId \X {"cancel", "delete"}
  /\ received \in Nat /\ crashes \in Nat /\ dbErrors \in Nat
  /\ pc \in [Worker -> Await]
  /\ \A w \in Worker :
       IF pc[w] = "idle" THEN msg[w] = Null
       ELSE /\ msg[w] \in Message
            /\ pc[w] \in {"received", "done"} \cup AwaitsOf(msg[w].topic)

(* What a handler's local variables hold at each await, for any number of  *)
(* workers and whatever the others do meanwhile.  With it the type         *)
(* correctness and StockNonNegative are inductive: createOrder's snapshot  *)
(* covers every line it has still to deduct, and no product twice.         *)
Lines(w) == 1..Len(msg[w].cart)

CartCovered(w) ==
  /\ msg[w].user \in User
  /\ \A i, j \in Lines(w) :
       msg[w].cart[i].product = msg[w].cart[j].product => i = j
  /\ \A i \in Lines(w) : mem[w].snap[msg[w].cart[i].product] # NoRow
  /\ pc[w] # "saveItems" =>
       /\ mem[w].next \in Lines(w)
       /\ \A i \in Lines(w) : i >= mem[w].next =>
            mem[w].snap[msg[w].cart[i].product].stock >= msg[w].cart[i].quantity

OrderRead(w) == mem[w].order \in OrderId /\ mem[w].row \in OrderRow

LoopInside(w) ==
  /\ mem[w].next \in 1..Len(mem[w].row.items)
  /\ pc[w] = "returnStock" => mem[w].snap[ReturnLine(w).product] # NoRow

LocalsOK(w) ==
  /\ \A p \in ProductId : mem[w].snap[p] # NoRow => mem[w].snap[p].stock >= 0
  /\ pc[w] \in {"idle", "received", "saveOrder"} => mem[w].next = 1
  /\ pc[w] \in {"saveOrder", "deduct", "saveItems"} => CartCovered(w)
  /\ pc[w] \in {"deduct", "saveItems"} => mem[w].order \in OrderId
  /\ pc[w] \in {"saveStatus", "findProduct", "returnStock", "saveCancelled",
                "deleteItems", "deleteOrder"} => OrderRead(w)
  /\ pc[w] \in {"findProduct", "returnStock"} => LoopInside(w)

HandlersOK == StockNonNegative /\ \A w \in Worker : LocalsOK(w)

(* What one worker may rely on when nobody else writes the tables: the row *)
(* a handler is about to write back is the row in the table, plus its own  *)
(* change.  Two workers, or products-service, break it at every await.     *)
CartFresh(w) ==
  \A i \in Lines(w) : i >= mem[w].next =>
    LET p == msg[w].cart[i].product IN mem[w].snap[p] = LoadProduct(p)

RowFresh(w) ==
  LET current == orders[mem[w].order]
  IN  current # NoRow /\ current.status = mem[w].row.status

SnapshotsFresh ==
  \A w \in Worker :
    /\ pc[w] \in {"saveOrder", "deduct"} => CartFresh(w)
    /\ pc[w] \in {"saveStatus", "findProduct", "returnStock", "saveCancelled",
                  "deleteItems", "deleteOrder"} => RowFresh(w)
    /\ pc[w] = "returnStock" =>
         LET p == ReturnLine(w).product IN mem[w].snap[p] = LoadProduct(p)

(* Stock and orders move together: with nobody else writing `products`,    *)
(* every step of the service either leaves stock alone or moves exactly    *)
(* the units of one order line, to or from the account of that order       *)
(* (createOrder's deduction loop, the return loops of cancel and delete).  *)
Ledger == INSTANCE StockLedger WITH
  Product <- ProductId, Account <- OrderId,
  shelf <- [p \in ProductId |-> IF products[p] = NoRow THEN 0 ELSE products[p].stock]

ImplementsLedger == Ledger!LedgerSpec

(* No request is being handled and none waits to be handled again.         *)
Quiet == again = {} /\ \A w \in Worker : pc[w] = "idle"

Units(o, p) ==
  LET items == orders[o].items
  IN  SumOver([ i \in 1..Len(items) |->
                  IF items[i].product = p THEN items[i].quantity ELSE 0 ])

Live(o) == orders[o] # NoRow /\ orders[o].status # 0

(* Between requests a live order has taken exactly the units of its items, *)
(* and a cancelled or deleted one keeps none, whatever sequence of create, *)
(* update, cancel and delete led there.                                    *)
OrdersSettled ==
  Quiet => \A o \in OrderId, p \in ProductId :
             IF Live(o) THEN charged[o][p] = Units(o, p) ELSE charged[o][p] <= 0

(* What crashes and rejected calls leave of it: a live order that got its  *)
(* items has taken exactly their units, unless a cancel was broken off     *)
(* while it returned them.  A delete that died there does no harm, though  *)
(* updates and cancels may meet the order half returned: delivered again   *)
(* it deletes that order, if the database lets it.                         *)
LiveOrdersSettled ==
  Quiet => \A o \in OrderId, p \in ProductId :
             Live(o) /\ orders[o].items # << >> /\ charged[o][p] # Units(o, p) =>
               \/ <<o, "cancel">> \in halfway
               \/ <<o, "delete">> \in halfway /\ dbErrors > 0

(* No unit is lost or made up: what is on the shelf and what the orders    *)
(* hold between them is what the shop began with, at every await and after *)
(* any crash, although the handlers write back copies of rows they read an *)
(* await earlier and begin a request again with part of it done.           *)
StockIn(table, p) == IF table[p] = NoRow THEN 0 ELSE table[p].stock

OrderLists == Bijection(1..Cardinality(OrderId), OrderId)

HeldBy(ids, p) == SumOver([ k \in 1..Cardinality(OrderId) |-> charged[ids[k]][p] ])

UnitsConserved ==
  \E table \in InitialTables : \A ids \in OrderLists, p \in ProductId :
    StockIn(products, p) + HeldBy(ids, p) = StockIn(table, p)

(* While nothing has failed, an order gives back more than it has taken    *)
(* only when cancelOrder's loop runs over an order that is cancelled       *)
(* already: deleteOrder leaves such an order's stock alone, updateOrder    *)
(* revives none, and no loop meets units that are not deducted yet.        *)
OnlyCancelReturnsTwice ==
  [][\A o \in OrderId, p \in ProductId :
       /\ crashes = 0 /\ dbErrors = 0
       /\ charged'[o][p] < charged[o][p] /\ charged'[o][p] < 0
       => \E w \in Worker : /\ pc[w] = "returnStock" /\ msg[w].topic = "cancel"
                             /\ mem[w].order = o /\ mem[w].row.status = 0]_orderVars

(* An order's status goes 1, 2, 3 one step at a time or to 0; a cancelled  *)
(* order stays cancelled, and a deleted one is not written back by a       *)
(* handler that had read it.                                               *)
OrderLifecycle ==
  [][\A o \in issued :
       /\ orders[o] = NoRow => orders'[o] = NoRow
       /\ orders[o] # NoRow /\ orders'[o] # NoRow =>
            orders'[o].status \in {0, orders[o].status, NextStatus(orders[o].status)}
       /\ orders[o] # NoRow /\ orders'[o] # NoRow /\ orders[o].status = 0 =>
            orders'[o].status = 0]_orderVars

(* Once createOrder has saved the order row nothing but a rejected call    *)
(* can make it fail: no item's amount is out of range when the total is    *)
(* not.  While nobody else writes the table of products, which the unique  *)
(* name and the foreign key need: beside products-service either of the    *)
(* two may still refuse a later write.                                     *)
CreateFailsBeforeSaving ==
  \A w \in Worker :
    pc[w] = "done" /\ msg[w].topic = "create" /\ reply[w] = "error" /\ dbErrors = 0 =>
      mem[w].order = Null

(* Stock is returned ("trả lại tồn kho") once: an order never gives back    *)
(* more than was taken for it.                                             *)
ReturnedOnce == \A o \in OrderId, p \in ProductId : charged[o][p] >= 0

(* A cancel that is answered "ok" cancelled the order the client named; an *)
(* id no order has is answered with an error ('Order not found').          *)
CancelHitsNamedOrder ==
  \A w \in Worker :
    pc[w] = "done" /\ msg[w].topic = "cancel" /\ reply[w] = "ok" => mem[w].order = msg[w].id

SumsUp(total, items) ==
  items # << >> =>
    /\ total = SumOver([ i \in 1..Len(items) |-> items[i].total ])
    /\ \A i \in 1..Len(items) : items[i].total = items[i].price * items[i].quantity

(* An order's total is the sum of its items and each item is worth its     *)
(* price times its quantity, although the total is computed two awaits or  *)
(* more before the items are, with products changing price in between.     *)
TotalMatchesItems ==
  \A o \in OrderId : orders[o] # NoRow => SumsUp(orders[o].total, orders[o].items)

(* A request that was delivered is answered and committed in the end, and  *)
(* its partition does not stand still behind it, crashes and rejected      *)
(* database calls notwithstanding.                                         *)
Uncommitted(topic) ==
  \/ \E m \in again : m.topic = topic
  \/ \E w \in Worker : pc[w] # "idle" /\ msg[w].topic = topic

EveryRequestAnswered == \A topic \in Topic : Uncommitted(topic) ~> ~Uncommitted(topic)

=============================================================================
