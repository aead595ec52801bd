--------------------------- MODULE ProductService ---------------------------
(***************************************************************************)
(* products-service: the Kafka handlers product.create, product.update and *)
(* product.delete, and create, update and delete of categories and brands, *)
(* which are the same code over two tables (the `kind` of a label).        *)
(*                                                                         *)
(* One instance of the service, one handler at a time, one action per      *)
(* await.  The table `products` is shared with orders-service.  A request  *)
(* is committed when its handler is over; one whose handler died is        *)
(* delivered again before the others of its topic, but requests of other   *)
(* topics may come first.                                                  *)
(***************************************************************************)
EXTENDS OfflineDb, FiniteSets

CONSTANTS
  LabelName,       \* values of the unique column `name` of a label
  Price,           \* prices a client may send (@IsPositive in the gateway)
  StartStock,      \* stocks a new product may be given (@Min(0))
  Absent,          \* undefined: the client left the field out
  ClientCalls,     \* the requests clients send
  MaxCalls,        \* bound: requests the clients send
  MaxRestarts      \* bound: crashes of the service

(* What the gateway's DTOs let through.                                    *)
ProductCall ==
  [ op : {"create"}, name : ProductName, price : Price, stock : StartStock,
    labels : [Kind -> LabelId] ]
  \cup [ op : {"update"}, id : ProductId, name : ProductName \cup {Absent},
         price : Price \cup {Absent} ]
  \cup [ op : {"delete"}, id : ProductId ]

LabelCall ==
  [ op : {"createLabel"}, kind : Kind, name : LabelName ]
  \cup [ op : {"updateLabel"}, kind : Kind, id : LabelId, name : LabelName ]
  \cup [ op : {"deleteLabel"}, kind : Kind, id : LabelId ]

ASSUME CallsAreLegal     == ClientCalls \subseteq ProductCall \cup LabelCall
ASSUME PricesArePositive == Price \subseteq Nat \ {0}
ASSUME StocksAreNatural  == StartStock \subseteq Nat
ASSUME AbsentIsNoValue   == Absent \notin ProductName \cup Price
ASSUME NoRowIsNoLabel    == NoRow \notin LabelName
ASSUME CallBounds        == {MaxCalls, MaxRestarts} \subseteq Nat

VARIABLES
  labels,     \* labels[kind][id]: the name of the category or brand, or NoRow
  usedIds,    \* product uuids handed out so far (history)
  at,         \* the await the handler is at
  call,       \* the request being handled, or Absent
  local,      \* the product or label entity as this handler has it
  answer,     \* "ok" or "error" once the handler is over, Absent before
  callsAgain, \* requests whose handler died, to be delivered again
  calls,      \* requests delivered so far
  restarts    \* crashes so far

catalog == <<products, labels, usedIds>>
productVars == <<products, labels, usedIds, at, call, local, answer,
                 callsAgain, calls, restarts>>

(* The unique index on the name of a category and of a brand.              *)
LabelNamesUnique ==
  \A k \in Kind : \A a, b \in LabelId :
    labels[k][a] = labels[k][b] /\ labels[k][a] # NoRow => a = b

(* Every product refers to a category and a brand that exist, or to none:  *)
(* checking them two awaits before the insert is early enough, and no      *)
(* handler of either service brings a reference to a deleted one back.     *)
LabelReferencesResolve ==
  \A p \in ProductId, k \in Kind :
    products[p] # NoRow /\ products[p].labels[k] # NoRow =>
      labels[k][products[p].labels[k]] # NoRow

ProductInit ==
  /\ products \in InitialTables
  /\ labels \in [Kind -> [LabelId -> LabelName \cup {NoRow}]]
  /\ LabelNamesUnique
  /\ LabelReferencesResolve
  /\ usedIds = {p \in ProductId : products[p] # NoRow}
  /\ at = "idle"
  /\ call = Absent
  /\ local = NoRow
  /\ answer = Absent
  /\ callsAgain = {}
  /\ calls = 0 /\ restarts = 0

-----------------------------------------------------------------------------
Move(where) == at' = where /\ UNCHANGED <<call, answer, callsAgain, calls, restarts>>

Answer(what) == at' = "done" /\ answer' = what /\ UNCHANGED <<call, callsAgain, calls, restarts>>

Serves(op) == at = "received" /\ call.op = op

(* A topic is an operation and, for labels, the kind: one partition each.  *)
CallTopic(c) ==
  <<c.op, IF c.op \in {"createLabel", "updateLabel", "deleteLabel"} THEN c.kind ELSE Absent>>

(* Uuids do not run out; ProductId and LabelId do.  The id of a deleted    *)
(* label may be used again: no row and no entity in memory refers to it.   *)
EnoughLeft(ids) == Cardinality(ids) > MaxRestarts - restarts

BeginCall(c) ==
  /\ at = "idle"
  /\ at' = "received"
  /\ call' = c
  /\ UNCHANGED <<catalog, local, answer, restarts>>

NewCall ==
  /\ calls < MaxCalls
  /\ \E c \in ClientCalls :
       /\ \A d \in callsAgain : CallTopic(d) # CallTopic(c)
       /\ c.op = "create" => EnoughLeft(ProductId \ usedIds)
       /\ c.op = "createLabel" => EnoughLeft({id \in LabelId : labels[c.kind][id] = NoRow})
       /\ BeginCall(c)
  /\ calls' = calls + 1
  /\ UNCHANGED callsAgain

RedeliverCall ==
  /\ \E c \in callsAgain : BeginCall(c) /\ callsAgain' = callsAgain \ {c}
  /\ UNCHANGED calls

ReceiveCall == NewCall \/ RedeliverCall

(* Mutant: the offset of a failed request is not committed.                *)
CommitCallOnlySuccess ==
  /\ at = "done" /\ answer = "ok"
  /\ at' = "idle"
  /\ call' = Absent
  /\ local' = NoRow
  /\ answer' = Absent
  /\ UNCHANGED <<catalog, callsAgain, calls, restarts>>

CommitCall ==
  /\ at = "done"
  /\ at' = "idle"
  /\ call' = Absent
  /\ local' = NoRow
  /\ answer' = Absent
  /\ UNCHANGED <<catalog, callsAgain, calls, restarts>>

-----------------------------------------------------------------------------
(* product.create: find the category, the brand, a product of that name.   *)

FindLabelOf(kind, from, to) ==
  /\ at = from
  /\ from = "received" => call.op = "create"
  /\ IF labels[kind][call.labels[kind]] = NoRow THEN Answer("error") ELSE Move(to)
  /\ UNCHANGED <<catalog, local>>

CreateFindCategory == FindLabelOf("category", "received", "findBrand")
CreateFindBrand    == FindLabelOf("brand", "findBrand", "findName")

CreateFindName ==
  /\ at = "findName"
  /\ IF \E p \in ProductId : products[p] # NoRow /\ products[p].name = call.name
     THEN Answer("error") ELSE Move("insert")
  /\ UNCHANGED <<catalog, local>>

(* A uuid no row has had, and a name the index accepts at this moment.     *)
CreateInsert ==
  /\ at = "insert"
  /\ \E p \in ProductId \ usedIds :
       /\ NameFree(p, call.name)
       /\ products' = [products EXCEPT ![p] =
            [name |-> call.name, price |-> call.price, stock |-> call.stock,
             labels |-> call.labels]]
       /\ usedIds' = usedIds \cup {p}
  /\ Answer("ok")
  /\ UNCHANGED <<labels, local>>

CreateInsertRefused ==
  /\ at = "insert"
  /\ \A p \in ProductId \ usedIds : ~NameFree(p, call.name)
  /\ Answer("error")
  /\ UNCHANGED <<catalog, local>>

-----------------------------------------------------------------------------
(* product.update and product.delete begin by reading the product.         *)

FindProduct(op, where) ==
  /\ Serves(op)
  /\ products[call.id] # NoRow
  /\ local' = LoadProduct(call.id)
  /\ Move(where)
  /\ UNCHANGED catalog

ProductNotFound ==
  /\ at = "received"
  /\ call.op \in {"update", "delete"}
  /\ products[call.id] = NoRow
  /\ Answer("error")
  /\ UNCHANGED <<catalog, local>>

UpdateFindProduct == FindProduct("update", "saveProduct")
DeleteFindProduct == FindProduct("delete", "remove")

(* Mutant: a field the client left out is written all the same.            *)
EditedUnchecked == [ local EXCEPT !.name = call.name, !.price = call.price ]

(* dto.name and dto.price replace the entity's when given; dto.stock is    *)
(* not looked at, the stock written back is the one that was read.         *)
Edited ==
  [ local EXCEPT !.name  = IF call.name  = Absent THEN @ ELSE call.name,
                 !.price = IF call.price = Absent THEN @ ELSE call.price ]

UpdateSaveProduct ==
  /\ at = "saveProduct"
  /\ SaveProduct(call.id, Edited)
  /\ Answer("ok")
  /\ UNCHANGED <<labels, usedIds, local>>

UpdateRefused ==
  /\ at = "saveProduct"
  /\ ~NameFree(call.id, Edited.name)
  /\ Answer("error")
  /\ UNCHANGED <<catalog, local>>

DeleteRemove ==
  /\ at = "remove"
  /\ products' = [products EXCEPT ![call.id] = NoRow]
  /\ Answer("ok")
  /\ UNCHANGED <<labels, usedIds, local>>

-----------------------------------------------------------------------------
(* Categories and brands.                                                  *)

LabelNameTaken(kind, name, except) ==
  \E id \in LabelId \ except : labels[kind][id] = name

LabelCreateFind ==
  /\ Serves("createLabel")
  /\ IF LabelNameTaken(call.kind, call.name, {}) THEN Answer("error") ELSE Move("insertLabel")
  /\ UNCHANGED <<catalog, local>>

LabelInsert ==
  /\ at = "insertLabel"
  /\ \E id \in LabelId :
       /\ labels[call.kind][id] = NoRow
       /\ labels' = [labels EXCEPT ![call.kind][id] = call.name]
  /\ Answer("ok")
  /\ UNCHANGED <<products, usedIds, local>>

FindLabel(op, where) ==
  /\ Serves(op)
  /\ IF labels[call.kind][call.id] = NoRow THEN Answer("error") ELSE Move(where)
  /\ UNCHANGED <<catalog, local>>

LabelUpdateFind == FindLabel("updateLabel", "saveLabel")
LabelDeleteFind == FindLabel("deleteLabel", "removeLabel")

(* update does not look for another label of that name: the index does.    *)
LabelSave ==
  /\ at = "saveLabel"
  /\ IF LabelNameTaken(call.kind, call.name, {call.id})
     THEN /\ Answer("error")
          /\ UNCHANGED labels
     ELSE /\ Answer("ok")
          /\ labels' = [labels EXCEPT ![call.kind][call.id] = call.name]
  /\ UNCHANGED <<products, usedIds, local>>

(* Mutant: the products keep referring to it.                              *)
LabelRemoveKeepsReferences ==
  /\ at = "removeLabel"
  /\ labels' = [labels EXCEPT ![call.kind][call.id] = NoRow]
  /\ Answer("ok")
  /\ UNCHANGED <<products, usedIds, local>>

(* onDelete: 'SET NULL' on the products that refer to it.                  *)
LabelRemove ==
  /\ at = "removeLabel"
  /\ labels' = [labels EXCEPT ![call.kind][call.id] = NoRow]
  /\ products' = [p \in ProductId |->
       IF products[p] # NoRow /\ products[p].labels[call.kind] = call.id
       THEN [products[p] EXCEPT !.labels[call.kind] = NoRow]
       ELSE products[p]]
  /\ Answer("ok")
  /\ UNCHANGED <<usedIds, local>>

-----------------------------------------------------------------------------
(* The process dies before the offset is committed and is restarted: the   *)
(* request is handled again from the start, in its turn.                   *)
Restart ==
  /\ at # "idle"
  /\ restarts < MaxRestarts
  /\ restarts' = restarts + 1
  /\ callsAgain' = callsAgain \cup {call}
  /\ at' = "idle"
  /\ call' = Absent
  /\ local' = NoRow
  /\ answer' = Absent
  /\ UNCHANGED <<catalog, calls>>

ServeProduct ==
  \/ CreateFindCategory \/ CreateFindBrand \/ CreateFindName
  \/ CreateInsert \/ CreateInsertRefused
  \/ UpdateFindProduct \/ DeleteFindProduct \/ ProductNotFound
  \/ UpdateSaveProduct \/ UpdateRefused \/ DeleteRemove

ServeLabel ==
  \/ LabelCreateFind \/ LabelInsert \/ LabelUpdateFind \/ LabelSave
  \/ LabelDeleteFind \/ LabelRemove

Serve == ServeProduct \/ ServeLabel \/ CommitCall

ProductNext == ReceiveCall \/ Serve \/ Restart

ProductSpec == ProductInit /\ [][ProductNext]_productVars

(* The service beside orders-service, which saves products it has read,    *)
(* also those that are gone by then.                                       *)
OrdersSave ==
  /\ \E p \in usedIds : OtherSave(p)
  /\ UNCHANGED <<labels, usedIds, at, call, local, answer, callsAgain, calls, restarts>>

OpenProductNext == ProductNext \/ OrdersSave

OpenProductSpec == ProductInit /\ [][OpenProductNext]_productVars

(* A running handler goes on: its query settles, or the restarted service  *)
(* is sent the uncommitted request again.                                  *)
FairOpenProductSpec ==
  OpenProductSpec /\ WF_productVars(Serve) /\ WF_productVars(RedeliverCall)

-----------------------------------------------------------------------------
(* Properties.                                                             *)

Awaits == [ create |-> {"findBrand", "findName", "insert"},
            update |-> {"saveProduct"}, delete |-> {"remove"},
            createLabel |-> {"insertLabel"}, updateLabel |-> {"saveLabel"},
            deleteLabel |-> {"removeLabel"} ]

(* Every variable has its type, and the service is only ever at an await   *)
(* of the handler of the request it holds.                                 *)
ProductTypeOK ==
  /\ ProductsTypeOK
  /\ labels \in [Kind -> [LabelId -> LabelName \cup {NoRow}]]
  /\ usedIds \subseteq ProductId
  /\ local \in Entity \cup {NoRow}
  /\ answer \in {"ok", "error", Absent}
  /\ callsAgain \subseteq ClientCalls
  /\ calls \in Nat /\ restarts \in Nat
  /\ IF at = "idle" THEN call = Absent
     ELSE /\ call \in ClientCalls
          /\ at \in {"received", "done"} \cup Awaits[call.op]

(* Every request that was delivered is answered and committed in the end,  *)
(* the ones whose handler died included.                                   *)
CallsOpen == at # "idle" \/ callsAgain # {}

EveryCallAnswered == CallsOpen ~> ~CallsOpen

=============================================================================
