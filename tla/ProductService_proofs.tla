------------------------- MODULE ProductService_proofs -------------------------
(***************************************************************************)
(* What products-service guarantees for any products, labels, requests and *)
(* restarts, beside an orders-service that saves products at any await:    *)
(* its types, and that no product refers to a category or brand that does  *)
(* not exist.                                                              *)
(*                                                                         *)
(* The references are not inductive: a product is inserted two awaits      *)
(* after its category was found and one after its brand was.  ChecksHold   *)
(* says that what a handler has found is there until it inserts.           *)
(***************************************************************************)
EXTENDS ProductService, TLAPS

CatalogOK ==
  /\ ProductsTypeOK
  /\ labels \in [Kind -> [LabelId -> LabelName \cup {NoRow}]]
  /\ usedIds \subseteq ProductId

\* What the handler has found and goes on to rely on.
ChecksHold ==
  /\ at \in {"findBrand", "findName", "insert"} =>
       labels["category"][call.labels["category"]] # NoRow
  /\ at \in {"findName", "insert"} => labels["brand"][call.labels["brand"]] # NoRow
  /\ at = "saveProduct" => local \in Entity

ProductInv == ProductTypeOK /\ LabelReferencesResolve /\ ChecksHold

-----------------------------------------------------------------------------
(* Requests.                                                               *)

(* The fields of a request. *)
LEMMA CallFields ==
  ASSUME NEW c \in ClientCalls
  PROVE  /\ c.op \in {"create", "update", "delete", "createLabel", "updateLabel", "deleteLabel"}
         /\ c.op = "create" =>
              /\ c.name \in ProductName /\ c.price \in Nat /\ c.stock \in Nat
              /\ c.labels \in [Kind -> LabelId]
         /\ c.op = "update" =>
              c.name \in ProductName \cup {Absent} /\ c.price \in Nat \cup {Absent}
         /\ c.op \in {"update", "delete"} => c.id \in ProductId
         /\ c.op \in {"createLabel", "updateLabel", "deleteLabel"} => c.kind \in Kind
         /\ c.op \in {"createLabel", "updateLabel"} => c.name \in LabelName
         /\ c.op \in {"updateLabel", "deleteLabel"} => c.id \in LabelId
<1>1. c \in ProductCall \/ c \in LabelCall
  BY CallsAreLegal
<1>2. CASE c \in ProductCall
  BY <1>2, PricesArePositive, StocksAreNatural DEF ProductCall
<1>3. CASE c \in LabelCall
  BY <1>3 DEF LabelCall
<1> QED BY <1>1, <1>2, <1>3

(* Where the handler stands says which request it handles. *)
LEMMA Serving ==
  ASSUME ProductTypeOK, at # "idle"
  PROVE  /\ call \in ClientCalls
         /\ at \in {"findBrand", "findName", "insert"} => call.op = "create"
         /\ at = "saveProduct" => call.op = "update"
         /\ at = "remove" => call.op = "delete"
         /\ at = "insertLabel" => call.op = "createLabel"
         /\ at = "saveLabel" => call.op = "updateLabel"
         /\ at = "removeLabel" => call.op = "deleteLabel"
<1>1. call \in ClientCalls /\ at \in {"received", "done"} \cup Awaits[call.op]
  BY DEF ProductTypeOK
<1> QED BY <1>1, CallFields DEF Awaits

-----------------------------------------------------------------------------
(* How a step is put together.                                             *)

(* The handler is over. *)
LEMMA AnswerKeeps ==
  ASSUME ProductInv, at # "idle", NEW what \in {"ok", "error"}, Answer(what),
         CatalogOK', LabelReferencesResolve', UNCHANGED local
  PROVE  ProductInv'
<1>1. /\ at' = "done" /\ answer' = what /\ UNCHANGED <<call, callsAgain, calls, restarts>>
  BY DEF Answer
<1>2. ProductTypeOK'
  BY <1>1 DEF ProductInv, ProductTypeOK, CatalogOK
<1> QED BY <1>1, <1>2 DEF ProductInv, ChecksHold

(* The handler goes on after a read. *)
LEMMA MoveKeeps ==
  ASSUME ProductInv, at # "idle", NEW where \in Awaits[call.op], Move(where),
         UNCHANGED catalog, local' \in Entity \cup {NoRow}, ChecksHold'
  PROVE  ProductInv'
<1>1. /\ at' = where
      /\ UNCHANGED <<call, answer, callsAgain, calls, restarts, products, labels, usedIds>>
  BY DEF Move, catalog
<1>2. where # "idle"
  BY Serving, CallFields DEF ProductInv, Awaits
<1>3. ProductTypeOK'
  BY <1>1, <1>2 DEF ProductInv, ProductTypeOK, ProductsTypeOK
<1>4. LabelReferencesResolve'
  BY <1>1 DEF ProductInv, LabelReferencesResolve
<1> QED BY <1>3, <1>4 DEF ProductInv

(* A handler that ends without a write. *)
LEMMA QuietAnswerKeeps ==
  ASSUME ProductInv, at # "idle", NEW what \in {"ok", "error"}, Answer(what),
         UNCHANGED <<catalog, local>>
  PROVE  ProductInv'
<1>1. CatalogOK' /\ LabelReferencesResolve'
  BY DEF ProductInv, ProductTypeOK, CatalogOK, ProductsTypeOK, LabelReferencesResolve, catalog
<1> QED BY <1>1, AnswerKeeps

(* A saved entity keeps the references of its row, or has none when the    *)
(* row is inserted again.                                                  *)
LEMMA SaveKeepsReferences ==
  ASSUME ProductInv, NEW p \in ProductId, NEW e \in Entity, SaveProduct(p, e),
         UNCHANGED <<labels, usedIds>>
  PROVE  CatalogOK' /\ LabelReferencesResolve'
<1>1. PICK row : row = SavedProduct(p, e)
  OBVIOUS
<1>2. products' = [products EXCEPT ![p] = row] /\ products \in [ProductId -> ProductRow \cup {NoRow}]
  BY <1>1 DEF SaveProduct, ProductInv, ProductTypeOK, ProductsTypeOK
<1>3. row.labels = IF products[p] = NoRow THEN [k \in Kind |-> NoRow] ELSE products[p].labels
  BY <1>1 DEF SavedProduct
<1>4. row.labels \in [Kind -> LabelId \cup {NoRow}]
  BY <1>2, <1>3 DEF ProductRow
<1>5. row \in ProductRow
  BY <1>1, <1>3, <1>4 DEF SavedProduct, ProductRow, Entity
<1>6. CatalogOK'
  BY <1>2, <1>5 DEF ProductInv, ProductTypeOK, CatalogOK, ProductsTypeOK
<1>7. products'[p] = row /\ \A q \in ProductId \ {p} : products'[q] = products[q]
  BY <1>2
<1>8. \A k \in Kind : row.labels[k] # NoRow => labels[k][row.labels[k]] # NoRow
  BY <1>3 DEF ProductInv, LabelReferencesResolve
<1>9. LabelReferencesResolve'
  BY <1>7, <1>8 DEF ProductInv, LabelReferencesResolve
<1> QED BY <1>6, <1>9

-----------------------------------------------------------------------------
(* Products.                                                               *)

(* The category and the brand that are found are there until the insert:   *)
(* no other handler of the service runs, and orders-service has no labels. *)
LEMMA CreateFindsKeep ==
  ASSUME ProductInv, CreateFindCategory \/ CreateFindBrand \/ CreateFindName
  PROVE  ProductInv'
<1>1. at # "idle" /\ UNCHANGED <<catalog, local>>
  BY DEF CreateFindCategory, CreateFindBrand, CreateFindName, FindLabelOf
<1>2. CASE Answer("error")
  BY <1>1, <1>2, QuietAnswerKeeps
<1>3. CASE ~Answer("error")
  <2>1. call.op = "create"
    BY Serving DEF ProductInv, CreateFindCategory, CreateFindBrand, CreateFindName, FindLabelOf
  <2>2. PICK where \in {"findBrand", "findName", "insert"} : Move(where)
    BY <1>3 DEF CreateFindCategory, CreateFindBrand, CreateFindName, FindLabelOf
  <2>3. where \in Awaits[call.op]
    BY <2>1 DEF Awaits
  <2>4. at' = where /\ UNCHANGED <<call, labels, local>>
    BY <1>1, <2>2 DEF Move, catalog
  <2>5. ChecksHold'
    <3>1. CASE CreateFindCategory
      BY <1>3, <2>4, <3>1 DEF CreateFindCategory, FindLabelOf, Move, ChecksHold
    <3>2. CASE CreateFindBrand
      BY <1>3, <2>4, <3>2 DEF CreateFindBrand, FindLabelOf, Move, ChecksHold, ProductInv
    <3>3. CASE CreateFindName
      BY <1>3, <2>4, <3>3 DEF CreateFindName, Move, ChecksHold, ProductInv
    <3> QED BY <3>1, <3>2, <3>3
  <2>6. local' \in Entity \cup {NoRow}
    BY <2>4 DEF ProductInv, ProductTypeOK
  <2> QED BY <1>1, <2>2, <2>3, <2>5, <2>6, MoveKeeps
<1> QED BY <1>2, <1>3

(* The new product refers to what was found. *)
LEMMA CreateInsertKeeps ==
  ASSUME ProductInv, CreateInsert
  PROVE  ProductInv'
<1>1. at = "insert" /\ at # "idle" /\ Answer("ok") /\ UNCHANGED <<labels, local>>
  BY DEF CreateInsert
<1>2. call.op = "create" /\ call \in ClientCalls
  BY <1>1, Serving DEF ProductInv
<1>3. PICK row :
        row = [name |-> call.name, price |-> call.price, stock |-> call.stock,
               labels |-> call.labels]
  OBVIOUS
<1>4. PICK p \in ProductId :
        products' = [products EXCEPT ![p] = row] /\ usedIds' = usedIds \cup {p}
  BY <1>3 DEF CreateInsert
<1>5. call.labels \in [Kind -> LabelId] /\ row.labels = call.labels
  BY <1>2, <1>3, CallFields
<1>6. row \in ProductRow
  BY <1>2, <1>3, <1>5, CallFields DEF ProductRow
<1>7. CatalogOK'
  BY <1>1, <1>4, <1>6 DEF ProductInv, ProductTypeOK, CatalogOK, ProductsTypeOK
<1>8. \A k \in Kind : labels[k][row.labels[k]] # NoRow
  BY <1>1, <1>5 DEF ProductInv, ChecksHold, Kind
<1>9. products'[p] = row /\ \A q \in ProductId \ {p} : products'[q] = products[q]
  BY <1>4 DEF ProductInv, ProductTypeOK, ProductsTypeOK
<1>10. LabelReferencesResolve'
  BY <1>1, <1>8, <1>9 DEF ProductInv, LabelReferencesResolve
<1> QED BY <1>1, <1>7, <1>10, AnswerKeeps

(* The reads of product.update and product.delete. *)
LEMMA ProductFindsKeep ==
  ASSUME ProductInv, UpdateFindProduct \/ DeleteFindProduct
  PROVE  ProductInv'
<1>1. PICK op \in {"update", "delete"} :
        FindProduct(op, IF op = "update" THEN "saveProduct" ELSE "remove")
  BY DEF UpdateFindProduct, DeleteFindProduct
<1> DEFINE where == IF op = "update" THEN "saveProduct" ELSE "remove"
<1>2. /\ at # "idle" /\ call.op = op /\ products[call.id] # NoRow
      /\ local' = LoadProduct(call.id) /\ Move(where) /\ UNCHANGED catalog
  BY <1>1 DEF FindProduct, Serves
<1>3. call.id \in ProductId
  BY <1>2, Serving, CallFields DEF ProductInv
<1>4. products[call.id] \in ProductRow
  BY <1>2, <1>3 DEF ProductInv, ProductTypeOK, ProductsTypeOK
<1>5. local' \in Entity
  BY <1>2, <1>4 DEF LoadProduct, Columns, ProductRow, Entity
<1>6. where \in Awaits[call.op]
  BY <1>2 DEF Awaits
<1>7. at' \in {"saveProduct", "remove"}
  BY <1>2 DEF Move
<1>8. ChecksHold'
  BY <1>5, <1>7 DEF ChecksHold
<1> HIDE DEF where
<1> QED BY <1>2, <1>5, <1>6, <1>8, MoveKeeps

(* product.update writes the entity it has read, edited. *)
LEMMA ProductSaveKeeps ==
  ASSUME ProductInv, UpdateSaveProduct
  PROVE  ProductInv'
<1>1. /\ at = "saveProduct" /\ at # "idle" /\ SaveProduct(call.id, Edited)
      /\ Answer("ok") /\ UNCHANGED <<labels, usedIds, local>>
  BY DEF UpdateSaveProduct
<1>2. call \in ClientCalls /\ call.op = "update"
  BY <1>1, Serving DEF ProductInv
<1>3. /\ call.id \in ProductId /\ call.name \in ProductName \cup {Absent}
      /\ call.price \in Nat \cup {Absent}
  BY <1>2, CallFields
<1>4. local \in Entity
  BY <1>1 DEF ProductInv, ChecksHold
<1>5. Edited \in Entity
  BY <1>3, <1>4 DEF Edited, Entity
<1>6. CatalogOK' /\ LabelReferencesResolve'
  BY <1>1, <1>3, <1>5, SaveKeepsReferences
<1> QED BY <1>1, <1>6, AnswerKeeps

(* product.delete. *)
LEMMA ProductRemoveKeeps ==
  ASSUME ProductInv, DeleteRemove
  PROVE  ProductInv'
<1>1. /\ at # "idle" /\ products' = [products EXCEPT ![call.id] = NoRow]
      /\ Answer("ok") /\ UNCHANGED <<labels, usedIds, local>>
  BY DEF DeleteRemove
<1>2. CatalogOK'
  BY <1>1 DEF ProductInv, ProductTypeOK, CatalogOK, ProductsTypeOK
<1>3. \A p \in ProductId : products'[p] = NoRow \/ products'[p] = products[p]
  BY <1>1 DEF ProductInv, ProductTypeOK, ProductsTypeOK
<1>4. LabelReferencesResolve'
  BY <1>1, <1>3 DEF ProductInv, LabelReferencesResolve
<1> QED BY <1>1, <1>2, <1>4, AnswerKeeps

-----------------------------------------------------------------------------
(* Categories and brands.                                                  *)

(* The reads of the three label handlers. *)
LEMMA LabelFindsKeep ==
  ASSUME ProductInv, LabelCreateFind \/ LabelUpdateFind \/ LabelDeleteFind
  PROVE  ProductInv'
<1>1. at # "idle" /\ UNCHANGED <<catalog, local>>
  BY DEF LabelCreateFind, LabelUpdateFind, LabelDeleteFind, FindLabel, Serves
<1>2. CASE Answer("error")
  BY <1>1, <1>2, QuietAnswerKeeps
<1>3. CASE ~Answer("error")
  <2>1. PICK where \in {"insertLabel", "saveLabel", "removeLabel"} :
          Move(where) /\ where \in Awaits[call.op]
    BY <1>3 DEF LabelCreateFind, LabelUpdateFind, LabelDeleteFind, FindLabel, Serves, Awaits
  <2>2. ChecksHold' /\ local' \in Entity \cup {NoRow}
    BY <1>1, <2>1 DEF Move, ChecksHold, ProductInv, ProductTypeOK
  <2> QED BY <1>1, <2>1, <2>2, MoveKeeps
<1> QED BY <1>2, <1>3

(* A label that gets a name is there afterwards. *)
LEMMA LabelNamedKeeps ==
  ASSUME ProductInv, at # "idle", Answer("ok"), UNCHANGED <<products, usedIds, local>>,
         NEW k \in Kind, NEW id \in LabelId, NEW name \in LabelName,
         labels' = [labels EXCEPT ![k][id] = name]
  PROVE  ProductInv'
<1>1. labels \in [Kind -> [LabelId -> LabelName \cup {NoRow}]]
  BY DEF ProductInv, ProductTypeOK
<1>2. CatalogOK'
  BY <1>1 DEF ProductInv, ProductTypeOK, CatalogOK, ProductsTypeOK
<1>3. \A j \in Kind, i \in LabelId : labels[j][i] # NoRow => labels'[j][i] # NoRow
  BY <1>1, NoRowIsNoLabel
<1>4. \A p \in ProductId, j \in Kind :
        products[p] # NoRow /\ products[p].labels[j] # NoRow => products[p].labels[j] \in LabelId
  BY DEF ProductInv, ProductTypeOK, ProductsTypeOK, ProductRow
<1>5. LabelReferencesResolve'
  BY <1>3, <1>4 DEF ProductInv, LabelReferencesResolve
<1> QED BY <1>2, <1>5, AnswerKeeps

(* create and update of a category or a brand. *)
LEMMA LabelSavesKeep ==
  ASSUME ProductInv, LabelInsert \/ LabelSave
  PROVE  ProductInv'
<1>1. /\ at \in {"insertLabel", "saveLabel"} /\ at # "idle"
      /\ UNCHANGED <<products, usedIds, local>>
  BY DEF LabelInsert, LabelSave
<1>2. /\ call \in ClientCalls /\ call.op \in {"createLabel", "updateLabel"}
      /\ at = "saveLabel" => call.op = "updateLabel"
  BY <1>1, Serving DEF ProductInv
<1>3. call.kind \in Kind /\ call.name \in LabelName /\ (at = "saveLabel" => call.id \in LabelId)
  BY <1>2, CallFields
<1>4. CASE UNCHANGED labels /\ Answer("error")
  BY <1>1, <1>4, QuietAnswerKeeps DEF catalog
<1>5. CASE ~(UNCHANGED labels /\ Answer("error"))
  <2>1. PICK id \in LabelId : labels' = [labels EXCEPT ![call.kind][id] = call.name]
    BY <1>3, <1>5 DEF LabelInsert, LabelSave
  <2>2. Answer("ok")
    BY <1>5 DEF LabelInsert, LabelSave
  <2> QED BY <1>1, <1>3, <2>1, <2>2, LabelNamedKeeps
<1> QED BY <1>4, <1>5

(* The products that refer to a label lose the reference when it is        *)
(* removed.                                                                *)
LEMMA LabelRemoveKeeps ==
  ASSUME ProductInv, LabelRemove
  PROVE  ProductInv'
<1>1. /\ at = "removeLabel" /\ at # "idle" /\ Answer("ok") /\ UNCHANGED <<usedIds, local>>
  BY DEF LabelRemove
<1>2. call.kind \in Kind /\ call.id \in LabelId
  BY <1>1, Serving, CallFields DEF ProductInv
<1>3. PICK k \in Kind, id \in LabelId : k = call.kind /\ id = call.id
  BY <1>2
<1>4. /\ labels' = [labels EXCEPT ![k][id] = NoRow]
      /\ products' = [p \in ProductId |->
           IF products[p] # NoRow /\ products[p].labels[k] = id
           THEN [products[p] EXCEPT !.labels[k] = NoRow]
           ELSE products[p]]
  BY <1>3 DEF LabelRemove
<1>5. /\ products \in [ProductId -> ProductRow \cup {NoRow}]
      /\ labels \in [Kind -> [LabelId -> LabelName \cup {NoRow}]]
      /\ usedIds \subseteq ProductId
  BY DEF ProductInv, ProductTypeOK, ProductsTypeOK
<1>6. \A p \in ProductId : products'[p] \in ProductRow \cup {NoRow}
  <2> SUFFICES ASSUME NEW p \in ProductId PROVE products'[p] \in ProductRow \cup {NoRow}
    OBVIOUS
  <2>1. CASE products[p] # NoRow /\ products[p].labels[k] = id
    <3>1. PICK row \in ProductRow : row = products[p]
      BY <1>5, <2>1
    <3>2. [row EXCEPT !.labels[k] = NoRow] \in ProductRow
      BY DEF ProductRow
    <3> QED BY <1>4, <2>1, <3>1, <3>2
  <2>2. CASE ~(products[p] # NoRow /\ products[p].labels[k] = id)
    BY <1>4, <1>5, <2>2
  <2> QED BY <2>1, <2>2
<1>7. CatalogOK'
  <2>1. products' \in [ProductId -> ProductRow \cup {NoRow}]
    BY <1>4, <1>6
  <2> QED BY <1>1, <1>4, <1>5, <2>1 DEF CatalogOK, ProductsTypeOK
<1>8. ASSUME NEW p \in ProductId, NEW j \in Kind, products'[p] # NoRow,
             products'[p].labels[j] # NoRow
      PROVE  labels'[j][products'[p].labels[j]] # NoRow
  <2>1. products[p] # NoRow
    BY <1>4, <1>8
  <2>2. PICK row \in ProductRow : row = products[p]
    BY <1>5, <2>1
  <2>3. /\ products'[p].labels[j] = row.labels[j]
        /\ j = k => row.labels[j] # id
    <3>1. CASE row.labels[k] = id
      <4>1. products'[p].labels = [row.labels EXCEPT ![k] = NoRow]
        BY <1>4, <2>1, <2>2, <3>1 DEF ProductRow
      <4>2. row.labels \in [Kind -> LabelId \cup {NoRow}]
        BY DEF ProductRow
      <4> QED BY <1>8, <4>1, <4>2
    <3>2. CASE row.labels[k] # id
      BY <1>4, <2>1, <2>2, <3>2
    <3> QED BY <3>1, <3>2
  <2>4. row.labels[j] # NoRow /\ row.labels[j] \in LabelId
    BY <1>8, <2>3 DEF ProductRow
  <2>5. labels[j][row.labels[j]] # NoRow
    BY <2>1, <2>2, <2>4 DEF ProductInv, LabelReferencesResolve
  <2>6. labels'[j][row.labels[j]] = labels[j][row.labels[j]]
    BY <1>4, <1>5, <2>3, <2>4
  <2> QED BY <2>3, <2>5, <2>6
<1>9. LabelReferencesResolve'
  BY <1>8 DEF LabelReferencesResolve
<1> QED BY <1>1, <1>7, <1>9, AnswerKeeps

-----------------------------------------------------------------------------
(* Requests, crashes and the other service.                                *)

(* A request comes, is over, or is handled again after a crash. *)
LEMMA DeliveryKeeps ==
  ASSUME ProductInv, ReceiveCall \/ CommitCall \/ Restart
  PROVE  ProductInv'
<1>1. /\ UNCHANGED <<products, labels, usedIds>> /\ local' \in {local, NoRow}
      /\ at' \in {"idle", "received"}
  BY DEF ReceiveCall, NewCall, RedeliverCall, BeginCall, CommitCall, Restart, catalog
<1>2. LabelReferencesResolve'
  BY <1>1 DEF ProductInv, LabelReferencesResolve
<1>3. ChecksHold'
  BY <1>1 DEF ChecksHold
<1>4. ProductTypeOK'
  <2>1. CASE ReceiveCall
    <3>1. PICK c : BeginCall(c) /\ c \in ClientCalls
      BY <2>1 DEF ReceiveCall, NewCall, RedeliverCall, ProductInv, ProductTypeOK
    <3>2. callsAgain' \subseteq ClientCalls
      BY <2>1 DEF ReceiveCall, NewCall, RedeliverCall, ProductInv, ProductTypeOK
    <3>3. calls' \in Nat
      BY <2>1 DEF ReceiveCall, NewCall, RedeliverCall, ProductInv, ProductTypeOK
    <3> QED
      BY <1>1, <3>1, <3>2, <3>3 DEF BeginCall, catalog, ProductInv, ProductTypeOK, ProductsTypeOK
  <2>2. CASE CommitCall
    BY <1>1, <2>2 DEF CommitCall, ProductInv, ProductTypeOK, ProductsTypeOK
  <2>3. CASE Restart
    <3>1. callsAgain' \subseteq ClientCalls
      BY <2>3 DEF Restart, ProductInv, ProductTypeOK
    <3> QED BY <1>1, <2>3, <3>1 DEF Restart, ProductInv, ProductTypeOK, ProductsTypeOK
  <2> QED BY <2>1, <2>2, <2>3
<1> QED BY <1>2, <1>3, <1>4 DEF ProductInv

(* orders-service knows no labels: it keeps those of a row, and a row it   *)
(* inserts again has none.                                                 *)
LEMMA OrdersSaveKeeps ==
  ASSUME ProductInv, OrdersSave
  PROVE  ProductInv'
<1>1. UNCHANGED <<labels, usedIds, at, call, local, answer, callsAgain, calls, restarts>>
  BY DEF OrdersSave
<1>2. PICK p \in ProductId, e \in Entity : SaveProduct(p, e)
  BY OtherSavesAreLegal DEF OrdersSave, OtherSave, ProductInv, ProductTypeOK
<1>3. CatalogOK' /\ LabelReferencesResolve'
  BY <1>1, <1>2, SaveKeepsReferences
<1>4. ProductTypeOK' /\ ChecksHold'
  BY <1>1, <1>3 DEF ProductInv, ProductTypeOK, ChecksHold, CatalogOK
<1> QED BY <1>3, <1>4 DEF ProductInv

-----------------------------------------------------------------------------
(* The results.                                                            *)

(* Initially the table is legal and nothing is served. *)
LEMMA ProductInitInv == ProductInit => ProductInv
<1> SUFFICES ASSUME ProductInit PROVE ProductInv
  OBVIOUS
<1>1. ProductsTypeOK
  BY TablesAreLegal DEF ProductInit, ProductsTypeOK
<1>2. ProductTypeOK /\ LabelReferencesResolve /\ ChecksHold
  BY <1>1 DEF ProductInit, ProductTypeOK, ChecksHold
<1> QED BY <1>2 DEF ProductInv

(* Every step of the service and of orders-service keeps the invariant. *)
LEMMA ProductInvStep == ProductInv /\ [OpenProductNext]_productVars => ProductInv'
<1> SUFFICES ASSUME ProductInv, [OpenProductNext]_productVars PROVE ProductInv'
  OBVIOUS
<1>1. CASE UNCHANGED productVars
  BY <1>1 DEF productVars, ProductInv, ProductTypeOK, ProductsTypeOK, LabelReferencesResolve,
     ChecksHold
<1>2. ASSUME ProductNotFound \/ UpdateRefused \/ CreateInsertRefused PROVE ProductInv'
  BY <1>2, QuietAnswerKeeps DEF ProductNotFound, UpdateRefused, CreateInsertRefused
<1>3. ASSUME ServeProduct PROVE ProductInv'
  BY <1>2, <1>3, CreateFindsKeep, CreateInsertKeeps, ProductFindsKeep, ProductSaveKeeps,
     ProductRemoveKeeps DEF ServeProduct
<1>4. ASSUME ServeLabel PROVE ProductInv'
  BY <1>4, LabelFindsKeep, LabelSavesKeep, LabelRemoveKeeps DEF ServeLabel
<1> QED BY <1>1, <1>3, <1>4, DeliveryKeeps, OrdersSaveKeeps
        DEF OpenProductNext, ProductNext, Serve

(* Every variable of products-service keeps its type, and the service only *)
(* stands at an await of the request it was sent.                          *)
THEOREM ProductTypesCorrect == OpenProductSpec => []ProductTypeOK
<1>1. ProductInv => ProductTypeOK
  BY DEF ProductInv
<1> QED BY <1>1, ProductInitInv, ProductInvStep, PTL DEF OpenProductSpec

(* No product of offline_db ever refers to a category or brand that does   *)
(* not exist (create of product.service.ts, delete of categories.service.ts*)
(* and brands.service.ts, save of orders.service.ts).                      *)
THEOREM ReferencesResolve == OpenProductSpec => []LabelReferencesResolve
<1>1. ProductInv => LabelReferencesResolve
  BY DEF ProductInv
<1> QED BY <1>1, ProductInitInv, ProductInvStep, PTL DEF OpenProductSpec

=============================================================================
