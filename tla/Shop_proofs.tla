------------------------------ MODULE Shop_proofs ------------------------------
(***************************************************************************)
(* What holds of offline_db with both services at work, for any number of  *)
(* order workers, products, labels, requests, crashes and rejected calls:  *)
(* no stock is negative and every reference resolves, although each of the *)
(* services writes back rows the other may have changed, or removed, since.*)
(*                                                                         *)
(* The invariant is that of each service alone (OrderInv, ProductInv) and  *)
(* what the one needs of the other: a product that product.update is about *)
(* to write back was read with a legal stock.                              *)
(***************************************************************************)
EXTENDS Shop, OrderService_proofs, ProductService_proofs

ShopInv ==
  /\ OrderInv /\ ProductInv
  /\ at = "saveProduct" => local.stock >= 0

-----------------------------------------------------------------------------
(* What the steps of orders-service keep.                                  *)

(* A step of orders-service seen from products-service. *)
LEMMA OrdersStepKeeps ==
  ASSUME ShopInv, OrderNext, UNCHANGED productsOnly
  PROVE  ShopInv'
<1>1. OrderInv'
  BY StepInv DEF ShopInv
<1>2. UNCHANGED <<labels, usedIds, at, call, local, answer, callsAgain, calls, restarts>>
  BY DEF productsOnly
<1>3. PICK w \in Worker : Receive(w) \/ HandlerStep(w) \/ Crash(w) \/ DbError(w)
  BY DEF OrderNext
<1>4. CatalogOK' /\ LabelReferencesResolve'
  <2>1. CASE UNCHANGED products
    BY <1>2, <2>1
    DEF ShopInv, ProductInv, ProductTypeOK, CatalogOK, ProductsTypeOK, LabelReferencesResolve
  <2>2. CASE \E p \in ProductId, e \in Entity : SaveProduct(p, e)
    BY <1>2, <2>2, SaveKeepsReferences DEF ShopInv
  <2> QED BY <1>3, <2>1, <2>2, DeductSaves, ReturnSaves, OthersLeaveStock DEF ShopInv
<1>5. ProductInv'
  BY <1>2, <1>4 DEF ShopInv, ProductInv, ProductTypeOK, ChecksHold, CatalogOK
<1> QED BY <1>1, <1>2, <1>5 DEF ShopInv

-----------------------------------------------------------------------------
(* What the steps of products-service write.                               *)

(* A new product has the stock the gateway let through, an edited one the  *)
(* stock that was read, and no other step changes any.                     *)
LEMMA ProductStepStock ==
  ASSUME ShopInv, ProductNext
  PROVE  StockNonNegative'
<1>1. /\ products \in [ProductId -> ProductRow \cup {NoRow}]
      /\ \A p \in ProductId : products[p] # NoRow => products[p].stock >= 0
  BY DEF ShopInv, ProductInv, ProductTypeOK, ProductsTypeOK, OrderInv, HandlersOK,
         StockNonNegative
<1>2. CASE UNCHANGED products
  BY <1>1, <1>2 DEF StockNonNegative
<1>3. CASE CreateInsert
  <2>1. call.stock >= 0
    <3>1. call \in ClientCalls /\ call.op = "create"
      BY <1>3, Serving DEF CreateInsert, ShopInv, ProductInv
    <3> QED BY <3>1, CallFields
  <2>2. PICK p \in ProductId :
          products' = [products EXCEPT ![p] =
            [name |-> call.name, price |-> call.price, stock |-> call.stock,
             labels |-> call.labels]]
    BY <1>3 DEF CreateInsert
  <2> QED BY <1>1, <2>1, <2>2 DEF StockNonNegative
<1>4. CASE UpdateSaveProduct
  <2>1. /\ at = "saveProduct"
        /\ products' = [products EXCEPT ![call.id] = SavedProduct(call.id, Edited)]
    BY <1>4 DEF UpdateSaveProduct, SaveProduct
  <2>2. local \in Entity /\ local.stock >= 0
    BY <2>1 DEF ShopInv, ProductInv, ChecksHold
  <2>3. SavedProduct(call.id, Edited).stock = local.stock
    BY <2>2 DEF SavedProduct, Edited, Entity
  <2> QED BY <1>1, <2>1, <2>2, <2>3 DEF StockNonNegative
<1>5. CASE DeleteRemove
  BY <1>1, <1>5 DEF DeleteRemove, StockNonNegative
<1>6. CASE LabelRemove
  <2> SUFFICES ASSUME NEW p \in ProductId, products'[p] # NoRow PROVE products'[p].stock >= 0
    BY DEF StockNonNegative
  <2>1. products[p] # NoRow
    BY <1>6 DEF LabelRemove
  <2>2. PICK row \in ProductRow : row = products[p] /\ row.stock >= 0
    BY <1>1, <2>1
  <2>3. products'[p] = row \/ products'[p] = [row EXCEPT !.labels[call.kind] = NoRow]
    BY <1>6, <2>2 DEF LabelRemove
  <2>4. [row EXCEPT !.labels[call.kind] = NoRow].stock = row.stock
    BY DEF ProductRow
  <2> QED BY <2>2, <2>3, <2>4
<1>7. ASSUME ~CreateInsert, ~UpdateSaveProduct, ~DeleteRemove, ~LabelRemove
      PROVE  UNCHANGED products
  <2>1. CASE ReceiveCall \/ CommitCall \/ Restart
    BY <2>1 DEF ReceiveCall, NewCall, RedeliverCall, BeginCall, CommitCall, Restart, catalog
  <2>2. CASE ServeProduct
    BY <1>7, <2>2 DEF ServeProduct, CreateFindCategory, CreateFindBrand, FindLabelOf,
       CreateFindName, CreateInsertRefused, UpdateFindProduct, DeleteFindProduct, FindProduct,
       ProductNotFound, UpdateRefused, catalog
  <2>3. CASE ServeLabel
    BY <1>7, <2>3 DEF ServeLabel, LabelCreateFind, LabelInsert, LabelUpdateFind, LabelSave,
       LabelDeleteFind, FindLabel, catalog
  <2> QED BY <2>1, <2>2, <2>3 DEF ProductNext, Serve
<1> QED BY <1>2, <1>3, <1>4, <1>5, <1>6, <1>7

(* product.update holds a stock that was in the table, from its read on. *)
LEMMA ProductStepHolds ==
  ASSUME ShopInv, ProductNext, at' = "saveProduct"
  PROVE  local'.stock >= 0
<1>1. UpdateFindProduct
  <2>1. CASE ReceiveCall \/ CommitCall \/ Restart
    BY <2>1 DEF ReceiveCall, NewCall, RedeliverCall, BeginCall, CommitCall, Restart
  <2>2. CASE ServeProduct
    BY <2>2 DEF ServeProduct, CreateFindCategory, CreateFindBrand, FindLabelOf,
       CreateFindName, CreateInsert, CreateInsertRefused, DeleteFindProduct,
       FindProduct, ProductNotFound, UpdateSaveProduct, UpdateRefused, DeleteRemove,
       Answer, Move
  <2>3. CASE ServeLabel
    BY <2>3 DEF ServeLabel, LabelCreateFind, LabelInsert, LabelUpdateFind, LabelSave,
       LabelDeleteFind, LabelRemove, FindLabel, Answer, Move
  <2> QED BY <2>1, <2>2, <2>3 DEF ProductNext, Serve
<1>2. at # "idle" /\ call.op = "update" /\ products[call.id] # NoRow /\ local' = LoadProduct(call.id)
  BY <1>1 DEF UpdateFindProduct, FindProduct, Serves
<1>3. call.id \in ProductId
  BY <1>2, Serving, CallFields DEF ShopInv, ProductInv
<1> QED BY <1>2, <1>3, LoadTyped DEF ShopInv

(* A step of products-service seen from orders-service. *)
LEMMA ProductStepKeeps ==
  ASSUME ShopInv, ProductNext, UNCHANGED ordersOnly
  PROVE  ShopInv'
<1>1. ProductInv'
  BY ProductInvStep DEF ShopInv, OpenProductNext
<1>2. ProductsTypeOK'
  BY <1>1 DEF ProductInv, ProductTypeOK
<1>3. OrderInv'
  BY <1>2, ProductStepStock, TableInv DEF ShopInv
<1> QED BY <1>1, <1>3, ProductStepHolds DEF ShopInv

-----------------------------------------------------------------------------
(* The results.                                                            *)

(* Initially the table is legal and both services are idle. *)
LEMMA ShopInitInv == ShopInit => ShopInv
<1>1. ProductInit => at = "idle"
  BY DEF ProductInit
<1> QED BY <1>1, InitInv, ProductInitInv DEF ShopInit, ShopInv

(* Every step of either service keeps the invariant. *)
LEMMA ShopInvStep == ShopInv /\ [ShopNext]_shopVars => ShopInv'
<1> SUFFICES ASSUME ShopInv, [ShopNext]_shopVars PROVE ShopInv'
  OBVIOUS
<1>1. CASE UNCHANGED shopVars
  <2>1. UNCHANGED orderVars /\ UNCHANGED productVars
    BY <1>1 DEF shopVars, orderVars, productsOnly, productVars
  <2>2. OrderInv' /\ ProductInv'
    BY <2>1, StepInv, ProductInvStep DEF ShopInv
  <2> QED BY <2>1, <2>2 DEF ShopInv, productVars
<1> QED BY <1>1, OrdersStepKeeps, ProductStepKeeps DEF ShopNext

(* No interleaving of orders-service and products-service makes a stock    *)
(* negative: createOrder, cancelOrder and deleteOrder write back what they *)
(* read plus or less units that were there, product.update what it read.   *)
(* It does not say that a unit is sold once: two that write back the same  *)
(* read sell it twice and leave a stock of 0 (StockFollowsOrders fails).   *)
THEOREM ShopStockNeverNegative == ShopSpec => []StockNonNegative
<1>1. ShopInv => StockNonNegative
  BY DEF ShopInv, OrderInv, HandlersOK
<1> QED BY <1>1, ShopInitInv, ShopInvStep, PTL DEF ShopSpec

(* No product refers to a category or brand that does not exist, although  *)
(* orders-service puts products back that were deleted, and labels are     *)
(* deleted under both services.                                            *)
THEOREM ShopReferencesResolve == ShopSpec => []LabelReferencesResolve
<1>1. ShopInv => LabelReferencesResolve
  BY DEF ShopInv, ProductInv
<1> QED BY <1>1, ShopInitInv, ShopInvStep, PTL DEF ShopSpec

(* Orders add up although product.update changes prices between the reads  *)
(* of createOrder and its save of the items.                               *)
THEOREM ShopOrdersAddUp == ShopSpec => []TotalMatchesItems
<1>1. OneTotal => TotalMatchesItems
  BY DEF OneTotal, TotalsAre, RowTotal, TotalMatchesItems
<1>2. ShopInit => OneTotal
  BY TotalsInitially DEF ShopInit
<1>3. ShopInv /\ OneTotal /\ [ShopNext]_shopVars => OneTotal'
  <2> SUFFICES ASSUME ShopInv, OneTotal, [ShopNext]_shopVars PROVE OneTotal'
    OBVIOUS
  <2>1. CASE UNCHANGED shopVars
    BY <2>1, TotalsFrame DEF shopVars, orderVars
  <2>2. CASE ShopNext
    BY <2>2, TotalsStep, TotalsFrame DEF ShopNext, ordersOnly, ShopInv
  <2> QED BY <2>1, <2>2
<1> QED BY <1>1, <1>2, <1>3, ShopInitInv, ShopInvStep, PTL DEF ShopSpec
=============================================================================
