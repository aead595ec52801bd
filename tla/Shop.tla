-------------------------------- MODULE Shop --------------------------------
(***************************************************************************)
(* orders-service and products-service as they are deployed: two processes *)
(* that answer different Kafka topics and write one table `products`, with *)
(* no transaction and no version column between them.  A step of the one   *)
(* may come at any await of the other.                                     *)
(***************************************************************************)
EXTENDS OrderService, ProductService

productsOnly == <<labels, usedIds, at, call, local, answer,
                  callsAgain, calls, restarts>>
shopVars     == <<orderVars, productsOnly>>

ShopInit == OrderInit /\ ProductInit

ShopNext ==
  \/ OrderNext /\ UNCHANGED productsOnly
  \/ ProductNext /\ UNCHANGED ordersOnly

ShopSpec == ShopInit /\ [][ShopNext]_shopVars

FairShopSpec ==
  /\ ShopSpec
  /\ \A w \in Worker :
       /\ WF_shopVars(HandlerStep(w) /\ UNCHANGED productsOnly)
       /\ WF_shopVars(Redeliver(w) /\ UNCHANGED productsOnly)
  /\ WF_shopVars(Serve /\ UNCHANGED ordersOnly)
  /\ WF_shopVars(RedeliverCall /\ UNCHANGED ordersOnly)

-----------------------------------------------------------------------------
(* Properties.                                                             *)

(* The stock of a product that stays in the table only moves with the      *)
(* account of an order ("trừ tồn kho", "trả lại tồn kho").                 *)
StockFollowsOrders ==
  [][\A p \in ProductId : products[p] # NoRow /\ products'[p] # NoRow =>
       products[p].stock - products'[p].stock
         = MapThenSumSet(LAMBDA o : charged'[o][p] - charged[o][p], OrderId)]_shopVars

=============================================================================
