----------------------------- MODULE OfflineDb -----------------------------
(***************************************************************************)
(* The `products` table of the MySQL schema offline_db.  Two services      *)
(* write it, each through its own TypeORM entity class:                    *)
(*   - products-service (product/entities/products.entity.ts), its owner;  *)
(*   - orders-service (orders/entities/product.entity.ts), which maps only *)
(*     id, name, price and stock.                                          *)
(* Neither opens a transaction: a handler reads a row, works on the object *)
(* in memory across awaits, and writes the object back with save().        *)
(*                                                                         *)
(* Repository.save is TypeORM's, modelled from how the handlers use it: it *)
(* makes the entity's columns of the row equal to the object, re-inserts a *)
(* row that is gone, and throws when the unique index on `name` refuses    *)
(* the result.  Its own SELECT and UPDATE are taken as one step.           *)
(* Columns no handler reads back (description, image, sold, timestamps)    *)
(* are left out.                                                           *)
(***************************************************************************)
EXTENDS Integers

CONSTANTS
  ProductId,    \* uuids of product rows
  ProductName,  \* values of the unique column `name`
  LabelId,      \* uuids of category and brand rows
  InitialTables,\* the contents of `products` the services may start with
  OtherSaves,   \* entities the other of the two services may save
  NoRow         \* "no such row", and NULL in a foreign key column

Kind == {"category", "brand"}   \* the two foreign keys of a product

VARIABLE
  products      \* products[p]: the row with primary key p, or NoRow

ProductRow == [ name   : ProductName,
                price  : Nat,
                stock  : Int,
                labels : [Kind -> LabelId \cup {NoRow}] ]

(* What find/findOne returns of a row when no relation is asked for.       *)
Entity == [ name : ProductName, price : Nat, stock : Int ]

ASSUME TablesAreLegal ==
  \A table \in InitialTables :
    /\ table \in [ProductId -> ProductRow \cup {NoRow}]
    /\ \A p \in ProductId : table[p] # NoRow => table[p].stock >= 0
    /\ \A p, q \in ProductId : table[p] # NoRow /\ table[q] # NoRow /\ p # q
                                  => table[p].name # table[q].name
ASSUME OtherSavesAreLegal ==
  OtherSaves \subseteq Entity /\ \A e \in OtherSaves : e.stock >= 0
ASSUME NoRowIsNoRow == NoRow \notin ProductRow \cup Entity

Columns(row) == [ name |-> row.name, price |-> row.price, stock |-> row.stock ]

(* findOne({ where: { id: p } }), or p's part of findBy({ id: In(ids) }).  *)
LoadProduct(p) == IF products[p] = NoRow THEN NoRow ELSE Columns(products[p])

(* The unique index on `name` accepts row p with this name.                *)
NameFree(p, name) ==
  \A q \in ProductId \ {p} : products[q] # NoRow => products[q].name # name

(* Row p after save(entity): an existing row keeps the columns the entity  *)
(* was loaded without; a row that is gone is inserted with those NULL.     *)
SavedProduct(p, entity) ==
  [ name   |-> entity.name,
    price  |-> entity.price,
    stock  |-> entity.stock,
    labels |-> IF products[p] = NoRow THEN [k \in Kind |-> NoRow]
                                      ELSE products[p].labels ]

(* await productRepo.save(entity), when it does not throw.                 *)
SaveProduct(p, entity) ==
  /\ NameFree(p, entity.name)
  /\ products' = [products EXCEPT ![p] = SavedProduct(p, entity)]

(* What one service sees of the other, whose handlers are not in the model *)
(* of the one: a row is saved or gone, at any await.  Module Shop has both *)
(* services in full.                                                       *)
OtherSave(p)   == \E e \in OtherSaves : SaveProduct(p, e)
OtherRemove(p) == products' = [products EXCEPT ![p] = NoRow]

-----------------------------------------------------------------------------
ProductsTypeOK == products \in [ProductId -> ProductRow \cup {NoRow}]

(* The table never shows a negative stock: no interleaving of the handlers *)
(* that write it sells a unit that is not there.                           *)
StockNonNegative ==
  \A p \in ProductId : products[p] # NoRow => products[p].stock >= 0

=============================================================================
