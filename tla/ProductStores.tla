--------------------------- MODULE ProductStores ---------------------------
(***************************************************************************)
(* The two product repositories behind one port: InMemoryProductRepository *)
(* keeps objects, SqlProductRepository two tables.  Each operation gives   *)
(* the store it leaves, why it was refused ("none" if it was not) and the  *)
(* product it returns.                                                     *)
(*                                                                         *)
(* One call at a time: the memory takes a lock, and what two calls of the  *)
(* database do to each other is in OrderFlow.                              *)
(***************************************************************************)
EXTENDS Integers, FiniteSets, SequencesExt

CONSTANTS
  NoVersion,   \* the caller expects no version
  Nothing      \* no product is returned

Answer(store, error, product) == [store |-> store, error |-> error, product |-> product]
Refuse(store, error) == Answer(store, error, Nothing)

-----------------------------------------------------------------------------
(* Memory: a function from ids to [active, source, skus], skus a sequence  *)
(* of [id, price, stock, version].                                         *)

Places(product, sku) == {i \in DOMAIN product.skus : product.skus[i].id = sku}
FindSku(product, sku) == product.skus[CHOOSE i \in Places(product, sku) : TRUE]

(* Every change of a Sku makes a new version of it. *)
NewVersion(sku) == [sku EXCEPT !.version = @ + 1]
WithSku(product, new) ==
  [product EXCEPT !.skus = [i \in DOMAIN @ |->
    IF @[i].id = new.id THEN NewVersion(new) ELSE @[i]]]

MemPut(store, id, product) == Answer([store EXCEPT ![id] = product], "none", product)

MemMissing(store, call) ==
  call.product \notin DOMAIN store \/ Places(store[call.product], call.sku) = {}

(* _require_product is asked first, and then _require_sku. *)
MemMisses(store, call) == IF call.product \notin DOMAIN store THEN "no_product" ELSE "no_sku"

(* A quantity to restore and a stock to set are not negative.              *)
Negative(call) ==
  \/ call.op = "restore" /\ call.quantity < 0
  \/ call.op = "stock" /\ call.value < 0

(* What was found, by id, in the order it was asked for. *)
AsAsked(ids, found) ==
  LET kept == SelectSeq(ids, LAMBDA id : id \in DOMAIN found) IN
  [i \in DOMAIN kept |-> [id |-> kept[i], product |-> found[kept[i]]]]

MemFindByIds(store, ids) == AsAsked(ids, store)

MemReserve(store, call) ==
  IF call.quantity <= 0 THEN Refuse(store, "quantity")
  ELSE IF call.product \notin DOMAIN store THEN Refuse(store, "no_product")
  ELSE IF ~store[call.product].active THEN Refuse(store, "off_shelf")
  ELSE IF MemMissing(store, call) THEN Refuse(store, "no_sku")
  ELSE LET product == store[call.product]  sku == FindSku(product, call.sku) IN
       IF call.version # NoVersion /\ sku.version # call.version THEN Refuse(store, "changed")
       ELSE IF sku.stock < call.quantity THEN Refuse(store, "short")
       ELSE MemPut(store, call.product,
              WithSku(product, [sku EXCEPT !.stock = @ - call.quantity]))

MemRestore(store, call) ==
  IF MemMissing(store, call) THEN Refuse(store, MemMisses(store, call))
  ELSE IF Negative(call) THEN Refuse(store, "negative")
  ELSE LET product == store[call.product]  sku == FindSku(product, call.sku)
           new == WithSku(product, [sku EXCEPT !.stock = @ + call.quantity])
       IN Answer([store EXCEPT ![call.product] = new], "none", Nothing)

(* Mutant: a change of the demo is not a new version. *)
MemUpdateSameVersion(store, call, field) ==
  IF MemMissing(store, call) THEN Refuse(store, MemMisses(store, call))
  ELSE IF Negative(call) THEN Refuse(store, "negative")
  ELSE LET product == store[call.product]  sku == FindSku(product, call.sku)
           new == [sku EXCEPT ![field] = call.value, !.version = @ - 1]
       IN MemPut(store, call.product, [WithSku(product, new) EXCEPT !.source = "demo_scenario"])

(* update_sku_price and update_sku_stock *)
MemUpdate(store, call, field) ==
  IF MemMissing(store, call) THEN Refuse(store, MemMisses(store, call))
  ELSE IF Negative(call) THEN Refuse(store, "negative")
  ELSE LET product == store[call.product]  sku == FindSku(product, call.sku)
           new == [sku EXCEPT ![field] = call.value]
       IN MemPut(store, call.product, [WithSku(product, new) EXCEPT !.source = "demo_scenario"])

MemStatus(store, call) ==
  IF call.product \notin DOMAIN store THEN Refuse(store, "no_product")
  ELSE MemPut(store, call.product,
         [store[call.product] EXCEPT !.active = call.value, !.source = "demo_scenario"])

MemSeed(store, products) ==
  IF DOMAIN store # {} THEN Refuse(store, "not_empty") ELSE Answer(products, "none", Nothing)

MemCall(store, call) ==
  CASE call.op = "reserve" -> MemReserve(store, call)
    [] call.op = "restore" -> MemRestore(store, call)
    [] call.op \in {"price", "stock"} -> MemUpdate(store, call, call.op)
    [] call.op = "status" -> MemStatus(store, call)
    [] call.op = "seed" -> MemSeed(store, call.value)
    [] call.op = "replace" -> Answer(call.value, "none", Nothing)

-----------------------------------------------------------------------------
(* Database: rows [id, active, source] of products and rows [id, product,  *)
(* price, stock, version] of skus, each with its id as the key.            *)

ProductRow(tables, id) == {row \in tables.products : row.id = id}
SkuRow(tables, id, product) == {row \in tables.skus : row.id = id /\ row.product = product}

Sorted(seq) == \A i, j \in DOMAIN seq : i < j => seq[i].id < seq[j].id

(* ORDER BY the id *)
OrderById(rows) == CHOOSE seq \in [1..Cardinality(rows) -> rows] : Sorted(seq)

(* _product_row_to_domain *)
ToDomain(tables, row) ==
  LET skus == OrderById({s \in tables.skus : s.product = row.id})
  IN [active |-> row.active, source |-> row.source,
      skus |-> [i \in DOMAIN skus |-> [id |-> skus[i].id, price |-> skus[i].price,
                                       stock |-> skus[i].stock, version |-> skus[i].version]]]

(* _load_product *)
Load(tables, id) == ToDomain(tables, CHOOSE row \in tables.products : row.id = id)

(* UPDATE of some rows: of one field of skus, and of products. *)
UpdateSkus(tables, rows, field, value) ==
  [tables EXCEPT !.skus =
    (@ \ rows) \cup {NewVersion([r EXCEPT ![field] = value[r]]) : r \in rows}]
UpdateProducts(tables, rows, new) ==
  [tables EXCEPT !.products = (@ \ rows) \cup {new[r] : r \in rows}]

SqlFindByIds(tables, ids) ==
  AsAsked(ids, [id \in {row.id : row \in tables.products} |-> Load(tables, id)])

SqlReserve(tables, call) ==
  LET skus == SkuRow(tables, call.sku, call.product)
      fits == {r \in skus : r.stock >= call.quantity
                            /\ (call.version = NoVersion \/ r.version = call.version)}
      after == UpdateSkus(tables, fits, "stock", [r \in fits |-> r.stock - call.quantity])
  IN
  IF call.quantity <= 0 THEN Refuse(tables, "quantity")
  ELSE IF ProductRow(tables, call.product) = {} THEN Refuse(tables, "no_product")
  ELSE IF \E row \in ProductRow(tables, call.product) : ~row.active
    THEN Refuse(tables, "off_shelf")
  ELSE IF skus = {} THEN Refuse(tables, "no_sku")
  ELSE IF call.version # NoVersion /\ \E r \in skus : r.version # call.version
    THEN Refuse(tables, "changed")
  ELSE IF fits = {} THEN Refuse(tables, "short")
  ELSE Answer(after, "none", Load(after, call.product))

(* No row of a sku is updated also if there is no such product.            *)
SqlRestore(tables, call) ==
  LET skus == SkuRow(tables, call.sku, call.product) IN
  IF Negative(call) THEN Refuse(tables, "negative")
  ELSE IF skus = {} THEN Refuse(tables, "no_sku")
  ELSE Answer(UpdateSkus(tables, skus, "stock", [r \in skus |-> r.stock + call.quantity]),
              "none", Nothing)

SqlUpdate(tables, call, field) ==
  LET skus == SkuRow(tables, call.sku, call.product)
      products == ProductRow(tables, call.product)
      after == UpdateProducts(
        UpdateSkus(tables, skus, field, [r \in skus |-> call.value]),
        products, [r \in products |-> [r EXCEPT !.source = "demo_scenario"]])
  IN
  IF Negative(call) THEN Refuse(tables, "negative")
  ELSE IF skus = {} THEN Refuse(tables, "no_sku")
  ELSE Answer(after, "none", Load(after, call.product))

SqlStatus(tables, call) ==
  LET products == ProductRow(tables, call.product)
      after == UpdateProducts(tables, products,
        [r \in products |-> [r EXCEPT !.active = call.value, !.source = "demo_scenario"]])
  IN
  IF products = {} THEN Refuse(tables, "no_product")
  ELSE Answer(after, "none", Load(after, call.product))

(* _add_products: the rows of a function of products. *)
NewProductRow(id, product) == [id |-> id, active |-> product.active, source |-> product.source]
NewSkuRow(id, sku) ==
  [id |-> sku.id, product |-> id, price |-> sku.price, stock |-> sku.stock,
   version |-> sku.version]
Rows(store) ==
  [products |-> {NewProductRow(id, store[id]) : id \in DOMAIN store},
   skus |-> UNION {{NewSkuRow(id, sku) : sku \in ToSet(store[id].skus)} : id \in DOMAIN store}]

SqlSeed(tables, products) ==
  IF tables.products # {} THEN Refuse(tables, "not_empty")
  ELSE Answer(Rows(products), "none", Nothing)

SqlCall(tables, call) ==
  CASE call.op = "reserve" -> SqlReserve(tables, call)
    [] call.op = "restore" -> SqlRestore(tables, call)
    [] call.op \in {"price", "stock"} -> SqlUpdate(tables, call, call.op)
    [] call.op = "status" -> SqlStatus(tables, call)
    [] call.op = "seed" -> SqlSeed(tables, call.value)
    [] call.op = "replace" -> Answer(Rows(call.value), "none", Nothing)

-----------------------------------------------------------------------------
(* What the stores are given: products whose skus are listed by id, and    *)
(* calls with arguments of the right kind.                                 *)
Sku == [id : Int, price : Int, stock : Int, version : Int]
Source == {"demo_seed", "demo_scenario"}
Stored ==
  {product \in [active : BOOLEAN, source : Source, skus : Seq(Sku)] : Sorted(product.skus)}
IsStore(store) == store \in [DOMAIN store -> Stored]

IsCall(call) ==
  \/ call.op \in {"reserve", "restore"} /\ call.quantity \in Int
  \/ call.op \in {"price", "stock"} /\ call.value \in Int
  \/ call.op = "status" /\ call.value \in BOOLEAN
  \/ call.op \in {"seed", "replace"} /\ IsStore(call.value)

(* What is wrong with a call that restores stock or sets a field.          *)
Wrong(store, call) ==
  {reason \in {"no_product", "no_sku", "negative"} :
    \/ reason = "no_product" /\ call.product \notin DOMAIN store
    \/ reason = "no_sku" /\ MemMissing(store, call)
    \/ reason = "negative" /\ Negative(call)}

(* Such a call is refused by both if anything is wrong, each for something *)
(* that is, the memory for a negative number last of all and the database  *)
(* first.  Any other call is refused by both for the same reason.          *)
ReasonsAgree(store, call, mem, sql) ==
  IF call.op \notin {"restore", "price", "stock"} THEN mem = sql
  ELSE LET wrong == Wrong(store, call) IN
       IF wrong = {} THEN mem = "none" /\ sql = "none"
       ELSE /\ {mem, sql} \subseteq wrong
            /\ mem = "negative" => wrong = {"negative"}
            /\ "negative" \in wrong => sql = "negative"

(* A call of the memory and the same call of the database with its rows    *)
(* are refused alike, return the same product and leave the same rows; so  *)
(* do the products found afterwards, in the order they were asked for.     *)
SameStep(store, call, ids) ==
  LET mem == MemCall(store, call)  sql == SqlCall(Rows(store), call) IN
  /\ ReasonsAgree(store, call, mem.error, sql.error)
  /\ sql.product = mem.product
  /\ sql.store = Rows(mem.store)
  /\ SqlFindByIds(sql.store, ids) = MemFindByIds(mem.store, ids)

=============================================================================
