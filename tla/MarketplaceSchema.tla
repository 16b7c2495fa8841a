------------------------- MODULE MarketplaceSchema -------------------------
(***************************************************************************)
(* The two descriptions of the marketplace schema the repository keeps:    *)
(* the init scripts of the PostgreSQL container, a sequence of statements, *)
(* and the baseline migration, one dump run as one statement.              *)
(*                                                                         *)
(* A schema is the set of its objects.  An object is a tuple: its kind,    *)
(* its table and, for what belongs to a table, what it is about.  Columns, *)
(* their types and defaults are left out.                                  *)
(***************************************************************************)
EXTENDS Integers, Sequences, FiniteSets

Schema == <<"schema", "marketplace">>

Tables(ts)     == {"table"} \X ts
Keys(ts)       == {"pkey"} \X ts
Uniques(t, us) == {"unique"} \X {t} \X us
Checks(t, cs)  == {"check"} \X {t} \X cs
Indexes(t, is) == {"index"} \X {t} \X is
Refs(t, ps)    == {"fk"} \X {t} \X ps       \* foreign keys, by the table they point to

NameUnique == <<"unique", "categories", "name">>    \* categories_name_unique

(* What the foreign keys among objs make a row of t refer to.              *)
ParentsIn(objs, t) == {o[3] : o \in {p \in objs : p[1] = "fk" /\ p[2] = t}}

-----------------------------------------------------------------------------
(* The init scripts.  CREATE TABLE makes the table with its constraints,   *)
(* and needs the tables it refers to.                                      *)

Statement(makes, needs) == [makes |-> makes, needs |-> needs \cup {Schema}]

CreateTable(t, us, cs, ps) ==
  Statement(Tables({t}) \cup Keys({t}) \cup Uniques(t, us) \cup Checks(t, cs) \cup Refs(t, ps),
            Tables(ps \ {t}))

CreateIndexes(t, is) == Statement(Indexes(t, is), Tables({t}))

InitSchema == <<[makes |-> {Schema}, needs |-> {}]>>

InitCustomers == <<
  CreateTable("customers", {"email", "document_number"}, {"email"}, {}),
  CreateTable("customer_addresses", {}, {"type"}, {"customers"})>>

InitCatalog == <<
  CreateTable("sellers", {"document", "email"}, {"email"}, {}),
  CreateTable("categories", {}, {}, {"categories"}),
  CreateTable("products", {"sku"}, {"price", "status"}, {"sellers", "categories"})>>

InitInventory == <<
  CreateTable("warehouses", {"code"}, {}, {}),
  CreateTable("inventories", {"product"}, {"available", "reserved", "minimum"},
              {"warehouses", "products"}),
  CreateTable("inventory_movements", {}, {"type", "quantity"}, {"inventories"})>>

(* The last statement gives inventory_movements its order_id.              *)
InitOrders == <<
  CreateTable("orders", {"order_number"}, {"total", "shipping", "status"}, {"customers"}),
  CreateTable("order_items", {}, {"quantity", "unit_price", "total"}, {"orders", "products"}),
  CreateTable("order_status_history", {}, {}, {"orders"}),
  Statement(Refs("inventory_movements", {"orders"}),
            Tables({"inventory_movements", "orders"}))>>

InitPayments == <<
  CreateTable("payment_methods", {"code"}, {}, {}),
  CreateTable("payments", {"order", "transaction"}, {"amount", "status"},
              {"orders", "payment_methods"}),
  CreateTable("refunds", {}, {"amount"}, {"payments"})>>

InitLogistics == <<
  CreateTable("carriers", {"code"}, {"email"}, {}),
  CreateTable("shipments", {"tracking_code"}, {"status"}, {"orders", "carriers"})>>

InitReviews == <<
  CreateTable("reviews", {"order_product"}, {"rating"}, {"orders", "customers", "products"})>>

InitIndexes1 == <<
  CreateIndexes("customers", {"created_at", "updated_at"}),
  CreateIndexes("customer_addresses", {"customer_id"}),
  CreateIndexes("sellers", {"created_at", "updated_at"}),
  CreateIndexes("categories", {"parent_category_id"}),
  CreateIndexes("products", {"seller_id", "category_id", "status", "created_at"}),
  CreateIndexes("warehouses", {"created_at"}),
  CreateIndexes("inventories", {"product_id", "warehouse_id"}),
  CreateIndexes("inventory_movements", {"inventory_id", "order_id", "created_at", "type"})>>

InitIndexes2 == <<
  CreateIndexes("orders", {"customer_id", "status", "created_at", "updated_at"}),
  CreateIndexes("order_items", {"order_id", "product_id"}),
  CreateIndexes("order_status_history", {"order_id", "changed_at"}),
  CreateIndexes("payments", {"order_id", "payment_method_id", "status", "created_at", "paid_at"}),
  CreateIndexes("refunds", {"payment_id", "created_at"}),
  CreateIndexes("shipments", {"order_id", "carrier_id", "status", "created_at", "delivered_at"}),
  CreateIndexes("reviews", {"customer_id", "product_id", "created_at"})>>

InitScript == InitSchema \o InitCustomers \o InitCatalog \o InitInventory \o InitOrders
              \o InitPayments \o InitLogistics \o InitReviews \o InitIndexes1 \o InitIndexes2

-----------------------------------------------------------------------------
(* The baseline migration: tables with their CHECK constraints, then the   *)
(* keys, the indexes and the foreign keys, table by table.                 *)

BaselineTables1 ==
  Tables({"carriers", "categories", "customer_addresses", "customers"})
  \cup Checks("carriers", {"email"}) \cup Checks("customer_addresses", {"type"})
  \cup Checks("customers", {"email"})

BaselineTables2 ==
  Tables({"inventories", "inventory_movements", "order_items", "order_status_history"})
  \cup Checks("inventories", {"available", "minimum", "reserved"})
  \cup Checks("inventory_movements", {"type", "quantity"})
  \cup Checks("order_items", {"quantity", "total", "unit_price"})

BaselineTables3 ==
  Tables({"orders", "payment_methods", "payments", "products", "refunds"})
  \cup Checks("orders", {"shipping", "status", "total"})
  \cup Checks("payments", {"amount", "status"})
  \cup Checks("products", {"price", "status"}) \cup Checks("refunds", {"amount"})

BaselineTables4 ==
  Tables({"reviews", "sellers", "shipments", "warehouses"})
  \cup Checks("reviews", {"rating"}) \cup Checks("sellers", {"email"})
  \cup Checks("shipments", {"status"})

BaselineKeys ==
  Keys({"carriers", "categories", "customer_addresses", "customers", "inventories",
        "inventory_movements", "order_items", "order_status_history", "orders",
        "payment_methods", "payments", "products", "refunds", "reviews", "sellers",
        "shipments"})

BaselineUniques ==
  Uniques("carriers", {"code"}) \cup Uniques("customers", {"document_number", "email"})
  \cup Uniques("inventories", {"product"}) \cup Uniques("orders", {"order_number"})
  \cup Uniques("payment_methods", {"code"}) \cup Uniques("payments", {"order", "transaction"})
  \cup Uniques("products", {"sku"}) \cup Uniques("reviews", {"order_product"})
  \cup Uniques("sellers", {"document", "email"}) \cup Uniques("shipments", {"tracking_code"})
  \cup Uniques("warehouses", {"code"}) \cup Keys({"warehouses"})

BaselineIndexes1 ==
  Indexes("categories", {"parent_category_id"}) \cup Indexes("customer_addresses", {"customer_id"})
  \cup Indexes("customers", {"created_at", "updated_at"})
  \cup Indexes("inventories", {"product_id", "warehouse_id"})
  \cup Indexes("inventory_movements", {"created_at", "inventory_id", "order_id", "type"})
  \cup Indexes("order_items", {"order_id", "product_id"})
  \cup Indexes("order_status_history", {"changed_at", "order_id"})
  \cup Indexes("orders", {"created_at", "customer_id", "status", "updated_at"})

BaselineIndexes2 ==
  Indexes("payments", {"created_at", "order_id", "paid_at", "payment_method_id", "status"})
  \cup Indexes("products", {"category_id", "created_at", "seller_id", "status"})
  \cup Indexes("refunds", {"created_at", "payment_id"})
  \cup Indexes("reviews", {"created_at", "customer_id", "product_id"})
  \cup Indexes("sellers", {"created_at", "updated_at"})
  \cup Indexes("shipments", {"carrier_id", "created_at", "delivered_at", "order_id", "status"})
  \cup Indexes("warehouses", {"created_at"})

BaselineRefs ==
  Refs("categories", {"categories"}) \cup Refs("customer_addresses", {"customers"})
  \cup Refs("inventories", {"products", "warehouses"})
  \cup Refs("inventory_movements", {"inventories", "orders"})
  \cup Refs("order_items", {"orders", "products"}) \cup Refs("order_status_history", {"orders"})
  \cup Refs("orders", {"customers"}) \cup Refs("payments", {"orders", "payment_methods"})
  \cup Refs("products", {"categories", "sellers"}) \cup Refs("refunds", {"payments"})
  \cup Refs("reviews", {"customers", "orders", "products"})
  \cup Refs("shipments", {"carriers", "orders"})

Baseline ==
  {Schema} \cup BaselineTables1 \cup BaselineTables2 \cup BaselineTables3 \cup BaselineTables4
  \cup BaselineKeys \cup BaselineUniques \cup BaselineIndexes1 \cup BaselineIndexes2
  \cup BaselineRefs

-----------------------------------------------------------------------------
(* The values the CHECK constraints of the status columns accept.          *)
OrderStatuses == {"PENDING", "PAID", "PROCESSING", "SHIPPED", "DELIVERED", "CANCELLED"}
PaymentStatuses == {"PENDING", "AUTHORIZED", "PAID", "FAILED", "CANCELLED", "REFUNDED"}
ShipmentStatuses == {"CREATED", "SHIPPED", "IN_TRANSIT", "DELIVERED", "RETURNED"}
ProductStatuses == {"ACTIVE", "INACTIVE", "OUT_OF_STOCK"}
AddressTypes == {"HOME", "WORK", "DELIVERY", "BILLING"}
MovementTypes == {"INBOUND", "OUTBOUND", "RESERVATION", "RELEASE", "ADJUSTMENT"}
Ratings == 1..5
=============================================================================
