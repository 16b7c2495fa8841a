--------------------------- MODULE MarketplaceRows ---------------------------
(***************************************************************************)
(* The rows the simulator writes, as far as the schema cares about them: a *)
(* row has an identity, the identities of the rows it refers to and the    *)
(* units of stock it stands for.  An identity is <<table, batch, cycle>>.  *)
(*                                                                         *)
(* And the values its generators choose from, for the columns with a CHECK *)
(* constraint and the timestamps that depend on them.                      *)
(***************************************************************************)
EXTENDS MarketplaceSchema

NoUnits == <<>>
Row(id, refs) == [id |-> id, refs |-> refs, units |-> NoUnits]
StockRow(id, refs, i, q) == [id |-> id, refs |-> refs, units |-> <<i, q>>]

Table(id) == id[1]
Id(t, b, n) == <<t, b, n>>
Seed(t) == Id(t, 0, 0)          \* a row that was there before
InventoryId(i) == Id("inventories", 0, i)

Ids(rs) == {r.id : r \in rs}
OfTable(rs, t) == {r \in rs : Table(r.id) = t}

-----------------------------------------------------------------------------
(* One constructor per table, by what the row refers to.                   *)

CustomerRow(b, n) == Row(Id("customers", b, n), {})
AddressRow(b, n)  == Row(Id("customer_addresses", b, n), {Id("customers", b, n)})
SellerRow(b, n)   == Row(Id("sellers", b, n), {})
ProductRow(b, n, seller, category) == Row(Id("products", b, n), {seller, category})
WarehouseRow(b, n) == Row(Id("warehouses", b, n), {})
InventoryRow(i, warehouse, product, q) ==
  StockRow(InventoryId(i), {warehouse, product}, i, q)
OrderRow(b, n, customer, i, q) == StockRow(Id("orders", b, n), {customer}, i, -q)
ItemRow(b, n, product) == Row(Id("order_items", b, n), {Id("orders", b, n), product})
HistoryRow(b, n)  == Row(Id("order_status_history", b, n), {Id("orders", b, n)})
MovementRow(b, n, i) ==
  Row(Id("inventory_movements", b, n), {Id("orders", b, n), InventoryId(i)})
PaymentRow(b, n, order, method) == Row(Id("payments", b, n), {order, method})
ShipmentRow(b, n, order, carrier) == Row(Id("shipments", b, n), {order, carrier})
ReviewRow(b, n, order, customer, product) ==
  Row(Id("reviews", b, n), {order, customer, product})

(* A restock changes an inventory in place and writes no row: this one     *)
(* keeps, for the properties, what it added.                               *)
RestockRow(b, n, i, q) == StockRow(Id("restocks", b, n), {}, i, q)

(* What ON CONFLICT DO NOTHING finds in the way of a buffered row: uuids   *)
(* and generated codes do not collide, an order has one payment, and one   *)
(* review of a product.                                                    *)
Conflict(r, q) ==
  /\ r.id # q.id /\ Table(r.id) = Table(q.id)
  /\ \/ Table(r.id) = "payments" /\ \E o \in r.refs \cap q.refs : Table(o) = "orders"
     \/ Table(r.id) = "reviews" /\ r.refs = q.refs

-----------------------------------------------------------------------------
(* The generators.                                                         *)

GeneratedPayments ==
  {[status |-> st, authorized |-> st \in {"AUTHORIZED", "PAID", "REFUNDED"},
    paid |-> st \in {"PAID", "REFUNDED"}] :
     st \in {"PAID", "AUTHORIZED", "PENDING", "FAILED", "CANCELLED", "REFUNDED"}}

GeneratedShipments ==
  {[status |-> st, shipped |-> st # "CREATED",
    estimated |-> st \in {"SHIPPED", "IN_TRANSIT", "DELIVERED"},
    delivered |-> st = "DELIVERED"] :
     st \in {"DELIVERED", "IN_TRANSIT", "SHIPPED", "CREATED", "RETURNED"}}

GeneratedRatings == {5, 4, 3, 2, 1}
CreatedProduct == "ACTIVE"
CreatedAddress == "DELIVERY"
CreatedOrder == "PENDING"
OutboundMovement == "OUTBOUND"

(* Each generated value passes its column's CHECK constraint, and each     *)
(* timestamp comes with the one before it.                                 *)
GeneratorsFitTheSchema ==
  /\ \A p \in GeneratedPayments : p.status \in PaymentStatuses /\ (p.paid => p.authorized)
  /\ \A h \in GeneratedShipments :
       h.status \in ShipmentStatuses /\ (h.delivered => h.shipped /\ h.estimated)
  /\ GeneratedRatings \subseteq Ratings
  /\ CreatedProduct \in ProductStatuses /\ CreatedAddress \in AddressTypes
  /\ CreatedOrder \in OrderStatuses /\ OutboundMovement \in MovementTypes
=============================================================================
