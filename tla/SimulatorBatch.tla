--------------------------- MODULE SimulatorBatch ---------------------------
(***************************************************************************)
(* Simulator processes writing to one marketplace database.  A process     *)
(* runs batches; a batch is one connection, a pool of the references it    *)
(* created and a BatchWriter.  Rows others refer to are inserted at once,  *)
(* the others are buffered and written when the buffer reaches its         *)
(* threshold, which commits whatever the cycle has done by then.           *)
(*                                                                         *)
(* PostgreSQL, as the code uses it: a transaction sees what is committed   *)
(* and what it wrote; an UPDATE waits for another's uncommitted UPDATE of  *)
(* the row and looks at the row again; a cycle of waits aborts one.        *)
(***************************************************************************)
EXTENDS MarketplaceRows, FiniteSetsExt

CONSTANTS
  Sessions,       \* simulator processes
  Settings,       \* [size, threshold, stocked, running]: SIMULATOR_BATCH_SIZE, SIMULATOR_
                  \* INSERT_BATCH_SIZE, the inventories there are (1..stocked) and the
                  \* processes that run
  InStock,        \* the stock of those
  Levels,         \* the stock an inventory is created with
  Restocks,       \* the quantities of a restock
  LowStock,       \* LOW_STOCK_THRESHOLD
  MaxQuantity,    \* of an order: randint(1, 5)
  MaxAttempts,    \* MAX_INVENTORY_RESERVE_ATTEMPTS
  MaxStocked,     \* bound: stocked
  MaxCycles,      \* bound: cycles of all batches
  MaxCrashes      \* bound: processes killed

Inventories == 1..(MaxStocked + MaxCycles)

ASSUME SimulatorAssumption ==
  /\ MaxStocked \in Nat
  /\ Settings \subseteq [size : Nat \ {0}, threshold : Nat \ {0, 1}, stocked : 0..MaxStocked,
                         running : SUBSET Sessions]
  /\ InStock \in Nat /\ Levels \subseteq Nat /\ Restocks \subseteq Nat /\ LowStock \in Nat
  /\ MaxQuantity \in Nat /\ MaxAttempts \in Nat \ {0}
  /\ MaxCycles \in Nat /\ MaxCrashes \in Nat

VARIABLES
  settings,   \* of all processes: they share one .env
  rows,       \* committed rows
  stock,      \* available_quantity, committed
  pc,         \* per process: the call it is at
  cycle,      \* the cycle it is in, a number of its own
  batch,      \* the first cycle of its batch, which names the batch
  own,        \* rows of its open transaction
  held,       \* quantities its open transaction has written
  buffer,     \* BatchWriter._rows; _pending is its size
  orders,     \* ReferencePool.orders
  pick,       \* the inventory, product and quantity of its order
  tries,      \* attempts of its retry loop
  last,       \* history: the cycles given to batches
  finished,   \* history: batches that ended without an exception
  crashes     \* history: processes killed

session == <<pc, batch, cycle, own, held, buffer, orders, pick, tries>>
simulatorVars == <<settings, rows, stock, session, last, finished, crashes>>

Absent == -1     \* no such inventory
Free == -2       \* not written by this transaction
NoPick == <<>>

SimulatorInit ==
  /\ settings \in Settings
  /\ rows = {Row(Seed(t), {}) : t \in {"payment_methods", "carriers", "categories", "sellers",
                                       "warehouses"}}
            \cup {Row(Seed("products"), {Seed("sellers"), Seed("categories")})}
            \cup {InventoryRow(i, Seed("warehouses"), Seed("products"), InStock) :
                     i \in 1..settings.stocked}
  /\ stock = [i \in Inventories |-> IF i <= settings.stocked THEN InStock ELSE Absent]
  /\ pc = [s \in Sessions |-> "idle"]
  /\ batch = [s \in Sessions |-> 0] /\ cycle = [s \in Sessions |-> 0]
  /\ own = [s \in Sessions |-> {}] /\ buffer = [s \in Sessions |-> {}]
  /\ held = [s \in Sessions |-> [i \in Inventories |-> Free]]
  /\ orders = [s \in Sessions |-> {}] /\ pick = [s \in Sessions |-> NoPick]
  /\ tries = [s \in Sessions |-> 0]
  /\ last = 0 /\ finished = {} /\ crashes = 0

-----------------------------------------------------------------------------
(* What a transaction sees, and commits.                                   *)

Visible(s) == rows \cup own[s]
InView(s, i) == IF held[s][i] # Free THEN held[s][i] ELSE stock[i]
Writer(i) == {s \in Sessions : held[s][i] # Free}
LockedByOther(s, i) == Writer(i) \ {s} # {}

NoneHeld == [i \in Inventories |-> Free]

Goto(s, label) == pc' = [pc EXCEPT ![s] = label]

CommitWith(s, new) ==
  /\ rows' = rows \cup own[s] \cup new
  /\ stock' = [i \in Inventories |-> InView(s, i)]
  /\ own' = [own EXCEPT ![s] = {}] /\ held' = [held EXCEPT ![s] = NoneHeld]

(* BatchWriter.flush(): earlier rows first, what conflicts is dropped.     *)
Landing(s, b) ==
  {r \in b : ~\E q \in Visible(s) \cup b :
     Conflict(r, q) /\ (q \in Visible(s) \/ q.id[3] < r.id[3])}

(* The transaction inserts now and BatchWriter.add() buffers a row, and    *)
(* then another, more; the flush at the threshold commits all there is.    *)
WritesTooLate(s, now, row, more) ==      \* mutant: > for >=
  LET b == buffer[s] \cup {row} IN
  IF Cardinality(b) > settings.threshold
  THEN CommitWith(s, now \cup Landing(s, b)) /\ buffer' = [buffer EXCEPT ![s] = more]
  ELSE /\ own' = [own EXCEPT ![s] = @ \cup now]
       /\ buffer' = [buffer EXCEPT ![s] = b \cup more]
       /\ UNCHANGED <<rows, stock, held>>

Writes(s, now, row, more) ==
  LET b == buffer[s] \cup {row} IN
  IF Cardinality(b) >= settings.threshold
  THEN CommitWith(s, now \cup Landing(s, b)) /\ buffer' = [buffer EXCEPT ![s] = more]
  ELSE IF Cardinality(b \cup more) >= settings.threshold
  THEN CommitWith(s, now \cup Landing(s, b \cup more)) /\ buffer' = [buffer EXCEPT ![s] = {}]
  ELSE /\ own' = [own EXCEPT ![s] = @ \cup now]
       /\ buffer' = [buffer EXCEPT ![s] = b \cup more]
       /\ UNCHANGED <<rows, stock, held>>

Quiet == UNCHANGED <<settings, batch, last, finished, crashes>>
SameCycle == Quiet /\ UNCHANGED cycle

(* The connection is closed without a commit: Database.connection() rolls  *)
(* back, and the exception ends the process.                               *)
RollBack(s) ==
  /\ Goto(s, "dead")
  /\ own' = [own EXCEPT ![s] = {}] /\ held' = [held EXCEPT ![s] = NoneHeld]
  /\ buffer' = [buffer EXCEPT ![s] = {}] /\ orders' = [orders EXCEPT ![s] = {}]
  /\ pick' = [pick EXCEPT ![s] = NoPick] /\ tries' = [tries EXCEPT ![s] = 0]
  /\ UNCHANGED <<settings, rows, stock, batch, cycle, last, finished>>

-----------------------------------------------------------------------------
(* A batch.  seed_*() comes first: it is modelled by MarketplaceDatabase,  *)
(* and the rows it finds are there.                                        *)

BeginBatch(s) ==
  /\ pc[s] = "idle" /\ s \in settings.running /\ Goto(s, "customer")
  /\ last + settings.size <= MaxCycles /\ last' = last + settings.size
  /\ batch' = [batch EXCEPT ![s] = last + 1] /\ cycle' = [cycle EXCEPT ![s] = last + 1]
  /\ orders' = [orders EXCEPT ![s] = {}]
  /\ UNCHANGED <<settings, rows, stock, own, held, buffer, pick, tries, finished, crashes>>

(* The reference pool: what this batch has inserted.                       *)
Pool(s, t) == {Id(t, batch[s], n) : n \in batch[s]..cycle[s]} \cap Ids(Visible(s))

CreateCustomer(s) ==
  /\ pc[s] = "customer" /\ Goto(s, "catalog")
  /\ Writes(s, {CustomerRow(batch[s], cycle[s])}, AddressRow(batch[s], cycle[s]), {})
  /\ SameCycle /\ UNCHANGED <<orders, pick, tries>>

CreateSeller(s) == SellerRow(batch[s], cycle[s])

(* random_seller_id() may return any seller of the batch: the newest one   *)
(* is the one that is not committed yet.                                   *)
CreateProduct(s) ==
  ProductRow(batch[s], cycle[s], CreateSeller(s).id, Seed("categories"))

(* A warehouse whose code is taken is not inserted, and nobody asks.       *)
CreateWarehouse(s) == {{}, {WarehouseRow(batch[s], cycle[s])}}

(* get_random_id() may return any warehouse the transaction sees.  A       *)
(* (warehouse, product) pair that is there is left as it is.               *)
NewInventory(s) == settings.stocked + cycle[s]
Taken(s, w, p) == \E r \in OfTable(Visible(s), "inventories") : r.refs = {w, p}

CreateInventoryAnyway(s, catalog) ==     \* mutant: takes the warehouse to be new
  LET w == Id("warehouses", batch[s], cycle[s]) IN
  \E p \in Ids(OfTable(catalog, "products")), q \in Levels :
    /\ own' = [own EXCEPT ![s] = @ \cup catalog \cup {InventoryRow(NewInventory(s), w, p, q)}]
    /\ held' = [held EXCEPT ![s][NewInventory(s)] = q]

CreateInventory(s, catalog) ==
  \E w \in Ids(OfTable(Visible(s) \cup catalog, "warehouses")),
     p \in Pool(s, "products") \cup Ids(OfTable(catalog, "products")) :
    IF Taken(s, w, p)
    THEN own' = [own EXCEPT ![s] = @ \cup catalog] /\ UNCHANGED held
    ELSE \E q \in Levels :
           /\ own' = [own EXCEPT ![s] = @ \cup catalog
                                          \cup {InventoryRow(NewInventory(s), w, p, q)}]
           /\ held' = [held EXCEPT ![s][NewInventory(s)] = q]

CreateCatalog(s) ==
  /\ pc[s] = "catalog" /\ Goto(s, "reserve")
  /\ \E w \in CreateWarehouse(s) :
       CreateInventory(s, {CreateSeller(s), CreateProduct(s)} \cup w)
  /\ SameCycle /\ UNCHANGED <<rows, stock, buffer, orders, pick, tries>>

-----------------------------------------------------------------------------
(* An order.  _reserve_inventory() reads an inventory and its stock, then  *)
(* decreases it on the condition that there still is enough.               *)

ParentOf(s, id, t) ==
  CHOOSE p \in UNION {r.refs : r \in {q \in Visible(s) : q.id = id}} : Table(p) = t

Reserve(s) ==
  /\ pc[s] = "reserve" /\ Goto(s, "decrease")
  /\ \E i \in Inventories : \E q \in 1..MaxQuantity :
       /\ q <= InView(s, i)
       /\ pick' = [pick EXCEPT ![s] = <<i, ParentOf(s, InventoryId(i), "products"), q>>]
  /\ SameCycle /\ UNCHANGED <<rows, stock, own, held, buffer, orders, tries>>

Reaches(s) == pc[s] = "decrease" /\ ~LockedByOther(s, pick[s][1])
AlwaysEnough(s) == TRUE                  \* mutant: an UPDATE without its condition
Enough(s) == InView(s, pick[s][1]) >= pick[s][3]

Decrease(s) ==
  /\ Reaches(s) /\ Enough(s)
  /\ held' = [held EXCEPT ![s][pick[s][1]] = InView(s, pick[s][1]) - pick[s][3]]
  /\ Goto(s, "order") /\ tries' = [tries EXCEPT ![s] = 0]
  /\ SameCycle /\ UNCHANGED <<rows, stock, own, buffer, orders, pick>>

(* The UPDATE matches no row: another inventory is tried, then ValueError. *)
ReserveAgain(s) ==
  /\ Reaches(s) /\ ~Enough(s) /\ tries[s] + 1 < MaxAttempts
  /\ Goto(s, "reserve") /\ tries' = [tries EXCEPT ![s] = @ + 1]
  /\ SameCycle /\ UNCHANGED <<rows, stock, own, held, buffer, orders, pick>>

(* A flush after the item or the history row commits an unfinished order.  *)
InsertOrder(s) ==
  /\ pc[s] = "order" /\ Goto(s, "details")
  /\ \E c \in Pool(s, "customers") :
       Writes(s, {OrderRow(batch[s], cycle[s], c, pick[s][1], pick[s][3])},
              ItemRow(batch[s], cycle[s], pick[s][2]), {})
  /\ SameCycle /\ UNCHANGED <<orders, pick, tries>>

InsertDetails(s) ==
  LET o == Id("orders", batch[s], cycle[s]) IN
  /\ pc[s] = "details" /\ Goto(s, "payment")
  /\ Writes(s, {}, HistoryRow(batch[s], cycle[s]),
            {MovementRow(batch[s], cycle[s], pick[s][1])})
  /\ orders' = [orders EXCEPT ![s] = @ \cup
       {[order |-> o, customer |-> ParentOf(s, o, "customers"), product |-> pick[s][2]]}]
  /\ pick' = [pick EXCEPT ![s] = NoPick]
  /\ SameCycle /\ UNCHANGED tries

CreatePayment(s) ==
  /\ pc[s] = "payment" /\ Goto(s, "shipment")
  /\ \E o \in orders[s] :
       Writes(s, {}, PaymentRow(batch[s], cycle[s], o.order, Seed("payment_methods")), {})
  /\ SameCycle /\ UNCHANGED <<orders, pick, tries>>

CreateShipment(s) ==
  /\ pc[s] = "shipment" /\ Goto(s, "review")
  /\ \E o \in orders[s] :
       Writes(s, {}, ShipmentRow(batch[s], cycle[s], o.order, Seed("carriers")), {})
  /\ SameCycle /\ UNCHANGED <<orders, pick, tries>>

CreateReview(s) ==
  /\ pc[s] = "review" /\ Goto(s, "restock")
  /\ \E o \in orders[s] :
       Writes(s, {}, ReviewRow(batch[s], cycle[s], o.order, o.customer, o.product), {})
  /\ SameCycle /\ UNCHANGED <<orders, pick, tries>>

(* What ends a batch with an exception: a retry of insert_with_unique_     *)
(* retry() in vain (its attempts write nothing, so they are one step with  *)
(* the insert), no stock at all, no stock in the last attempt.             *)
CannotGoOn(s) ==
  \/ pc[s] \in {"customer", "catalog", "order"}
  \/ pc[s] = "reserve" /\ \A i \in Inventories : InView(s, i) <= 0
  \/ Reaches(s) /\ ~Enough(s) /\ tries[s] + 1 = MaxAttempts

Raises(s) == CannotGoOn(s) /\ RollBack(s) /\ UNCHANGED crashes

-----------------------------------------------------------------------------
(* maybe_restock(): the choice and the UPDATE are two statements.          *)

Seen(s) == {i \in Inventories : InView(s, i) # Absent}
Low(s) == {i \in Seen(s) : InView(s, i) < LowStock}

ChooseRestock(s) ==
  /\ pc[s] = "restock" /\ Goto(s, "increase")
  /\ \E i \in (IF Low(s) # {} THEN Low(s) ELSE Seen(s)) : \E q \in Restocks :
       pick' = [pick EXCEPT ![s] = <<i, NoUnits, q>>]
  /\ SameCycle /\ UNCHANGED <<rows, stock, own, held, buffer, orders, tries>>

Increase(s) ==
  LET i == pick[s][1] IN
  /\ pc[s] = "increase" /\ ~LockedByOther(s, i) /\ Goto(s, "next")
  /\ held' = [held EXCEPT ![s][i] = InView(s, i) + pick[s][3]]
  /\ own' = [own EXCEPT ![s] = @ \cup {RestockRow(batch[s], cycle[s], i, pick[s][3])}]
  /\ pick' = [pick EXCEPT ![s] = NoPick]
  /\ SameCycle /\ UNCHANGED <<rows, stock, buffer, orders, tries>>

NoRestock(s) ==
  /\ pc[s] = "restock" /\ Goto(s, "next")
  /\ SameCycle /\ UNCHANGED <<rows, stock, own, held, buffer, orders, pick, tries>>

LastCycle(s) == batch[s] + settings.size - 1

NextCycle(s) ==
  /\ pc[s] = "next" /\ cycle[s] < LastCycle(s)
  /\ Goto(s, "customer") /\ cycle' = [cycle EXCEPT ![s] = @ + 1]
  /\ Quiet /\ UNCHANGED <<rows, stock, own, held, buffer, orders, pick, tries>>

(* The last flush() returns without a commit when nothing is pending.      *)
LastFlushLost(s) ==                      \* mutant: the batch ends with a commit alone
  /\ pc[s] = "next" /\ cycle[s] = LastCycle(s) /\ Goto(s, "commit")
  /\ buffer' = [buffer EXCEPT ![s] = {}]
  /\ SameCycle /\ UNCHANGED <<rows, stock, own, held, orders, pick, tries>>

LastFlush(s) ==
  /\ pc[s] = "next" /\ cycle[s] = LastCycle(s) /\ Goto(s, "commit")
  /\ IF buffer[s] = {}
     THEN UNCHANGED <<rows, stock, own, held, buffer>>
     ELSE CommitWith(s, Landing(s, buffer[s])) /\ buffer' = [buffer EXCEPT ![s] = {}]
  /\ SameCycle /\ UNCHANGED <<orders, pick, tries>>

(* progress_eligible_orders() runs here: OrderStatus has it.               *)
EndBatch(s) ==
  /\ pc[s] = "commit" /\ Goto(s, "idle") /\ CommitWith(s, {})
  /\ finished' = finished \cup {batch[s]}
  /\ UNCHANGED <<settings, batch, cycle, buffer, orders, pick, tries, last, crashes>>

-----------------------------------------------------------------------------
(* The batch is killed, or PostgreSQL aborts it to break a cycle of waits. *)

Killed(s) ==
  /\ pc[s] \notin {"idle", "dead"} /\ crashes < MaxCrashes
  /\ RollBack(s) /\ crashes' = crashes + 1

WaitsFor(s, q) ==
  /\ pc[s] \in {"decrease", "increase"} /\ q # s /\ q \in Writer(pick[s][1])

Deadlocked(s) ==
  /\ \E q \in Sessions : WaitsFor(s, q) /\ WaitsFor(q, s)
  /\ RollBack(s) /\ UNCHANGED crashes

Restart(s) ==
  /\ pc[s] = "dead" /\ Goto(s, "idle")
  /\ SameCycle /\ UNCHANGED <<rows, stock, own, held, buffer, orders, pick, tries>>

Cycle(s) ==
  \/ Raises(s) \/ CreateCustomer(s) \/ CreateCatalog(s)
  \/ Reserve(s) \/ Decrease(s) \/ ReserveAgain(s)
  \/ InsertOrder(s) \/ InsertDetails(s)
  \/ CreatePayment(s) \/ CreateShipment(s) \/ CreateReview(s)
  \/ ChooseRestock(s) \/ Increase(s) \/ NoRestock(s)

SimulatorStep(s) ==
  \/ BeginBatch(s) \/ Cycle(s) \/ NextCycle(s) \/ LastFlush(s) \/ EndBatch(s)
  \/ Killed(s) \/ Deadlocked(s) \/ Restart(s)

SimulatorNext == \E s \in Sessions : SimulatorStep(s)

SimulatorSpec == SimulatorInit /\ [][SimulatorNext]_simulatorVars

-----------------------------------------------------------------------------
Labels == {"idle", "dead", "customer", "catalog", "reserve", "decrease", "order",
           "details", "payment", "shipment", "review", "restock", "increase", "next", "commit"}

(* A row refers to the tables its foreign keys name                        *)
(* (categories.parent_category_id may be null).                            *)
FitsKeys(r) == {Table(id) : id \in r.refs} = ParentsIn(Baseline, Table(r.id))

(* The type invariant: rows and generated values fit the schema, and a     *)
(* buffer never reaches its threshold.                                     *)
SimulatorTypeOK ==
  /\ settings \in Settings /\ last \in 0..MaxCycles /\ crashes \in 0..MaxCrashes
  /\ stock \in [Inventories -> Int] /\ held \in [Sessions -> [Inventories -> Int]]
  /\ pc \in [Sessions -> Labels] /\ finished \subseteq 1..last
  /\ batch \in [Sessions -> 0..last] /\ cycle \in [Sessions -> 0..last]
  /\ tries \in [Sessions -> 0..MaxAttempts]
  /\ \A s \in Sessions : Cardinality(buffer[s]) < settings.threshold
  /\ GeneratorsFitTheSchema /\ \A s \in Sessions : \A r \in own[s] \cup buffer[s] : FitsKeys(r)

(* The stock of an inventory is what it was created with, what restocks    *)
(* brought and what orders took, all of them committed: nothing is sold    *)
(* twice or lost, whatever processes, flushes and kills interleave.        *)
Balance(i) ==
  MapThenSumSet(LAMBDA r : r.units[2],
                {r \in rows : r.units # NoUnits /\ r.units[1] = i})

StockIsAccounted ==
  \A i \in Inventories : InventoryId(i) \in Ids(rows) => stock[i] = Balance(i) /\ stock[i] >= 0

(* A committed row refers to committed rows, and a row that is buffered or *)
(* not committed to rows its transaction sees: no flush, kill or roll back *)
(* of any process can violate a foreign key.                               *)
ReferencesResolve ==
  /\ \A r \in rows : r.refs \subseteq Ids(rows)
  /\ \A s \in Sessions : \A r \in own[s] \cup buffer[s] : r.refs \subseteq Ids(Visible(s))

(* A committed order is torn while its item, its first history row or its  *)
(* movement is missing: a flush in the middle of create_order() does that. *)
(* One order of a batch at most is torn, and none when the batch has ended *)
(* without an exception.                                                   *)
Details == {"order_items", "order_status_history", "inventory_movements"}
Torn == {r \in OfTable(rows, "orders") :
           \E t \in Details : Id(t, r.id[2], r.id[3]) \notin Ids(rows)}

AtMostOneTornOrder ==
  /\ \A r, q \in Torn : r.id[2] = q.id[2] => r = q
  /\ \A r \in Torn : r.id[2] \notin finished
=============================================================================
