------------------------- MODULE MarketplaceProofs -------------------------
(***************************************************************************)
(* Proofs about the bring-up of the marketplace database and about what    *)
(* simulator batches leave in it, for any processes, sizes, thresholds,    *)
(* stocks and deaths: the scripts run to their end and a head is whole,    *)
(* seeding may be repeated, no row refers to a row that is not there, a    *)
(* batch leaves at most one order without its details, the stock is what   *)
(* the rows that change it add up to, and rows have the parents that their *)
(* tables' foreign keys name.                                              *)
(***************************************************************************)
EXTENDS MarketplaceDatabase, SimulatorBatch, FiniteSetTheorems, WellFoundedInduction, TLAPS

-----------------------------------------------------------------------------
(* Seeding.  A batch that seeds alone finds what it is about to add        *)
(* missing until it commits; under the constraint every batch does.        *)

(* The names a batch is about to add: none of them is there.               *)
Claims(s) == mine[s] \cup (IF missing[s] THEN {seeder[s]} ELSE {})

SeedShape ==
  /\ names \in [1..Categories -> Nat] /\ DOMAIN seeder = Seeders /\ DOMAIN missing = Seeders
  /\ mine \in [Seeders -> SUBSET (1..Categories)]
  /\ \A s \in Seeders : seeder[s] = 0 => mine[s] = {} /\ ~missing[s]
  /\ \A s \in Seeders : missing[s] => seeder[s] \in 1..Categories

Alone ==
  /\ NamesAreUnique
  /\ \A s, q \in Seeders : s # q => seeder[s] = 0 \/ seeder[q] = 0
  /\ \A s \in Seeders : \A n \in Claims(s) : names[n] = 0

Exclusive ==
  /\ NamesAreUnique
  /\ \A s \in Seeders : \A n \in mine[s] : names[n] = 0
  /\ \A s, q \in Seeders : s # q => mine[s] \cap mine[q] = {}

Seeding ==
  /\ SeedShape
  /\ boot = "initialising" => NobodySeeds /\ NamesAreUnique
  /\ ~overlapped => Alone
  /\ NameUnique \in present => Exclusive

LEMMA InitSeeds ==
  ASSUME DatabaseInit
  PROVE  Seeding
BY DatabaseAssumption DEF DatabaseInit, Seeding, SeedShape, Alone, Exclusive, Claims, NobodySeeds,
   NamesAreUnique

(* Nobody seeds when the schema changes.                                   *)
LEMMA BuildSeeds ==
  ASSUME Seeding, RunStatement \/ KillInit \/ StampBaseline \/ UpgradeFromNothing \/ UpgradeToHead
                  \/ UpgradeFails \/ DowngradeHead
  PROVE  Seeding'
<1>1. UNCHANGED seeding
  BY DEF RunStatement, KillInit, StampBaseline, UpgradeFromNothing, UpgradeToHead, UpgradeFails,
     DowngradeHead, Command
<1>2. SeedShape' /\ (Alone' <=> Alone) /\ (Exclusive' <=> Exclusive)
      /\ (NobodySeeds' <=> NobodySeeds) /\ (NamesAreUnique' <=> NamesAreUnique)
  BY <1>1 DEF seeding, Seeding, SeedShape, Alone, Exclusive, Claims, NobodySeeds, NamesAreUnique
<1>3. NobodySeeds /\ NamesAreUnique => Exclusive
  BY DEF Seeding, SeedShape, Exclusive, NobodySeeds
<1>4. CASE RunStatement
  BY <1>1, <1>2, <1>3, <1>4 DEF RunStatement, Seeding, seeding
<1>5. CASE KillInit
  BY <1>1, <1>2, <1>5 DEF KillInit, Seeding, seeding
<1>6. CASE UpgradeToHead
  BY <1>1, <1>2, <1>3, <1>6 DEF UpgradeToHead, Command, Seeding, seeding
<1>7. CASE StampBaseline \/ UpgradeFromNothing \/ UpgradeFails
  BY <1>1, <1>2, <1>7 DEF StampBaseline, UpgradeFromNothing, UpgradeFails, Command, Seeding, seeding
<1>8. CASE DowngradeHead
  BY <1>1, <1>2, <1>8 DEF DowngradeHead, Command, Seeding, seeding
<1>9. QED
  BY <1>4, <1>5, <1>6, <1>7, <1>8

LEMMA DropSeeds ==
  ASSUME Seeding, DowngradeBaseline
  PROVE  Seeding'
<1>1. /\ names' = [n \in 1..Categories |-> 0] /\ present' = {} /\ version' = "none"
      /\ UNCHANGED <<boot, seeder, missing, mine, overlapped>> /\ boot # "initialising"
      /\ NobodySeeds
  BY DEF DowngradeBaseline, Seeding, SeedShape
<1>2. SeedShape'
  BY <1>1 DEF Seeding, SeedShape
<1>3. Alone'
  BY <1>1 DEF Seeding, SeedShape, Alone, Claims, NobodySeeds, NamesAreUnique
<1>4. QED
  BY <1>1, <1>2, <1>3 DEF Seeding

LEMMA StepSeeds ==
  ASSUME NEW s \in Seeders, Seeding, SeedStep(s)
  PROVE  Seeding'
<1>1. CASE BeginSeed(s)
  <2>1. /\ seeder' = [seeder EXCEPT ![s] = 1] /\ UNCHANGED <<built, names, mine, missing>>
        /\ overlapped' = (overlapped \/ ~NobodySeeds) /\ boot # "initialising"
    BY <1>1 DEF BeginSeed
  <2>2. SeedShape'
    BY <1>1, <2>1 DEF Seeding, SeedShape, BeginSeed
  <2>3. ~overlapped' => Alone'
    BY <2>1 DEF Seeding, SeedShape, Alone, Claims, NobodySeeds, NamesAreUnique
  <2>4. QED
    BY <2>1, <2>2, <2>3 DEF Seeding, Exclusive, NamesAreUnique, built
<1>2. CASE SeedLooksUp(s)
  <2>1. /\ UNCHANGED <<built, names, mine, overlapped>> /\ seeder[s] \in 1..Categories
        /\ \/ seeder' = [seeder EXCEPT ![s] = @ + 1] /\ missing' = missing
           \/ /\ missing' = [missing EXCEPT ![s] = TRUE] /\ seeder' = seeder
              /\ ~(names[seeder[s]] > 0)
        /\ ~missing[s]
    BY <1>2 DEF SeedLooksUp, Name
  <2>2. SeedShape'
    <3>1. CASE seeder' = [seeder EXCEPT ![s] = @ + 1] /\ missing' = missing
      BY <2>1, <3>1, DatabaseAssumption DEF Seeding, SeedShape
    <3>2. CASE missing' = [missing EXCEPT ![s] = TRUE] /\ seeder' = seeder
      BY <2>1, <3>2 DEF Seeding, SeedShape
    <3>3. QED
      BY <2>1, <3>1, <3>2
  <2>3. names[seeder[s]] \in Nat
    BY <2>1 DEF Seeding, SeedShape
  <2>4. ~overlapped' => Alone'
    BY <2>1, <2>3, DatabaseAssumption DEF Seeding, SeedShape, Alone, Claims, NamesAreUnique
  <2>5. QED
    BY <2>1, <2>2, <2>4 DEF Seeding, Exclusive, NamesAreUnique, NobodySeeds, built
<1>3. CASE SeedInserts(s)
  <2>1. /\ UNCHANGED <<built, names, overlapped>> /\ missing[s] /\ ~Collides(s)
        /\ NameUnique \in present => \A q \in Seeders \ {s} : seeder[s] \notin mine[q]
        /\ mine' = [mine EXCEPT ![s] = @ \cup {seeder[s]}]
        /\ seeder' = [seeder EXCEPT ![s] = @ + 1] /\ missing' = [missing EXCEPT ![s] = FALSE]
    BY <1>3 DEF SeedInserts, Name
  <2>2. seeder[s] \in 1..Categories /\ names[seeder[s]] \in Nat
    BY <2>1 DEF Seeding, SeedShape
  <2>3. SeedShape'
    BY <2>1, <2>2, DatabaseAssumption DEF Seeding, SeedShape
  <2>4. ~overlapped' => Alone'
    BY <2>1, <2>2, DatabaseAssumption DEF Seeding, SeedShape, Alone, Claims, NamesAreUnique
  <2>5. NameUnique \in present => Exclusive'
    <3>1. NameUnique \in present => names[seeder[s]] = 0
      BY <2>1, <2>2 DEF Collides, Name
    <3>2. QED
      BY <2>1, <3>1 DEF Seeding, SeedShape, Exclusive, NamesAreUnique
  <2>6. boot # "initialising"
    BY <2>2 DEF Seeding, NobodySeeds
  <2>7. QED
    BY <2>1, <2>3, <2>4, <2>5, <2>6 DEF Seeding, built
<1>4. CASE SeedEnds(s) /\ UNCHANGED names
  <2>1. /\ UNCHANGED <<built, overlapped, names>> /\ seeder' = [seeder EXCEPT ![s] = 0]
        /\ mine' = [mine EXCEPT ![s] = {}] /\ missing' = [missing EXCEPT ![s] = FALSE]
    BY <1>4 DEF SeedEnds
  <2>2. SeedShape'
    BY <2>1 DEF Seeding, SeedShape
  <2>3. ~overlapped' => Alone'
    BY <2>1 DEF Seeding, SeedShape, Alone, Claims, NamesAreUnique
  <2>4. NameUnique \in present => Exclusive'
    BY <2>1 DEF Seeding, SeedShape, Exclusive, NamesAreUnique
  <2>5. QED
    BY <2>1, <2>2, <2>3, <2>4 DEF Seeding, SeedShape, NobodySeeds, NamesAreUnique, built
<1>5. CASE SeedCommits(s)
  <2>1. /\ UNCHANGED <<built, overlapped>> /\ seeder' = [seeder EXCEPT ![s] = 0]
        /\ mine' = [mine EXCEPT ![s] = {}] /\ missing' = [missing EXCEPT ![s] = FALSE]
        /\ names' = [n \in 1..Categories |-> IF n \in mine[s] THEN names[n] + 1 ELSE names[n]]
        /\ seeder[s] = Categories + 1
    BY <1>5 DEF SeedCommits, SeedEnds, Seeding, SeedShape
  <2>2. SeedShape'
    BY <2>1 DEF Seeding, SeedShape
  <2>3. ~overlapped' => Alone'
    <3>1. SUFFICES ASSUME ~overlapped PROVE Alone'
      BY <2>1
    <3>2. Alone /\ seeder[s] # 0
      BY <2>1, <3>1, DatabaseAssumption DEF Seeding
    <3>3. \A q \in Seeders \ {s} : seeder[q] = 0 /\ mine[q] = {} /\ ~missing[q]
      BY <3>2 DEF Alone, Seeding, SeedShape
    <3>4. \A n \in 1..Categories : names'[n] <= 1
      BY <2>1, <3>2 DEF Alone, Claims, NamesAreUnique, Seeding, SeedShape
    <3>5. \A q \in Seeders : Claims(q)' = {}
      BY <2>1, <3>3 DEF Claims, Seeding, SeedShape
    <3>6. QED
      BY <2>1, <3>3, <3>4, <3>5 DEF Alone, NamesAreUnique, Seeding, SeedShape
  <2>4. NameUnique \in present => Exclusive'
    <3>1. SUFFICES ASSUME NameUnique \in present PROVE Exclusive'
      OBVIOUS
    <3>2. Exclusive
      BY <3>1 DEF Seeding
    <3>3. \A n \in 1..Categories : names'[n] <= 1
      BY <2>1, <3>2 DEF Exclusive, NamesAreUnique, Seeding, SeedShape
    <3>4. \A q \in Seeders : mine'[q] \subseteq mine[q] /\ \A n \in mine'[q] : names'[n] = 0
      BY <2>1, <3>2 DEF Exclusive, Seeding, SeedShape
    <3>5. QED
      BY <2>1, <3>2, <3>3, <3>4 DEF Exclusive, NamesAreUnique
  <2>5. boot # "initialising"
    BY <2>1, DatabaseAssumption DEF Seeding, NobodySeeds
  <2>6. QED
    BY <2>1, <2>2, <2>3, <2>4, <2>5 DEF Seeding, built
<1>6. QED
  BY <1>1, <1>2, <1>3, <1>4, <1>5 DEF SeedStep, SeedRaises, SeedDies

LEMMA NextSeeds ==
  ASSUME Seeding, [DatabaseNext]_databaseVars
  PROVE  Seeding'
<1>1. CASE UNCHANGED databaseVars
  BY <1>1 DEF databaseVars, built, seeding, Seeding, SeedShape, Alone, Exclusive, Claims,
     NobodySeeds, NamesAreUnique
<1>2. QED
  BY <1>1, BuildSeeds, DropSeeds, StepSeeds DEF DatabaseNext

(* For any number of batches and names: seeding is repeatable unless two   *)
(* batches seed at once, the constraint keeps even those from leaving a    *)
(* duplicate.                                                              *)
THEOREM SeedsMayBeRepeated == DatabaseSpec => []SeedIsIdempotent
<1>1. DatabaseInit => Seeding
  BY InitSeeds
<1>2. Seeding /\ [DatabaseNext]_databaseVars => Seeding'
  BY NextSeeds
<1>3. Seeding => SeedIsIdempotent
  BY DEF Seeding, Alone, Exclusive, SeedIsIdempotent
<1>4. QED
  BY <1>1, <1>2, <1>3, PTL DEF DatabaseSpec

-----------------------------------------------------------------------------
(* The bring-up.  The init scripts are ten groups of statements, 34 in all; *)
(* MadeBy says which of them makes an object of the baseline, and what is   *)
(* there while they run follows from the turn alone (Complete).             *)

(* The statement that makes an object.                                     *)
TableTurn(t) ==
  CASE t = "customers" -> 2 [] t = "customer_addresses" -> 3
    [] t = "sellers" -> 4 [] t = "categories" -> 5 [] t = "products" -> 6
    [] t = "warehouses" -> 7 [] t = "inventories" -> 8 [] t = "inventory_movements" -> 9
    [] t = "orders" -> 10 [] t = "order_items" -> 11 [] t = "order_status_history" -> 12
    [] t = "payment_methods" -> 14 [] t = "payments" -> 15 [] t = "refunds" -> 16
    [] t = "carriers" -> 17 [] t = "shipments" -> 18 [] t = "reviews" -> 19

IndexTurn(t) ==
  CASE t = "customers" -> 20 [] t = "customer_addresses" -> 21 [] t = "sellers" -> 22
    [] t = "categories" -> 23 [] t = "products" -> 24 [] t = "warehouses" -> 25
    [] t = "inventories" -> 26 [] t = "inventory_movements" -> 27 [] t = "orders" -> 28
    [] t = "order_items" -> 29 [] t = "order_status_history" -> 30 [] t = "payments" -> 31
    [] t = "refunds" -> 32 [] t = "shipments" -> 33 [] t = "reviews" -> 34

MadeBy(o) ==
  IF o[1] = "schema" THEN 1
  ELSE IF o[1] = "index" THEN IndexTurn(o[2])
  ELSE IF o[1] = "fk" /\ o[2] = "inventory_movements" /\ o[3] = "orders" THEN 13
  ELSE TableTurn(o[2])

(* What the n-th statement makes and needs is of the baseline.             *)
InPlace(st, n) ==
  /\ \A o \in st.makes : o \in Baseline /\ MadeBy(o) = n
  /\ \A o \in st.needs : o \in Baseline /\ MadeBy(o) < n

(* C begins as the n elements of A, and goes on after m as the n of B.      *)
Begins(C, A, n) == \A i \in 1..n : C[i] = A[i]
GoesOn(C, m, B, n) == \A i \in 1..n : C[m + i] = B[i]
Adjoins(S, C, A, m, B, n) ==
  C \in Seq(S) /\ Len(C) = m + n /\ Begins(C, A, m) /\ GoesOn(C, m, B, n)

LEMMA Joined ==
  ASSUME NEW S, NEW A \in Seq(S), NEW B \in Seq(S), NEW m, NEW n, Len(A) = m, Len(B) = n
  PROVE  Adjoins(S, A \o B, A, m, B, n)
BY DEF Adjoins, Begins, GoesOn

LEMMA BeginsLonger ==
  ASSUME NEW S, NEW A, NEW B, NEW C, NEW D, NEW m \in Nat, NEW n \in Nat, NEW k, k = m + n,
         Adjoins(S, C, A, m, B, n), Begins(D, C, k)
  PROVE  Begins(D, A, m) /\ GoesOn(D, m, B, n)
BY DEF Adjoins, Begins, GoesOn

(* The statements of all the groups.                                       *)
Statements == {InitSchema[i] : i \in 1..1} \cup {InitCustomers[i] : i \in 1..2}
  \cup {InitCatalog[i] : i \in 1..3} \cup {InitInventory[i] : i \in 1..3}
  \cup {InitOrders[i] : i \in 1..4} \cup {InitPayments[i] : i \in 1..3}
  \cup {InitLogistics[i] : i \in 1..2} \cup {InitReviews[i] : i \in 1..1}
  \cup {InitIndexes1[i] : i \in 1..8} \cup {InitIndexes2[i] : i \in 1..7}

LEMMA StatementsInOrder ==
  /\ Len(InitScript) = 34 /\ InitScript[1] = InitSchema[1]
  /\ \A i \in 1..2 : InitScript[1 + i] = InitCustomers[i]
  /\ \A i \in 1..3 : InitScript[3 + i] = InitCatalog[i]
  /\ \A i \in 1..3 : InitScript[6 + i] = InitInventory[i]
  /\ \A i \in 1..4 : InitScript[9 + i] = InitOrders[i]
  /\ \A i \in 1..3 : InitScript[13 + i] = InitPayments[i]
  /\ \A i \in 1..2 : InitScript[16 + i] = InitLogistics[i]
  /\ InitScript[19] = InitReviews[1]
  /\ \A i \in 1..8 : InitScript[19 + i] = InitIndexes1[i]
  /\ \A i \in 1..7 : InitScript[27 + i] = InitIndexes2[i]
<1> USE DEF Statements
<1>1. InitSchema \in Seq(Statements) /\ Len(InitSchema) = 1
  BY DEF InitSchema
<1>2. InitCustomers \in Seq(Statements) /\ Len(InitCustomers) = 2
  BY DEF InitCustomers
<1>3. InitCatalog \in Seq(Statements) /\ Len(InitCatalog) = 3
  BY DEF InitCatalog
<1>4. InitInventory \in Seq(Statements) /\ Len(InitInventory) = 3
  BY DEF InitInventory
<1>5. InitOrders \in Seq(Statements) /\ Len(InitOrders) = 4
  BY DEF InitOrders
<1>6. InitPayments \in Seq(Statements) /\ Len(InitPayments) = 3
  BY DEF InitPayments
<1>7. InitLogistics \in Seq(Statements) /\ Len(InitLogistics) = 2
  BY DEF InitLogistics
<1>8. InitReviews \in Seq(Statements) /\ Len(InitReviews) = 1
  BY DEF InitReviews
<1>9. InitIndexes1 \in Seq(Statements) /\ Len(InitIndexes1) = 8
  BY DEF InitIndexes1
<1>10. InitIndexes2 \in Seq(Statements) /\ Len(InitIndexes2) = 7
  BY DEF InitIndexes2
<1> HIDE DEF Statements
<1> DEFINE P2 == InitSchema \o InitCustomers
           P3 == P2 \o InitCatalog
           P4 == P3 \o InitInventory
           P5 == P4 \o InitOrders
           P6 == P5 \o InitPayments
           P7 == P6 \o InitLogistics
           P8 == P7 \o InitReviews
           P9 == P8 \o InitIndexes1
           P10 == P9 \o InitIndexes2
<1>11. Adjoins(Statements, P2, InitSchema, 1, InitCustomers, 2)
  BY <1>1, <1>2, Joined
<1> HIDE DEF P2
<1>12. Adjoins(Statements, P3, P2, 3, InitCatalog, 3)
  <2>1. P2 \in Seq(Statements) /\ Len(P2) = 3
    BY <1>11 DEF Adjoins
  <2>2. QED
    BY <1>3, <2>1, Joined
<1> HIDE DEF P3
<1>13. Adjoins(Statements, P4, P3, 6, InitInventory, 3)
  <2>1. P3 \in Seq(Statements) /\ Len(P3) = 6
    BY <1>12 DEF Adjoins
  <2>2. QED
    BY <1>4, <2>1, Joined
<1> HIDE DEF P4
<1>14. Adjoins(Statements, P5, P4, 9, InitOrders, 4)
  <2>1. P4 \in Seq(Statements) /\ Len(P4) = 9
    BY <1>13 DEF Adjoins
  <2>2. QED
    BY <1>5, <2>1, Joined
<1> HIDE DEF P5
<1>15. Adjoins(Statements, P6, P5, 13, InitPayments, 3)
  <2>1. P5 \in Seq(Statements) /\ Len(P5) = 13
    BY <1>14 DEF Adjoins
  <2>2. QED
    BY <1>6, <2>1, Joined
<1> HIDE DEF P6
<1>16. Adjoins(Statements, P7, P6, 16, InitLogistics, 2)
  <2>1. P6 \in Seq(Statements) /\ Len(P6) = 16
    BY <1>15 DEF Adjoins
  <2>2. QED
    BY <1>7, <2>1, Joined
<1> HIDE DEF P7
<1>17. Adjoins(Statements, P8, P7, 18, InitReviews, 1)
  <2>1. P7 \in Seq(Statements) /\ Len(P7) = 18
    BY <1>16 DEF Adjoins
  <2>2. QED
    BY <1>8, <2>1, Joined
<1> HIDE DEF P8
<1>18. Adjoins(Statements, P9, P8, 19, InitIndexes1, 8)
  <2>1. P8 \in Seq(Statements) /\ Len(P8) = 19
    BY <1>17 DEF Adjoins
  <2>2. QED
    BY <1>9, <2>1, Joined
<1> HIDE DEF P9
<1>19. Adjoins(Statements, P10, P9, 27, InitIndexes2, 7)
  <2>1. P9 \in Seq(Statements) /\ Len(P9) = 27
    BY <1>18 DEF Adjoins
  <2>2. QED
    BY <1>10, <2>1, Joined
<1> HIDE DEF P10
<1>20. Len(P10) = 34 /\ GoesOn(P10, 27, InitIndexes2, 7)
  BY <1>19 DEF Adjoins
<1>30. Begins(P10, P9, 27)
  BY <1>19 DEF Adjoins
<1>21. Begins(P10, P8, 19) /\ GoesOn(P10, 19, InitIndexes1, 8)
  BY <1>18, <1>30, BeginsLonger
<1>22. Begins(P10, P7, 18) /\ GoesOn(P10, 18, InitReviews, 1)
  BY <1>17, <1>21, BeginsLonger
<1>23. Begins(P10, P6, 16) /\ GoesOn(P10, 16, InitLogistics, 2)
  BY <1>16, <1>22, BeginsLonger
<1>24. Begins(P10, P5, 13) /\ GoesOn(P10, 13, InitPayments, 3)
  BY <1>15, <1>23, BeginsLonger
<1>25. Begins(P10, P4, 9) /\ GoesOn(P10, 9, InitOrders, 4)
  BY <1>14, <1>24, BeginsLonger
<1>26. Begins(P10, P3, 6) /\ GoesOn(P10, 6, InitInventory, 3)
  BY <1>13, <1>25, BeginsLonger
<1>27. Begins(P10, P2, 3) /\ GoesOn(P10, 3, InitCatalog, 3)
  BY <1>12, <1>26, BeginsLonger
<1>28. Begins(P10, InitSchema, 1) /\ GoesOn(P10, 1, InitCustomers, 2)
  BY <1>11, <1>27, BeginsLonger
<1>29. InitScript = P10
  BY DEF InitScript, P2, P3, P4, P5, P6, P7, P8, P9, P10
<1>31. QED
  BY <1>20, <1>21, <1>22, <1>23, <1>24, <1>25, <1>26, <1>27, <1>28, <1>29 DEF Begins, GoesOn

(* Each statement needs only what earlier ones make, and makes what no     *)
(* other does.                                                             *)
LEMMA ScriptsAreInPlace ==
  /\ InPlace(InitSchema[1], 1)
  /\ InPlace(InitCustomers[1], 2) /\ InPlace(InitCustomers[2], 3)
  /\ InPlace(InitCatalog[1], 4) /\ InPlace(InitCatalog[2], 5) /\ InPlace(InitCatalog[3], 6)
  /\ InPlace(InitInventory[1], 7) /\ InPlace(InitInventory[2], 8) /\ InPlace(InitInventory[3], 9)
  /\ InPlace(InitOrders[1], 10) /\ InPlace(InitOrders[2], 11) /\ InPlace(InitOrders[3], 12)
  /\ InPlace(InitOrders[4], 13)
  /\ InPlace(InitPayments[1], 14) /\ InPlace(InitPayments[2], 15) /\ InPlace(InitPayments[3], 16)
  /\ InPlace(InitLogistics[1], 17) /\ InPlace(InitLogistics[2], 18)
  /\ InPlace(InitReviews[1], 19)
  /\ InPlace(InitIndexes1[1], 20) /\ InPlace(InitIndexes1[2], 21) /\ InPlace(InitIndexes1[3], 22)
  /\ InPlace(InitIndexes1[4], 23) /\ InPlace(InitIndexes1[5], 24) /\ InPlace(InitIndexes1[6], 25)
  /\ InPlace(InitIndexes1[7], 26) /\ InPlace(InitIndexes1[8], 27)
  /\ InPlace(InitIndexes2[1], 28) /\ InPlace(InitIndexes2[2], 29) /\ InPlace(InitIndexes2[3], 30)
  /\ InPlace(InitIndexes2[4], 31) /\ InPlace(InitIndexes2[5], 32) /\ InPlace(InitIndexes2[6], 33)
  /\ InPlace(InitIndexes2[7], 34)
<1> USE DEF InPlace, CreateTable, CreateIndexes, Statement, Tables, Keys, Uniques, Checks, Indexes,
            Refs, Baseline, BaselineTables1, BaselineTables2, BaselineTables3, BaselineTables4,
            BaselineKeys, BaselineUniques, BaselineIndexes1, BaselineIndexes2, BaselineRefs,
            MadeBy, Schema, TableTurn, IndexTurn
<1>1. InPlace(InitSchema[1], 1)
  BY DEF InitSchema
<1>2. InPlace(InitCustomers[1], 2)
  BY DEF InitCustomers
<1>3. InPlace(InitCustomers[2], 3)
  BY DEF InitCustomers
<1>4. InPlace(InitCatalog[1], 4)
  BY DEF InitCatalog
<1>5. InPlace(InitCatalog[2], 5)
  BY DEF InitCatalog
<1>6. InPlace(InitCatalog[3], 6)
  BY DEF InitCatalog
<1>7. InPlace(InitInventory[1], 7)
  BY DEF InitInventory
<1>8. InPlace(InitInventory[2], 8)
  BY DEF InitInventory
<1>9. InPlace(InitInventory[3], 9)
  BY DEF InitInventory
<1>10. InPlace(InitOrders[1], 10)
  BY DEF InitOrders
<1>11. InPlace(InitOrders[2], 11)
  BY DEF InitOrders
<1>12. InPlace(InitOrders[3], 12)
  BY DEF InitOrders
<1>13. InPlace(InitOrders[4], 13)
  BY DEF InitOrders
<1>14. InPlace(InitPayments[1], 14)
  BY DEF InitPayments
<1>15. InPlace(InitPayments[2], 15)
  BY DEF InitPayments
<1>16. InPlace(InitPayments[3], 16)
  BY DEF InitPayments
<1>17. InPlace(InitLogistics[1], 17)
  BY DEF InitLogistics
<1>18. InPlace(InitLogistics[2], 18)
  BY DEF InitLogistics
<1>19. InPlace(InitReviews[1], 19)
  BY DEF InitReviews
<1>20. InPlace(InitIndexes1[1], 20)
  BY DEF InitIndexes1
<1>21. InPlace(InitIndexes1[2], 21)
  BY DEF InitIndexes1
<1>22. InPlace(InitIndexes1[3], 22)
  BY DEF InitIndexes1
<1>23. InPlace(InitIndexes1[4], 23)
  BY DEF InitIndexes1
<1>24. InPlace(InitIndexes1[5], 24)
  BY DEF InitIndexes1
<1>25. InPlace(InitIndexes1[6], 25)
  BY DEF InitIndexes1
<1>26. InPlace(InitIndexes1[7], 26)
  BY DEF InitIndexes1
<1>27. InPlace(InitIndexes1[8], 27)
  BY DEF InitIndexes1
<1>28. InPlace(InitIndexes2[1], 28)
  BY DEF InitIndexes2
<1>29. InPlace(InitIndexes2[2], 29)
  BY DEF InitIndexes2
<1>30. InPlace(InitIndexes2[3], 30)
  BY DEF InitIndexes2
<1>31. InPlace(InitIndexes2[4], 31)
  BY DEF InitIndexes2
<1>32. InPlace(InitIndexes2[5], 32)
  BY DEF InitIndexes2
<1>33. InPlace(InitIndexes2[6], 33)
  BY DEF InitIndexes2
<1>34. InPlace(InitIndexes2[7], 34)
  BY DEF InitIndexes2
<1> HIDE DEF InPlace, CreateTable, CreateIndexes, Statement, Tables, Keys, Uniques, Checks, Indexes,
             Refs, Baseline, BaselineTables1, BaselineTables2, BaselineTables3, BaselineTables4,
             BaselineKeys, BaselineUniques, BaselineIndexes1, BaselineIndexes2, BaselineRefs,
             MadeBy, Schema, TableTurn, IndexTurn
<1>35. QED
  BY <1>1, <1>2, <1>3, <1>4, <1>5, <1>6, <1>7, <1>8, <1>9, <1>10, <1>11, <1>12, <1>13, <1>14,
     <1>15, <1>16, <1>17, <1>18, <1>19, <1>20, <1>21, <1>22, <1>23, <1>24, <1>25, <1>26,
     <1>27, <1>28, <1>29, <1>30, <1>31, <1>32, <1>33, <1>34

LEMMA StatementsInPlace == Len(InitScript) = 34 /\ \A k \in 1..34 : InPlace(InitScript[k], k)
<1>1. \A k \in 1..1 : InPlace(InitScript[k], k)
  BY StatementsInOrder, ScriptsAreInPlace
<1>2. \A k \in 2..3 : InPlace(InitScript[k], k)
  <2>1. \A i \in 1..2 : InitScript[1 + i] = InitCustomers[i]
    BY StatementsInOrder
  <2>2. \A i \in 1..2 : InPlace(InitCustomers[i], 1 + i)
    BY ScriptsAreInPlace
  <2>3. ASSUME NEW k \in 2..3 PROVE InPlace(InitScript[k], k)
    <3>1. k - 1 \in 1..2 /\ k = 1 + (k - 1)
      OBVIOUS
    <3>2. QED
      BY <2>1, <2>2, <3>1
  <2>4. QED
    BY <2>3
<1>3. \A k \in 4..6 : InPlace(InitScript[k], k)
  <2>1. \A i \in 1..3 : InitScript[3 + i] = InitCatalog[i]
    BY StatementsInOrder
  <2>2. \A i \in 1..3 : InPlace(InitCatalog[i], 3 + i)
    BY ScriptsAreInPlace
  <2>3. ASSUME NEW k \in 4..6 PROVE InPlace(InitScript[k], k)
    <3>1. k - 3 \in 1..3 /\ k = 3 + (k - 3)
      OBVIOUS
    <3>2. QED
      BY <2>1, <2>2, <3>1
  <2>4. QED
    BY <2>3
<1>4. \A k \in 7..9 : InPlace(InitScript[k], k)
  <2>1. \A i \in 1..3 : InitScript[6 + i] = InitInventory[i]
    BY StatementsInOrder
  <2>2. \A i \in 1..3 : InPlace(InitInventory[i], 6 + i)
    BY ScriptsAreInPlace
  <2>3. ASSUME NEW k \in 7..9 PROVE InPlace(InitScript[k], k)
    <3>1. k - 6 \in 1..3 /\ k = 6 + (k - 6)
      OBVIOUS
    <3>2. QED
      BY <2>1, <2>2, <3>1
  <2>4. QED
    BY <2>3
<1>5. \A k \in 10..13 : InPlace(InitScript[k], k)
  <2>1. \A i \in 1..4 : InitScript[9 + i] = InitOrders[i]
    BY StatementsInOrder
  <2>2. \A i \in 1..4 : InPlace(InitOrders[i], 9 + i)
    BY ScriptsAreInPlace
  <2>3. ASSUME NEW k \in 10..13 PROVE InPlace(InitScript[k], k)
    <3>1. k - 9 \in 1..4 /\ k = 9 + (k - 9)
      OBVIOUS
    <3>2. QED
      BY <2>1, <2>2, <3>1
  <2>4. QED
    BY <2>3
<1>6. \A k \in 14..16 : InPlace(InitScript[k], k)
  <2>1. \A i \in 1..3 : InitScript[13 + i] = InitPayments[i]
    BY StatementsInOrder
  <2>2. \A i \in 1..3 : InPlace(InitPayments[i], 13 + i)
    BY ScriptsAreInPlace
  <2>3. ASSUME NEW k \in 14..16 PROVE InPlace(InitScript[k], k)
    <3>1. k - 13 \in 1..3 /\ k = 13 + (k - 13)
      OBVIOUS
    <3>2. QED
      BY <2>1, <2>2, <3>1
  <2>4. QED
    BY <2>3
<1>7. \A k \in 17..18 : InPlace(InitScript[k], k)
  <2>1. \A i \in 1..2 : InitScript[16 + i] = InitLogistics[i]
    BY StatementsInOrder
  <2>2. \A i \in 1..2 : InPlace(InitLogistics[i], 16 + i)
    BY ScriptsAreInPlace
  <2>3. ASSUME NEW k \in 17..18 PROVE InPlace(InitScript[k], k)
    <3>1. k - 16 \in 1..2 /\ k = 16 + (k - 16)
      OBVIOUS
    <3>2. QED
      BY <2>1, <2>2, <3>1
  <2>4. QED
    BY <2>3
<1>8. \A k \in 19..19 : InPlace(InitScript[k], k)
  BY StatementsInOrder, ScriptsAreInPlace
<1>9. \A k \in 20..27 : InPlace(InitScript[k], k)
  <2>1. \A i \in 1..8 : InitScript[19 + i] = InitIndexes1[i]
    BY StatementsInOrder
  <2>2. \A i \in 1..8 : InPlace(InitIndexes1[i], 19 + i)
    BY ScriptsAreInPlace
  <2>3. ASSUME NEW k \in 20..27 PROVE InPlace(InitScript[k], k)
    <3>1. k - 19 \in 1..8 /\ k = 19 + (k - 19)
      OBVIOUS
    <3>2. QED
      BY <2>1, <2>2, <3>1
  <2>4. QED
    BY <2>3
<1>10. \A k \in 28..34 : InPlace(InitScript[k], k)
  <2>1. \A i \in 1..7 : InitScript[27 + i] = InitIndexes2[i]
    BY StatementsInOrder
  <2>2. \A i \in 1..7 : InPlace(InitIndexes2[i], 27 + i)
    BY ScriptsAreInPlace
  <2>3. ASSUME NEW k \in 28..34 PROVE InPlace(InitScript[k], k)
    <3>1. k - 27 \in 1..7 /\ k = 27 + (k - 27)
      OBVIOUS
    <3>2. QED
      BY <2>1, <2>2, <3>1
  <2>4. QED
    BY <2>3
<1>11. Len(InitScript) = 34
  BY StatementsInOrder
<1>12. QED
  BY <1>1, <1>2, <1>3, <1>4, <1>5, <1>6, <1>7, <1>8, <1>9, <1>10, <1>11

(* The same, statement by statement.                                       *)
LEMMA EveryStatement ==
  /\ InitScript[1] = InitSchema[1]
  /\ InitScript[2] = InitCustomers[1] /\ InitScript[3] = InitCustomers[2]
  /\ InitScript[4] = InitCatalog[1] /\ InitScript[5] = InitCatalog[2]
  /\ InitScript[6] = InitCatalog[3]
  /\ InitScript[7] = InitInventory[1] /\ InitScript[8] = InitInventory[2]
  /\ InitScript[9] = InitInventory[3]
  /\ InitScript[10] = InitOrders[1] /\ InitScript[11] = InitOrders[2]
  /\ InitScript[12] = InitOrders[3] /\ InitScript[13] = InitOrders[4]
  /\ InitScript[14] = InitPayments[1] /\ InitScript[15] = InitPayments[2]
  /\ InitScript[16] = InitPayments[3]
  /\ InitScript[17] = InitLogistics[1] /\ InitScript[18] = InitLogistics[2]
  /\ InitScript[19] = InitReviews[1]
  /\ InitScript[20] = InitIndexes1[1] /\ InitScript[21] = InitIndexes1[2]
  /\ InitScript[22] = InitIndexes1[3] /\ InitScript[23] = InitIndexes1[4]
  /\ InitScript[24] = InitIndexes1[5] /\ InitScript[25] = InitIndexes1[6]
  /\ InitScript[26] = InitIndexes1[7] /\ InitScript[27] = InitIndexes1[8]
  /\ InitScript[28] = InitIndexes2[1] /\ InitScript[29] = InitIndexes2[2]
  /\ InitScript[30] = InitIndexes2[3] /\ InitScript[31] = InitIndexes2[4]
  /\ InitScript[32] = InitIndexes2[5] /\ InitScript[33] = InitIndexes2[6]
  /\ InitScript[34] = InitIndexes2[7]
BY StatementsInOrder

(* A statement of the scripts makes o.                                    *)
Makes(n, o) == n \in 1..34 /\ o \in InitScript[n].makes

LEMMA ScriptsMakeBaseline ==
  \A o \in Baseline : Makes(MadeBy(o), o)
<1> USE DEF CreateTable, CreateIndexes, Statement, Tables, Keys, Uniques, Checks, Indexes, Refs,
            Makes, MadeBy, TableTurn, IndexTurn, Schema
<1>1. \A o \in {Schema} : Makes(MadeBy(o), o)
  BY EveryStatement DEF InitSchema
<1>2. \A o \in BaselineTables1 : Makes(MadeBy(o), o)
  BY EveryStatement DEF BaselineTables1, InitCustomers, InitCatalog, InitLogistics
<1>3. \A o \in BaselineTables2 : Makes(MadeBy(o), o)
  BY EveryStatement DEF BaselineTables2, InitInventory, InitOrders
<1>4. \A o \in BaselineTables3 : Makes(MadeBy(o), o)
  BY EveryStatement DEF BaselineTables3, InitOrders, InitPayments, InitCatalog
<1>5. \A o \in BaselineTables4 : Makes(MadeBy(o), o)
  BY EveryStatement DEF BaselineTables4, InitReviews, InitCatalog, InitLogistics, InitInventory
<1>6. \A o \in BaselineKeys : Makes(MadeBy(o), o)
  BY EveryStatement DEF BaselineKeys, InitCustomers, InitCatalog, InitInventory, InitOrders,
     InitPayments, InitLogistics, InitReviews
<1>7. \A o \in BaselineUniques : Makes(MadeBy(o), o)
  BY EveryStatement DEF BaselineUniques, InitCustomers, InitCatalog, InitInventory, InitOrders,
     InitPayments, InitLogistics, InitReviews
<1>8. \A o \in BaselineIndexes1 : Makes(MadeBy(o), o)
  BY EveryStatement, SMTT(30) DEF BaselineIndexes1, InitIndexes1, InitIndexes2
<1>9. \A o \in BaselineIndexes2 : Makes(MadeBy(o), o)
  BY EveryStatement, SMTT(30) DEF BaselineIndexes2, InitIndexes1, InitIndexes2
<1>10. \A o \in BaselineRefs : Makes(MadeBy(o), o)
  BY EveryStatement, SMTT(30) DEF BaselineRefs, InitCustomers, InitCatalog, InitInventory,
     InitOrders, InitPayments, InitLogistics, InitReviews
<1> HIDE DEF CreateTable, CreateIndexes, Statement, Tables, Keys, Uniques, Checks, Indexes, Refs,
            Makes, MadeBy, TableTurn, IndexTurn, Schema
<1>11. QED
  BY <1>1, <1>2, <1>3, <1>4, <1>5, <1>6, <1>7, <1>8, <1>9, <1>10 DEF Baseline

(* The objects that the statements before the n-th make.                  *)
Made(n) == {o \in Baseline : MadeBy(o) < n}

(* While the scripts run, what is there is what they have made so far; when *)
(* they have run, all of the baseline is there, until a downgrade leaves    *)
(* nothing; the head adds one constraint to all of the baseline.            *)
Complete ==
  /\ boot \in {"initialising", "up", "interrupted"}
  /\ boot = "initialising" =>
       statement \in 1..34 /\ present = Made(statement) /\ version = "none"
  /\ boot = "up" =>
       IF version = "head" THEN present = Baseline \cup {NameUnique} ELSE present \in {Baseline, {}}

LEMMA NextIsMade ==
  ASSUME NEW k \in 1..34
  PROVE  /\ InitScript[k].needs \subseteq Made(k) /\ InitScript[k].makes \cap Made(k) = {}
         /\ Made(k + 1) = Made(k) \cup InitScript[k].makes
<1>1. InPlace(InitScript[k], k)
  BY StatementsInPlace
<1>2. InitScript[k].needs \subseteq Made(k) /\ InitScript[k].makes \cap Made(k) = {}
  BY <1>1 DEF InPlace, Made
<1>3. ASSUME NEW o \in Made(k) \cup InitScript[k].makes PROVE o \in Made(k + 1)
  <2>1. o \in Baseline /\ (MadeBy(o) < k \/ MadeBy(o) = k)
    BY <1>1, <1>3 DEF InPlace, Made
  <2>2. MadeBy(o) \in 1..34
    BY <2>1, ScriptsMakeBaseline DEF Makes
  <2>3. QED
    BY <2>1, <2>2 DEF Made
<1>4. ASSUME NEW o \in Made(k + 1) PROVE o \in Made(k) \cup InitScript[k].makes
  <2>1. o \in Baseline /\ MadeBy(o) < k + 1
    BY <1>4 DEF Made
  <2>2. MadeBy(o) \in 1..34 /\ o \in InitScript[MadeBy(o)].makes
    BY <2>1, ScriptsMakeBaseline DEF Makes
  <2>3. MadeBy(o) < k \/ MadeBy(o) = k
    BY <2>1, <2>2
  <2>4. QED
    BY <2>1, <2>2, <2>3 DEF Made
<1>5. QED
  BY <1>2, <1>3, <1>4

LEMMA AllIsMade == Made(1) = {} /\ Made(35) = Baseline
<1>1. \A o \in Baseline : MadeBy(o) \in 1..34
  BY ScriptsMakeBaseline DEF Makes
<1>2. QED
  BY <1>1 DEF Made

LEMMA NameIsNew == NameUnique \notin Baseline
BY DEF NameUnique, Baseline, BaselineTables1, BaselineTables2, BaselineTables3, BaselineTables4,
       BaselineKeys, BaselineUniques, BaselineIndexes1, BaselineIndexes2, BaselineRefs, Schema,
       Tables, Keys, Uniques, Checks, Indexes, Refs

LEMMA InitIsComplete == DatabaseInit => Complete
BY AllIsMade DEF DatabaseInit, Complete

LEMMA StatementCompletes ==
  ASSUME Complete, RunStatement
  PROVE  Complete'
<1>1. statement \in 1..34 /\ present = Made(statement) /\ version = "none" /\ version' = version
  BY DEF Complete, RunStatement
<1>2. present' = Made(statement + 1) /\ statement' = statement + 1
  BY <1>1, NextIsMade DEF RunStatement
<1>3. CASE statement = 34
  <2>1. boot' = "up"
    BY <1>3, StatementsInPlace DEF RunStatement
  <2>2. present' = Baseline
    BY <1>2, <1>3, AllIsMade
  <2>3. QED
    BY <1>1, <2>1, <2>2 DEF Complete
<1>4. CASE statement # 34
  <2>1. boot' = "initialising" /\ statement' \in 1..34
    BY <1>1, <1>2, <1>4, StatementsInPlace DEF RunStatement
  <2>2. present' = Made(statement')
    BY <1>2
  <2>3. QED
    BY <1>1, <2>1, <2>2 DEF Complete
<1>5. QED
  BY <1>3, <1>4

LEMMA CommandsComplete ==
  ASSUME Complete,
         KillInit \/ StampBaseline \/ UpgradeFromNothing \/ UpgradeToHead \/ UpgradeFails
           \/ DowngradeHead \/ DowngradeBaseline
  PROVE  Complete'
<1>1. CASE KillInit
  BY <1>1 DEF KillInit, Complete
<1>2. CASE StampBaseline
  BY <1>2 DEF StampBaseline, Command, Complete
<1>3. CASE UpgradeFromNothing
  BY <1>3 DEF UpgradeFromNothing, Command, Complete
<1>4. CASE UpgradeToHead
  <2>1. /\ boot' = boot /\ boot \in {"up", "interrupted"} /\ version = "baseline"
        /\ version' = "head" /\ present # {} /\ present' = present \cup {NameUnique}
    BY <1>4 DEF UpgradeToHead, Command, Complete
  <2>2. boot = "up" => present = Baseline
    BY <2>1 DEF Complete
  <2>3. QED
    BY <2>1, <2>2 DEF Complete
<1>5. CASE UpgradeFails
  BY <1>5 DEF UpgradeFails, Command, Complete
<1>6. CASE DowngradeHead
  <2>1. /\ boot' = boot /\ boot \in {"up", "interrupted"} /\ version = "head"
        /\ version' = "baseline" /\ present' = present \ {NameUnique}
    BY <1>6 DEF DowngradeHead, Command, Complete
  <2>2. boot = "up" => present = Baseline \cup {NameUnique}
    BY <2>1 DEF Complete
  <2>3. boot = "up" => present' = Baseline
    BY <2>1, <2>2, NameIsNew
  <2>4. QED
    BY <2>1, <2>3 DEF Complete
<1>7. CASE DowngradeBaseline
  BY <1>7 DEF DowngradeBaseline, Complete
<1>8. QED
  BY <1>1, <1>2, <1>3, <1>4, <1>5, <1>6, <1>7

LEMMA NextIsComplete == Complete /\ [DatabaseNext]_databaseVars => Complete'
<1> SUFFICES ASSUME Complete, [DatabaseNext]_databaseVars PROVE Complete'
  OBVIOUS
<1>1. CASE RunStatement
  BY <1>1, StatementCompletes
<1>2. CASE KillInit \/ StampBaseline \/ UpgradeFromNothing \/ UpgradeToHead \/ UpgradeFails
             \/ DowngradeHead \/ DowngradeBaseline
  BY <1>2, CommandsComplete
<1>3. CASE UNCHANGED built
  BY <1>3 DEF built, Complete
<1>4. ASSUME NEW s \in Seeders, SeedStep(s) PROVE UNCHANGED built
  BY <1>4 DEF SeedStep, BeginSeed, SeedLooksUp, SeedInserts, SeedRaises, SeedDies, SeedCommits,
              SeedEnds
<1>5. CASE UNCHANGED databaseVars
  BY <1>5, <1>3 DEF databaseVars
<1>6. QED
  BY <1>1, <1>2, <1>3, <1>4, <1>5 DEF DatabaseNext

(* While the scripts run, the statement whose turn it is finds all it needs *)
(* and none of what it makes (ScriptsAreOrdered), and a head that the        *)
(* scripts and Alembic made is the whole baseline and the constraint        *)
(* (HeadIsComplete), for every number of batches, names and commands.       *)
LEMMA CompleteIsSound == Complete => ScriptsAreOrdered /\ HeadIsComplete
BY NextIsMade DEF Complete, ScriptsAreOrdered, HeadIsComplete, RunsNow

(* What the scripts, Alembic and the seeds do to the database is sound: the *)
(* property that the run of the platform checks, all its parts.             *)
THEOREM BringUpSucceeds == DatabaseSpec => []BringUpIsSound
<1>1. DatabaseSpec => []Complete
  BY InitIsComplete, NextIsComplete, PTL DEF DatabaseSpec
<1>2. DatabaseSpec => []SeedIsIdempotent
  BY SeedsMayBeRepeated
<1>3. Complete /\ SeedIsIdempotent => BringUpIsSound
  BY CompleteIsSound DEF BringUpIsSound
<1>4. QED
  BY <1>1, <1>2, <1>3, PTL

-----------------------------------------------------------------------------
(* The type invariant of the bring-up.                                     *)

LEMMA BuildTyped ==
  ASSUME DatabaseTypeOK, Complete,
         RunStatement \/ KillInit \/ StampBaseline \/ UpgradeFromNothing \/ UpgradeToHead
           \/ UpgradeFails \/ DowngradeHead \/ DowngradeBaseline
  PROVE  DatabaseTypeOK'
<1>1. Len(InitScript) = 34 /\ Categories \in Nat /\ MaxCommands \in Nat
  BY StatementsInPlace, DatabaseAssumption
<1>2. CASE RunStatement
  <2>1. statement \in 1..34 /\ statement' = statement + 1 /\ boot' \in {"up", "initialising"}
    BY <1>2 DEF RunStatement, Complete
  <2>2. UNCHANGED <<version, outcome, commands, seeding>>
    BY <1>2 DEF RunStatement
  <2>3. statement' \in 1..(34 + 1)
    BY <2>1
  <2>4. QED
    BY <1>1, <2>1, <2>2, <2>3 DEF DatabaseTypeOK, seeding
<1>3. CASE KillInit
  BY <1>3 DEF KillInit, DatabaseTypeOK, seeding
<1>4. ASSUME NEW answer \in Outcomes, Command(answer), version' \in Versions
      PROVE  DatabaseTypeOK'
  BY <1>1, <1>4 DEF Command, DatabaseTypeOK, seeding
<1>5. CASE StampBaseline
  BY <1>4, <1>5 DEF StampBaseline, Outcomes, Versions
<1>6. CASE UpgradeFromNothing
  <2>1. \E answer \in Outcomes : Command(answer)
    BY <1>6 DEF UpgradeFromNothing, Outcomes
  <2>2. UNCHANGED version
    BY <1>6 DEF UpgradeFromNothing
  <2>3. QED
    BY <1>4, <2>1, <2>2 DEF DatabaseTypeOK
<1>7. CASE UpgradeToHead
  BY <1>4, <1>7 DEF UpgradeToHead, Outcomes, Versions, DatabaseTypeOK
<1>8. CASE UpgradeFails
  BY <1>4, <1>8 DEF UpgradeFails, Outcomes, DatabaseTypeOK
<1>9. CASE DowngradeHead
  BY <1>4, <1>9 DEF DowngradeHead, Outcomes, Versions, DatabaseTypeOK
<1>10. CASE DowngradeBaseline
  <2>1. /\ commands < MaxCommands /\ commands' = commands + 1 /\ outcome' = "done"
        /\ names' = [n \in DOMAIN names |-> 0] /\ version' = "none"
        /\ UNCHANGED <<boot, statement, seeder, missing, mine, overlapped>>
    BY <1>10 DEF DowngradeBaseline
  <2>2. names' \in [1..Categories -> Nat] /\ commands' \in 0..MaxCommands
    BY <1>1, <2>1 DEF DatabaseTypeOK
  <2>3. QED
    BY <2>1, <2>2 DEF DatabaseTypeOK, Outcomes, Versions
<1>11. QED
  BY <1>2, <1>3, <1>5, <1>6, <1>7, <1>8, <1>9, <1>10

LEMMA SeedTyped ==
  ASSUME NEW s \in Seeders, DatabaseTypeOK, Seeding, SeedStep(s)
  PROVE  DatabaseTypeOK'
<1>1. /\ Categories \in Nat /\ names \in [1..Categories -> Nat]
      /\ seeder \in [Seeders -> 0..(Categories + 1)] /\ missing \in [Seeders -> BOOLEAN]
      /\ mine \in [Seeders -> SUBSET (1..Categories)]
      /\ missing[s] => seeder[s] \in 1..Categories
  BY DatabaseAssumption DEF DatabaseTypeOK, Seeding, SeedShape
<1>2. ASSUME UNCHANGED built, overlapped' \in BOOLEAN, names' \in [1..Categories -> Nat],
             seeder' \in [Seeders -> 0..(Categories + 1)], missing' \in [Seeders -> BOOLEAN],
             mine' \in [Seeders -> SUBSET (1..Categories)]
      PROVE  DatabaseTypeOK'
  BY <1>2 DEF built, DatabaseTypeOK
<1>3. overlapped \in BOOLEAN
  BY DEF DatabaseTypeOK
<1>4. CASE BeginSeed(s)
  <2>1. /\ UNCHANGED <<built, names, mine, missing>> /\ seeder' = [seeder EXCEPT ![s] = 1]
        /\ overlapped' = (overlapped \/ ~NobodySeeds)
    BY <1>4 DEF BeginSeed
  <2>2. overlapped' \in BOOLEAN
    BY <2>1
  <2>3. seeder' \in [Seeders -> 0..(Categories + 1)]
    BY <1>1, <2>1
  <2>4. QED
    BY <1>1, <1>2, <2>1, <2>2, <2>3
<1>5. CASE SeedLooksUp(s)
  <2>1. /\ UNCHANGED <<built, names, mine, overlapped>> /\ seeder[s] \in 1..Categories
        /\ \/ seeder' = [seeder EXCEPT ![s] = @ + 1] /\ UNCHANGED missing
           \/ missing' = [missing EXCEPT ![s] = TRUE] /\ UNCHANGED seeder
    BY <1>5 DEF SeedLooksUp
  <2>2. seeder[s] + 1 \in 0..(Categories + 1)
    BY <1>1, <2>1
  <2>3. seeder' \in [Seeders -> 0..(Categories + 1)]
    BY <1>1, <2>1, <2>2
  <2>4. missing' \in [Seeders -> BOOLEAN]
    BY <1>1, <2>1
  <2>5. QED
    BY <1>1, <1>2, <1>3, <2>1, <2>3, <2>4
<1>6. CASE SeedInserts(s)
  <2>1. /\ UNCHANGED <<built, names, overlapped>> /\ missing[s]
        /\ mine' = [mine EXCEPT ![s] = @ \cup {seeder[s]}]
        /\ seeder' = [seeder EXCEPT ![s] = @ + 1] /\ missing' = [missing EXCEPT ![s] = FALSE]
    BY <1>6 DEF SeedInserts, Name
  <2>2. seeder[s] + 1 \in 0..(Categories + 1)
    BY <1>1, <2>1
  <2>3. seeder' \in [Seeders -> 0..(Categories + 1)]
    BY <1>1, <2>1, <2>2
  <2>4. mine' \in [Seeders -> SUBSET (1..Categories)] /\ missing' \in [Seeders -> BOOLEAN]
    BY <1>1, <2>1
  <2>5. QED
    BY <1>1, <1>2, <1>3, <2>1, <2>3, <2>4
<1>7. CASE SeedRaises(s) \/ SeedDies(s) \/ SeedCommits(s)
  <2>1. SeedEnds(s) /\ (names' = names \/ names' = [n \in DOMAIN names |->
                          IF n \in mine[s] THEN names[n] + 1 ELSE names[n]])
    BY <1>7 DEF SeedRaises, SeedDies, SeedCommits
  <2>2. names' \in [1..Categories -> Nat]
    <3>1. \A n \in 1..Categories : names[n] \in Nat /\ names[n] + 1 \in Nat
      BY <1>1
    <3>2. QED
      BY <1>1, <2>1, <3>1
  <2>3. seeder' \in [Seeders -> 0..(Categories + 1)]
    BY <1>1, <2>1 DEF SeedEnds
  <2>4. mine' \in [Seeders -> SUBSET (1..Categories)] /\ missing' \in [Seeders -> BOOLEAN]
    BY <1>1, <2>1 DEF SeedEnds
  <2>5. QED
    BY <1>2, <1>3, <2>1, <2>2, <2>3, <2>4 DEF SeedEnds
<1>8. QED
  BY <1>4, <1>5, <1>6, <1>7 DEF SeedStep

(* The counters, answers and seeds of the bring-up keep their ranges: no   *)
(* statement is run that the scripts do not have, and no batch looks for a *)
(* name behind the last.                                                   *)
THEOREM DatabaseIsTyped == DatabaseSpec => []DatabaseTypeOK
<1> DEFINE Inv == DatabaseTypeOK /\ Complete /\ Seeding
<1>1. DatabaseInit => Inv
  <2> SUFFICES ASSUME DatabaseInit PROVE Inv
    OBVIOUS
  <2>1. Len(InitScript) = 34 /\ Categories \in Nat /\ MaxCommands \in Nat
    BY StatementsInPlace, DatabaseAssumption
  <2>2. /\ boot \in {"initialising", "up", "interrupted"} /\ statement \in 1..(34 + 1)
        /\ version \in Versions /\ outcome \in Outcomes /\ commands \in 0..MaxCommands
    BY <2>1 DEF DatabaseInit, Versions, Outcomes
  <2>3. overlapped \in BOOLEAN
    BY DEF DatabaseInit
  <2>4. names \in [1..Categories -> Nat] /\ seeder \in [Seeders -> 0..(Categories + 1)]
    BY <2>1 DEF DatabaseInit
  <2>5. missing \in [Seeders -> BOOLEAN] /\ mine \in [Seeders -> SUBSET (1..Categories)]
    BY DEF DatabaseInit
  <2>6. DatabaseTypeOK
    BY <2>1, <2>2, <2>3, <2>4, <2>5 DEF DatabaseTypeOK
  <2>7. QED
    BY <2>6, InitSeeds, InitIsComplete
<1>2. Inv /\ [DatabaseNext]_databaseVars => Inv'
  <2> SUFFICES ASSUME Inv, [DatabaseNext]_databaseVars PROVE Inv'
    OBVIOUS
  <2>1. Complete' /\ Seeding'
    BY NextIsComplete, NextSeeds
  <2>2. DatabaseTypeOK'
    <3>1. CASE UNCHANGED databaseVars
      BY <3>1 DEF databaseVars, built, seeding, DatabaseTypeOK
    <3>2. CASE DatabaseNext
      BY <3>2, BuildTyped, SeedTyped DEF DatabaseNext
    <3>3. QED
      BY <3>1, <3>2
  <2>3. QED
    BY <2>1, <2>2
<1>3. QED
  BY <1>1, <1>2, PTL DEF DatabaseSpec

-----------------------------------------------------------------------------
(* Rows resolve.  What a row refers to is seen by the transaction that     *)
(* writes or buffers it, and a transaction never ceases to see a row until *)
(* it is rolled back.  That takes what the session remembers between its   *)
(* statements: the inventory and product it picked, the orders of its      *)
(* pool, the stock it wrote.                                               *)

(* The parents by which a transaction finds what belongs together.         *)
HasParents(r) ==
  /\ Table(r.id) = "inventories" => \E p \in r.refs : Table(p) = "products"
  /\ Table(r.id) = "orders" => \E p \in r.refs : Table(p) = "customers"

SeedsAsked == {Seed(t) : t \in {"payment_methods", "carriers", "categories", "warehouses"}}

Shape ==
  /\ DOMAIN stock = Inventories
  /\ DOMAIN pc = Sessions /\ DOMAIN batch = Sessions /\ DOMAIN cycle = Sessions
  /\ DOMAIN own = Sessions /\ DOMAIN held = Sessions /\ DOMAIN buffer = Sessions
  /\ DOMAIN orders = Sessions /\ DOMAIN pick = Sessions
  /\ \A s \in Sessions : DOMAIN held[s] = Inventories

RowsResolve ==
  /\ \A r \in rows : r.refs \subseteq Ids(rows) /\ HasParents(r)
  /\ SeedsAsked \subseteq Ids(rows)
  /\ \A i \in Inventories : stock[i] # Absent => InventoryId(i) \in Ids(rows)

DataResolves(s) ==
  /\ \A r \in own[s] \cup buffer[s] : r.refs \subseteq Ids(Visible(s)) /\ HasParents(r)
  /\ \A i \in Inventories : held[s][i] # Free => InventoryId(i) \in Ids(Visible(s))

PoolResolves(s) ==
  \A o \in orders[s] : {o.order, o.customer, o.product} \subseteq Ids(Visible(s))

PickResolves(s) ==
  /\ pc[s] \in {"decrease", "order", "details"} =>
       InventoryId(pick[s][1]) \in Ids(Visible(s)) /\ pick[s][2] \in Ids(Visible(s))
  /\ pc[s] = "increase" => InventoryId(pick[s][1]) \in Ids(Visible(s))
  /\ pc[s] = "details" => Id("orders", batch[s], cycle[s]) \in Ids(Visible(s))

SessionResolves(s) == DataResolves(s) /\ PoolResolves(s) /\ PickResolves(s)

Resolving == Shape /\ RowsResolve /\ \A s \in Sessions : SessionResolves(s)

-----------------------------------------------------------------------------
LEMMA IdsGrow ==
  ASSUME NEW A, NEW B, A \subseteq B
  PROVE  Ids(A) \subseteq Ids(B)
BY DEF Ids

(* What a step of s does to the data: it inserts now and buffers or        *)
(* commits the rest of added.                                              *)
Lands(s, now, added) ==
  /\ rows \subseteq rows'
  /\ Visible(s) \cup now \subseteq Visible(s)'
  /\ rows' \cup own'[s] \cup buffer'[s] \subseteq rows \cup own[s] \cup buffer[s] \cup added
  /\ rows' = rows \/ Visible(s) \cup now \subseteq rows'
  /\ \A i \in Inventories : stock'[i] # Absent =>
       stock[i] # Absent \/ (held[s][i] # Free /\ Visible(s) \cup now \subseteq rows')

OthersKeep(s) ==
  \A q \in Sessions \ {s} :
    /\ own'[q] = own[q] /\ held'[q] = held[q] /\ buffer'[q] = buffer[q]
    /\ orders'[q] = orders[q] /\ pick'[q] = pick[q] /\ pc'[q] = pc[q]
    /\ batch'[q] = batch[q] /\ cycle'[q] = cycle[q]

LEMMA OtherResolves ==
  ASSUME NEW s \in Sessions, NEW q \in Sessions \ {s}, OthersKeep(s),
         rows \subseteq rows', SessionResolves(q)
  PROVE  SessionResolves(q)'
<1>1. Visible(q) \subseteq Visible(q)'
  BY DEF Visible, OthersKeep
<1>2. Ids(Visible(q)) \subseteq Ids(Visible(q)')
  BY <1>1, IdsGrow
<1>3. Ids(Visible(q)') = Ids(Visible(q))'
  BY DEF Ids
<1>4. DataResolves(q)'
  BY <1>2, <1>3 DEF SessionResolves, DataResolves, OthersKeep, HasParents
<1>5. PoolResolves(q)'
  BY <1>2, <1>3 DEF SessionResolves, PoolResolves, OthersKeep
<1>6. PickResolves(q)'
  BY <1>2, <1>3 DEF SessionResolves, PickResolves, OthersKeep
<1>7. QED
  BY <1>4, <1>5, <1>6 DEF SessionResolves

(* Rows that refer to what s sees, or inserts, keep resolving.             *)
LEMMA DataKeepsResolving ==
  ASSUME NEW s \in Sessions, NEW now, NEW added, Lands(s, now, added),
         RowsResolve, DataResolves(s),
         \A r \in added : r.refs \subseteq Ids(Visible(s) \cup now) /\ HasParents(r),
         \A i \in Inventories : held'[s][i] # Free =>
           held[s][i] # Free \/ InventoryId(i) \in Ids(Visible(s) \cup now)
  PROVE  /\ RowsResolve' /\ DataResolves(s)'
         /\ Ids(Visible(s) \cup now) \subseteq Ids(Visible(s))'
         /\ Ids(Visible(s)) \subseteq Ids(Visible(s))'
<1>1. /\ Ids(Visible(s) \cup now) \subseteq Ids(Visible(s))'
      /\ Ids(Visible(s)) \subseteq Ids(Visible(s) \cup now)
      /\ Ids(rows) \subseteq Ids(rows)' /\ Ids(rows) \subseteq Ids(Visible(s))
      /\ Visible(s) \cup now \subseteq rows' => Ids(Visible(s) \cup now) \subseteq Ids(rows)'
  BY DEF Ids, Lands, Visible
<1>2. \A r \in rows \cup own[s] \cup buffer[s] \cup added :
        r.refs \subseteq Ids(Visible(s) \cup now) /\ HasParents(r)
  BY <1>1 DEF RowsResolve, DataResolves
<1>3. \A r \in rows' \cup own'[s] \cup buffer'[s] :
        r.refs \subseteq Ids(Visible(s) \cup now) /\ HasParents(r)
  BY <1>2 DEF Lands
<1>4. \A r \in rows' : r.refs \subseteq Ids(rows)'
  <2>1. CASE rows' = rows
    BY <2>1, <1>1 DEF RowsResolve
  <2>2. CASE Visible(s) \cup now \subseteq rows'
    BY <2>2, <1>1, <1>3
  <2>3. QED
    BY <2>1, <2>2 DEF Lands
<1>5. ASSUME NEW i \in Inventories, stock'[i] # Absent
      PROVE  InventoryId(i) \in Ids(rows)'
  <2>1. CASE stock[i] # Absent
    BY <2>1, <1>1 DEF RowsResolve
  <2>2. CASE held[s][i] # Free /\ Visible(s) \cup now \subseteq rows'
    BY <2>2, <1>1 DEF DataResolves
  <2>3. QED
    BY <1>5, <2>1, <2>2 DEF Lands
<1>6. RowsResolve'
  BY <1>1, <1>3, <1>4, <1>5 DEF RowsResolve, HasParents, SeedsAsked
<1>7. DataResolves(s)'
  BY <1>1, <1>3 DEF DataResolves, HasParents
<1>8. QED
  BY <1>1, <1>6, <1>7

-----------------------------------------------------------------------------
(* How the code changes the data.                                          *)

LEMMA CommitLands ==
  ASSUME NEW s \in Sessions, NEW now, NEW new, Shape, now \subseteq new, CommitWith(s, new),
         buffer'[s] \subseteq buffer[s] \cup new
  PROVE  /\ Lands(s, now, new)
         /\ \A i \in Inventories : held'[s][i] # Free => held[s][i] # Free
BY DEF CommitWith, Lands, Visible, InView, NoneHeld, Shape

LEMMA CommitKeepsShape ==
  ASSUME NEW s \in Sessions, NEW new, Shape, CommitWith(s, new)
  PROVE  /\ DOMAIN stock' = Inventories /\ DOMAIN own' = Sessions /\ DOMAIN held' = Sessions
         /\ \A q \in Sessions : DOMAIN held'[q] = Inventories
         /\ \A q \in Sessions \ {s} : own'[q] = own[q] /\ held'[q] = held[q]
         /\ own'[s] = {} /\ held'[s] = NoneHeld
BY DEF CommitWith, Shape, NoneHeld

LEMMA LandingIsOfBuffer ==
  ASSUME NEW s, NEW b
  PROVE  Landing(s, b) \subseteq b
BY DEF Landing

LEMMA WritesLand ==
  ASSUME NEW s \in Sessions, NEW now, NEW row, NEW more, Shape, Writes(s, now, row, more)
  PROVE  /\ Lands(s, now, now \cup {row} \cup more)
         /\ \A i \in Inventories : held'[s][i] # Free => held[s][i] # Free
         /\ DOMAIN stock' = Inventories /\ DOMAIN own' = Sessions /\ DOMAIN held' = Sessions
         /\ DOMAIN buffer' = Sessions
         /\ \A q \in Sessions : DOMAIN held'[q] = Inventories
         /\ \A q \in Sessions \ {s} :
              own'[q] = own[q] /\ held'[q] = held[q] /\ buffer'[q] = buffer[q]
<1> DEFINE b == buffer[s] \cup {row}
<1>1. CASE /\ CommitWith(s, now \cup Landing(s, b))
           /\ buffer' = [buffer EXCEPT ![s] = more]
  <2>1. Landing(s, b) \subseteq b
    BY LandingIsOfBuffer
  <2>2. /\ rows' = rows \cup own[s] \cup (now \cup Landing(s, b))
        /\ own'[s] = {} /\ buffer'[s] = more
        /\ \A i \in Inventories : held'[s][i] = Free /\ stock'[i] = InView(s, i)
    BY <1>1, CommitKeepsShape DEF CommitWith, Shape, NoneHeld
  <2>3. Lands(s, now, now \cup {row} \cup more)
    BY <2>1, <2>2 DEF Lands, Visible, InView
  <2>4. DOMAIN buffer' = Sessions /\ \A q \in Sessions \ {s} : buffer'[q] = buffer[q]
    BY <1>1 DEF Shape
  <2>5. QED
    BY <1>1, <2>2, <2>3, <2>4, CommitKeepsShape
<1>2. CASE /\ CommitWith(s, now \cup Landing(s, b \cup more))
           /\ buffer' = [buffer EXCEPT ![s] = {}]
  <2>1. Landing(s, b \cup more) \subseteq b \cup more
    BY LandingIsOfBuffer
  <2>2. /\ rows' = rows \cup own[s] \cup (now \cup Landing(s, b \cup more))
        /\ own'[s] = {} /\ buffer'[s] = {}
        /\ \A i \in Inventories : held'[s][i] = Free /\ stock'[i] = InView(s, i)
    BY <1>2, CommitKeepsShape DEF CommitWith, Shape, NoneHeld
  <2>3. Lands(s, now, now \cup {row} \cup more)
    BY <2>1, <2>2 DEF Lands, Visible, InView
  <2>4. DOMAIN buffer' = Sessions /\ \A q \in Sessions \ {s} : buffer'[q] = buffer[q]
    BY <1>2 DEF Shape
  <2>5. QED
    BY <1>2, <2>2, <2>3, <2>4, CommitKeepsShape
<1>3. CASE /\ own' = [own EXCEPT ![s] = @ \cup now]
           /\ buffer' = [buffer EXCEPT ![s] = b \cup more]
           /\ UNCHANGED <<rows, stock, held>>
  BY <1>3 DEF Lands, Visible, Shape
<1>4. QED
  BY <1>1, <1>2, <1>3 DEF Writes

(* A statement of its own transaction, on the rows and the stock.          *)
LEMMA InsertLands ==
  ASSUME NEW s \in Sessions, NEW now, Shape, own' = [own EXCEPT ![s] = @ \cup now],
         UNCHANGED <<rows, stock, buffer>>
  PROVE  /\ Lands(s, now, now) /\ DOMAIN own' = Sessions
         /\ \A q \in Sessions \ {s} : own'[q] = own[q]
BY DEF Lands, Visible, Shape

LEMMA NothingLands ==
  ASSUME NEW s \in Sessions, UNCHANGED <<rows, stock, own, buffer>>
  PROVE  Lands(s, {}, {})
BY DEF Lands, Visible

-----------------------------------------------------------------------------
(* The steps.                                                              *)

LEMMA AllResolve ==
  ASSUME NEW s \in Sessions, Resolving, Shape', RowsResolve', rows \subseteq rows',
         SessionResolves(s)', OthersKeep(s)
  PROVE  Resolving'
<1>1. ASSUME NEW q \in Sessions \ {s}
      PROVE  SessionResolves(q)'
  BY OtherResolves DEF Resolving
<1>2. QED
  BY <1>1 DEF Resolving

LEMMA VisibleIds ==
  ASSUME NEW s \in Sessions
  PROVE  Ids(rows) \subseteq Ids(Visible(s))
BY DEF Ids, Visible

(* A parent that a row has is seen by who sees the row.                    *)
LEMMA ParentIsVisible ==
  ASSUME NEW s \in Sessions, NEW id, NEW t, RowsResolve, DataResolves(s),
         id \in Ids(Visible(s)),
         \/ Table(id) = "inventories" /\ t = "products"
         \/ Table(id) = "orders" /\ t = "customers"
  PROVE  ParentOf(s, id, t) \in Ids(Visible(s))
<1> DEFINE parents == UNION {r.refs : r \in {q \in Visible(s) : q.id = id}}
<1>1. PICK r \in Visible(s) : r.id = id
  BY DEF Ids
<1>2. \A q \in Visible(s) : q.refs \subseteq Ids(Visible(s)) /\ HasParents(q)
  BY VisibleIds DEF RowsResolve, DataResolves, Visible
<1>3. \E p \in parents : Table(p) = t
  BY <1>1, <1>2 DEF HasParents
<1>4. (CHOOSE p \in parents : Table(p) = t) \in parents
  BY <1>3
<1>5. parents \subseteq Ids(Visible(s))
  BY <1>2
<1>6. QED
  BY <1>4, <1>5 DEF ParentOf

LEMMA StockIsVisible ==
  ASSUME NEW s \in Sessions, NEW i \in Inventories, RowsResolve, DataResolves(s),
         InView(s, i) # Absent
  PROVE  InventoryId(i) \in Ids(Visible(s))
BY VisibleIds DEF RowsResolve, DataResolves, InView

LEMMA RollBackResolves ==
  ASSUME NEW s \in Sessions, Resolving, RollBack(s)
  PROVE  Resolving'
<1>1. Shape' /\ OthersKeep(s)
  BY DEF RollBack, Goto, Resolving, Shape, OthersKeep, NoneHeld
<1>2. RowsResolve'
  BY DEF RollBack, Resolving, RowsResolve, Ids
<1>3. SessionResolves(s)'
  <2>1. /\ own'[s] = {} /\ buffer'[s] = {} /\ orders'[s] = {} /\ pc'[s] = "dead"
        /\ held'[s] = NoneHeld
    BY DEF RollBack, Goto, Resolving, Shape
  <2>2. QED
    BY <2>1 DEF SessionResolves, DataResolves, PoolResolves, PickResolves, NoneHeld
<1>4. QED
  BY <1>1, <1>2, <1>3, AllResolve DEF RollBack

LEMMA FirstRows ==
  ASSUME NEW b, NEW n
  PROVE  /\ CustomerRow(b, n).refs = {} /\ HasParents(CustomerRow(b, n))
         /\ CustomerRow(b, n).id = Id("customers", b, n)
         /\ AddressRow(b, n).refs = {Id("customers", b, n)} /\ HasParents(AddressRow(b, n))
         /\ SellerRow(b, n).refs = {} /\ HasParents(SellerRow(b, n))
         /\ WarehouseRow(b, n).refs = {} /\ HasParents(WarehouseRow(b, n))
         /\ WarehouseRow(b, n).id = Id("warehouses", b, n)
         /\ HistoryRow(b, n).refs = {Id("orders", b, n)} /\ HasParents(HistoryRow(b, n))
BY DEF CustomerRow, AddressRow, SellerRow, WarehouseRow, HistoryRow, HasParents, Table, Row, Id

LEMMA DetailRows ==
  ASSUME NEW b, NEW n, NEW x
  PROVE  /\ ItemRow(b, n, x).refs = {Id("orders", b, n), x} /\ HasParents(ItemRow(b, n, x))
         /\ MovementRow(b, n, x).refs = {Id("orders", b, n), InventoryId(x)}
         /\ HasParents(MovementRow(b, n, x))
BY DEF ItemRow, MovementRow, HasParents, Table, Row, Id

LEMMA LinkingRows ==
  ASSUME NEW b, NEW n, NEW x, NEW y
  PROVE  /\ ProductRow(b, n, x, y).refs = {x, y} /\ HasParents(ProductRow(b, n, x, y))
         /\ PaymentRow(b, n, x, y).refs = {x, y} /\ HasParents(PaymentRow(b, n, x, y))
         /\ ShipmentRow(b, n, x, y).refs = {x, y} /\ HasParents(ShipmentRow(b, n, x, y))
         /\ RestockRow(b, n, x, y).refs = {} /\ HasParents(RestockRow(b, n, x, y))
BY DEF ProductRow, PaymentRow, ShipmentRow, RestockRow, HasParents, Table, Row, StockRow, Id

LEMMA InventoryRows ==
  ASSUME NEW i, NEW x, NEW y, NEW q
  PROVE  /\ InventoryRow(i, x, y, q).refs = {x, y} /\ InventoryRow(i, x, y, q).id = InventoryId(i)
         /\ Table(y) = "products" => HasParents(InventoryRow(i, x, y, q))
BY DEF InventoryRow, HasParents, Table, StockRow, InventoryId, Id

LEMMA OrderRows ==
  ASSUME NEW b, NEW n, NEW x, NEW i, NEW q
  PROVE  /\ OrderRow(b, n, x, i, q).refs = {x} /\ OrderRow(b, n, x, i, q).id = Id("orders", b, n)
         /\ Table(x) = "customers" => HasParents(OrderRow(b, n, x, i, q))
         /\ ReviewRow(b, n, x, i, q).refs = {x, i, q} /\ HasParents(ReviewRow(b, n, x, i, q))
BY DEF OrderRow, ReviewRow, HasParents, Table, Row, StockRow, Id

LEMMA TablesOfIds ==
  ASSUME NEW t, NEW b, NEW n
  PROVE  Table(Id(t, b, n)) = t
BY DEF Table, Id

(* A step that writes leaves the sessions of the others alone.             *)
LEMMA WritesFrame ==
  ASSUME NEW s \in Sessions, NEW now, NEW row, NEW more, NEW label, Shape,
         Writes(s, now, row, more), Goto(s, label), SameCycle, DOMAIN orders' = Sessions,
         DOMAIN pick' = Sessions,
         \A q \in Sessions \ {s} : orders'[q] = orders[q] /\ pick'[q] = pick[q]
  PROVE  /\ Shape' /\ OthersKeep(s) /\ pc'[s] = label
         /\ batch'[s] = batch[s] /\ cycle'[s] = cycle[s]
<1>1. /\ batch' = batch /\ cycle' = cycle /\ DOMAIN pc' = Sessions /\ pc'[s] = label
      /\ \A q \in Sessions \ {s} : pc'[q] = pc[q]
  BY DEF SameCycle, Quiet, Goto, Shape
<1>2. /\ DOMAIN stock' = Inventories /\ DOMAIN own' = Sessions /\ DOMAIN held' = Sessions
      /\ DOMAIN buffer' = Sessions /\ \A q \in Sessions : DOMAIN held'[q] = Inventories
      /\ \A q \in Sessions \ {s} :
           own'[q] = own[q] /\ held'[q] = held[q] /\ buffer'[q] = buffer[q]
  BY WritesLand
<1>3. QED
  BY <1>1, <1>2 DEF Shape, OthersKeep

(* A step whose rows refer to what is seen or inserted keeps everything    *)
(* resolving, if what it leaves in the pool and picks does.                *)
LEMMA StepResolves ==
  ASSUME NEW s \in Sessions, NEW now, NEW added, Resolving, Lands(s, now, added), Shape',
         OthersKeep(s),
         \A r \in added : r.refs \subseteq Ids(Visible(s) \cup now) /\ HasParents(r),
         \A i \in Inventories : held'[s][i] # Free =>
           held[s][i] # Free \/ InventoryId(i) \in Ids(Visible(s) \cup now),
         orders'[s] # orders[s] =>
           \A o \in orders'[s] :
             {o.order, o.customer, o.product} \subseteq Ids(Visible(s) \cup now),
         pc'[s] \in {"decrease", "order", "details"} =>
           {InventoryId(pick'[s][1]), pick'[s][2]} \subseteq Ids(Visible(s)),
         pc'[s] = "increase" => InventoryId(pick'[s][1]) \in Ids(Visible(s)),
         pc'[s] = "details" =>
           Id("orders", batch'[s], cycle'[s]) \in Ids(Visible(s) \cup now)
  PROVE  Resolving'
<1>1. /\ RowsResolve' /\ DataResolves(s)'
      /\ Ids(Visible(s) \cup now) \subseteq Ids(Visible(s))'
      /\ Ids(Visible(s)) \subseteq Ids(Visible(s))'
  BY DataKeepsResolving DEF Resolving, SessionResolves
<1>2. PoolResolves(s)'
  BY <1>1 DEF PoolResolves, Resolving, SessionResolves
<1>3. PickResolves(s)'
  BY <1>1 DEF PickResolves
<1>4. QED
  BY <1>1, <1>2, <1>3, AllResolve DEF SessionResolves, Lands

LEMMA WritesResolve ==
  ASSUME NEW s \in Sessions, NEW now, NEW row, NEW more, NEW label, Resolving,
         Writes(s, now, row, more), Goto(s, label), SameCycle, DOMAIN orders' = Sessions,
         DOMAIN pick' = Sessions,
         \A q \in Sessions \ {s} : orders'[q] = orders[q] /\ pick'[q] = pick[q],
         \A r \in now \cup {row} \cup more :
           r.refs \subseteq Ids(Visible(s) \cup now) /\ HasParents(r),
         orders'[s] # orders[s] =>
           \A o \in orders'[s] :
             {o.order, o.customer, o.product} \subseteq Ids(Visible(s) \cup now),
         label \notin {"decrease", "order", "increase"},
         label = "details" =>
           /\ {InventoryId(pick'[s][1]), pick'[s][2]} \subseteq Ids(Visible(s))
           /\ Id("orders", batch[s], cycle[s]) \in Ids(Visible(s) \cup now)
  PROVE  Resolving'
<1>1. /\ Lands(s, now, now \cup {row} \cup more)
      /\ \A i \in Inventories : held'[s][i] # Free => held[s][i] # Free
  BY WritesLand DEF Resolving
<1>2. /\ Shape' /\ OthersKeep(s) /\ pc'[s] = label
      /\ batch'[s] = batch[s] /\ cycle'[s] = cycle[s]
  BY WritesFrame DEF Resolving
<1>3. QED
  BY <1>1, <1>2, StepResolves

LEMMA CreateCustomerResolves ==
  ASSUME NEW s \in Sessions, Resolving, CreateCustomer(s)
  PROVE  Resolving'
<1> DEFINE now == {CustomerRow(batch[s], cycle[s])}
<1>1. Id("customers", batch[s], cycle[s]) \in Ids(Visible(s) \cup now)
  BY FirstRows DEF Ids
<1>2. \A r \in now \cup {AddressRow(batch[s], cycle[s])} \cup {} :
        r.refs \subseteq Ids(Visible(s) \cup now) /\ HasParents(r)
  BY <1>1, FirstRows
<1>3. orders' = orders /\ pick' = pick
  BY DEF CreateCustomer
<1>4. QED
  BY <1>2, <1>3, WritesResolve DEF CreateCustomer, Resolving, Shape

LEMMA InsertOrderResolves ==
  ASSUME NEW s \in Sessions, Resolving, InsertOrder(s)
  PROVE  Resolving'
<1>1. PICK c \in Pool(s, "customers") :
        Writes(s, {OrderRow(batch[s], cycle[s], c, pick[s][1], pick[s][3])},
               ItemRow(batch[s], cycle[s], pick[s][2]), {})
  BY DEF InsertOrder
<1> DEFINE now == {OrderRow(batch[s], cycle[s], c, pick[s][1], pick[s][3])}
<1>2. c \in Ids(Visible(s)) /\ Table(c) = "customers"
  BY TablesOfIds DEF Pool
<1>3. /\ Id("orders", batch[s], cycle[s]) \in Ids(Visible(s) \cup now)
      /\ Ids(Visible(s)) \subseteq Ids(Visible(s) \cup now)
  BY OrderRows DEF Ids
<1>4. InventoryId(pick[s][1]) \in Ids(Visible(s)) /\ pick[s][2] \in Ids(Visible(s))
  BY DEF InsertOrder, Resolving, SessionResolves, PickResolves
<1>5. \A r \in now \cup {ItemRow(batch[s], cycle[s], pick[s][2])} \cup {} :
        r.refs \subseteq Ids(Visible(s) \cup now) /\ HasParents(r)
  <2>1. ASSUME NEW r \in now
        PROVE  r.refs \subseteq Ids(Visible(s) \cup now) /\ HasParents(r)
    <3>1. r = OrderRow(batch[s], cycle[s], c, pick[s][1], pick[s][3])
      OBVIOUS
    <3>2. r.refs = {c} /\ HasParents(r)
      BY <1>2, <3>1, OrderRows
    <3>3. QED
      BY <1>2, <1>3, <3>2
  <2>2. ASSUME NEW r, r = ItemRow(batch[s], cycle[s], pick[s][2])
        PROVE  r.refs \subseteq Ids(Visible(s) \cup now) /\ HasParents(r)
    <3>1. r.refs = {Id("orders", batch[s], cycle[s]), pick[s][2]} /\ HasParents(r)
      BY <2>2, DetailRows
    <3>2. QED
      BY <1>3, <1>4, <3>1
  <2>3. QED
    BY <2>1, <2>2
<1>6. orders' = orders /\ pick' = pick
  BY DEF InsertOrder
<1>7. QED
  BY <1>1, <1>3, <1>4, <1>5, <1>6, WritesResolve DEF InsertOrder, Resolving, Shape

LEMMA InsertDetailsResolves ==
  ASSUME NEW s \in Sessions, Resolving, InsertDetails(s)
  PROVE  Resolving'
<1> DEFINE o == Id("orders", batch[s], cycle[s])
           new == [order |-> o, customer |-> ParentOf(s, o, "customers"), product |-> pick[s][2]]
           history == HistoryRow(batch[s], cycle[s])
           movement == MovementRow(batch[s], cycle[s], pick[s][1])
<1>1. /\ InventoryId(pick[s][1]) \in Ids(Visible(s)) /\ pick[s][2] \in Ids(Visible(s))
      /\ o \in Ids(Visible(s))
  BY DEF InsertDetails, Resolving, SessionResolves, PickResolves
<1>2. ParentOf(s, o, "customers") \in Ids(Visible(s))
  BY <1>1, ParentIsVisible, TablesOfIds DEF Resolving, SessionResolves
<1>3. Visible(s) \cup {} = Visible(s)
  OBVIOUS
<1>4. \A r \in {} \cup {history} \cup {movement} :
        r.refs \subseteq Ids(Visible(s) \cup {}) /\ HasParents(r)
  BY <1>1, <1>3, FirstRows, DetailRows
<1>5. orders' = [orders EXCEPT ![s] = @ \cup {new}] /\ pick' = [pick EXCEPT ![s] = NoPick]
  BY DEF InsertDetails
<1>6. /\ orders'[s] = orders[s] \cup {new} /\ DOMAIN orders' = Sessions /\ DOMAIN pick' = Sessions
      /\ \A q \in Sessions \ {s} : orders'[q] = orders[q] /\ pick'[q] = pick[q]
  BY <1>5 DEF Resolving, Shape
<1>7. \A x \in orders'[s] : {x.order, x.customer, x.product} \subseteq Ids(Visible(s) \cup {})
  BY <1>1, <1>2, <1>3, <1>6 DEF Resolving, SessionResolves, PoolResolves
<1>8. Writes(s, {}, history, {movement}) /\ Goto(s, "payment") /\ SameCycle
  BY DEF InsertDetails
<1>9. QED
  BY <1>4, <1>6, <1>7, <1>8, WritesResolve

(* A row that refers to an order of the pool, and to what is visible.      *)
LEMMA PoolRowResolves ==
  ASSUME NEW s \in Sessions, NEW row, NEW label, Resolving, Writes(s, {}, row, {}),
         Goto(s, label), SameCycle, UNCHANGED <<orders, pick>>,
         row.refs \subseteq Ids(Visible(s)), HasParents(row),
         label \notin {"decrease", "order", "increase", "details"}
  PROVE  Resolving'
<1>1. Visible(s) \cup {} = Visible(s)
  OBVIOUS
<1>2. \A r \in {} \cup {row} \cup {} : r.refs \subseteq Ids(Visible(s) \cup {}) /\ HasParents(r)
  BY <1>1
<1>3. QED
  BY <1>2, WritesResolve DEF Resolving, Shape

LEMMA SeedsAreVisible ==
  ASSUME NEW s \in Sessions, Resolving
  PROVE  SeedsAsked \subseteq Ids(Visible(s))
BY VisibleIds DEF Resolving, RowsResolve

LEMMA AfterOrderResolves ==
  ASSUME NEW s \in Sessions, Resolving, CreatePayment(s) \/ CreateShipment(s) \/ CreateReview(s)
  PROVE  Resolving'
<1>1. \A o \in orders[s] : {o.order, o.customer, o.product} \subseteq Ids(Visible(s))
  BY DEF Resolving, SessionResolves, PoolResolves
<1>2. CASE CreatePayment(s)
  <2>1. PICK o \in orders[s] :
          Writes(s, {}, PaymentRow(batch[s], cycle[s], o.order, Seed("payment_methods")), {})
    BY <1>2 DEF CreatePayment
  <2>2. Seed("payment_methods") \in Ids(Visible(s))
    BY SeedsAreVisible DEF SeedsAsked
  <2>3. QED
    BY <1>1, <1>2, <2>1, <2>2, LinkingRows, PoolRowResolves DEF CreatePayment
<1>3. CASE CreateShipment(s)
  <2>1. PICK o \in orders[s] :
          Writes(s, {}, ShipmentRow(batch[s], cycle[s], o.order, Seed("carriers")), {})
    BY <1>3 DEF CreateShipment
  <2>2. Seed("carriers") \in Ids(Visible(s))
    BY SeedsAreVisible DEF SeedsAsked
  <2>3. QED
    BY <1>1, <1>3, <2>1, <2>2, LinkingRows, PoolRowResolves DEF CreateShipment
<1>4. CASE CreateReview(s)
  <2>1. PICK o \in orders[s] :
          Writes(s, {}, ReviewRow(batch[s], cycle[s], o.order, o.customer, o.product), {})
    BY <1>4 DEF CreateReview
  <2>2. QED
    BY <1>1, <1>4, <2>1, OrderRows, PoolRowResolves DEF CreateReview
<1>5. QED
  BY <1>2, <1>3, <1>4

LEMMA CatalogResolves ==
  ASSUME NEW s \in Sessions, Resolving, CreateCatalog(s)
  PROVE  Resolving'
<1> DEFINE seller == CreateSeller(s)
           product == CreateProduct(s)
<1>1. PICK w \in CreateWarehouse(s) : CreateInventory(s, {seller, product} \cup w)
  BY DEF CreateCatalog
<1> DEFINE catalog == {seller, product} \cup w
<1>2. /\ Ids(Visible(s)) \subseteq Ids(Visible(s) \cup catalog)
      /\ Ids(catalog) \subseteq Ids(Visible(s) \cup catalog)
      /\ seller.id \in Ids(catalog)
  BY DEF Ids
<1>3. Seed("categories") \in Ids(Visible(s))
  BY SeedsAreVisible DEF SeedsAsked
<1>4. \A r \in catalog : r.refs \subseteq Ids(Visible(s) \cup catalog) /\ HasParents(r)
  <2>1. seller.refs = {} /\ HasParents(seller)
    BY FirstRows DEF CreateSeller
  <2>2. product.refs = {seller.id, Seed("categories")} /\ HasParents(product)
    BY LinkingRows DEF CreateProduct
  <2>3. \A r \in w : r.refs = {} /\ HasParents(r)
    BY FirstRows DEF CreateWarehouse
  <2>4. \A r \in catalog : r = seller \/ r = product \/ r \in w
    OBVIOUS
  <2>5. {seller.id, Seed("categories")} \subseteq Ids(Visible(s) \cup catalog)
    BY <1>2, <1>3
  <2> HIDE DEF seller, product
  <2>6. QED
    BY <2>1, <2>2, <2>3, <2>4, <2>5
<1>5. \A place \in Ids(OfTable(Visible(s) \cup catalog, "warehouses")) :
        place \in Ids(Visible(s) \cup catalog)
  BY DEF Ids, OfTable
<1>6. /\ Shape' /\ pc'[s] = "reserve" /\ UNCHANGED <<rows, stock, buffer, orders>>
      /\ OthersKeep(s)
  BY <1>1 DEF CreateCatalog, CreateInventory, Goto, SameCycle, Quiet, Resolving, Shape, OthersKeep
<1>7. CASE own' = [own EXCEPT ![s] = @ \cup catalog] /\ UNCHANGED held
  <2>1. Lands(s, catalog, catalog)
    BY <1>6, <1>7, InsertLands DEF Resolving
  <2>2. QED
    BY <1>4, <1>6, <1>7, <2>1, StepResolves
<1>8. ASSUME NEW place \in Ids(OfTable(Visible(s) \cup catalog, "warehouses")),
             NEW p \in Pool(s, "products") \cup Ids(OfTable(catalog, "products")), NEW q,
             own' = [own EXCEPT ![s] = @ \cup catalog
                                           \cup {InventoryRow(NewInventory(s), place, p, q)}],
             held' = [held EXCEPT ![s][NewInventory(s)] = q]
      PROVE  Resolving'
  <2> DEFINE row == InventoryRow(NewInventory(s), place, p, q)
             now == catalog \cup {row}
  <2>1. p \in Ids(Visible(s) \cup catalog) /\ Table(p) = "products"
    <3>1. CASE p \in Pool(s, "products")
      BY <1>2, <3>1, TablesOfIds DEF Pool
    <3>2. CASE p \in Ids(OfTable(catalog, "products"))
      BY <1>2, <3>2 DEF Ids, OfTable
    <3>3. QED
      BY <3>1, <3>2
  <2>2. /\ Ids(Visible(s) \cup catalog) \subseteq Ids(Visible(s) \cup now)
        /\ InventoryId(NewInventory(s)) \in Ids(Visible(s) \cup now)
    BY InventoryRows DEF Ids
  <2>3. row.refs = {place, p} /\ HasParents(row)
    BY <2>1, InventoryRows
  <2>4. \A r \in now : r.refs \subseteq Ids(Visible(s) \cup now) /\ HasParents(r)
    <3>1. \A r \in catalog : r.refs \subseteq Ids(Visible(s) \cup now) /\ HasParents(r)
      BY <1>4, <1>5, <2>2
    <3>2. row.refs \subseteq Ids(Visible(s) \cup now) /\ HasParents(row)
      BY <1>4, <1>5, <2>1, <2>2, <2>3
    <3>3. QED
      BY <3>1, <3>2
  <2>5. Lands(s, now, now)
    <3>1. own[s] \cup catalog \cup {row} = own[s] \cup now
      OBVIOUS
    <3>2. own' = [own EXCEPT ![s] = @ \cup now]
      BY <1>8, <3>1
    <3>3. QED
      BY <1>6, <3>2, InsertLands DEF Resolving
  <2>6. \A i \in Inventories : held'[s][i] # Free =>
          held[s][i] # Free \/ InventoryId(i) \in Ids(Visible(s) \cup now)
    BY <1>8, <2>2 DEF Resolving, Shape
  <2>7. QED
    BY <1>6, <2>4, <2>5, <2>6, StepResolves
<1>9. QED
  BY <1>1, <1>7, <1>8 DEF CreateInventory

(* The steps that insert nothing.                                          *)
LEMMA QuietResolves ==
  ASSUME NEW s \in Sessions, NEW label, Resolving, UNCHANGED <<rows, stock, own, buffer>>,
         Goto(s, label), Shape', OthersKeep(s), label # "details",
         \A i \in Inventories : held'[s][i] # Free =>
           held[s][i] # Free \/ InventoryId(i) \in Ids(Visible(s)),
         orders'[s] = orders[s] \/ orders'[s] = {},
         label \in {"decrease", "order"} =>
           {InventoryId(pick'[s][1]), pick'[s][2]} \subseteq Ids(Visible(s)),
         label = "increase" => InventoryId(pick'[s][1]) \in Ids(Visible(s))
  PROVE  Resolving'
<1>1. Visible(s) \cup {} = Visible(s)
  OBVIOUS
<1>2. pc'[s] = label
  BY DEF Goto, Resolving, Shape
<1>3. Lands(s, {}, {})
  BY NothingLands
<1>4. QED
  BY <1>1, <1>2, <1>3, StepResolves

LEMMA OrderStepsResolve ==
  ASSUME NEW s \in Sessions, Resolving, Reserve(s) \/ Decrease(s) \/ ReserveAgain(s)
  PROVE  Resolving'
<1>1. CASE Reserve(s)
  <2>1. PICK i \in Inventories, q \in 1..MaxQuantity :
          /\ q <= InView(s, i)
          /\ pick' = [pick EXCEPT ![s] = <<i, ParentOf(s, InventoryId(i), "products"), q>>]
    BY <1>1 DEF Reserve
  <2>2. InView(s, i) # Absent
    BY <2>1 DEF Absent
  <2>3. InventoryId(i) \in Ids(Visible(s))
    BY <2>2, StockIsVisible DEF Resolving, SessionResolves
  <2>4. ParentOf(s, InventoryId(i), "products") \in Ids(Visible(s))
    BY <2>3, ParentIsVisible, TablesOfIds DEF Resolving, SessionResolves, InventoryId
  <2>5. pick'[s] = <<i, ParentOf(s, InventoryId(i), "products"), q>>
    BY <2>1 DEF Resolving, Shape
  <2>6. Shape' /\ OthersKeep(s)
    BY <1>1 DEF Reserve, Goto, SameCycle, Quiet, Resolving, Shape, OthersKeep
  <2>7. held' = held /\ orders' = orders /\ Goto(s, "decrease")
        /\ UNCHANGED <<rows, stock, own, buffer>>
    BY <1>1 DEF Reserve
  <2>8. {InventoryId(pick'[s][1]), pick'[s][2]} \subseteq Ids(Visible(s))
    BY <2>3, <2>4, <2>5
  <2>9. QED
    BY <2>6, <2>7, <2>8, QuietResolves
<1>2. CASE Decrease(s)
  <2>1. /\ InventoryId(pick[s][1]) \in Ids(Visible(s)) /\ pick[s][2] \in Ids(Visible(s))
    BY <1>2 DEF Decrease, Reaches, Resolving, SessionResolves, PickResolves
  <2>2. Shape' /\ OthersKeep(s)
    BY <1>2 DEF Decrease, Goto, SameCycle, Quiet, Resolving, Shape, OthersKeep
  <2>3. \A i \in Inventories : held'[s][i] # Free =>
          held[s][i] # Free \/ InventoryId(i) \in Ids(Visible(s))
    BY <1>2, <2>1 DEF Decrease, Resolving, Shape
  <2>4. /\ pick' = pick /\ orders' = orders /\ Goto(s, "order")
        /\ UNCHANGED <<rows, stock, own, buffer>>
    BY <1>2 DEF Decrease
  <2>5. QED
    BY <2>1, <2>2, <2>3, <2>4, QuietResolves
<1>3. CASE ReserveAgain(s)
  <2>1. Shape' /\ OthersKeep(s)
    BY <1>3 DEF ReserveAgain, Goto, SameCycle, Quiet, Resolving, Shape, OthersKeep
  <2>2. /\ held' = held /\ orders' = orders /\ Goto(s, "reserve")
        /\ UNCHANGED <<rows, stock, own, buffer>>
    BY <1>3 DEF ReserveAgain
  <2>3. QED
    BY <2>1, <2>2, QuietResolves
<1>4. QED
  BY <1>1, <1>2, <1>3

LEMMA RestockResolves ==
  ASSUME NEW s \in Sessions, Resolving, ChooseRestock(s) \/ Increase(s) \/ NoRestock(s)
  PROVE  Resolving'
<1>1. CASE ChooseRestock(s)
  <2>1. PICK i \in Seen(s), q \in Restocks : pick' = [pick EXCEPT ![s] = <<i, NoUnits, q>>]
    BY <1>1 DEF ChooseRestock, Low
  <2>2. InventoryId(i) \in Ids(Visible(s))
    BY <2>1, StockIsVisible DEF Seen, Resolving, SessionResolves
  <2>3. pick'[s][1] = i
    BY <2>1 DEF Resolving, Shape
  <2>4. Shape' /\ OthersKeep(s)
    BY <1>1, <2>1 DEF ChooseRestock, Goto, SameCycle, Quiet, Resolving, Shape, OthersKeep
  <2>5. held' = held /\ orders' = orders /\ Goto(s, "increase")
        /\ UNCHANGED <<rows, stock, own, buffer>>
    BY <1>1 DEF ChooseRestock
  <2>6. QED
    BY <2>2, <2>3, <2>4, <2>5, QuietResolves
<1>2. CASE Increase(s)
  <2> DEFINE i == pick[s][1]
             now == {RestockRow(batch[s], cycle[s], i, pick[s][3])}
  <2>1. InventoryId(i) \in Ids(Visible(s))
    BY <1>2 DEF Increase, Resolving, SessionResolves, PickResolves
  <2>2. Shape' /\ OthersKeep(s) /\ pc'[s] = "next"
    BY <1>2 DEF Increase, Goto, SameCycle, Quiet, Resolving, Shape, OthersKeep
  <2>3. \A j \in Inventories : held'[s][j] # Free => held[s][j] # Free \/ j = i
    BY <1>2 DEF Increase, Resolving, Shape
  <2>4. Lands(s, now, now) /\ orders' = orders
    BY <1>2, InsertLands DEF Increase, Resolving
  <2>5. \A r \in now : r.refs \subseteq Ids(Visible(s) \cup now) /\ HasParents(r)
    BY LinkingRows
  <2>6. Ids(Visible(s)) \subseteq Ids(Visible(s) \cup now)
    BY DEF Ids
  <2>7. QED
    BY <2>1, <2>2, <2>3, <2>4, <2>5, <2>6, StepResolves
<1>3. CASE NoRestock(s)
  <2>1. Shape' /\ OthersKeep(s)
    BY <1>3 DEF NoRestock, Goto, SameCycle, Quiet, Resolving, Shape, OthersKeep
  <2>2. /\ held' = held /\ orders' = orders /\ Goto(s, "next")
        /\ UNCHANGED <<rows, stock, own, buffer>>
    BY <1>3 DEF NoRestock
  <2>3. QED
    BY <2>1, <2>2, QuietResolves
<1>4. QED
  BY <1>1, <1>2, <1>3

LEMMA BatchStepsResolve ==
  ASSUME NEW s \in Sessions, Resolving, BeginBatch(s) \/ NextCycle(s) \/ Restart(s)
  PROVE  Resolving'
<1>1. CASE BeginBatch(s)
  <2>1. Shape' /\ OthersKeep(s) /\ orders'[s] = {}
    BY <1>1 DEF BeginBatch, Goto, Resolving, Shape, OthersKeep
  <2>2. held' = held /\ Goto(s, "customer") /\ UNCHANGED <<rows, stock, own, buffer>>
    BY <1>1 DEF BeginBatch
  <2>3. QED
    BY <2>1, <2>2, QuietResolves
<1>2. CASE NextCycle(s)
  <2>1. Shape' /\ OthersKeep(s)
    BY <1>2 DEF NextCycle, Goto, Quiet, Resolving, Shape, OthersKeep
  <2>2. /\ held' = held /\ orders' = orders /\ Goto(s, "customer")
        /\ UNCHANGED <<rows, stock, own, buffer>>
    BY <1>2 DEF NextCycle
  <2>3. QED
    BY <2>1, <2>2, QuietResolves
<1>3. CASE Restart(s)
  <2>1. Shape' /\ OthersKeep(s)
    BY <1>3 DEF Restart, Goto, SameCycle, Quiet, Resolving, Shape, OthersKeep
  <2>2. /\ held' = held /\ orders' = orders /\ Goto(s, "idle")
        /\ UNCHANGED <<rows, stock, own, buffer>>
    BY <1>3 DEF Restart
  <2>3. QED
    BY <2>1, <2>2, QuietResolves
<1>4. QED
  BY <1>1, <1>2, <1>3

(* A commit of buffered rows alone.                                        *)
LEMMA CommitResolves ==
  ASSUME NEW s \in Sessions, NEW new, NEW label, Resolving, CommitWith(s, new),
         new \subseteq buffer[s], DOMAIN buffer' = Sessions, buffer'[s] \subseteq buffer[s],
         \A q \in Sessions \ {s} : buffer'[q] = buffer[q],
         Goto(s, label), UNCHANGED <<batch, cycle, orders, pick>>, label \in {"commit", "idle"}
  PROVE  Resolving'
<1>1. /\ DOMAIN stock' = Inventories /\ DOMAIN own' = Sessions /\ DOMAIN held' = Sessions
      /\ \A q \in Sessions : DOMAIN held'[q] = Inventories
      /\ \A q \in Sessions \ {s} : own'[q] = own[q] /\ held'[q] = held[q]
  BY CommitKeepsShape DEF Resolving
<1>2. Shape' /\ OthersKeep(s) /\ pc'[s] = label
  BY <1>1 DEF Goto, Resolving, Shape, OthersKeep
<1>3. Lands(s, {}, new) /\ \A i \in Inventories : held'[s][i] # Free => held[s][i] # Free
  BY CommitLands DEF Resolving
<1>4. \A r \in new : r.refs \subseteq Ids(Visible(s) \cup {}) /\ HasParents(r)
  <2>1. Visible(s) \cup {} = Visible(s)
    OBVIOUS
  <2>2. QED
    BY <2>1 DEF Resolving, SessionResolves, DataResolves
<1>5. QED
  BY <1>2, <1>3, <1>4, StepResolves

LEMMA LastStepsResolve ==
  ASSUME NEW s \in Sessions, Resolving, LastFlush(s) \/ EndBatch(s)
  PROVE  Resolving'
<1>1. CASE LastFlush(s)
  <2>1. CASE UNCHANGED <<rows, stock, own, held, buffer>>
    <3>1. Shape' /\ OthersKeep(s)
      BY <1>1, <2>1 DEF LastFlush, Goto, SameCycle, Quiet, Resolving, Shape, OthersKeep
    <3>2. QED
      BY <1>1, <2>1, <3>1, QuietResolves DEF LastFlush
  <2>2. CASE CommitWith(s, Landing(s, buffer[s])) /\ buffer' = [buffer EXCEPT ![s] = {}]
    <3>1. Landing(s, buffer[s]) \subseteq buffer[s]
      BY LandingIsOfBuffer
    <3>2. /\ DOMAIN buffer' = Sessions /\ buffer'[s] \subseteq buffer[s]
          /\ \A q \in Sessions \ {s} : buffer'[q] = buffer[q]
      BY <2>2 DEF Resolving, Shape
    <3>3. Goto(s, "commit") /\ UNCHANGED <<batch, cycle, orders, pick>>
      BY <1>1 DEF LastFlush, SameCycle, Quiet
    <3>4. QED
      BY <2>2, <3>1, <3>2, <3>3, CommitResolves
  <2>3. QED
    BY <1>1, <2>1, <2>2 DEF LastFlush
<1>2. CASE EndBatch(s)
  <2>1. /\ CommitWith(s, {}) /\ Goto(s, "idle") /\ UNCHANGED <<batch, cycle, orders, pick>>
        /\ buffer' = buffer
    BY <1>2 DEF EndBatch
  <2>2. QED
    BY <2>1, CommitResolves DEF Resolving, Shape
<1>3. QED
  BY <1>1, <1>2

LEMMA InitResolves ==
  ASSUME SimulatorInit
  PROVE  Resolving
<1> DEFINE seeds == {Row(Seed(t), {}) : t \in {"payment_methods", "carriers", "categories",
                                               "sellers", "warehouses"}}
           product == Row(Seed("products"), {Seed("sellers"), Seed("categories")})
           stocked(i) == InventoryRow(i, Seed("warehouses"), Seed("products"), InStock)
<1>1. Shape
  BY DEF SimulatorInit, Shape
<1>2. rows = seeds \cup {product} \cup {stocked(i) : i \in 1..settings.stocked}
  BY DEF SimulatorInit
<1>3. \A t \in {"payment_methods", "carriers", "categories", "sellers", "warehouses", "products"} :
        Seed(t) \in Ids(rows)
  <2>1. \A t \in {"payment_methods", "carriers", "categories", "sellers", "warehouses"} :
          Row(Seed(t), {}) \in rows /\ Row(Seed(t), {}).id = Seed(t)
    BY <1>2 DEF Row
  <2>2. product \in rows /\ product.id = Seed("products")
    BY <1>2 DEF Row
  <2>3. QED
    BY <2>1, <2>2 DEF Ids
<1>4. ASSUME NEW r \in rows
      PROVE  r.refs \subseteq Ids(rows) /\ HasParents(r)
  <2>1. CASE r \in seeds
    BY <2>1 DEF Row, Seed, Id, HasParents, Table
  <2>2. CASE r = product
    BY <1>3, <2>2 DEF Row, Seed, Id, HasParents, Table
  <2>3. ASSUME NEW i \in 1..settings.stocked, r = stocked(i)
        PROVE  r.refs \subseteq Ids(rows) /\ HasParents(r)
    <3>1. r.refs = {Seed("warehouses"), Seed("products")}
      BY <2>3, InventoryRows
    <3>2. Table(Seed("products")) = "products"
      BY DEF Seed, Id, Table
    <3>3. HasParents(r)
      BY <2>3, <3>2, InventoryRows
    <3>4. QED
      BY <1>3, <3>1, <3>3
  <2>4. QED
    BY <1>2, <2>1, <2>2, <2>3
<1>5. ASSUME NEW i \in Inventories, stock[i] # Absent
      PROVE  InventoryId(i) \in Ids(rows)
  <2>1. i \in 1..settings.stocked
    BY <1>5, SimulatorAssumption DEF SimulatorInit, Inventories
  <2>2. stocked(i) \in rows /\ stocked(i).id = InventoryId(i)
    BY <1>2, <2>1, InventoryRows
  <2>3. QED
    BY <2>2 DEF Ids
<1>6. RowsResolve
  BY <1>3, <1>4, <1>5 DEF RowsResolve, SeedsAsked
<1>7. \A s \in Sessions : SessionResolves(s)
  BY DEF SimulatorInit, SessionResolves, DataResolves, PoolResolves, PickResolves
<1>8. QED
  BY <1>1, <1>6, <1>7 DEF Resolving

LEMMA NextResolves ==
  ASSUME Resolving, [SimulatorNext]_simulatorVars
  PROVE  Resolving'
<1>1. CASE UNCHANGED simulatorVars
  BY <1>1 DEF simulatorVars, session, Resolving, Shape, RowsResolve, SessionResolves, DataResolves,
     PoolResolves, PickResolves, Visible, HasParents, SeedsAsked, Ids
<1>2. ASSUME NEW s \in Sessions, SimulatorStep(s)
      PROVE  Resolving'
  <2>1. CASE BeginBatch(s) \/ NextCycle(s) \/ Restart(s)
    BY <2>1, BatchStepsResolve
  <2>2. CASE Raises(s) \/ Killed(s) \/ Deadlocked(s)
    BY <2>2, RollBackResolves DEF Raises, Killed, Deadlocked
  <2>3. CASE CreateCustomer(s) \/ CreateCatalog(s)
    BY <2>3, CreateCustomerResolves, CatalogResolves
  <2>4. CASE Reserve(s) \/ Decrease(s) \/ ReserveAgain(s)
    BY <2>4, OrderStepsResolve
  <2>5. CASE InsertOrder(s) \/ InsertDetails(s)
    BY <2>5, InsertOrderResolves, InsertDetailsResolves
  <2>6. CASE CreatePayment(s) \/ CreateShipment(s) \/ CreateReview(s)
    BY <2>6, AfterOrderResolves
  <2>7. CASE ChooseRestock(s) \/ Increase(s) \/ NoRestock(s)
    BY <2>7, RestockResolves
  <2>8. CASE LastFlush(s) \/ EndBatch(s)
    BY <2>8, LastStepsResolve
  <2>9. QED
    BY <1>2, <2>1, <2>2, <2>3, <2>4, <2>5, <2>6, <2>7, <2>8 DEF SimulatorStep, Cycle
<1>3. QED
  BY <1>1, <1>2 DEF SimulatorNext

(* No flush, kill, roll back or other process ever leaves a row, committed,*)
(* inserted or buffered, that refers to a row its transaction cannot see.  *)
THEOREM RowsAlwaysResolve == SimulatorSpec => []ReferencesResolve
<1>1. SimulatorInit => Resolving
  BY InitResolves
<1>2. Resolving /\ [SimulatorNext]_simulatorVars => Resolving'
  BY NextResolves
<1>3. Resolving => ReferencesResolve
  BY DEF Resolving, RowsResolve, SessionResolves, DataResolves, ReferencesResolve
<1>4. QED
  BY <1>1, <1>2, <1>3, PTL DEF SimulatorSpec

-----------------------------------------------------------------------------
(* Torn orders.  In an open batch only the order of the cycle it is in can *)
(* have details that are neither written nor buffered, so a commit, which  *)
(* flushes the buffer, leaves that order at most without them.             *)

InBatch(s) == pc[s] \notin {"idle", "dead"}
BeforeOrder == {"customer", "catalog", "reserve", "decrease", "order"}
BatchOf(r) == r.id[2]
CycleOf(r) == r.id[3]

OrdersOf(s) == {r \in OfTable(Visible(s), "orders") : BatchOf(r) = batch[s]}
IsOrder(r) ==
  r.id = Id("orders", BatchOf(r), CycleOf(r)) /\ BatchOf(r) \in Nat /\ CycleOf(r) \in Nat

(* The details of an order that a transaction has written or buffered.     *)
Written(s) == Ids(Visible(s) \cup buffer[s])
Unfinished(s, n) == pc[s] = "details" /\ n = cycle[s]

Numbering ==
  /\ settings \in Settings /\ last \in Nat /\ finished \subseteq 1..last
  /\ \A s \in Sessions : batch[s] \in 0..last /\ cycle[s] \in Nat
  /\ \A s \in Sessions : InBatch(s) => batch[s] # 0 /\ batch[s] \notin finished
  /\ \A s, q \in Sessions : s # q /\ InBatch(s) /\ InBatch(q) => batch[s] # batch[q]
  /\ \A r \in OfTable(rows, "orders") : IsOrder(r) /\ BatchOf(r) \in 0..last

OwnRows(s) ==
  /\ ~InBatch(s) => own[s] = {}
  /\ \A r \in buffer[s] : Table(r.id) # "orders"
  /\ \A r \in OfTable(own[s], "orders") : IsOrder(r) /\ BatchOf(r) = batch[s]

OrdersAreWhole(s) ==
  /\ \A r \in OrdersOf(s) :
       /\ CycleOf(r) <= cycle[s] /\ (pc[s] \in BeforeOrder => CycleOf(r) < cycle[s])
       /\ ~Unfinished(s, CycleOf(r)) =>
            \A t \in Details : Id(t, batch[s], CycleOf(r)) \in Written(s)
  /\ \A r, q \in OrdersOf(s) : CycleOf(r) = CycleOf(q) => r = q
  /\ pc[s] = "details" => Id("order_items", batch[s], cycle[s]) \in Written(s)
  /\ pc[s] = "commit" => buffer[s] = {}

Ordering ==
  /\ Shape /\ Numbering /\ AtMostOneTornOrder
  /\ \A s \in Sessions : OwnRows(s) /\ (InBatch(s) => OrdersAreWhole(s))

-----------------------------------------------------------------------------
(* What a flush of s does to the rows of the details: it never drops one.  *)
LandsDetails(s, now, added) ==
  /\ Lands(s, now, added) /\ own'[s] \subseteq own[s] \cup added
  /\ \A r \in Visible(s) \cup buffer[s] \cup added :
       Table(r.id) \in Details => r \in Visible(s)' \cup buffer'[s]
  /\ rows' = rows \/ \A r \in Visible(s) \cup buffer[s] : Table(r.id) \in Details => r \in rows'

LEMMA DetailsLand ==
  ASSUME NEW s, NEW b, NEW r \in b, Table(r.id) \in Details
  PROVE  r \in Landing(s, b)
BY DEF Landing, Conflict, Details

LEMMA WritesFlush ==
  ASSUME NEW s \in Sessions, NEW now, NEW row, NEW more, Shape, Writes(s, now, row, more),
         \A r \in now : Table(r.id) \notin Details
  PROVE  /\ LandsDetails(s, now, now \cup {row} \cup more)
         /\ buffer'[s] \subseteq buffer[s] \cup {row} \cup more
<1> DEFINE b == buffer[s] \cup {row}
<1>1. Lands(s, now, now \cup {row} \cup more)
  BY WritesLand
<1>2. CASE /\ CommitWith(s, now \cup Landing(s, b))
           /\ buffer' = [buffer EXCEPT ![s] = more]
  <2>1. \A r \in b : Table(r.id) \in Details => r \in Landing(s, b)
    BY DetailsLand
  <2>2. /\ rows' = rows \cup own[s] \cup (now \cup Landing(s, b))
        /\ buffer'[s] = more /\ own'[s] = {}
    BY <1>2 DEF CommitWith, Shape
  <2>3. QED
    BY <1>1, <2>1, <2>2 DEF LandsDetails, Visible
<1>3. CASE /\ CommitWith(s, now \cup Landing(s, b \cup more))
           /\ buffer' = [buffer EXCEPT ![s] = {}]
  <2>1. \A r \in b \cup more : Table(r.id) \in Details => r \in Landing(s, b \cup more)
    BY DetailsLand
  <2>2. /\ rows' = rows \cup own[s] \cup (now \cup Landing(s, b \cup more))
        /\ buffer'[s] = {} /\ own'[s] = {}
    BY <1>3 DEF CommitWith, Shape
  <2>3. QED
    BY <1>1, <2>1, <2>2 DEF LandsDetails, Visible
<1>4. CASE /\ own' = [own EXCEPT ![s] = @ \cup now]
           /\ buffer' = [buffer EXCEPT ![s] = b \cup more]
           /\ UNCHANGED <<rows, stock, held>>
  <2>1. /\ rows' = rows /\ buffer'[s] = b \cup more /\ own'[s] = own[s] \cup now
        /\ Visible(s) \subseteq Visible(s)'
    BY <1>4 DEF Shape, Visible
  <2>2. QED
    BY <1>1, <2>1 DEF LandsDetails
<1>5. QED
  BY <1>2, <1>3, <1>4 DEF Writes

LEMMA QuietFlush ==
  ASSUME NEW s \in Sessions, UNCHANGED <<rows, stock, own, buffer>>
  PROVE  LandsDetails(s, {}, {})
<1>1. Visible(s)' = Visible(s) /\ rows' = rows
  BY DEF Visible
<1>2. QED
  BY <1>1, NothingLands DEF LandsDetails

-----------------------------------------------------------------------------
(* What another does while q has a batch open.                             *)
LEMMA OtherStaysWhole ==
  ASSUME NEW s \in Sessions, NEW q \in Sessions \ {s}, OthersKeep(s), rows \subseteq rows',
         \A r \in OfTable(rows', "orders") :
           r \in rows \/ (InBatch(s) /\ BatchOf(r) = batch[s]),
         Ordering
  PROVE  OwnRows(q)' /\ (InBatch(q)' => OrdersAreWhole(q)')
<1>1. /\ own'[q] = own[q] /\ buffer'[q] = buffer[q] /\ pc'[q] = pc[q]
      /\ batch'[q] = batch[q] /\ cycle'[q] = cycle[q]
  BY DEF OthersKeep
<1>2. OwnRows(q)'
  BY <1>1 DEF Ordering, OwnRows, InBatch, OfTable, IsOrder, BatchOf, CycleOf
<1>3. ASSUME InBatch(q)'
      PROVE  OrdersAreWhole(q)'
  <2>1. InBatch(q) /\ (InBatch(s) => batch[s] # batch[q])
    BY <1>1, <1>3 DEF Ordering, Numbering, InBatch
  <2>2. OrdersOf(q)' \subseteq OrdersOf(q)
    BY <1>1, <2>1 DEF OrdersOf, OfTable, Visible, BatchOf
  <2>3. Written(q) \subseteq Written(q)'
    BY <1>1 DEF Written, Ids, Visible
  <2>4. OrdersAreWhole(q)
    BY <2>1 DEF Ordering
  <2>5. \A n : Unfinished(q, n)' <=> Unfinished(q, n)
    BY <1>1 DEF Unfinished
  <2>6. QED
    BY <1>1, <2>2, <2>3, <2>4, <2>5 DEF OrdersAreWhole, CycleOf
<1>4. QED
  BY <1>2, <1>3

(* A torn order of another batch has been torn before.                     *)
LEMMA OtherWasTorn ==
  ASSUME NEW r \in Torn', rows \subseteq rows', r \in rows
  PROVE  r \in Torn
<1>1. Ids(rows) \subseteq Ids(rows)'
  BY DEF Ids
<1>2. QED
  BY <1>1 DEF Torn, OfTable

(* What the orders that a step of s adds may be: the order of its cycle.   *)
OnlyThisOrder(s, added) ==
  \A r \in added : Table(r.id) = "orders" =>
    /\ pc[s] = "order" /\ pc'[s] = "details" /\ r.id = Id("orders", batch[s], cycle[s])
    /\ \A q \in added : Table(q.id) = "orders" => q = r

LEMMA SessionStaysWhole ==
  ASSUME NEW s \in Sessions, NEW now, NEW added, Ordering, LandsDetails(s, now, added),
         OnlyThisOrder(s, added), InBatch(s), batch'[s] = batch[s], cycle'[s] = cycle[s],
         \A r \in buffer'[s] : Table(r.id) # "orders",
         pc[s] = "details" => pc'[s] # "details" /\
           {Id("order_status_history", batch[s], cycle[s]),
            Id("inventory_movements", batch[s], cycle[s])} \subseteq Ids(added),
         pc'[s] = "details" => Id("order_items", batch[s], cycle[s]) \in Ids(added),
         pc'[s] \in BeforeOrder => pc[s] \in BeforeOrder, pc'[s] = "commit" => buffer'[s] = {},
         InBatch(s)'
  PROVE  OwnRows(s)' /\ OrdersAreWhole(s)'
<1>1. OwnRows(s) /\ OrdersAreWhole(s) /\ batch[s] \in Nat /\ cycle[s] \in Nat
  BY DEF Ordering, Numbering
<1>2. \A r \in added : Table(r.id) = "orders" =>
        IsOrder(r) /\ BatchOf(r) = batch[s] /\ CycleOf(r) = cycle[s]
  BY <1>1 DEF OnlyThisOrder, IsOrder, BatchOf, CycleOf, Id
<1>3. rows' \cup own'[s] \cup buffer'[s] \subseteq rows \cup own[s] \cup buffer[s] \cup added
  BY DEF LandsDetails, Lands
<1>4. OrdersOf(s)' \subseteq OrdersOf(s) \cup {r \in added : Table(r.id) = "orders"}
  BY <1>1, <1>3 DEF OrdersOf, OfTable, Visible, OwnRows, BatchOf
<1>5. OwnRows(s)'
  <2>1. ASSUME NEW r \in own'[s], Table(r.id) = "orders"
        PROVE  IsOrder(r) /\ BatchOf(r) = batch[s]
    <3>1. r \in own[s] \/ r \in added
      BY <2>1 DEF LandsDetails
    <3>2. QED
      BY <1>1, <1>2, <2>1, <3>1 DEF OwnRows, OfTable
  <2>2. QED
    BY <2>1 DEF OwnRows, OfTable, IsOrder, BatchOf, CycleOf
<1>6. \A r \in OrdersOf(s)' :
        /\ CycleOf(r) <= cycle'[s] /\ (pc'[s] \in BeforeOrder => CycleOf(r) < cycle'[s])
  <2>1. ASSUME NEW r \in added, Table(r.id) = "orders"
        PROVE  CycleOf(r) <= cycle'[s] /\ pc'[s] \notin BeforeOrder
    BY <1>1, <1>2, <2>1 DEF OnlyThisOrder, BeforeOrder
  <2>2. QED
    BY <1>1, <1>4, <2>1 DEF OrdersAreWhole
<1>7. \A r, q \in OrdersOf(s)' : CycleOf(r) = CycleOf(q) => r = q
  <2>1. ASSUME NEW r \in added, Table(r.id) = "orders"
        PROVE  /\ CycleOf(r) = cycle[s] /\ \A q \in OrdersOf(s) : CycleOf(q) < cycle[s]
               /\ \A q \in added : Table(q.id) = "orders" => q = r
    BY <1>1, <1>2, <2>1 DEF OnlyThisOrder, OrdersAreWhole, BeforeOrder
  <2>2. \A q \in OrdersOf(s) : CycleOf(q) \in Nat
    BY <1>1 DEF OrdersOf, OfTable, Visible, OwnRows, Ordering, Numbering, IsOrder
  <2>3. QED
    BY <1>1, <1>4, <2>1, <2>2 DEF OrdersAreWhole
<1>8. \A t \in Details : \A b, n : Id(t, b, n) \in Written(s) \cup Ids(added) =>
        Id(t, b, n) \in Written(s)'
  <2>1. ASSUME NEW r \in Visible(s) \cup buffer[s] \cup added, Table(r.id) \in Details
        PROVE  r.id \in Written(s)'
    BY <2>1 DEF LandsDetails, Written, Ids
  <2>2. \A t, b, n : Table(Id(t, b, n)) = t
    BY TablesOfIds
  <2>3. QED
    BY <2>1, <2>2 DEF Written, Ids
<1>9. ASSUME NEW r \in OrdersOf(s)', ~Unfinished(s, CycleOf(r))', NEW t \in Details
      PROVE  Id(t, batch'[s], CycleOf(r)) \in Written(s)'
  <2>1. CASE r \in OrdersOf(s) /\ ~Unfinished(s, CycleOf(r))
    <3>1. Id(t, batch[s], CycleOf(r)) \in Written(s)
      BY <1>1, <2>1 DEF OrdersAreWhole
    <3>2. QED
      BY <1>8, <3>1
  <2>2. CASE r \in OrdersOf(s) /\ Unfinished(s, CycleOf(r))
    <3>1. pc[s] = "details" /\ CycleOf(r) = cycle[s]
      BY <2>2 DEF Unfinished
    <3>2. Id("order_items", batch[s], cycle[s]) \in Written(s)
      BY <1>1, <3>1 DEF OrdersAreWhole
    <3>3. Id(t, batch[s], cycle[s]) \in Written(s) \cup Ids(added)
      BY <3>1, <3>2 DEF Details
    <3>4. QED
      BY <1>8, <3>1, <3>3
  <2>3. CASE r \in added /\ Table(r.id) = "orders"
    BY <1>2, <1>9, <2>3 DEF Unfinished, OnlyThisOrder
  <2>4. QED
    BY <1>4, <2>1, <2>2, <2>3
<1>10. pc'[s] = "details" => Id("order_items", batch'[s], cycle'[s]) \in Written(s)'
  BY <1>8 DEF Details
<1>11. QED
  BY <1>5, <1>6, <1>7, <1>9, <1>10 DEF OrdersAreWhole

LEMMA StaysTornOnce ==
  ASSUME NEW s \in Sessions, NEW now, NEW added, Ordering, LandsDetails(s, now, added),
         OnlyThisOrder(s, added), InBatch(s), batch'[s] = batch[s], cycle'[s] = cycle[s],
         OwnRows(s)', OrdersAreWhole(s)', finished' = finished,
         \A r \in OfTable(rows', "orders") : r \in rows \/ BatchOf(r) = batch[s]
  PROVE  AtMostOneTornOrder'
<1>1. CASE rows' = rows
  <2>1. Torn' = Torn
    BY <1>1 DEF Torn, OfTable, Ids
  <2>2. QED
    BY <2>1 DEF Ordering, AtMostOneTornOrder
<1>2. CASE rows' # rows
  <2>1. ASSUME NEW r \in Torn', BatchOf(r) = batch[s]
        PROVE  r \in OrdersOf(s)' /\ CycleOf(r) = cycle[s]
    <3>1. r \in OrdersOf(s)'
      BY <2>1 DEF Torn, OrdersOf, OfTable, Visible
    <3>2. CASE r \in OrdersOf(s)
      <4>1. OrdersAreWhole(s)
        BY DEF Ordering
      <4>2. SUFFICES ASSUME CycleOf(r) # cycle[s] PROVE FALSE
        BY <3>1
      <4>3. \A t \in Details : Id(t, batch[s], CycleOf(r)) \in Written(s)
        BY <3>2, <4>1, <4>2 DEF OrdersAreWhole, Unfinished
      <4>4. \A q \in Visible(s) \cup buffer[s] : Table(q.id) \in Details => q.id \in Ids(rows)'
        BY <1>2 DEF LandsDetails, Ids
      <4>5. \A t, b, n : Table(Id(t, b, n)) = t
        BY TablesOfIds
      <4>6. \A t \in Details : Id(t, batch[s], CycleOf(r)) \in Ids(rows)'
        BY <4>3, <4>4, <4>5 DEF Written, Ids
      <4>7. QED
        BY <2>1, <4>6 DEF Torn, BatchOf, CycleOf
    <3>3. CASE r \notin OrdersOf(s)
      <4>1. Table(r.id) = "orders" /\ r \in rows'
        BY <2>1 DEF Torn, OfTable
      <4>2. r \in added
        BY <2>1, <3>3, <4>1 DEF LandsDetails, Lands, OrdersOf, OfTable, Visible, Ordering, OwnRows
      <4>3. QED
        BY <3>1, <4>1, <4>2 DEF OnlyThisOrder, CycleOf, Id
    <3>4. QED
      BY <3>2, <3>3
  <2>2. ASSUME NEW r \in Torn', BatchOf(r) # batch[s]
        PROVE  r \in Torn
    <3>1. r \in rows /\ rows \subseteq rows'
      BY <2>2 DEF Torn, OfTable, LandsDetails, Lands
    <3>2. QED
      BY <3>1, OtherWasTorn
  <2>3. \A r, q \in Torn' : BatchOf(r) = BatchOf(q) => r = q
    BY <2>1, <2>2 DEF Ordering, AtMostOneTornOrder, OrdersAreWhole, BatchOf
  <2>4. \A r \in Torn' : BatchOf(r) \notin finished
    BY <2>2 DEF Ordering, AtMostOneTornOrder, Numbering, BatchOf
  <2>5. QED
    BY <2>3, <2>4 DEF AtMostOneTornOrder, BatchOf
<1>3. QED
  BY <1>1, <1>2

(* A step of a batch, other than its beginning, its end and a new cycle.   *)
LEMMA StepStaysWhole ==
  ASSUME NEW s \in Sessions, NEW now, NEW added, Ordering, LandsDetails(s, now, added),
         OnlyThisOrder(s, added), InBatch(s), InBatch(s)', Shape', OthersKeep(s),
         UNCHANGED <<settings, last, finished, batch, cycle>>,
         \A r \in buffer'[s] : Table(r.id) # "orders",
         pc[s] = "details" => pc'[s] # "details" /\
           {Id("order_status_history", batch[s], cycle[s]),
            Id("inventory_movements", batch[s], cycle[s])} \subseteq Ids(added),
         pc'[s] = "details" => Id("order_items", batch[s], cycle[s]) \in Ids(added),
         pc'[s] \in BeforeOrder => pc[s] \in BeforeOrder, pc'[s] = "commit" => buffer'[s] = {}
  PROVE  Ordering'
<1>1. OwnRows(s)' /\ OrdersAreWhole(s)'
  BY SessionStaysWhole
<1>2. OwnRows(s) /\ OrdersAreWhole(s) /\ batch[s] \in 0..last /\ cycle[s] \in Nat /\ last \in Nat
  BY DEF Ordering, Numbering
<1>3. rows \subseteq rows' /\ rows' \subseteq rows \cup own[s] \cup buffer[s] \cup added
  BY DEF LandsDetails, Lands
<1>4. ASSUME NEW r \in OfTable(rows', "orders"), r \notin rows
      PROVE  IsOrder(r) /\ BatchOf(r) = batch[s]
  <2>1. r \in own[s] \/ r \in added
    BY <1>2, <1>3, <1>4 DEF OwnRows, OfTable
  <2>2. CASE r \in added
    BY <1>2, <1>4, <2>2 DEF OnlyThisOrder, IsOrder, BatchOf, CycleOf, Id, OfTable
  <2>3. QED
    BY <1>2, <1>4, <2>1, <2>2 DEF OwnRows, OfTable
<1>5. \A q \in Sessions \ {s} : OwnRows(q)' /\ (InBatch(q)' => OrdersAreWhole(q)')
  BY <1>3, <1>4, OtherStaysWhole
<1>6. AtMostOneTornOrder'
  BY <1>1, <1>4, StaysTornOnce
<1>7. Numbering'
  <2>1. \A q \in Sessions : InBatch(q)' <=> InBatch(q)
    BY DEF OthersKeep, InBatch
  <2>2. \A r \in OfTable(rows', "orders") : IsOrder(r) /\ BatchOf(r) \in 0..last
    BY <1>2, <1>4 DEF Ordering, Numbering, OfTable
  <2>3. QED
    BY <2>1, <2>2 DEF Ordering, Numbering, IsOrder, BatchOf, CycleOf
<1>8. QED
  BY <1>1, <1>5, <1>6, <1>7 DEF Ordering

(* The tables of the rows a batch writes.                                  *)
LEMMA TablesOfRows ==
  ASSUME NEW b, NEW n
  PROVE  /\ Table(CustomerRow(b, n).id) = "customers"
         /\ Table(AddressRow(b, n).id) = "customer_addresses"
         /\ Table(SellerRow(b, n).id) = "sellers" /\ Table(WarehouseRow(b, n).id) = "warehouses"
         /\ HistoryRow(b, n).id = Id("order_status_history", b, n)
         /\ Table(HistoryRow(b, n).id) = "order_status_history"
         /\ \A x : /\ ItemRow(b, n, x).id = Id("order_items", b, n)
                   /\ Table(ItemRow(b, n, x).id) = "order_items"
                   /\ MovementRow(b, n, x).id = Id("inventory_movements", b, n)
                   /\ Table(MovementRow(b, n, x).id) = "inventory_movements"
         /\ \A x, y : /\ Table(ProductRow(b, n, x, y).id) = "products"
                      /\ Table(PaymentRow(b, n, x, y).id) = "payments"
                      /\ Table(ShipmentRow(b, n, x, y).id) = "shipments"
                      /\ Table(RestockRow(b, n, x, y).id) = "restocks"
         /\ \A x, y, z : /\ Table(ReviewRow(b, n, x, y, z).id) = "reviews"
                         /\ OrderRow(b, n, x, y, z).id = Id("orders", b, n)
                         /\ Table(OrderRow(b, n, x, y, z).id) = "orders"
BY DEF CustomerRow, AddressRow, SellerRow, WarehouseRow, HistoryRow, ItemRow, MovementRow,
       ProductRow, PaymentRow, ShipmentRow, RestockRow, ReviewRow, OrderRow, Row, StockRow, Table,
       Id

(* A step that writes.                                                     *)
LEMMA WritesStayWhole ==
  ASSUME NEW s \in Sessions, NEW now, NEW row, NEW more, NEW label, Ordering,
         Writes(s, now, row, more), Goto(s, label), SameCycle, DOMAIN orders' = Sessions,
         DOMAIN pick' = Sessions,
         \A q \in Sessions \ {s} : orders'[q] = orders[q] /\ pick'[q] = pick[q],
         InBatch(s), label \in Labels \ {"idle", "dead", "commit"},
         \A r \in now : Table(r.id) \notin Details,
         \A r \in {row} \cup more : Table(r.id) # "orders",
         \A r \in now : Table(r.id) = "orders" =>
           /\ pc[s] = "order" /\ label = "details" /\ r.id = Id("orders", batch[s], cycle[s])
           /\ now = {r},
         pc[s] = "details" => label # "details" /\
           {Id("order_status_history", batch[s], cycle[s]),
            Id("inventory_movements", batch[s], cycle[s])} \subseteq Ids({row} \cup more),
         label = "details" => Id("order_items", batch[s], cycle[s]) \in Ids({row} \cup more),
         label \in BeforeOrder => pc[s] \in BeforeOrder
  PROVE  Ordering'
<1> DEFINE added == now \cup {row} \cup more
<1>1. LandsDetails(s, now, added) /\ buffer'[s] \subseteq buffer[s] \cup {row} \cup more
  BY WritesFlush DEF Ordering
<1>2. Shape' /\ OthersKeep(s) /\ pc'[s] = label
  BY WritesFrame DEF Ordering
<1>3. OnlyThisOrder(s, added)
  BY <1>2 DEF OnlyThisOrder
<1>4. \A r \in buffer'[s] : Table(r.id) # "orders"
  BY <1>1 DEF Ordering, OwnRows
<1>5. InBatch(s)' /\ UNCHANGED <<settings, last, finished, batch, cycle>>
  BY <1>2 DEF InBatch, Labels, SameCycle, Quiet
<1>6. Ids({row} \cup more) \subseteq Ids(added)
  BY DEF Ids
<1>7. QED
  BY <1>1, <1>2, <1>3, <1>4, <1>5, <1>6, StepStaysWhole

LEMMA WritingStepsStayWhole ==
  ASSUME NEW s \in Sessions, Ordering,
         \/ CreateCustomer(s) \/ InsertOrder(s) \/ InsertDetails(s)
         \/ CreatePayment(s) \/ CreateShipment(s) \/ CreateReview(s)
  PROVE  Ordering'
<1> DEFINE b == batch[s]
           n == cycle[s]
<1>1. CASE CreateCustomer(s)
  <2>1. /\ pc[s] = "customer" /\ Goto(s, "catalog") /\ SameCycle /\ orders' = orders /\ pick' = pick
        /\ Writes(s, {CustomerRow(b, n)}, AddressRow(b, n), {})
    BY <1>1 DEF CreateCustomer
  <2>2. /\ \A r \in {CustomerRow(b, n)} : Table(r.id) \notin Details \cup {"orders"}
        /\ \A r \in {AddressRow(b, n)} \cup {} : Table(r.id) # "orders"
    BY TablesOfRows DEF Details
  <2>3. /\ InBatch(s) /\ "catalog" \in Labels \ {"idle", "dead", "commit"} /\ pc[s] \in BeforeOrder
        /\ pc[s] # "details" /\ DOMAIN orders' = Sessions /\ DOMAIN pick' = Sessions
        /\ \A q \in Sessions \ {s} : orders'[q] = orders[q] /\ pick'[q] = pick[q]
    BY <2>1 DEF InBatch, Labels, BeforeOrder, Ordering, Shape
  <2> DEFINE now == {CustomerRow(b, n)}
             row == AddressRow(b, n)
             label == "catalog"
  <2>4. /\ Writes(s, now, row, {}) /\ Goto(s, label) /\ label # "details"
        /\ \A r \in now : Table(r.id) \notin Details /\ Table(r.id) # "orders"
        /\ \A r \in {row} \cup {} : Table(r.id) # "orders"
    BY <2>1, <2>2
  <2> HIDE DEF now, row
  <2>5. QED
    BY <2>1, <2>3, <2>4, WritesStayWhole
<1>2. CASE InsertOrder(s)
  <2>1. /\ pc[s] = "order" /\ Goto(s, "details") /\ SameCycle /\ orders' = orders /\ pick' = pick
        /\ \E c : Writes(s, {OrderRow(b, n, c, pick[s][1], pick[s][3])},
                         ItemRow(b, n, pick[s][2]), {})
    BY <1>2 DEF InsertOrder
  <2>2. PICK c :
          Writes(s, {OrderRow(b, n, c, pick[s][1], pick[s][3])}, ItemRow(b, n, pick[s][2]), {})
    BY <2>1
  <2> DEFINE order == OrderRow(b, n, c, pick[s][1], pick[s][3])
             item == ItemRow(b, n, pick[s][2])
  <2>3. /\ order.id = Id("orders", b, n) /\ Table(order.id) = "orders"
        /\ item.id = Id("order_items", b, n) /\ Table(item.id) = "order_items"
    BY TablesOfRows
  <2>4. Writes(s, {order}, item, {})
    BY <2>2
  <2> HIDE DEF order, item
  <2>5. Id("order_items", b, n) \in Ids({item} \cup {})
    BY <2>3 DEF Ids
  <2>6. QED
    BY <2>1, <2>3, <2>4, <2>5, WritesStayWhole
    DEF InBatch, Labels, BeforeOrder, Ordering, Shape, Details
<1>3. CASE InsertDetails(s)
  <2> DEFINE history == HistoryRow(b, n)
             movement == MovementRow(b, n, pick[s][1])
  <2>1. /\ pc[s] = "details" /\ Goto(s, "payment") /\ SameCycle
        /\ Writes(s, {}, history, {movement})
    BY <1>3 DEF InsertDetails
  <2>2. /\ DOMAIN orders' = Sessions /\ DOMAIN pick' = Sessions
        /\ \A q \in Sessions \ {s} : orders'[q] = orders[q] /\ pick'[q] = pick[q]
    BY <1>3 DEF InsertDetails, Ordering, Shape
  <2>3. /\ history.id = Id("order_status_history", b, n)
        /\ Table(history.id) = "order_status_history"
        /\ movement.id = Id("inventory_movements", b, n)
        /\ Table(movement.id) = "inventory_movements"
    BY TablesOfRows
  <2> HIDE DEF history, movement
  <2>4. {Id("order_status_history", b, n), Id("inventory_movements", b, n)}
          \subseteq Ids({history} \cup {movement})
    BY <2>3 DEF Ids
  <2>5. QED
    BY <2>1, <2>2, <2>3, <2>4, WritesStayWhole DEF InBatch, Labels, BeforeOrder
<1>4. ASSUME NEW row, NEW label, Writes(s, {}, row, {}), Goto(s, label), SameCycle,
             UNCHANGED <<orders, pick>>, pc[s] \in {"payment", "shipment", "review"},
             label \in {"shipment", "review", "restock"}, Table(row.id) # "orders"
      PROVE  Ordering'
  <2>1. /\ InBatch(s) /\ label \in Labels \ {"idle", "dead", "commit"} /\ label \notin BeforeOrder
        /\ pc[s] # "details" /\ label # "details"
        /\ DOMAIN orders' = Sessions /\ DOMAIN pick' = Sessions
        /\ \A q \in Sessions \ {s} : orders'[q] = orders[q] /\ pick'[q] = pick[q]
    BY <1>4 DEF InBatch, Labels, BeforeOrder, Ordering, Shape
  <2> DEFINE now == {}
  <2>2. /\ Writes(s, now, row, {}) /\ \A r \in now : FALSE
        /\ \A r \in {row} \cup {} : Table(r.id) # "orders"
    BY <1>4
  <2> HIDE DEF now
  <2>3. Goto(s, label) /\ SameCycle
    BY <1>4
  <2>4. QED
    BY <2>1, <2>2, <2>3, WritesStayWhole
<1>5. CASE CreatePayment(s)
  <2>1. PICK o \in orders[s] :
          Writes(s, {}, PaymentRow(b, n, o.order, Seed("payment_methods")), {})
    BY <1>5 DEF CreatePayment
  <2>2. Table(PaymentRow(b, n, o.order, Seed("payment_methods")).id) # "orders"
    BY TablesOfRows
  <2>3. QED
    BY <1>4, <1>5, <2>1, <2>2 DEF CreatePayment
<1>6. CASE CreateShipment(s)
  <2>1. PICK o \in orders[s] : Writes(s, {}, ShipmentRow(b, n, o.order, Seed("carriers")), {})
    BY <1>6 DEF CreateShipment
  <2>2. Table(ShipmentRow(b, n, o.order, Seed("carriers")).id) # "orders"
    BY TablesOfRows
  <2>3. QED
    BY <1>4, <1>6, <2>1, <2>2 DEF CreateShipment
<1>7. CASE CreateReview(s)
  <2>1. PICK o \in orders[s] :
          Writes(s, {}, ReviewRow(b, n, o.order, o.customer, o.product), {})
    BY <1>7 DEF CreateReview
  <2>2. Table(ReviewRow(b, n, o.order, o.customer, o.product).id) # "orders"
    BY TablesOfRows
  <2>3. QED
    BY <1>4, <1>7, <2>1, <2>2 DEF CreateReview
<1>8. QED
  BY <1>1, <1>2, <1>3, <1>5, <1>6, <1>7

(* A step that inserts, in its transaction, rows of the catalog or none.   *)
LEMMA InsertsStayWhole ==
  ASSUME NEW s \in Sessions, NEW now, Ordering, Shape', OthersKeep(s),
         own' = [own EXCEPT ![s] = @ \cup now], UNCHANGED <<rows, stock, buffer>>,
         UNCHANGED <<settings, last, finished, batch, cycle>>,
         \A r \in now : Table(r.id) # "orders", InBatch(s), pc[s] # "details",
         pc'[s] \in Labels \ {"idle", "dead", "commit", "details"},
         pc'[s] \in BeforeOrder => pc[s] \in BeforeOrder
  PROVE  Ordering'
<1>1. Lands(s, now, now)
  BY InsertLands DEF Ordering
<1>2. /\ own'[s] = own[s] \cup now /\ rows' = rows /\ buffer' = buffer
      /\ Visible(s)' = Visible(s) \cup now
  BY DEF Ordering, Shape, Visible
<1>3. LandsDetails(s, now, now)
  BY <1>1, <1>2 DEF LandsDetails
<1>4. \A r \in buffer'[s] : Table(r.id) # "orders"
  BY <1>2 DEF Ordering, OwnRows
<1>5. InBatch(s)' /\ OnlyThisOrder(s, now)
  BY DEF InBatch, OnlyThisOrder
<1>6. QED
  BY <1>3, <1>4, <1>5, StepStaysWhole

LEMMA QuietStepsStayWhole ==
  ASSUME NEW s \in Sessions, Ordering, Shape', OthersKeep(s),
         UNCHANGED <<rows, stock, own, buffer>>,
         UNCHANGED <<settings, last, finished, batch, cycle>>,
         InBatch(s), pc[s] # "details", pc'[s] \in Labels \ {"idle", "dead", "details"},
         pc'[s] \in BeforeOrder => pc[s] \in BeforeOrder, pc'[s] = "commit" => buffer[s] = {}
  PROVE  Ordering'
<1>1. LandsDetails(s, {}, {})
  BY QuietFlush
<1>2. \A r \in buffer'[s] : Table(r.id) # "orders"
  BY DEF Ordering, OwnRows
<1>3. InBatch(s)' /\ OnlyThisOrder(s, {})
  BY DEF InBatch, OnlyThisOrder
<1>4. QED
  BY <1>1, <1>2, <1>3, StepStaysWhole

LEMMA CatalogStaysWhole ==
  ASSUME NEW s \in Sessions, Ordering, CreateCatalog(s)
  PROVE  Ordering'
<1>1. PICK w \in CreateWarehouse(s) : CreateInventory(s, {CreateSeller(s), CreateProduct(s)} \cup w)
  BY DEF CreateCatalog
<1> DEFINE catalog == {CreateSeller(s), CreateProduct(s)} \cup w
<1>2. \A r \in catalog : Table(r.id) # "orders"
  <2>1. Table(CreateSeller(s).id) = "sellers"
    BY TablesOfRows DEF CreateSeller
  <2>2. Table(CreateProduct(s).id) = "products"
    BY DEF CreateProduct, ProductRow, Row, Table, Id
  <2>3. \A r \in w : Table(r.id) = "warehouses"
    BY TablesOfRows DEF CreateWarehouse
  <2>4. \A r \in catalog : r = CreateSeller(s) \/ r = CreateProduct(s) \/ r \in w
    OBVIOUS
  <2>5. QED
    BY <2>1, <2>2, <2>3, <2>4
<1>3. /\ Shape' /\ pc'[s] = "reserve" /\ pc[s] = "catalog" /\ OthersKeep(s)
      /\ UNCHANGED <<rows, stock, buffer>> /\ UNCHANGED <<settings, last, finished, batch, cycle>>
  BY <1>1 DEF CreateCatalog, CreateInventory, Goto, SameCycle, Quiet, Ordering, Shape, OthersKeep
<1>4. \A i, x, y, q : Table(InventoryRow(i, x, y, q).id) = "inventories"
  BY DEF InventoryRow, StockRow, InventoryId, Table, Id
<1>5. \E now : /\ own' = [own EXCEPT ![s] = @ \cup now]
               /\ \A r \in now : Table(r.id) # "orders"
  <2>1. CASE own' = [own EXCEPT ![s] = @ \cup catalog]
    BY <1>2, <2>1
  <2>2. ASSUME NEW i, NEW x, NEW y, NEW q,
               own' = [own EXCEPT ![s] = @ \cup catalog \cup {InventoryRow(i, x, y, q)}]
        PROVE  \E now : /\ own' = [own EXCEPT ![s] = @ \cup now]
                        /\ \A r \in now : Table(r.id) # "orders"
    <3> DEFINE row == InventoryRow(i, x, y, q)
    <3>1. own[s] \cup catalog \cup {row} = own[s] \cup (catalog \cup {row})
      OBVIOUS
    <3>2. own' = [own EXCEPT ![s] = @ \cup (catalog \cup {row})]
      BY <2>2, <3>1
    <3>3. \A r \in catalog \cup {row} : Table(r.id) # "orders"
      BY <1>2, <1>4
    <3>4. QED
      BY <3>2, <3>3
  <2>3. \/ own' = [own EXCEPT ![s] = @ \cup catalog]
        \/ \E i, x, y, q : own' = [own EXCEPT ![s] = @ \cup catalog \cup {InventoryRow(i, x, y, q)}]
    <3>1. PICK home, p :
                   \/ own' = [own EXCEPT ![s] = @ \cup catalog]
                   \/ \E q \in Levels :
                        own' = [own EXCEPT ![s] = @ \cup catalog
                                  \cup {InventoryRow(NewInventory(s), home, p, q)}]
      BY <1>1 DEF CreateInventory
    <3>2. QED
      BY <3>1
  <2>4. QED
    BY <2>1, <2>2, <2>3
<1>6. QED
  BY <1>3, <1>5, InsertsStayWhole DEF InBatch, Labels, BeforeOrder

LEMMA OtherStepsStayWhole ==
  ASSUME NEW s \in Sessions, Ordering,
         \/ Reserve(s) \/ Decrease(s) \/ ReserveAgain(s)
         \/ ChooseRestock(s) \/ Increase(s) \/ NoRestock(s)
  PROVE  Ordering'
<1>1. CASE Reserve(s)
  <2>1. Shape' /\ OthersKeep(s) /\ pc'[s] = "decrease" /\ pc[s] = "reserve"
    BY <1>1 DEF Reserve, Goto, SameCycle, Quiet, Ordering, Shape, OthersKeep
  <2>2. QED
    BY <1>1, <2>1, QuietStepsStayWhole DEF Reserve, SameCycle, Quiet, InBatch, Labels, BeforeOrder
<1>2. CASE Decrease(s)
  <2>1. Shape' /\ OthersKeep(s) /\ pc'[s] = "order" /\ pc[s] = "decrease"
    BY <1>2 DEF Decrease, Reaches, Goto, SameCycle, Quiet, Ordering, Shape, OthersKeep
  <2>2. QED
    BY <1>2, <2>1, QuietStepsStayWhole DEF Decrease, SameCycle, Quiet, InBatch, Labels, BeforeOrder
<1>3. CASE ReserveAgain(s)
  <2>1. Shape' /\ OthersKeep(s) /\ pc'[s] = "reserve" /\ pc[s] = "decrease"
    BY <1>3 DEF ReserveAgain, Reaches, Goto, SameCycle, Quiet, Ordering, Shape, OthersKeep
  <2>2. QED
    BY <1>3, <2>1, QuietStepsStayWhole
    DEF ReserveAgain, SameCycle, Quiet, InBatch, Labels, BeforeOrder
<1>4. CASE ChooseRestock(s)
  <2>1. Shape' /\ OthersKeep(s) /\ pc'[s] = "increase" /\ pc[s] = "restock"
    BY <1>4 DEF ChooseRestock, Goto, SameCycle, Quiet, Ordering, Shape, OthersKeep
  <2>2. QED
    BY <1>4, <2>1, QuietStepsStayWhole
    DEF ChooseRestock, SameCycle, Quiet, InBatch, Labels, BeforeOrder
<1>5. CASE Increase(s)
  <2> DEFINE now == {RestockRow(batch[s], cycle[s], pick[s][1], pick[s][3])}
  <2>1. Shape' /\ OthersKeep(s) /\ pc'[s] = "next" /\ pc[s] = "increase"
    BY <1>5 DEF Increase, Goto, SameCycle, Quiet, Ordering, Shape, OthersKeep
  <2>2. \A r \in now : Table(r.id) # "orders"
    BY DEF RestockRow, StockRow, Table, Id
  <2>3. /\ own' = [own EXCEPT ![s] = @ \cup now] /\ UNCHANGED <<rows, stock, buffer>>
        /\ UNCHANGED <<settings, last, finished, batch, cycle>>
    BY <1>5 DEF Increase, SameCycle, Quiet
  <2> HIDE DEF now
  <2>4. QED
    BY <2>1, <2>2, <2>3, InsertsStayWhole DEF InBatch, Labels, BeforeOrder
<1>6. CASE NoRestock(s)
  <2>1. Shape' /\ OthersKeep(s) /\ pc'[s] = "next" /\ pc[s] = "restock"
    BY <1>6 DEF NoRestock, Goto, SameCycle, Quiet, Ordering, Shape, OthersKeep
  <2>2. QED
    BY <1>6, <2>1, QuietStepsStayWhole DEF NoRestock, SameCycle, Quiet, InBatch, Labels, BeforeOrder
<1>7. QED
  BY <1>1, <1>2, <1>3, <1>4, <1>5, <1>6

LEMMA LastFlushStaysWhole ==
  ASSUME NEW s \in Sessions, Ordering, LastFlush(s)
  PROVE  Ordering'
<1>1. /\ pc[s] = "next" /\ Goto(s, "commit") /\ UNCHANGED <<orders, pick>>
      /\ UNCHANGED <<settings, last, finished, batch, cycle>>
  BY DEF LastFlush, SameCycle, Quiet
<1>2. CASE buffer[s] = {} /\ UNCHANGED <<rows, stock, own, held, buffer>>
  <2>1. Shape' /\ OthersKeep(s) /\ pc'[s] = "commit"
    BY <1>1, <1>2 DEF Goto, Ordering, Shape, OthersKeep
  <2>2. QED
    BY <1>1, <1>2, <2>1, QuietStepsStayWhole DEF InBatch, Labels, BeforeOrder
<1>3. CASE CommitWith(s, Landing(s, buffer[s])) /\ buffer' = [buffer EXCEPT ![s] = {}]
  <2> DEFINE new == Landing(s, buffer[s])
  <2>1. new \subseteq buffer[s]
    BY LandingIsOfBuffer
  <2>2. /\ DOMAIN stock' = Inventories /\ DOMAIN own' = Sessions /\ DOMAIN held' = Sessions
        /\ \A q \in Sessions : DOMAIN held'[q] = Inventories
        /\ \A q \in Sessions \ {s} : own'[q] = own[q] /\ held'[q] = held[q]
        /\ own'[s] = {}
    BY <1>3, CommitKeepsShape DEF Ordering
  <2>3. buffer'[s] = {} /\ rows' = rows \cup own[s] \cup new
    BY <1>3 DEF CommitWith, Ordering, Shape
  <2>4. Shape' /\ OthersKeep(s) /\ pc'[s] = "commit"
    BY <1>1, <1>3, <2>2 DEF Goto, Ordering, Shape, OthersKeep
  <2>5. Lands(s, {}, new)
    BY <1>3, <2>3, CommitLands DEF Ordering
  <2>6. \A r \in buffer[s] : Table(r.id) \in Details => r \in new
    BY DetailsLand
  <2>7. LandsDetails(s, {}, new)
    BY <2>1, <2>2, <2>3, <2>5, <2>6 DEF LandsDetails, Visible
  <2>8. OnlyThisOrder(s, new)
    BY <2>1 DEF OnlyThisOrder, Ordering, OwnRows
  <2>9. InBatch(s) /\ InBatch(s)' /\ pc[s] # "details" /\ pc'[s] \notin BeforeOrder
    BY <1>1, <2>4 DEF InBatch, BeforeOrder
  <2> HIDE DEF new
  <2>10. QED
    BY <1>1, <2>3, <2>4, <2>7, <2>8, <2>9, StepStaysWhole
<1>4. QED
  BY <1>2, <1>3 DEF LastFlush

LEMMA EndBatchStaysWhole ==
  ASSUME NEW s \in Sessions, Ordering, EndBatch(s)
  PROVE  Ordering'
<1>1. /\ pc[s] = "commit" /\ InBatch(s) /\ CommitWith(s, {}) /\ Goto(s, "idle")
      /\ finished' = finished \cup {batch[s]}
      /\ UNCHANGED <<settings, batch, cycle, buffer, orders, pick, last>>
  BY DEF EndBatch, InBatch
<1>2. /\ DOMAIN stock' = Inventories /\ DOMAIN own' = Sessions /\ DOMAIN held' = Sessions
      /\ \A q \in Sessions : DOMAIN held'[q] = Inventories
      /\ \A q \in Sessions \ {s} : own'[q] = own[q] /\ held'[q] = held[q]
      /\ own'[s] = {}
  BY <1>1, CommitKeepsShape DEF Ordering
<1>3. Shape' /\ OthersKeep(s) /\ pc'[s] = "idle"
  BY <1>1, <1>2 DEF Goto, Ordering, Shape, OthersKeep
<1>4. rows' = rows \cup own[s]
  BY <1>1 DEF CommitWith
<1>5. OwnRows(s) /\ OrdersAreWhole(s) /\ buffer[s] = {}
  BY <1>1 DEF Ordering, OrdersAreWhole
<1>6. OwnRows(s)' /\ ~InBatch(s)'
  BY <1>2, <1>3, <1>1, <1>5 DEF OwnRows, InBatch, OfTable
<1>7. \A r \in OfTable(rows', "orders") : r \in rows \/ (IsOrder(r) /\ BatchOf(r) = batch[s])
  BY <1>4, <1>5 DEF OwnRows, OfTable
<1>8. \A q \in Sessions \ {s} : OwnRows(q)' /\ (InBatch(q)' => OrdersAreWhole(q)')
  BY <1>1, <1>3, <1>4, <1>7, OtherStaysWhole
<1>9. ASSUME NEW r \in Torn'
      PROVE  r \in Torn /\ BatchOf(r) # batch[s]
  <2>1. r \in OfTable(rows', "orders")
    BY DEF Torn
  <2>2. BatchOf(r) # batch[s]
    <3>1. SUFFICES ASSUME BatchOf(r) = batch[s] PROVE FALSE
      OBVIOUS
    <3>2. r \in OrdersOf(s)
      BY <1>4, <2>1, <3>1 DEF OrdersOf, OfTable, Visible
    <3>3. \A t \in Details : Id(t, batch[s], CycleOf(r)) \in Written(s)
      BY <1>1, <1>5, <3>2 DEF OrdersAreWhole, Unfinished
    <3>4. Written(s) = Ids(rows)'
      BY <1>4, <1>5 DEF Written, Visible, Ids
    <3>5. QED
      BY <3>1, <3>3, <3>4 DEF Torn, BatchOf, CycleOf
  <2>3. QED
    BY <1>4, <1>7, <2>1, <2>2, OtherWasTorn
<1>10. AtMostOneTornOrder'
  BY <1>1, <1>9 DEF Ordering, AtMostOneTornOrder, BatchOf
<1>11. Numbering'
  <2>1. \A q \in Sessions : InBatch(q)' => q # s /\ InBatch(q)
    BY <1>3 DEF OthersKeep, InBatch
  <2>2. batch[s] \in 0..last /\ last \in Nat
    BY DEF Ordering, Numbering
  <2>3. \A r \in OfTable(rows', "orders") : IsOrder(r) /\ BatchOf(r) \in 0..last
    BY <1>7, <2>2 DEF Ordering, Numbering, OfTable
  <2>4. batch[s] # 0
    BY <1>1 DEF Ordering, Numbering
  <2>5. \A q \in Sessions \ {s} : InBatch(q) => batch[q] # batch[s]
    BY <1>1 DEF Ordering, Numbering
  <2>6. finished' \subseteq 1..last
    <3>1. batch[s] \in 1..last
      BY <2>2, <2>4
    <3>2. finished \subseteq 1..last
      BY DEF Ordering, Numbering
    <3>3. QED
      BY <1>1, <3>1, <3>2
  <2>7. \A q \in Sessions : InBatch(q)' => batch[q] # 0 /\ batch[q] \notin finished'
    BY <1>1, <2>1, <2>5 DEF Ordering, Numbering
  <2>8. \A q, p \in Sessions : q # p /\ InBatch(q)' /\ InBatch(p)' => batch[q] # batch[p]
    BY <2>1 DEF Ordering, Numbering
  <2>9. \A r \in OfTable(rows, "orders")' : IsOrder(r)' /\ BatchOf(r)' \in 0..last
    BY <2>3 DEF OfTable, IsOrder, BatchOf, CycleOf
  <2>10. QED
    BY <1>1, <2>6, <2>7, <2>8, <2>9 DEF Ordering, Numbering
<1>12. QED
  BY <1>3, <1>6, <1>8, <1>10, <1>11 DEF Ordering

LEMMA RollBackStaysWhole ==
  ASSUME NEW s \in Sessions, Ordering, RollBack(s)
  PROVE  Ordering'
<1>1. /\ own'[s] = {} /\ buffer'[s] = {} /\ pc'[s] = "dead" /\ rows' = rows
      /\ UNCHANGED <<settings, batch, cycle, last, finished>>
  BY DEF RollBack, Goto, Ordering, Shape
<1>2. Shape' /\ OthersKeep(s)
  BY DEF RollBack, Goto, Ordering, Shape, OthersKeep, NoneHeld
<1>3. OwnRows(s)' /\ ~InBatch(s)'
  BY <1>1 DEF OwnRows, InBatch, OfTable
<1>4. \A r \in OfTable(rows', "orders") : r \in rows
  BY <1>1 DEF OfTable
<1>5. \A q \in Sessions \ {s} : OwnRows(q)' /\ (InBatch(q)' => OrdersAreWhole(q)')
  BY <1>1, <1>2, <1>4, OtherStaysWhole
<1>6. \A q \in Sessions : InBatch(q)' => q # s /\ InBatch(q)
  BY <1>2, <1>3 DEF OthersKeep, InBatch
<1>7. Numbering'
  <2>1. Numbering
    BY DEF Ordering
  <2>2. QED
    BY <1>1, <1>6, <2>1 DEF Numbering, OfTable, IsOrder, BatchOf, CycleOf
<1>8. AtMostOneTornOrder'
  BY <1>1 DEF Ordering, AtMostOneTornOrder, Torn, OfTable, Ids
<1>9. QED
  BY <1>2, <1>3, <1>5, <1>7, <1>8 DEF Ordering

LEMMA RestartStaysWhole ==
  ASSUME NEW s \in Sessions, Ordering, Restart(s)
  PROVE  Ordering'
<1>1. /\ pc[s] = "dead" /\ UNCHANGED <<rows, own, buffer>>
      /\ UNCHANGED <<settings, batch, cycle, last, finished>>
  BY DEF Restart, SameCycle, Quiet
<1>2. Shape' /\ OthersKeep(s) /\ pc'[s] = "idle"
  BY DEF Restart, Goto, SameCycle, Quiet, Ordering, Shape, OthersKeep
<1>3. OwnRows(s)' /\ ~InBatch(s)'
  <2>1. OwnRows(s) /\ own[s] = {}
    BY <1>1 DEF Ordering, OwnRows, InBatch
  <2>2. QED
    BY <1>1, <1>2, <2>1 DEF OwnRows, InBatch, OfTable
<1>4. \A r \in OfTable(rows', "orders") : r \in rows
  BY <1>1 DEF OfTable
<1>5. \A q \in Sessions \ {s} : OwnRows(q)' /\ (InBatch(q)' => OrdersAreWhole(q)')
  BY <1>1, <1>2, <1>4, OtherStaysWhole
<1>6. \A q \in Sessions : InBatch(q)' => q # s /\ InBatch(q)
  BY <1>2, <1>3 DEF OthersKeep, InBatch
<1>7. Numbering'
  <2>1. Numbering
    BY DEF Ordering
  <2>2. QED
    BY <1>1, <1>6, <2>1 DEF Numbering, OfTable, IsOrder, BatchOf, CycleOf
<1>8. AtMostOneTornOrder'
  BY <1>1 DEF Ordering, AtMostOneTornOrder, Torn, OfTable, Ids
<1>9. QED
  BY <1>2, <1>3, <1>5, <1>7, <1>8 DEF Ordering

LEMMA BeginBatchStaysWhole ==
  ASSUME NEW s \in Sessions, Ordering, BeginBatch(s)
  PROVE  Ordering'
<1>1. /\ pc[s] = "idle" /\ UNCHANGED <<rows, own, buffer, settings, finished>>
      /\ last' = last + settings.size
  BY DEF BeginBatch
<1>2. /\ Shape' /\ OthersKeep(s) /\ pc'[s] = "customer"
      /\ batch'[s] = last + 1 /\ cycle'[s] = last + 1
  BY DEF BeginBatch, Goto, Ordering, Shape, OthersKeep
<1>3. last \in Nat /\ last' \in Nat /\ last + 1 \in 1..last' /\ last < last'
  <2>1. last \in Nat /\ settings.size \in Nat \ {0}
    BY SimulatorAssumption DEF Ordering, Numbering
  <2>2. QED
    BY <1>1, <2>1
<1>4. OwnRows(s) /\ own[s] = {}
  BY <1>1 DEF Ordering, OwnRows, InBatch
<1>5. OwnRows(s)'
  BY <1>1, <1>4 DEF OwnRows, OfTable
<1>6. \A r \in OfTable(rows', "orders") : r \in rows
  BY <1>1 DEF OfTable
<1>7. \A q \in Sessions \ {s} : OwnRows(q)' /\ (InBatch(q)' => OrdersAreWhole(q)')
  BY <1>1, <1>2, <1>6, OtherStaysWhole
<1>8. OrdersAreWhole(s)'
  <2>1. OrdersOf(s)' = {}
    <3>1. ASSUME NEW r \in OrdersOf(s)'
          PROVE  FALSE
      <4>1. r \in OfTable(rows, "orders") /\ BatchOf(r) = last + 1
        BY <1>1, <1>2, <1>4 DEF OrdersOf, OfTable, Visible, BatchOf
      <4>2. BatchOf(r) \in 0..last
        BY <4>1 DEF Ordering, Numbering
      <4>3. QED
        BY <1>3, <4>1, <4>2
    <3>2. QED
      BY <3>1
  <2>2. QED
    BY <1>2, <2>1 DEF OrdersAreWhole
<1>9. Numbering'
  <2>1. Numbering
    BY DEF Ordering
  <2>2. \A q \in Sessions \ {s} :
          batch'[q] = batch[q] /\ cycle'[q] = cycle[q] /\ (InBatch(q)' <=> InBatch(q))
    BY <1>2 DEF OthersKeep, InBatch
  <2>3. \A q \in Sessions \ {s} : batch[q] \in 0..last' /\ batch[q] # last + 1
    BY <1>3, <2>1 DEF Numbering
  <2>4. finished \subseteq 1..last' /\ last + 1 \notin finished
    BY <1>3, <2>1 DEF Numbering
  <2>5. \A r \in OfTable(rows, "orders") : BatchOf(r) \in 0..last'
    BY <1>3, <2>1 DEF Numbering
  <2>6. \A q \in Sessions : batch'[q] \in 0..last' /\ cycle'[q] \in Nat
    BY <1>2, <1>3, <2>1, <2>2, <2>3 DEF Numbering
  <2>7. \A q \in Sessions : InBatch(q)' => batch'[q] # 0 /\ batch'[q] \notin finished
    BY <1>2, <1>3, <2>1, <2>2, <2>4 DEF Numbering
  <2>8. \A q, p \in Sessions : q # p /\ InBatch(q)' /\ InBatch(p)' => batch'[q] # batch'[p]
    BY <1>2, <2>1, <2>2, <2>3 DEF Numbering
  <2>9. \A r \in OfTable(rows, "orders")' : IsOrder(r)' /\ BatchOf(r)' \in 0..last'
    BY <1>1, <2>1, <2>5 DEF Numbering, OfTable, IsOrder, BatchOf, CycleOf
  <2>10. QED
    BY <1>1, <1>3, <2>1, <2>4, <2>6, <2>7, <2>8, <2>9 DEF Numbering
<1>10. AtMostOneTornOrder'
  BY <1>1 DEF Ordering, AtMostOneTornOrder, Torn, OfTable, Ids
<1>11. QED
  BY <1>2, <1>5, <1>7, <1>8, <1>9, <1>10 DEF Ordering

LEMMA NextCycleStaysWhole ==
  ASSUME NEW s \in Sessions, Ordering, NextCycle(s)
  PROVE  Ordering'
<1>1. /\ pc[s] = "next" /\ UNCHANGED <<rows, own, buffer, settings, finished, last, batch>>
  BY DEF NextCycle, Quiet
<1>2. /\ Shape' /\ OthersKeep(s) /\ pc'[s] = "customer" /\ cycle'[s] = cycle[s] + 1
  BY DEF NextCycle, Quiet, Goto, Ordering, Shape, OthersKeep
<1>3. OwnRows(s) /\ OrdersAreWhole(s) /\ cycle[s] \in Nat /\ cycle'[s] \in Nat
  BY <1>1, <1>2 DEF Ordering, Numbering, InBatch
<1>4. OwnRows(s)'
  BY <1>1, <1>2, <1>3 DEF OwnRows, OfTable, InBatch, IsOrder, BatchOf, CycleOf
<1>5. \A r \in OfTable(rows', "orders") : r \in rows
  BY <1>1 DEF OfTable
<1>6. \A q \in Sessions \ {s} : OwnRows(q)' /\ (InBatch(q)' => OrdersAreWhole(q)')
  BY <1>1, <1>2, <1>5, OtherStaysWhole
<1>7. OrdersAreWhole(s)'
  <2>1. OrdersOf(s)' = OrdersOf(s) /\ Written(s)' = Written(s)
    BY <1>1 DEF OrdersOf, OfTable, Visible, Written, Ids, BatchOf
  <2>2. \A r \in OrdersOf(s) : CycleOf(r) \in Nat
    BY <1>3 DEF OrdersOf, OfTable, Visible, OwnRows, Ordering, Numbering, IsOrder
  <2>3. \A r \in OrdersOf(s) : CycleOf(r) <= cycle'[s] /\ CycleOf(r) < cycle'[s]
    BY <1>2, <1>3, <2>2 DEF OrdersAreWhole
  <2>4. \A r \in OrdersOf(s), t \in Details : Id(t, batch[s], CycleOf(r)) \in Written(s)
    BY <1>1, <1>3 DEF OrdersAreWhole, Unfinished
  <2>5. QED
    BY <1>1, <1>2, <1>3, <2>1, <2>3, <2>4 DEF OrdersAreWhole, CycleOf
<1>8. Numbering'
  <2>1. Numbering
    BY DEF Ordering
  <2>2. \A q \in Sessions : (InBatch(q)' <=> InBatch(q)) /\ cycle'[q] \in Nat
    BY <1>1, <1>2, <1>3, <2>1 DEF OthersKeep, InBatch, Numbering
  <2>3. QED
    BY <1>1, <2>1, <2>2 DEF Numbering, OfTable, IsOrder, BatchOf, CycleOf
<1>9. AtMostOneTornOrder'
  BY <1>1 DEF Ordering, AtMostOneTornOrder, Torn, OfTable, Ids
<1>10. QED
  BY <1>2, <1>4, <1>6, <1>7, <1>8, <1>9 DEF Ordering

LEMMA InitIsWhole ==
  ASSUME SimulatorInit
  PROVE  Ordering
<1>1. Shape
  BY DEF SimulatorInit, Shape
<1>2. OfTable(rows, "orders") = {}
  <2>1. \A i \in 1..settings.stocked :
          Table(InventoryRow(i, Seed("warehouses"), Seed("products"), InStock).id) = "inventories"
    BY DEF InventoryRow, StockRow, InventoryId, Table, Id
  <2>2. \A t \in {"payment_methods", "carriers", "categories", "sellers", "warehouses"} :
          Table(Row(Seed(t), {}).id) = t
    BY DEF Row, Seed, Table, Id
  <2>3. Table(Row(Seed("products"), {Seed("sellers"), Seed("categories")}).id) = "products"
    BY DEF Row, Seed, Table, Id
  <2>4. ASSUME NEW r \in rows
        PROVE  Table(r.id) # "orders"
    BY <2>1, <2>2, <2>3 DEF SimulatorInit
  <2>5. QED
    BY <2>4 DEF OfTable
<1>3. \A s \in Sessions : ~InBatch(s)
  BY DEF SimulatorInit, InBatch
<1>4. \A s \in Sessions : OwnRows(s)
  BY DEF SimulatorInit, OwnRows, OfTable
<1>5. Numbering
  <2>1. /\ settings \in Settings /\ last = 0 /\ finished = {}
        /\ \A s \in Sessions : batch[s] = 0 /\ cycle[s] = 0
    BY DEF SimulatorInit
  <2>2. QED
    BY <1>2, <1>3, <2>1 DEF Numbering
<1>6. AtMostOneTornOrder
  BY <1>2 DEF AtMostOneTornOrder, Torn
<1>7. QED
  BY <1>1, <1>3, <1>4, <1>5, <1>6 DEF Ordering

LEMMA NextStaysWhole ==
  ASSUME Ordering, [SimulatorNext]_simulatorVars
  PROVE  Ordering'
<1>1. CASE UNCHANGED simulatorVars
  <2>1. UNCHANGED <<settings, rows, stock, pc, batch, cycle, own, held, buffer, orders, pick, last,
                    finished>>
    BY <1>1 DEF simulatorVars, session
  <2>2. Shape' /\ Numbering' /\ AtMostOneTornOrder'
    BY <2>1 DEF Ordering, Shape, Numbering, AtMostOneTornOrder, Torn, OfTable, Ids, InBatch,
       IsOrder, BatchOf, CycleOf
  <2>3. \A s \in Sessions : OwnRows(s)' /\ (InBatch(s)' => OrdersAreWhole(s)')
    BY <2>1 DEF Ordering, OwnRows, OrdersAreWhole, OrdersOf, Visible, Written, Unfinished, OfTable,
       Ids, InBatch, IsOrder, BatchOf, CycleOf
  <2>4. QED
    BY <2>2, <2>3 DEF Ordering
<1>2. ASSUME NEW s \in Sessions, SimulatorStep(s)
      PROVE  Ordering'
  <2>1. CASE BeginBatch(s) \/ NextCycle(s) \/ Restart(s)
    BY <2>1, BeginBatchStaysWhole, NextCycleStaysWhole, RestartStaysWhole
  <2>2. CASE Raises(s) \/ Killed(s) \/ Deadlocked(s)
    BY <2>2, RollBackStaysWhole DEF Raises, Killed, Deadlocked
  <2>3. CASE \/ CreateCustomer(s) \/ InsertOrder(s) \/ InsertDetails(s)
             \/ CreatePayment(s) \/ CreateShipment(s) \/ CreateReview(s)
    BY <2>3, WritingStepsStayWhole
  <2>4. CASE CreateCatalog(s)
    BY <2>4, CatalogStaysWhole
  <2>5. CASE \/ Reserve(s) \/ Decrease(s) \/ ReserveAgain(s)
             \/ ChooseRestock(s) \/ Increase(s) \/ NoRestock(s)
    BY <2>5, OtherStepsStayWhole
  <2>6. CASE LastFlush(s) \/ EndBatch(s)
    BY <2>6, LastFlushStaysWhole, EndBatchStaysWhole
  <2>7. QED
    BY <1>2, <2>1, <2>2, <2>3, <2>4, <2>5, <2>6 DEF SimulatorStep, Cycle
<1>3. QED
  BY <1>1, <1>2 DEF SimulatorNext

(* Whatever the threshold, the size of the batches and the number of       *)
(* processes: a batch leaves one order at most without its details, and    *)
(* none when it ends without an exception.                                 *)
THEOREM OneTornOrderAtMost == SimulatorSpec => []AtMostOneTornOrder
<1>1. SimulatorInit => Ordering
  BY InitIsWhole
<1>2. Ordering /\ [SimulatorNext]_simulatorVars => Ordering'
  BY NextStaysWhole
<1>3. Ordering => AtMostOneTornOrder
  BY DEF Ordering
<1>4. QED
  BY <1>1, <1>2, <1>3, PTL DEF SimulatorSpec

-----------------------------------------------------------------------------
(* Induction over the natural numbers, as facts about sets: the library's  *)
(* theorem about the order of Nat gives every set of naturals a least      *)
(* element, so the numbers a property fails for are none.                  *)
LEMMA NatOrder ==
  \E R : IsWellFoundedOn(R, Nat) /\ \A x, y \in Nat : x < y => <<x, y>> \in R
<1>1. IsWellFoundedOn(OpToRel(<, Nat), Nat)
  BY NatLessThanWellFounded
<1>2. \A x, y \in Nat : x < y => <<x, y>> \in OpToRel(<, Nat)
  BY DEF OpToRel
<1>3. QED
  BY <1>1, <1>2

LEMMA LeastNat ==
  ASSUME NEW T, T \subseteq Nat, T # {}
  PROVE  \E n \in T : \A m \in T : n <= m
<1>1. PICK R : IsWellFoundedOn(R, Nat) /\ \A x, y \in Nat : x < y => <<x, y>> \in R
  BY NatOrder
<1>2. IsWellFoundedOn(R, Nat)
  BY <1>1
<1>3. \A x, y \in Nat : x < y => <<x, y>> \in R
  BY <1>1
<1>4. PICK n \in T : \A m \in T : ~ (<<m, n>> \in R)
  BY <1>2, WFMin
<1>5. \A m \in T : n <= m
  <2> SUFFICES ASSUME NEW m \in T, m < n PROVE FALSE
    OBVIOUS
  <2>1. <<m, n>> \in R
    BY <1>3
  <2>2. QED
    BY <2>1, <1>4
<1>6. QED
  BY <1>5

LEMMA InductionOverSets ==
  ASSUME NEW P, P \subseteq Nat, 0 \in P, \A n \in P : n + 1 \in P
  PROVE  P = Nat
<1>1. SUFFICES ASSUME Nat \ P # {} PROVE FALSE
  OBVIOUS
<1>2. PICK n \in Nat \ P : \A m \in Nat \ P : n <= m
  BY <1>1, LeastNat
<1>3. n # 0
  OBVIOUS
<1>4. n - 1 \in Nat /\ n - 1 \in P
  BY <1>2, <1>3
<1>5. QED
  BY <1>4

-----------------------------------------------------------------------------
(* The sum of the units of a finite set of rows: MapThenSumSet takes them  *)
(* in an order of its own, and any other order gives the same.             *)
Units(r) == r.units[2]

(* One step of the fold, which f carries out.                              *)
FoldStep(f, T) == IF T = {} THEN 0
                  ELSE LET x == CHOOSE y \in T : TRUE IN Units(x) + f[T \ {x}]

IsFold(f, S) == f = [T \in SUBSET S |-> FoldStep(f, T)]

Total(S) == (CHOOSE f : IsFold(f, S))[S]

LEMMA TotalIsSum ==
  ASSUME NEW S
  PROVE  MapThenSumSet(LAMBDA r : r.units[2], S) = Total(S)
BY DEF Total, MapThenSumSet, MapThenFoldSet, IsFold, FoldStep, Units

LEMMA FoldExists ==
  ASSUME NEW S, IsFiniteSet(S)
  PROVE  \E f : IsFold(f, S)
<1> DEFINE UpTo(n) == {T \in SUBSET S : Cardinality(T) <= n}
           P == {n \in Nat : \E f : f = [T \in UpTo(n) |-> FoldStep(f, T)]}
<1>1. \A T \in SUBSET S : IsFiniteSet(T) /\ Cardinality(T) \in Nat
  BY FS_Subset, FS_CardinalityType
<1>2. \A T \in SUBSET S : \A x \in T : Cardinality(T \ {x}) = Cardinality(T) - 1
  BY <1>1, FS_RemoveElement
<1>3. \A T \in SUBSET S : T # {} => (CHOOSE y \in T : TRUE) \in T
  OBVIOUS
<1>4. 0 \in P
  <2> DEFINE f == [T \in UpTo(0) |-> 0]
  <2>1. \A T \in UpTo(0) : T = {}
    BY <1>1, FS_EmptySet
  <2>2. \A T \in UpTo(0) : FoldStep(f, T) = 0
    BY <2>1 DEF FoldStep
  <2>3. f = [T \in UpTo(0) |-> FoldStep(f, T)]
    BY <2>2
  <2>4. QED
    BY <2>3
<1>5. ASSUME NEW n \in P
      PROVE  n + 1 \in P
  <2>1. n \in Nat /\ n + 1 \in Nat
    OBVIOUS
  <2>2. PICK f : f = [T \in UpTo(n) |-> FoldStep(f, T)]
    BY <1>5
  <2> DEFINE g == [T \in UpTo(n + 1) |-> FoldStep(f, T)]
  <2>3. UpTo(n) \subseteq UpTo(n + 1)
    BY <1>1, <2>1
  <2>4. \A T \in UpTo(n) : g[T] = f[T]
    <3> HIDE DEF UpTo
    <3>1. \A T \in UpTo(n) : f[T] = FoldStep(f, T)
      BY <2>2
    <3>2. QED
      BY <2>3, <3>1
  <2>5. ASSUME NEW T \in UpTo(n + 1), NEW x \in T
        PROVE  T \ {x} \in UpTo(n)
    <3>1. T \in SUBSET S /\ Cardinality(T) <= n + 1
      OBVIOUS
    <3>2. Cardinality(T) \in Nat /\ Cardinality(T \ {x}) = Cardinality(T) - 1
      BY <1>1, <1>2, <3>1
    <3>3. Cardinality(T \ {x}) <= n
      BY <2>1, <3>1, <3>2
    <3>4. QED
      BY <3>1, <3>3
  <2>6. ASSUME NEW T \in UpTo(n + 1)
        PROVE  FoldStep(f, T) = FoldStep(g, T)
    <3>1. CASE T = {}
      BY <3>1 DEF FoldStep
    <3>2. CASE T # {}
      <4> DEFINE x == CHOOSE y \in T : TRUE
      <4>1. x \in T
        BY <3>2
      <4>2. g[T \ {x}] = f[T \ {x}]
        BY <2>4, <2>5, <4>1
      <4>3. FoldStep(f, T) = Units(x) + f[T \ {x}] /\ FoldStep(g, T) = Units(x) + g[T \ {x}]
        BY <3>2 DEF FoldStep
      <4>4. QED
        BY <4>2, <4>3
    <3>3. QED
      BY <3>1, <3>2
  <2>7. g = [T \in UpTo(n + 1) |-> FoldStep(g, T)]
    <3> DEFINE h == [T \in UpTo(n + 1) |-> FoldStep(g, T)]
    <3>1. h = g
      <4> HIDE DEF UpTo
      <4>1. \A T \in UpTo(n + 1) : FoldStep(f, T) = FoldStep(g, T)
        BY <2>6
      <4> DEFINE Left(T) == FoldStep(f, T)
                 Right(T) == FoldStep(g, T)
      <4>2. \A T \in UpTo(n + 1) : Left(T) = Right(T)
        BY <4>1
      <4> HIDE DEF Left, Right
      <4>3. [T \in UpTo(n + 1) |-> Left(T)] = [T \in UpTo(n + 1) |-> Right(T)]
        BY <4>2
      <4>4. QED
        BY <4>3 DEF Left, Right
    <3>2. QED
      BY <3>1
  <2> HIDE DEF g
  <2>8. QED
    BY <2>1, <2>7
<1>6. P = Nat
  <2> HIDE DEF P
  <2>1. P \subseteq Nat
    BY DEF P
  <2>2. QED
    BY <1>4, <1>5, <2>1, InductionOverSets
<1>7. UpTo(Cardinality(S)) = SUBSET S
  BY <1>1, FS_Subset
<1>8. Cardinality(S) \in P
  BY <1>1, <1>6
<1>9. QED
  BY <1>7, <1>8 DEF IsFold

(* Any element may be the first.                                           *)
LEMMA FoldInAnyOrder ==
  ASSUME NEW S, IsFiniteSet(S), \A r \in S : Units(r) \in Int, NEW f, IsFold(f, S)
  PROVE  \A T \in SUBSET S :
           /\ f[T] \in Int /\ (T = {} => f[T] = 0)
           /\ \A x \in T : f[T] = Units(x) + f[T \ {x}]
<1> DEFINE Fine(T) == f[T] \in Int /\ \A x \in T : f[T] = Units(x) + f[T \ {x}]
           P == {n \in Nat : \A T \in SUBSET S : Cardinality(T) <= n => Fine(T)}
<1>1. \A T \in SUBSET S : IsFiniteSet(T) /\ Cardinality(T) \in Nat
  BY FS_Subset, FS_CardinalityType
<1>2. \A T \in SUBSET S : \A x \in T : Cardinality(T \ {x}) = Cardinality(T) - 1
  BY <1>1, FS_RemoveElement
<1>3. \A T \in SUBSET S : f[T] = FoldStep(f, T)
  BY DEF IsFold
<1>0. f[{}] = 0 /\ Fine({})
  <2>1. f[{}] = 0
    BY <1>3 DEF FoldStep
  <2>2. QED
    BY <2>1
<1>4. 0 \in P
  <2>1. \A T \in SUBSET S : Cardinality(T) <= 0 => Cardinality(T) = 0
    BY <1>1
  <2>2. \A T \in SUBSET S : Cardinality(T) <= 0 => T = {}
    BY <1>1, <2>1, FS_EmptySet
  <2> HIDE DEF Fine
  <2>3. QED
    BY <1>0, <2>2
<1>5. ASSUME NEW n \in P
      PROVE  n + 1 \in P
  <2>1. n \in Nat /\ \A T \in SUBSET S : Cardinality(T) <= n => Fine(T)
    BY <1>5
  <2>2. ASSUME NEW T \in SUBSET S, Cardinality(T) <= n + 1, T # {}
        PROVE  Fine(T)
    <3> DEFINE c == CHOOSE y \in T : TRUE
    <3>1. c \in T /\ f[T] = Units(c) + f[T \ {c}]
      BY <1>3, <2>2 DEF FoldStep
    <3> HIDE DEF c
    <3>2. \A x \in T : T \ {x} \in SUBSET S /\ Cardinality(T \ {x}) <= n
      BY <1>1, <1>2, <2>1, <2>2
    <3>3. ASSUME NEW x \in T, NEW y \in T
          PROVE  (T \ {x}) \ {y} \in SUBSET S /\ Cardinality((T \ {x}) \ {y}) <= n
      <4> DEFINE V == T \ {x}
                 W == V \ {y}
      <4>1. V \in SUBSET S /\ W \in SUBSET S /\ W \in SUBSET V
        OBVIOUS
      <4>2. Cardinality(V) <= n
        BY <3>2
      <4> HIDE DEF V, W
      <4>3. Cardinality(V) \in Nat /\ Cardinality(W) \in Nat /\ Cardinality(W) <= Cardinality(V)
        BY <1>1, <4>1, FS_Subset
      <4>4. Cardinality(W) <= n
        BY <2>1, <4>2, <4>3
      <4>5. QED
        BY <4>1, <4>4 DEF V, W
    <3>4. \A x, y \in T : Fine(T \ {x}) /\ Fine((T \ {x}) \ {y})
      <4> HIDE DEF Fine
      <4>1. QED
        BY <2>1, <3>2, <3>3
    <3>5. f[T \ {c}] \in Int /\ Units(c) \in Int
      BY <3>1, <3>4
    <3>6. ASSUME NEW x \in T, x # c
          PROVE  f[T] = Units(x) + f[T \ {x}]
      <4>1. f[T \ {c}] = Units(x) + f[(T \ {c}) \ {x}]
        BY <3>1, <3>4, <3>6
      <4>2. f[T \ {x}] = Units(c) + f[(T \ {x}) \ {c}]
        BY <3>1, <3>4, <3>6
      <4>3. (T \ {x}) \ {c} = (T \ {c}) \ {x}
        OBVIOUS
      <4>4. f[(T \ {c}) \ {x}] \in Int /\ Units(x) \in Int
        BY <3>1, <3>4
      <4> DEFINE v == f[(T \ {c}) \ {x}]
      <4>5. /\ f[T] = Units(c) + f[T \ {c}] /\ f[T \ {c}] = Units(x) + v
            /\ f[T \ {x}] = Units(c) + v
        BY <3>1, <4>1, <4>2, <4>3
      <4> HIDE DEF v
      <4>6. v \in Int
        BY <4>4 DEF v
      <4>7. QED
        BY <3>5, <4>4, <4>5, <4>6
    <3>7. f[T] \in Int
      BY <3>1, <3>5
    <3>8. \A x \in T : f[T] = Units(x) + f[T \ {x}]
      BY <3>1, <3>6
    <3>9. QED
      BY <3>7, <3>8
  <2> HIDE DEF Fine
  <2>3. QED
    BY <1>0, <2>1, <2>2
<1>6. P = Nat
  <2> HIDE DEF P
  <2>1. P \subseteq Nat
    BY DEF P
  <2>2. QED
    BY <1>4, <1>5, <2>1, InductionOverSets
<1>7. \A T \in SUBSET S : Fine(T)
  <2> HIDE DEF Fine
  <2>1. \A T \in SUBSET S : Cardinality(T) <= Cardinality(T)
    BY <1>1
  <2>2. QED
    BY <1>1, <1>6, <2>1
<1>8. QED
  BY <1>0, <1>7

(* The sum of no rows, and of a row more.                                  *)
LEMMA TotalOfNone ==
  Total({}) = 0
<1>1. IsFiniteSet({}) /\ \A r \in {} : Units(r) \in Int
  BY FS_EmptySet
<1>2. IsFold(CHOOSE f : IsFold(f, {}), {})
  BY <1>1, FoldExists
<1>3. QED
  BY <1>1, <1>2, FoldInAnyOrder DEF Total

LEMMA TotalOfMore ==
  ASSUME NEW S, IsFiniteSet(S), \A r \in S : Units(r) \in Int,
         NEW x, x \notin S, Units(x) \in Int
  PROVE  Total(S) \in Int /\ Total(S \cup {x}) = Total(S) + Units(x)
<1> DEFINE M == S \cup {x}
           f == CHOOSE h : IsFold(h, S)
           g == CHOOSE h : IsFold(h, M)
<1>1. IsFiniteSet(M) /\ \A r \in M : Units(r) \in Int
  BY FS_AddElement
<1>2. IsFold(f, S) /\ IsFold(g, M)
  <2> HIDE DEF M
  <2>1. QED
    BY <1>1, FoldExists
<1>3. Total(S) = f[S] /\ Total(M) = g[M]
  BY DEF Total
<1> HIDE DEF f, g
<1>4. \A T \in SUBSET S :
        f[T] \in Int /\ (T = {} => f[T] = 0) /\ \A y \in T : f[T] = Units(y) + f[T \ {y}]
  BY <1>2, FoldInAnyOrder
<1>5. \A T \in SUBSET M :
        g[T] \in Int /\ (T = {} => g[T] = 0) /\ \A y \in T : g[T] = Units(y) + g[T \ {y}]
  <2> HIDE DEF M
  <2>1. QED
    BY <1>1, <1>2, FoldInAnyOrder
<1> DEFINE P == {n \in Nat : \A T \in SUBSET S : Cardinality(T) = n => f[T] = g[T]}
<1>6. \A T \in SUBSET S : IsFiniteSet(T) /\ Cardinality(T) \in Nat
  BY FS_Subset, FS_CardinalityType
<1>7. 0 \in P
  <2>1. \A T \in SUBSET S : Cardinality(T) = 0 => T = {}
    BY <1>6, FS_EmptySet
  <2>2. f[{}] = g[{}]
    BY <1>4, <1>5
  <2>3. QED
    BY <2>1, <2>2
<1>8. ASSUME NEW n \in P
      PROVE  n + 1 \in P
  <2>1. n \in Nat /\ \A T \in SUBSET S : Cardinality(T) = n => f[T] = g[T]
    BY <1>8
  <2>2. ASSUME NEW T \in SUBSET S, Cardinality(T) = n + 1
        PROVE  f[T] = g[T]
    <3>1. T # {}
      <4>1. n + 1 # 0
        BY <2>1
      <4>2. QED
        BY <2>2, <4>1, FS_EmptySet
    <3>2. PICK y \in T : TRUE
      BY <3>1
    <3>3. T \ {y} \in SUBSET S /\ Cardinality(T \ {y}) = n
      <4>1. Cardinality(T \ {y}) = Cardinality(T) - 1
        BY <1>6, FS_RemoveElement
      <4>2. QED
        BY <2>1, <2>2, <4>1
    <3>4. f[T \ {y}] = g[T \ {y}]
      BY <2>1, <3>3
    <3>5. QED
      BY <1>4, <1>5, <3>4
  <2>3. QED
    BY <2>1, <2>2
<1>9. P = Nat
  <2> HIDE DEF P
  <2>1. P \subseteq Nat
    BY DEF P
  <2>2. QED
    BY <1>7, <1>8, <2>1, InductionOverSets
<1>10. f[S] = g[S]
  BY <1>6, <1>9
<1>11. f[S] \in Int /\ g[M] = Units(x) + g[M \ {x}] /\ M \ {x} = S
  BY <1>4, <1>5
<1>12. Total(S) \in Int /\ Total(M) = Units(x) + Total(S)
  BY <1>3, <1>10, <1>11
<1> HIDE DEF M
<1>13. Total(M) = Total(S) + Units(x)
  BY <1>12
<1>14. QED
  BY <1>12, <1>13 DEF M
-----------------------------------------------------------------------------
(* The stock.  Rows that stand for units of stock are numbered by the      *)
(* cycle that inserts them, so each is new; a transaction that has written *)
(* an inventory holds it alone, and what it has written is the sum of the  *)
(* rows it sees, but for the quantity it has taken for an order that is    *)
(* not inserted yet.                                                       *)

StockRows(S) == {r \in S : r.units # NoUnits}
Stocked(S, i) == {r \in S : r.units # NoUnits /\ r.units[1] = i}

Plain(r) == r.units = NoUnits /\ Table(r.id) # "inventories"

StockTables == {"inventories", "orders", "restocks"}

(* A row of stock is of an inventory that is there.                        *)
RowFits(r, ids) ==
  IF r.units = NoUnits THEN Plain(r)
  ELSE /\ r.units[1] \in Inventories /\ r.units[2] \in Int
       /\ Table(r.id) \in StockTables
       /\ Table(r.id) = "inventories" => r.id = InventoryId(r.units[1])
       /\ InventoryId(r.units[1]) \in ids

OnHand(i) ==
  IF InventoryId(i) \in Ids(rows)
  THEN stock[i] = Total(Stocked(rows, i)) /\ stock[i] \in Nat
  ELSE stock[i] = Absent

RowsBalance ==
  /\ \A r \in rows : RowFits(r, Ids(rows))
  /\ IsFiniteSet(StockRows(rows))
  /\ \A i \in Inventories : OnHand(i)

(* Of a transaction that has inserted O and left h of an inventory, of     *)
(* which an order still takes p.                                           *)
Adds(O, h, p, i) ==
  IF h = Free THEN Stocked(O, i) = {}
  ELSE h \in Nat /\ Total(Stocked(rows \cup O, i)) = h + p

Taking(s, i) == IF pc[s] = "order" /\ pick[s][1] = i THEN pick[s][3] ELSE 0

FitsIn(O) ==
  /\ \A r \in O : RowFits(r, Ids(rows \cup O))
  /\ IsFiniteSet(StockRows(O))

SessionBalances(s) ==
  /\ \A i \in Inventories : Adds(own[s], held[s][i], Taking(s, i), i)
  /\ FitsIn(own[s])
  /\ \A r \in buffer[s] : Plain(r)

OneWriter ==
  \A s, q \in Sessions : s # q =>
    \A i \in Inventories : held[s][i] = Free \/ held[q][i] = Free

Picked(s) ==
  /\ pc[s] \in {"decrease", "order", "increase"} =>
       pick[s][1] \in Inventories /\ pick[s][3] \in Nat
  /\ pc[s] = "order" => held[s][pick[s][1]] # Free

Balanced == RowsBalance /\ OneWriter /\ \A s \in Sessions : SessionBalances(s) /\ Picked(s)

(* The cycles a batch has before it are of no row yet, and the one it is   *)
(* in only of the rows it has come past.                                   *)
Number(r) == IF Table(r.id) = "inventories" THEN r.id[3] - settings.stocked ELSE r.id[3]

Past(t, label) ==
  /\ t = "inventories" => label \notin {"customer", "catalog"}
  /\ t = "orders" => label \notin BeforeOrder
  /\ t = "restocks" => label \in {"next", "commit"}

AllStock == StockRows(rows) \cup UNION {StockRows(own[s]) : s \in Sessions}

InTurn(s) ==
  /\ batch[s] \in Nat \ {0} /\ cycle[s] \in batch[s]..LastCycle(s) /\ LastCycle(s) \in 1..last

NotAhead(s, r) ==
  Number(r) \in cycle[s]..LastCycle(s) =>
    Number(r) = cycle[s] /\ Past(Table(r.id), pc[s])

Turns ==
  /\ settings \in Settings /\ last \in 0..MaxCycles
  /\ \A s \in Sessions : InBatch(s) => InTurn(s)
  /\ \A s, q \in Sessions : s # q /\ InBatch(s) /\ InBatch(q) =>
       LastCycle(s) < batch[q] \/ LastCycle(q) < batch[s]
  /\ \A r \in AllStock :
       /\ Number(r) \in Int /\ Number(r) <= last
       /\ \A s \in Sessions : InBatch(s) => NotAhead(s, r)

Accounting == Resolving /\ Balanced /\ Turns

-----------------------------------------------------------------------------
(* Sets of rows.                                                           *)

LEMMA PlainAddsNothing ==
  ASSUME NEW S, NEW L, \A r \in L : Plain(r)
  PROVE  /\ StockRows(S \cup L) = StockRows(S)
         /\ \A i : Stocked(S \cup L, i) = Stocked(S, i)
BY DEF StockRows, Stocked, Plain

LEMMA StockedIsFinite ==
  ASSUME NEW S, IsFiniteSet(StockRows(S))
  PROVE  \A i : IsFiniteSet(Stocked(S, i))
<1>1. \A i : Stocked(S, i) \in SUBSET StockRows(S)
  BY DEF Stocked, StockRows
<1>2. QED
  BY <1>1, FS_Subset

LEMMA FiniteUnions ==
  ASSUME NEW S, NEW O, IsFiniteSet(StockRows(S)), IsFiniteSet(StockRows(O))
  PROVE  IsFiniteSet(StockRows(S \cup O))
<1>1. StockRows(S \cup O) = StockRows(S) \cup StockRows(O)
  BY DEF StockRows
<1>2. QED
  BY <1>1, FS_Union

LEMMA FiniteMore ==
  ASSUME NEW S, NEW x, IsFiniteSet(StockRows(S))
  PROVE  IsFiniteSet(StockRows(S \cup {x}))
<1>1. StockRows({x}) \in SUBSET {x} /\ IsFiniteSet({x})
  BY FS_Singleton DEF StockRows
<1>2. IsFiniteSet(StockRows({x}))
  BY <1>1, FS_Subset
<1>3. QED
  BY <1>2, FiniteUnions

LEMMA InsertedUnits ==
  ASSUME NEW S, IsFiniteSet(StockRows(S)), \A r \in S : r.units # NoUnits => r.units[2] \in Int,
         NEW x, x \notin S, x.units # NoUnits, x.units[2] \in Int, NEW i
  PROVE  /\ Total(Stocked(S, i)) \in Int
         /\ Stocked(S \cup {x}, i) =
              IF x.units[1] = i THEN Stocked(S, i) \cup {x} ELSE Stocked(S, i)
         /\ x.units[1] = i => Total(Stocked(S \cup {x}, i)) = Total(Stocked(S, i)) + x.units[2]
<1>1. IsFiniteSet(Stocked(S, i))
  BY StockedIsFinite
<1>2. \A r \in Stocked(S, i) : Units(r) \in Int
  BY DEF Stocked, Units
<1>3. x \notin Stocked(S, i) /\ Units(x) \in Int /\ Units(x) = x.units[2]
  BY DEF Stocked, Units
<1>4. Total(Stocked(S, i)) \in Int
      /\ Total(Stocked(S, i) \cup {x}) = Total(Stocked(S, i)) + Units(x)
  BY <1>1, <1>2, <1>3, TotalOfMore
<1>5. Stocked(S \cup {x}, i) = IF x.units[1] = i THEN Stocked(S, i) \cup {x} ELSE Stocked(S, i)
  BY DEF Stocked
<1>6. QED
  BY <1>3, <1>4, <1>5

(* The rows of a batch that are of no stock, and those that are.           *)
LEMMA PlainRows ==
  ASSUME NEW b, NEW n
  PROVE  /\ Plain(CustomerRow(b, n)) /\ Plain(AddressRow(b, n)) /\ Plain(SellerRow(b, n))
         /\ Plain(WarehouseRow(b, n)) /\ Plain(HistoryRow(b, n))
         /\ \A x : Plain(ItemRow(b, n, x)) /\ Plain(MovementRow(b, n, x))
         /\ \A x, y : /\ Plain(ProductRow(b, n, x, y)) /\ Plain(PaymentRow(b, n, x, y))
                      /\ Plain(ShipmentRow(b, n, x, y))
         /\ \A x, y, z : Plain(ReviewRow(b, n, x, y, z))
BY DEF Plain, CustomerRow, AddressRow, SellerRow, WarehouseRow, HistoryRow, ItemRow, MovementRow,
       ProductRow, PaymentRow, ShipmentRow, ReviewRow, Row, Table, Id

LEMMA RowsOfStock ==
  ASSUME NEW b, NEW n, NEW i, NEW q, NEW x, NEW y
  PROVE  /\ LET r == OrderRow(b, n, x, i, q) IN
              /\ r.units # NoUnits /\ r.units[1] = i /\ r.units[2] = -q
              /\ r.id[3] = n /\ Table(r.id) = "orders"
         /\ LET r == RestockRow(b, n, i, q) IN
              /\ r.units # NoUnits /\ r.units[1] = i /\ r.units[2] = q
              /\ r.id[3] = n /\ Table(r.id) = "restocks"
         /\ LET r == InventoryRow(i, x, y, q) IN
              /\ r.units # NoUnits /\ r.units[1] = i /\ r.units[2] = q
              /\ r.id = InventoryId(i) /\ r.id[3] = i /\ Table(r.id) = "inventories"
<1>1. \A t : LET u == <<i, t>> IN u # NoUnits /\ u[1] = i /\ u[2] = t
  BY DEF NoUnits
<1>2. QED
  BY <1>1 DEF OrderRow, RestockRow, InventoryRow, StockRow, InventoryId, Table, Id

-----------------------------------------------------------------------------
(* What a commit of another does to an open transaction: nothing, for what *)
(* it holds nobody else has written.                                       *)
LEMMA OtherBalances ==
  ASSUME NEW q \in Sessions, SessionBalances(q), NEW X, rows' = rows \cup X,
         own'[q] = own[q], held'[q] = held[q], buffer'[q] = buffer[q], pc'[q] = pc[q],
         pick'[q] = pick[q],
         \A i \in Inventories : held[q][i] # Free => Stocked(X, i) \subseteq Stocked(rows, i)
  PROVE  SessionBalances(q)'
<1>1. \A i \in Inventories : held[q][i] # Free =>
        Stocked(rows' \cup own'[q], i) = Stocked(rows \cup own[q], i)
  BY DEF Stocked
<1>2. \A i \in Inventories : Taking(q, i)' = Taking(q, i)
  BY DEF Taking
<1>3. ASSUME NEW i \in Inventories
      PROVE  Adds(own[q], held[q][i], Taking(q, i), i)'
  <2>1. Adds(own[q], held[q][i], Taking(q, i), i)
    BY DEF SessionBalances
  <2>2. Stocked(own[q], i)' = Stocked(own[q], i)
    BY DEF Stocked
  <2>3. held[q][i] # Free =>
          Total(Stocked(rows \cup own[q], i))' = Total(Stocked(rows \cup own[q], i))
    <3>1. held[q][i] # Free => Stocked(rows' \cup own'[q], i) = Stocked(rows \cup own[q], i)
      BY <1>1
    <3>2. Stocked(rows \cup own[q], i)' = Stocked(rows' \cup own'[q], i)
      BY DEF Stocked
    <3>3. QED
      BY <3>1, <3>2 DEF Total
  <2>4. QED
    BY <1>2, <2>1, <2>2, <2>3 DEF Adds
<1>4. FitsIn(own[q])'
  <2>1. Ids(rows \cup own[q]) \subseteq Ids(rows' \cup own'[q])
    BY DEF Ids
  <2>2. \A r \in own'[q] : RowFits(r, Ids(rows' \cup own'[q]))
    BY <2>1 DEF SessionBalances, FitsIn, RowFits
  <2>3. QED
    BY <2>2 DEF SessionBalances, FitsIn, StockRows, RowFits, Ids, Plain
<1>5. QED
  BY <1>3, <1>4 DEF SessionBalances, Plain

(* A row of an inventory is of that inventory's stock.                     *)
LEMMA InventoryIsStocked ==
  ASSUME NEW S, NEW ids, \A r \in S : RowFits(r, ids), NEW i, InventoryId(i) \in Ids(S)
  PROVE  Stocked(S, i) # {}
<1>1. PICK r \in S : r.id = InventoryId(i)
  BY DEF Ids
<1>2. Table(r.id) = "inventories"
  BY <1>1 DEF InventoryId, Table, Id
<1>3. r.units # NoUnits /\ r.id = InventoryId(r.units[1])
  BY <1>2 DEF RowFits, Plain
<1>4. r.units[1] = i
  BY <1>1, <1>3 DEF InventoryId, Id
<1>5. QED
  BY <1>3, <1>4 DEF Stocked

(* A commit: the stock becomes what the transaction had left of what it    *)
(* wrote, which is the sum of the rows it adds to what was there.          *)
LEMMA CommitBalances ==
  ASSUME NEW s \in Sessions, RowsBalance, Shape, NEW O, own[s] \subseteq O, FitsIn(O),
         \A i \in Inventories : Adds(O, held[s][i], 0, i),
         \A i \in Inventories : held[s][i] # Free => InventoryId(i) \in Ids(Visible(s)),
         NEW L, \A r \in L : Plain(r), rows' = (rows \cup O) \cup L,
         stock' = [i \in Inventories |-> InView(s, i)]
  PROVE  RowsBalance'
<1>1. rows' = (rows \cup O) \cup L
  OBVIOUS
<1>2. /\ StockRows(rows') = StockRows(rows \cup O)
      /\ \A i : Stocked(rows', i) = Stocked(rows \cup O, i)
  <2>1. /\ StockRows((rows \cup O) \cup L) = StockRows(rows \cup O)
        /\ \A i : Stocked((rows \cup O) \cup L, i) = Stocked(rows \cup O, i)
    BY PlainAddsNothing
  <2>2. QED
    BY <1>1, <2>1
<1>3. Ids(rows) \subseteq Ids(rows') /\ Ids(rows \cup O) \subseteq Ids(rows')
  BY <1>1 DEF Ids
<1>4. \A r \in rows' : RowFits(r, Ids(rows'))
  BY <1>1, <1>3 DEF RowsBalance, FitsIn, RowFits, Plain
<1>5. IsFiniteSet(StockRows(rows'))
  BY <1>2, FiniteUnions DEF RowsBalance, FitsIn
<1>6. ASSUME NEW i \in Inventories
      PROVE  /\ InventoryId(i) \in Ids(rows') =>
                  stock'[i] = Total(Stocked(rows', i)) /\ stock'[i] \in Nat
             /\ InventoryId(i) \notin Ids(rows') => stock'[i] = Absent
  <2>1. stock'[i] = InView(s, i)
    OBVIOUS
  <2>2. CASE held[s][i] = Free
    <3>1. Stocked(O, i) = {} /\ stock'[i] = stock[i]
      BY <2>1, <2>2 DEF Adds, InView
    <3>2. Stocked(rows', i) = Stocked(rows, i)
      BY <1>2, <3>1 DEF Stocked
    <3>3. InventoryId(i) \in Ids(rows') => InventoryId(i) \in Ids(rows)
      <4>1. SUFFICES ASSUME InventoryId(i) \in Ids(rows'), InventoryId(i) \notin Ids(rows)
                     PROVE  FALSE
        OBVIOUS
      <4>2. InventoryId(i) \in Ids(O \cup L)
        BY <1>1, <4>1 DEF Ids
      <4>3. \A r \in O \cup L : RowFits(r, Ids(rows'))
        BY <1>1, <1>4
      <4>4. Stocked(O \cup L, i) # {}
        BY <4>2, <4>3, InventoryIsStocked
      <4>5. QED
        BY <3>1, <4>4, PlainAddsNothing
    <3>4. QED
      BY <1>3, <3>1, <3>2, <3>3 DEF RowsBalance, OnHand
  <2>3. CASE held[s][i] # Free
    <3>1. InventoryId(i) \in Ids(rows')
      <4>1. Ids(Visible(s)) \subseteq Ids(rows \cup O)
        BY DEF Visible, Ids
      <4>2. QED
        BY <1>3, <2>3, <4>1
    <3>2. stock'[i] = held[s][i]
      BY <2>1, <2>3 DEF InView
    <3>3. held[s][i] \in Nat /\ Total(Stocked(rows \cup O, i)) = held[s][i]
      <4>1. held[s][i] \in Nat /\ Total(Stocked(rows \cup O, i)) = held[s][i] + 0
        BY <2>3 DEF Adds
      <4>2. QED
        BY <4>1
    <3>4. QED
      BY <1>2, <3>1, <3>2, <3>3
  <2>4. QED
    BY <2>2, <2>3
<1>7. \A i \in Inventories : OnHand(i)'
  <2>1. Ids(rows)' = Ids(rows') /\ \A i : Stocked(rows, i)' = Stocked(rows', i)
    BY DEF Ids, Stocked
  <2>2. \A i : Total(Stocked(rows, i))' = Total(Stocked(rows', i))
    BY <2>1 DEF Total
  <2>3. QED
    BY <1>6, <2>1, <2>2 DEF OnHand
<1>8. QED
  BY <1>4, <1>5, <1>7 DEF RowsBalance, RowFits, Ids, StockRows, Plain

(* Nothing open: nothing written.                                          *)
LEMMA ClosedBalances ==
  ASSUME NEW s \in Sessions, own'[s] = {}, held'[s] = NoneHeld, \A r \in buffer'[s] : Plain(r)
  PROVE  SessionBalances(s)'
<1>1. \A i \in Inventories : held'[s][i] = Free
  BY DEF NoneHeld
<1>2. IsFiniteSet(StockRows({}))
  BY FS_EmptySet DEF StockRows
<1>3. FitsIn(own[s])'
  BY <1>2 DEF FitsIn, StockRows
<1>4. \A i \in Inventories : Adds(own[s], held[s][i], Taking(s, i), i)'
  BY <1>1 DEF Adds, Stocked
<1>5. QED
  BY <1>3, <1>4 DEF SessionBalances, Plain

(* What one session does leaves the others as they are.                    *)
LEMMA AllBalance ==
  ASSUME NEW s \in Sessions, Balanced, OthersKeep(s), RowsBalance',
         SessionBalances(s)', Picked(s)', NEW X, rows' = rows \cup X,
         \A i \in Inventories : Stocked(X, i) \subseteq Stocked(rows, i) \/ held[s][i] # Free,
         \A i \in Inventories : held'[s][i] # Free =>
           held[s][i] # Free \/ \A q \in Sessions \ {s} : held[q][i] = Free
  PROVE  Balanced'
<1>1. ASSUME NEW q \in Sessions \ {s}
      PROVE  SessionBalances(q)' /\ Picked(q)'
  <2>1. \A i \in Inventories : held[q][i] # Free => Stocked(X, i) \subseteq Stocked(rows, i)
    BY DEF Balanced, OneWriter
  <2>2. SessionBalances(q)'
    BY <2>1, OtherBalances DEF Balanced, OthersKeep
  <2>3. Picked(q)'
    BY DEF Balanced, Picked, OthersKeep
  <2>4. QED
    BY <2>2, <2>3
<1>2. OneWriter'
  BY DEF OneWriter, Balanced, OthersKeep
<1>3. QED
  BY <1>1, <1>2 DEF Balanced

(* A step that commits nothing and changes the stock as it may.            *)
LEMMA UncommittedBalances ==
  ASSUME NEW s \in Sessions, Balanced, OthersKeep(s), UNCHANGED <<rows, stock>>,
         SessionBalances(s)', Picked(s)',
         \A i \in Inventories : held'[s][i] # Free =>
           held[s][i] # Free \/ \A q \in Sessions \ {s} : held[q][i] = Free
  PROVE  Balanced'
<1>1. RowsBalance'
  <2>1. rows' = rows /\ stock' = stock /\ RowsBalance
    BY DEF Balanced
  <2>2. \A r \in rows' : RowFits(r, Ids(rows))'
    BY <2>1 DEF RowsBalance, RowFits, Ids, Plain
  <2>3. IsFiniteSet(StockRows(rows))'
    BY <2>1 DEF RowsBalance, StockRows
  <2>4. \A i \in Inventories : OnHand(i)'
    <3>1. \A i \in Inventories : /\ Ids(rows)' = Ids(rows) /\ Stocked(rows, i)' = Stocked(rows, i)
                               /\ Total(Stocked(rows, i))' = Total(Stocked(rows, i))
      BY <2>1 DEF Ids, Stocked, Total
    <3>2. QED
      BY <2>1, <3>1 DEF RowsBalance, OnHand
  <2>5. QED
    BY <2>2, <2>3, <2>4 DEF RowsBalance
<1>2. rows' = rows \cup {} /\ \A i \in Inventories : Stocked({}, i) \subseteq Stocked(rows, i)
  BY DEF Stocked
<1>3. QED
  BY <1>1, <1>2, AllBalance

-----------------------------------------------------------------------------
(* The steps.                                                              *)

Outside == Labels \ {"decrease", "order", "increase"}

LEMMA TransactionCommits ==
  ASSUME NEW s \in Sessions, Balanced, Resolving, OthersKeep(s), NEW O, own[s] \subseteq O,
         FitsIn(O), \A i \in Inventories : Adds(O, held[s][i], 0, i),
         NEW L, \A r \in L : Plain(r), rows' = (rows \cup O) \cup L,
         stock' = [i \in Inventories |-> InView(s, i)], own'[s] = {}, held'[s] = NoneHeld,
         \A r \in buffer'[s] : Plain(r), pc'[s] \in Outside
  PROVE  Balanced'
<1>1. RowsBalance'
  BY CommitBalances DEF Balanced, Resolving, SessionResolves, DataResolves
<1>2. SessionBalances(s)'
  BY ClosedBalances
<1>3. Picked(s)'
  BY DEF Picked, Outside
<1>4. rows' = rows \cup (O \cup L)
  OBVIOUS
<1>5. \A i \in Inventories : Stocked(O \cup L, i) \subseteq Stocked(rows, i) \/ held[s][i] # Free
  <2>1. \A i \in Inventories : held[s][i] = Free => Stocked(O, i) = {}
    BY DEF Adds
  <2>2. \A i : Stocked(O \cup L, i) = Stocked(O, i)
    BY PlainAddsNothing
  <2>3. QED
    BY <2>1, <2>2
<1>6. \A i \in Inventories : held'[s][i] = Free
  BY DEF NoneHeld
<1>7. QED
  BY <1>1, <1>2, <1>3, <1>4, <1>5, <1>6, AllBalance

(* What is inserted and left for later is of no stock.                     *)
LEMMA PlainInsert ==
  ASSUME NEW s \in Sessions, SessionBalances(s), pc[s] # "order", NEW now,
         \A r \in now : Plain(r)
  PROVE  /\ FitsIn(own[s] \cup now)
         /\ \A i \in Inventories : Adds(own[s] \cup now, held[s][i], 0, i)
<1>1. Ids(rows \cup own[s]) \subseteq Ids(rows \cup (own[s] \cup now))
  BY DEF Ids
<1>2. FitsIn(own[s] \cup now)
  <2>1. \A r \in own[s] \cup now : RowFits(r, Ids(rows \cup (own[s] \cup now)))
    BY <1>1 DEF SessionBalances, FitsIn, RowFits, Plain
  <2>2. IsFiniteSet(StockRows(own[s] \cup now))
    BY PlainAddsNothing DEF SessionBalances, FitsIn
  <2>3. QED
    BY <2>1, <2>2 DEF FitsIn
<1>3. \A i : /\ Stocked(own[s] \cup now, i) = Stocked(own[s], i)
             /\ Stocked(rows \cup (own[s] \cup now), i) = Stocked(rows \cup own[s], i)
  BY DEF Stocked, Plain
<1>4. \A i \in Inventories : Adds(own[s], held[s][i], 0, i)
  BY DEF SessionBalances, Taking
<1>5. QED
  BY <1>2, <1>3, <1>4 DEF Adds

LEMMA WritesBalance ==
  ASSUME NEW s \in Sessions, NEW now, NEW row, NEW more, NEW label, Balanced, Resolving,
         Writes(s, now, row, more), Goto(s, label), SameCycle, DOMAIN orders' = Sessions,
         DOMAIN pick' = Sessions,
         \A q \in Sessions \ {s} : orders'[q] = orders[q] /\ pick'[q] = pick[q],
         FitsIn(own[s] \cup now),
         \A i \in Inventories : Adds(own[s] \cup now, held[s][i], 0, i),
         \A r \in {row} \cup more : Plain(r), label \in Outside
  PROVE  Balanced'
<1> DEFINE b == buffer[s] \cup {row}
           O == own[s] \cup now
<1>1. Shape' /\ OthersKeep(s) /\ pc'[s] = label
  BY WritesFrame DEF Resolving
<1>2. \A r \in b \cup more : Plain(r)
  BY DEF Balanced, SessionBalances
<1>3. ASSUME NEW c, NEW left, c \subseteq b \cup more, left \subseteq b \cup more,
             CommitWith(s, now \cup Landing(s, c)), buffer' = [buffer EXCEPT ![s] = left]
      PROVE  Balanced'
  <2>1. \A r \in Landing(s, c) : Plain(r)
    BY <1>2, <1>3, LandingIsOfBuffer
  <2>2. buffer'[s] = left
    BY <1>3 DEF Resolving, Shape
  <2>3. own'[s] = {} /\ held'[s] = NoneHeld
    BY <1>3, CommitKeepsShape DEF Resolving
  <2>4. rows' = (rows \cup O) \cup Landing(s, c) /\ stock' = [i \in Inventories |-> InView(s, i)]
    BY <1>3 DEF CommitWith
  <2>5. \A r \in buffer'[s] : Plain(r)
    BY <1>2, <1>3, <2>2
  <2> HIDE DEF b
  <2>6. own[s] \subseteq O
    OBVIOUS
  <2> HIDE DEF O
  <2>7. FitsIn(O) /\ \A i \in Inventories : Adds(O, held[s][i], 0, i)
    BY DEF O
  <2>8. QED
    BY <1>1, <2>1, <2>3, <2>4, <2>5, <2>6, <2>7, TransactionCommits
<1>4. CASE /\ own' = [own EXCEPT ![s] = @ \cup now]
           /\ buffer' = [buffer EXCEPT ![s] = b \cup more]
           /\ UNCHANGED <<rows, stock, held>>
  <2>1. own'[s] = O /\ buffer'[s] = b \cup more /\ rows' = rows /\ held'[s] = held[s]
    BY <1>4 DEF Resolving, Shape
  <2>2. \A i : /\ Stocked(own[s], i)' = Stocked(O, i)
               /\ Stocked(rows \cup own[s], i)' = Stocked(rows \cup O, i)
               /\ Total(Stocked(rows \cup own[s], i))' = Total(Stocked(rows \cup O, i))
    BY <2>1 DEF Stocked, Total
  <2>3. Taking(s, 0)' = 0 /\ \A i \in Inventories : Taking(s, i)' = 0
    BY <1>1 DEF Taking, Outside
  <2>4. \A i \in Inventories : Adds(own[s], held[s][i], Taking(s, i), i)'
    BY <2>1, <2>2, <2>3 DEF Adds
  <2>5. FitsIn(own[s])'
    BY <2>1 DEF FitsIn, RowFits, Ids, Plain, StockRows
  <2>6. SessionBalances(s)'
    BY <1>2, <2>1, <2>4, <2>5 DEF SessionBalances, Plain
  <2>7. Picked(s)'
    BY <1>1 DEF Picked, Outside
  <2>8. QED
    BY <1>1, <1>4, <2>1, <2>6, <2>7, UncommittedBalances
<1>5. QED
  BY <1>3, <1>4 DEF Writes

LEMMA WritingStepsBalance ==
  ASSUME NEW s \in Sessions, Balanced, Resolving,
         \/ CreateCustomer(s) \/ InsertDetails(s)
         \/ CreatePayment(s) \/ CreateShipment(s) \/ CreateReview(s)
  PROVE  Balanced'
<1>1. ASSUME NEW now, NEW row, NEW more, NEW label, pc[s] # "order",
             Writes(s, now, row, more), Goto(s, label), SameCycle, DOMAIN orders' = Sessions,
             DOMAIN pick' = Sessions,
             \A q \in Sessions \ {s} : orders'[q] = orders[q] /\ pick'[q] = pick[q],
             \A r \in now \cup {row} \cup more : Plain(r), label \in Outside
      PROVE  Balanced'
  <2>1. SessionBalances(s)
    BY DEF Balanced
  <2>2. FitsIn(own[s] \cup now) /\ \A i \in Inventories : Adds(own[s] \cup now, held[s][i], 0, i)
    BY <1>1, <2>1, PlainInsert
  <2>3. QED
    BY <1>1, <2>2, WritesBalance
<1>2. Shape
  BY DEF Resolving
<1>3. CASE CreateCustomer(s)
  <2>1. /\ pc[s] # "order" /\ Goto(s, "catalog") /\ SameCycle /\ orders' = orders /\ pick' = pick
        /\ Writes(s, {CustomerRow(batch[s], cycle[s])}, AddressRow(batch[s], cycle[s]), {})
    BY <1>3 DEF CreateCustomer
  <2>2. QED
    BY <1>1, <1>2, <2>1, PlainRows DEF Shape, Outside, Labels
<1>4. CASE InsertDetails(s)
  <2>1. /\ pc[s] # "order" /\ Goto(s, "payment") /\ SameCycle
        /\ Writes(s, {}, HistoryRow(batch[s], cycle[s]),
                  {MovementRow(batch[s], cycle[s], pick[s][1])})
        /\ DOMAIN orders' = Sessions /\ DOMAIN pick' = Sessions
        /\ \A q \in Sessions \ {s} : orders'[q] = orders[q] /\ pick'[q] = pick[q]
    BY <1>2, <1>4 DEF InsertDetails, Shape
  <2>2. QED
    BY <1>1, <2>1, PlainRows DEF Outside, Labels
<1>5. CASE CreatePayment(s)
  <2>1. /\ pc[s] # "order" /\ Goto(s, "shipment") /\ SameCycle /\ orders' = orders /\ pick' = pick
        /\ \E x, y : Writes(s, {}, PaymentRow(batch[s], cycle[s], x, y), {})
    BY <1>5 DEF CreatePayment
  <2>2. QED
    BY <1>1, <1>2, <2>1, PlainRows DEF Shape, Outside, Labels
<1>6. CASE CreateShipment(s)
  <2>1. /\ pc[s] # "order" /\ Goto(s, "review") /\ SameCycle /\ orders' = orders /\ pick' = pick
        /\ \E x, y : Writes(s, {}, ShipmentRow(batch[s], cycle[s], x, y), {})
    BY <1>6 DEF CreateShipment
  <2>2. QED
    BY <1>1, <1>2, <2>1, PlainRows DEF Shape, Outside, Labels
<1>7. CASE CreateReview(s)
  <2>1. /\ pc[s] # "order" /\ Goto(s, "restock") /\ SameCycle /\ orders' = orders /\ pick' = pick
        /\ \E x, y, z : Writes(s, {}, ReviewRow(batch[s], cycle[s], x, y, z), {})
    BY <1>7 DEF CreateReview
  <2>2. QED
    BY <1>1, <1>2, <2>1, PlainRows DEF Shape, Outside, Labels
<1>8. QED
  BY <1>3, <1>4, <1>5, <1>6, <1>7

(* Of an inventory that nobody else has written a transaction sees the sum *)
(* of the rows it sees.                                                    *)
LEMMA SeenIsTotal ==
  ASSUME NEW s \in Sessions, Balanced, Resolving, NEW i \in Inventories,
         InventoryId(i) \in Ids(Visible(s)), Taking(s, i) = 0
  PROVE  InView(s, i) \in Nat /\ Total(Stocked(Visible(s), i)) = InView(s, i)
<1>1. Adds(own[s], held[s][i], 0, i) /\ FitsIn(own[s])
  BY DEF Balanced, SessionBalances
<1>2. CASE held[s][i] # Free
  <2>1. held[s][i] \in Nat /\ Total(Stocked(rows \cup own[s], i)) = held[s][i] + 0
    BY <1>1, <1>2 DEF Adds
  <2>2. QED
    BY <1>2, <2>1 DEF InView, Visible
<1>3. CASE held[s][i] = Free
  <2>1. Stocked(own[s], i) = {}
    BY <1>1, <1>3 DEF Adds
  <2>2. InventoryId(i) \notin Ids(own[s])
    BY <1>1, <2>1, InventoryIsStocked DEF FitsIn
  <2>3. InventoryId(i) \in Ids(rows)
    BY <2>2 DEF Ids, Visible
  <2>4. stock[i] = Total(Stocked(rows, i)) /\ stock[i] \in Nat
    BY <2>3 DEF Balanced, RowsBalance, OnHand
  <2>5. Stocked(Visible(s), i) = Stocked(rows, i)
    BY <2>1 DEF Stocked, Visible
  <2>6. QED
    BY <1>3, <2>4, <2>5 DEF InView
<1>4. QED
  BY <1>2, <1>3

LEMMA VisibleRowsFit ==
  ASSUME NEW s \in Sessions, Balanced
  PROVE  /\ \A r \in Visible(s) : RowFits(r, Ids(Visible(s)))
         /\ IsFiniteSet(StockRows(Visible(s)))
         /\ \A r \in Visible(s) : r.units # NoUnits => r.units[2] \in Int
<1>1. /\ \A r \in rows : RowFits(r, Ids(rows))
      /\ \A r \in own[s] : RowFits(r, Ids(rows \cup own[s]))
      /\ IsFiniteSet(StockRows(rows)) /\ IsFiniteSet(StockRows(own[s]))
  BY DEF Balanced, RowsBalance, SessionBalances, FitsIn
<1>2. Ids(rows) \subseteq Ids(rows \cup own[s])
  BY DEF Ids
<1>3. \A r \in Visible(s) : RowFits(r, Ids(Visible(s)))
  BY <1>1, <1>2 DEF Visible, RowFits
<1>4. IsFiniteSet(StockRows(Visible(s)))
  BY <1>1, FiniteUnions DEF Visible
<1>5. QED
  BY <1>3, <1>4 DEF RowFits

(* UPDATE ... WHERE available_quantity >= quantity.                        *)
LEMMA DecreaseBalances ==
  ASSUME NEW s \in Sessions, Balanced, Resolving, Decrease(s)
  PROVE  Balanced'
<1> DEFINE i == pick[s][1]
           n == pick[s][3]
<1>1. /\ pc[s] = "decrease" /\ ~LockedByOther(s, i) /\ InView(s, i) >= n
      /\ held' = [held EXCEPT ![s][i] = InView(s, i) - n]
      /\ UNCHANGED <<rows, stock, own, buffer, orders, pick, batch, cycle>> /\ Goto(s, "order")
  BY DEF Decrease, Reaches, Enough, SameCycle, Quiet
<1>2. i \in Inventories /\ n \in Nat
  BY <1>1 DEF Balanced, Picked
<1>3. InView(s, i) \in Nat /\ Total(Stocked(rows \cup own[s], i)) = InView(s, i)
  <2>1. InventoryId(i) \in Ids(Visible(s))
    BY <1>1 DEF Resolving, SessionResolves, PickResolves
  <2>2. Taking(s, i) = 0
    BY <1>1 DEF Taking
  <2>3. QED
    BY <1>2, <2>1, <2>2, SeenIsTotal DEF Visible
<1>4. OthersKeep(s) /\ pc'[s] = "order"
  BY <1>1 DEF Goto, Resolving, Shape, OthersKeep
<1>5. /\ held'[s][i] = InView(s, i) - n
      /\ \A j \in Inventories : j # i => held'[s][j] = held[s][j]
  BY <1>1, <1>2 DEF Resolving, Shape
<1> DEFINE v == InView(s, i)
<1>6. v - n \in Nat /\ (v - n) + n = v /\ v - n # Free
  BY <1>1, <1>2, <1>3 DEF Free
<1>7. \A j \in Inventories : Adds(own[s], held[s][j], Taking(s, j), j)'
  <2> HIDE DEF v, n, i
  <2>1. \A j : /\ Stocked(own[s], j)' = Stocked(own[s], j)
               /\ Total(Stocked(rows \cup own[s], j))' = Total(Stocked(rows \cup own[s], j))
    BY <1>1 DEF Stocked, Total
  <2>2. ASSUME NEW j \in Inventories, j # i
        PROVE  Adds(own[s], held[s][j], Taking(s, j), j)'
    <3>1. Taking(s, j)' = 0 /\ Taking(s, j) = 0
      BY <1>1, <1>4, <2>2 DEF Taking, i
    <3>2. Adds(own[s], held[s][j], 0, j)
      BY <3>1 DEF Balanced, SessionBalances
    <3>3. held'[s][j] = held[s][j]
      BY <1>5, <2>2
    <3>4. QED
      BY <2>1, <3>1, <3>2, <3>3 DEF Adds
  <2>3. Adds(own[s], held[s][i], Taking(s, i), i)'
    <3>1. Taking(s, i)' = n
      BY <1>1, <1>4 DEF Taking, i, n
    <3>2. held'[s][i'] = v - n /\ i' = i
      BY <1>1, <1>5 DEF i, n, v
    <3>3. Total(Stocked(rows \cup own[s], i))' = v
      BY <1>3, <2>1, <3>2 DEF v
    <3>4. QED
      BY <1>6, <3>1, <3>2, <3>3 DEF Adds
  <2>4. i' = i
    BY <1>1 DEF i
  <2>5. QED
    BY <2>2, <2>3, <2>4
<1>8. SessionBalances(s)'
  <2>1. SessionBalances(s)
    BY DEF Balanced
  <2>2. FitsIn(own[s])' /\ \A r \in buffer'[s] : Plain(r)
    BY <1>1, <2>1 DEF SessionBalances, FitsIn, RowFits, Ids, StockRows, Plain
  <2>3. QED
    BY <1>7, <2>2 DEF SessionBalances, Plain
<1>9. Picked(s)'
  BY <1>1, <1>2, <1>4, <1>5, <1>6 DEF Picked
<1>10. \A q \in Sessions \ {s} : held[q][i] = Free
  BY <1>1 DEF LockedByOther, Writer
<1>11. QED
  BY <1>1, <1>4, <1>5, <1>8, <1>9, <1>10, UncommittedBalances

(* What is numbered by the cycle a batch is in is new, until it is past.   *)
LEMMA StockIsNew ==
  ASSUME NEW s \in Sessions, Turns, InBatch(s), NEW r, r.units # NoUnits,
         Number(r) = cycle[s], ~Past(Table(r.id), pc[s])
  PROVE  \A q \in Sessions : r \notin Visible(q)
<1>1. SUFFICES ASSUME NEW q \in Sessions, r \in Visible(q)
               PROVE  FALSE
  OBVIOUS
<1>2. r \in AllStock
  BY <1>1 DEF AllStock, StockRows, Visible
<1>3. NotAhead(s, r)
  BY <1>2 DEF Turns
<1>4. cycle[s] \in cycle[s]..LastCycle(s)
  <2>1. InTurn(s)
    BY DEF Turns
  <2>2. settings.size \in Nat
    BY SimulatorAssumption DEF Turns
  <2>3. QED
    BY <2>1, <2>2 DEF InTurn, LastCycle
<1>5. QED
  BY <1>3, <1>4 DEF NotAhead

LEMMA InsertOrderBalances ==
  ASSUME NEW s \in Sessions, Accounting, InsertOrder(s)
  PROVE  Balanced'
<1> DEFINE i == pick[s][1]
           n == pick[s][3]
<1>1. PICK c : Writes(s, {OrderRow(batch[s], cycle[s], c, i, n)},
                      ItemRow(batch[s], cycle[s], pick[s][2]), {})
  BY DEF InsertOrder
<1> DEFINE x == OrderRow(batch[s], cycle[s], c, i, n)
           O == own[s] \cup {x}
<1>2. /\ pc[s] = "order" /\ Goto(s, "details") /\ SameCycle /\ orders' = orders /\ pick' = pick
      /\ Balanced /\ Resolving /\ Turns
  BY DEF InsertOrder, Accounting
<1>3. i \in Inventories /\ n \in Nat /\ held[s][i] # Free
  BY <1>2 DEF Balanced, Picked
<1>4. InventoryId(i) \in Ids(rows \cup own[s])
  BY <1>2 DEF Resolving, SessionResolves, PickResolves, Visible
<1>5. /\ x.units # NoUnits /\ x.units[1] = i /\ x.units[2] = -n
      /\ x.id[3] = cycle[s] /\ Table(x.id) = "orders"
  BY RowsOfStock
<1> HIDE DEF x
<1>6. x \notin rows \cup own[s]
  <2>1. Number(x) = cycle[s] /\ ~Past(Table(x.id), pc[s]) /\ InBatch(s)
    BY <1>2, <1>5 DEF Number, Past, BeforeOrder, InBatch
  <2>2. QED
    BY <1>2, <1>5, <2>1, StockIsNew DEF Visible
<1>7. /\ IsFiniteSet(StockRows(rows \cup own[s]))
      /\ \A r \in rows \cup own[s] : r.units # NoUnits => r.units[2] \in Int
  BY <1>2, VisibleRowsFit DEF Visible
<1>8. rows \cup O = (rows \cup own[s]) \cup {x}
  OBVIOUS
<1>9. FitsIn(O)
  <2>1. Ids(rows \cup own[s]) \subseteq Ids(rows \cup O)
    BY DEF Ids
  <2>2. FitsIn(own[s])
    BY <1>2 DEF Balanced, SessionBalances
  <2>3. RowFits(x, Ids(rows \cup O))
    <3>0. InventoryId(i) \in Ids(rows \cup O)
      BY <1>4, <2>1
    <3>1. InventoryId(i) \in Ids(rows \cup O) /\ -n \in Int
      BY <1>3, <3>0
    <3> HIDE DEF O
    <3>2. QED
      BY <1>3, <1>5, <3>1 DEF RowFits, StockTables
  <2>4. \A r \in own[s] : RowFits(r, Ids(rows \cup O))
    BY <2>1, <2>2 DEF FitsIn, RowFits
  <2>5. IsFiniteSet(StockRows(O))
    BY <2>2, FiniteMore DEF FitsIn
  <2>6. QED
    BY <2>3, <2>4, <2>5 DEF FitsIn
<1>10. ASSUME NEW j \in Inventories
       PROVE  Adds(O, held[s][j], 0, j)
  <2>1. Adds(own[s], held[s][j], Taking(s, j), j)
    BY <1>2 DEF Balanced, SessionBalances
  <2> HIDE DEF i, n
  <2>2. CASE j # i
    <3>1. Taking(s, j) = 0
      BY <2>2 DEF Taking, i
    <3>2. /\ Stocked(O, j) = Stocked(own[s], j)
          /\ Stocked(rows \cup O, j) = Stocked(rows \cup own[s], j)
      BY <1>5, <2>2 DEF Stocked
    <3> HIDE DEF O
    <3>3. QED
      BY <2>1, <3>1, <3>2 DEF Adds
  <2>3. CASE j = i
    <3>1. Taking(s, j) = n
      BY <1>2, <2>3 DEF Taking, i, n
    <3>2. held[s][j] \in Nat /\ Total(Stocked(rows \cup own[s], j)) = held[s][j] + n
      BY <1>3, <2>1, <2>3, <3>1 DEF Adds
    <3>3. -n \in Int
      BY <1>3
    <3>4. Total(Stocked(rows \cup O, j)) = Total(Stocked(rows \cup own[s], j)) + x.units[2]
      <4>1. x.units[2] \in Int /\ x.units[1] = j
        BY <1>5, <2>3, <3>3
      <4> DEFINE V == rows \cup own[s]
      <4>2. IsFiniteSet(StockRows(V)) /\ (\A r \in V : r.units # NoUnits => r.units[2] \in Int)
            /\ x \notin V
        BY <1>6, <1>7
      <4>3. Total(Stocked(rows \cup O, j)) = Total(Stocked(V \cup {x}, j))
        BY <1>8
      <4> HIDE DEF V
      <4>4. Total(Stocked(V \cup {x}, j)) = Total(Stocked(V, j)) + x.units[2]
        BY <1>5, <4>1, <4>2, InsertedUnits
      <4>5. QED
        BY <4>3, <4>4 DEF V
    <3>5. Total(Stocked(rows \cup O, j)) = held[s][j] + 0
      BY <1>3, <1>5, <3>2, <3>4
    <3> HIDE DEF O
    <3>6. QED
      BY <1>3, <2>3, <3>2, <3>5 DEF Adds
  <2>4. QED
    BY <2>2, <2>3
<1>11. Writes(s, {x}, ItemRow(batch[s], cycle[s], pick[s][2]), {})
  BY <1>1 DEF x
<1>12. \A r \in {ItemRow(batch[s], cycle[s], pick[s][2])} \cup {} : Plain(r)
  BY PlainRows
<1>13. DOMAIN orders' = Sessions /\ DOMAIN pick' = Sessions
  BY <1>2 DEF Resolving, Shape
<1>14. "details" \in Outside
  BY DEF Outside, Labels
<1>15. QED
  BY <1>2, <1>9, <1>10, <1>11, <1>12, <1>13, <1>14, WritesBalance

(* A row of stock is inserted and the quantity it changes is written.      *)
InsertsStock(s, now, x) ==
  LET i == x.units[1] IN
  /\ pc[s] # "order" /\ pc'[s] \in Outside /\ UNCHANGED <<rows, stock>>
  /\ \A r \in now : Plain(r)
  /\ x.units # NoUnits /\ i \in Inventories /\ x.units[2] \in Nat
  /\ x \notin Visible(s) /\ RowFits(x, Ids(Visible(s) \cup now \cup {x}))
  /\ own'[s] = (own[s] \cup now) \cup {x} /\ buffer'[s] = buffer[s]
  /\ \A q \in Sessions \ {s} : held[q][i] = Free
  /\ \E v \in Nat : Total(Stocked(Visible(s), i)) = v /\ held'[s][i] = v + x.units[2]
  /\ \A j \in Inventories : j # i => held'[s][j] = held[s][j]

LEMMA InsertBalances ==
  ASSUME NEW s \in Sessions, Balanced, Resolving, OthersKeep(s), NEW now, NEW x,
         InsertsStock(s, now, x)
  PROVE  Balanced'
<1>0. PICK v \in Nat : /\ Total(Stocked(Visible(s), x.units[1])) = v
                      /\ held'[s][x.units[1]] = v + x.units[2]
  BY DEF InsertsStock
<1> DEFINE O == own[s] \cup now
           i == x.units[1]
           n == x.units[2]
<1> USE <1>0 DEF InsertsStock
<1>1. FitsIn(O) /\ \A j \in Inventories : Adds(O, held[s][j], 0, j)
  BY PlainInsert DEF Balanced
<1>2. /\ IsFiniteSet(StockRows(Visible(s)))
      /\ \A r \in Visible(s) : r.units # NoUnits => r.units[2] \in Int
  BY VisibleRowsFit
<1>3. /\ StockRows(Visible(s) \cup now) = StockRows(Visible(s))
      /\ \A j : Stocked(Visible(s) \cup now, j) = Stocked(Visible(s), j)
  BY PlainAddsNothing
<1>4. x \notin Visible(s) \cup now
  BY DEF Plain
<1>5. \A r \in Visible(s) \cup now : r.units # NoUnits => r.units[2] \in Int
  BY <1>2 DEF Plain
<1>6. rows' \cup own'[s] = (Visible(s) \cup now) \cup {x} /\ rows \cup O = Visible(s) \cup now
  BY DEF Visible
<1>7. i \in Inventories /\ n \in Nat /\ n \in Int /\ v + n \in Nat /\ v + n # Free
  BY DEF Free
<1>8. \A j : Taking(s, j)' = 0
  BY DEF Taking, Outside
<1>9. \A j : /\ Stocked(own[s], j)' = Stocked(O \cup {x}, j)
             /\ Total(Stocked(rows \cup own[s], j))' =
                  Total(Stocked((Visible(s) \cup now) \cup {x}, j))
  BY <1>6 DEF Stocked, Total
<1>10. ASSUME NEW j \in Inventories
       PROVE  Adds(own[s], held[s][j], Taking(s, j), j)'
  <2>1. CASE j # i
    <3>1. /\ Stocked(O \cup {x}, j) = Stocked(O, j)
          /\ Stocked((Visible(s) \cup now) \cup {x}, j) = Stocked(Visible(s) \cup now, j)
      BY <2>1 DEF Stocked
    <3>2. held'[s][j] = held[s][j]
      BY <2>1
    <3> HIDE DEF O
    <3>3. QED
      BY <1>1, <1>6, <1>8, <1>9, <3>1, <3>2 DEF Adds
  <2>2. CASE j = i
    <3>1. Total(Stocked((Visible(s) \cup now) \cup {x}, j)) =
            Total(Stocked(Visible(s) \cup now, j)) + n
      <4> DEFINE V == Visible(s) \cup now
      <4>1. IsFiniteSet(StockRows(V))
        BY <1>2, <1>3
      <4>2. x \notin V /\ \A r \in V : r.units # NoUnits => r.units[2] \in Int
        BY <1>4, <1>5
      <4>3. x.units # NoUnits /\ x.units[1] = j /\ x.units[2] \in Int
        BY <1>7, <2>2
      <4> HIDE DEF V
      <4>4. Total(Stocked(V \cup {x}, j)) = Total(Stocked(V, j)) + x.units[2]
        BY ONLY <4>1, <4>2, <4>3, InsertedUnits
      <4>5. QED
        BY <4>4 DEF V
    <3>2. Total(Stocked(rows \cup own[s], j))' = v + n
      BY <1>3, <1>9, <2>2, <3>1
    <3>3. held'[s][j] = v + n
      BY <2>2
    <3>4. held'[s][j] # Free /\ held'[s][j] \in Nat /\ (v + n) + 0 = v + n
      BY <1>7, <3>3
    <3>5. QED
      BY <1>8, <3>2, <3>3, <3>4 DEF Adds
  <2>3. QED
    BY <2>1, <2>2
<1>11. FitsIn(own[s])'
  <2>1. Ids(rows \cup O) \subseteq Ids(rows' \cup own'[s])
    BY DEF Ids
  <2>2. \A r \in O : RowFits(r, Ids(rows' \cup own'[s]))
    BY <1>1, <2>1 DEF FitsIn, RowFits
  <2>3. RowFits(x, Ids(rows' \cup own'[s]))
    BY <1>6
  <2>4. IsFiniteSet(StockRows(O \cup {x}))
    BY <1>1, FiniteMore DEF FitsIn
  <2>5. \A r \in own'[s] : RowFits(r, Ids(rows' \cup own'[s]))
    BY <2>2, <2>3
  <2>6. QED
    BY <2>4, <2>5 DEF FitsIn, RowFits, Ids, Plain, StockRows
<1>12. SessionBalances(s)'
  <2>1. \A r \in buffer'[s] : Plain(r)
    BY DEF Balanced, SessionBalances
  <2>2. QED
    BY <1>10, <1>11, <2>1 DEF SessionBalances, Plain
<1>13. Picked(s)'
  BY DEF Picked, Outside
<1>14. QED
  BY <1>12, <1>13, UncommittedBalances

LEMMA IncreaseBalances ==
  ASSUME NEW s \in Sessions, Accounting, Increase(s)
  PROVE  Balanced'
<1> DEFINE i == pick[s][1]
           n == pick[s][3]
           x == RestockRow(batch[s], cycle[s], i, n)
<1>1. /\ pc[s] = "increase" /\ ~LockedByOther(s, i) /\ Goto(s, "next")
      /\ held' = [held EXCEPT ![s][i] = InView(s, i) + n]
      /\ own' = [own EXCEPT ![s] = @ \cup {x}]
      /\ pick' = [pick EXCEPT ![s] = NoPick] /\ UNCHANGED <<rows, stock, buffer, orders>>
      /\ batch' = batch /\ cycle' = cycle /\ Balanced /\ Resolving /\ Turns
  BY DEF Increase, SameCycle, Quiet, Accounting
<1>2. i \in Inventories /\ n \in Nat
  BY <1>1 DEF Balanced, Picked
<1>3. /\ x.units # NoUnits /\ x.units[1] = i /\ x.units[2] = n
      /\ x.id[3] = cycle[s] /\ Table(x.id) = "restocks"
  BY RowsOfStock
<1> DEFINE none == {}
<1> HIDE DEF x, none
<1>4. OthersKeep(s) /\ pc'[s] = "next"
  BY <1>1 DEF Goto, Resolving, Shape, OthersKeep
<1>5. x \notin Visible(s)
  <2>1. Number(x) = cycle[s] /\ ~Past(Table(x.id), pc[s]) /\ InBatch(s)
    BY <1>1, <1>3 DEF Number, Past, InBatch
  <2>2. QED
    BY <1>1, <1>3, <2>1, StockIsNew
<1>6. InventoryId(i) \in Ids(Visible(s))
  BY <1>1 DEF Resolving, SessionResolves, PickResolves
<1>7. InView(s, i) \in Nat /\ Total(Stocked(Visible(s), i)) = InView(s, i)
  <2>1. Taking(s, i) = 0
    BY <1>1 DEF Taking
  <2>2. QED
    BY <1>1, <1>2, <1>6, <2>1, SeenIsTotal
<1>8. RowFits(x, Ids(Visible(s) \cup none \cup {x}))
  <2>1. InventoryId(i) \in Ids(Visible(s) \cup none \cup {x})
    BY <1>6 DEF Ids
  <2>2. QED
    BY <1>2, <1>3, <2>1 DEF RowFits, StockTables
<1>9. own'[s] = (own[s] \cup none) \cup {x} /\ buffer'[s] = buffer[s]
  BY <1>1 DEF Resolving, Shape, none
<1>10. /\ held'[s][i] = InView(s, i) + n
       /\ \A j \in Inventories : j # i => held'[s][j] = held[s][j]
  BY <1>1, <1>2 DEF Resolving, Shape
<1>11. \A q \in Sessions \ {s} : held[q][i] = Free
  BY <1>1 DEF LockedByOther, Writer
<1>12. pc[s] # "order" /\ pc'[s] \in Outside /\ \A r \in none : Plain(r)
  BY <1>1, <1>4 DEF Outside, Labels, none
<1>13. /\ \A r \in none : Plain(r)
       /\ \E v \in Nat : Total(Stocked(Visible(s), i)) = v /\ held'[s][i] = v + n
  BY <1>7, <1>10 DEF none
<1> HIDE DEF i, n
<1>14. InsertsStock(s, none, x)
  BY <1>1, <1>2, <1>3, <1>5, <1>8, <1>9, <1>10, <1>11, <1>12, <1>13 DEF InsertsStock
<1>15. QED
  BY <1>1, <1>4, <1>14, InsertBalances

(* Rows that are of no stock, or none at all, change no quantity.          *)
LEMMA QuietBalances ==
  ASSUME NEW s \in Sessions, Balanced, OthersKeep(s), UNCHANGED <<rows, stock>>,
         NEW now, \A r \in now : Plain(r), own'[s] = own[s] \cup now, held'[s] = held[s],
         buffer'[s] = buffer[s], pc[s] # "order", pc'[s] # "order", Picked(s)'
  PROVE  Balanced'
<1> DEFINE O == own[s] \cup now
<1>1. FitsIn(O) /\ \A i \in Inventories : Adds(O, held[s][i], 0, i)
  BY PlainInsert DEF Balanced
<1>2. own'[s] = O
  OBVIOUS
<1> HIDE DEF O
<1>3. \A i : /\ Stocked(own[s], i)' = Stocked(O, i)
             /\ Total(Stocked(rows \cup own[s], i))' = Total(Stocked(rows \cup O, i))
  BY <1>2 DEF Stocked, Total
<1>4. \A i : Taking(s, i)' = 0
  BY DEF Taking
<1>5. \A i \in Inventories : Adds(own[s], held[s][i], Taking(s, i), i)'
  BY <1>1, <1>3, <1>4 DEF Adds
<1>6. FitsIn(own[s])'
  BY <1>1, <1>2 DEF FitsIn, RowFits, Ids, Plain, StockRows
<1>7. SessionBalances(s)'
  BY <1>5, <1>6 DEF Balanced, SessionBalances, Plain
<1>8. QED
  BY <1>7, UncommittedBalances

LEMMA NothingBalances ==
  ASSUME NEW s \in Sessions, Balanced, OthersKeep(s), UNCHANGED <<rows, stock, own, held, buffer>>,
         pc[s] # "order", pc'[s] # "order", Picked(s)'
  PROVE  Balanced'
<1> DEFINE none == {}
<1>1. /\ own'[s] = own[s] \cup none /\ held'[s] = held[s] /\ buffer'[s] = buffer[s]
      /\ \A r \in none : Plain(r)
  OBVIOUS
<1> HIDE DEF none
<1>2. QED
  BY <1>1, QuietBalances

LEMMA RollBackBalances ==
  ASSUME NEW s \in Sessions, Balanced, Resolving, RollBack(s)
  PROVE  Balanced'
<1>1. /\ OthersKeep(s) /\ own'[s] = {} /\ held'[s] = NoneHeld /\ buffer'[s] = {}
      /\ pc'[s] = "dead" /\ UNCHANGED <<rows, stock>>
  BY DEF RollBack, Goto, Resolving, Shape, OthersKeep
<1>2. SessionBalances(s)'
  BY <1>1, ClosedBalances
<1>3. Picked(s)'
  BY <1>1 DEF Picked
<1>4. \A i \in Inventories : held'[s][i] = Free
  BY <1>1 DEF NoneHeld
<1>5. QED
  BY <1>1, <1>2, <1>3, <1>4, UncommittedBalances

(* The inventory a cycle creates is not there, and nobody has written it.  *)
LEMMA InventoryIsNew ==
  ASSUME NEW s \in Sessions, Accounting, pc[s] = "catalog"
  PROVE  /\ NewInventory(s) \in Inventories /\ NewInventory(s) - settings.stocked = cycle[s]
         /\ \A q \in Sessions : InventoryId(NewInventory(s)) \notin Ids(Visible(q))
         /\ \A q \in Sessions : held[q][NewInventory(s)] = Free
<1> DEFINE i == NewInventory(s)
<1>1. InBatch(s) /\ Balanced /\ Resolving /\ Turns
  BY DEF InBatch, Accounting
<1>2. /\ settings.stocked \in 0..MaxStocked /\ settings.size \in Nat /\ last \in 0..MaxCycles
      /\ InTurn(s) /\ MaxStocked \in Nat /\ MaxCycles \in Nat
  BY <1>1, SimulatorAssumption DEF Turns
<1>3. cycle[s] \in 1..MaxCycles
  BY <1>2 DEF InTurn, LastCycle
<1>4. i \in Inventories /\ i - settings.stocked = cycle[s]
  BY <1>2, <1>3 DEF NewInventory, Inventories
<1>5. ASSUME NEW q \in Sessions, InventoryId(i) \in Ids(Visible(q))
      PROVE  FALSE
  <2>1. PICK r \in Visible(q) : r.id = InventoryId(i)
    BY <1>5 DEF Ids
  <2> HIDE DEF i
  <2>2. Table(r.id) = "inventories" /\ r.id[3] = i
    BY <2>1 DEF InventoryId, Table, Id
  <2>3. r.units # NoUnits
    BY <1>1, <2>2, VisibleRowsFit DEF RowFits, Plain
  <2>4. Number(r) = cycle[s] /\ ~Past(Table(r.id), pc[s])
    BY <1>4, <2>2 DEF Number, Past
  <2>5. QED
    BY <1>1, <2>1, <2>3, <2>4, StockIsNew
<1>6. \A q \in Sessions : held[q][i] = Free
  BY <1>1, <1>4, <1>5 DEF Resolving, SessionResolves, DataResolves
<1>7. QED
  BY <1>4, <1>5, <1>6

LEMMA CatalogBalances ==
  ASSUME NEW s \in Sessions, Accounting, CreateCatalog(s)
  PROVE  Balanced'
<1>1. PICK w \in CreateWarehouse(s) : CreateInventory(s, {CreateSeller(s), CreateProduct(s)} \cup w)
  BY DEF CreateCatalog
<1> DEFINE catalog == {CreateSeller(s), CreateProduct(s)} \cup w
           i == NewInventory(s)
<1>2. \A r \in catalog : Plain(r)
  <2>1. Plain(CreateSeller(s)) /\ Plain(CreateProduct(s))
    BY PlainRows DEF CreateSeller, CreateProduct
  <2>2. \A r \in w : Plain(r)
    BY PlainRows DEF CreateWarehouse
  <2>3. \A r \in catalog : r = CreateSeller(s) \/ r = CreateProduct(s) \/ r \in w
    OBVIOUS
  <2>4. QED
    BY <2>1, <2>2, <2>3
<1>3. /\ pc'[s] = "reserve" /\ pc[s] = "catalog" /\ UNCHANGED <<rows, stock, buffer>>
      /\ OthersKeep(s) /\ Balanced /\ Resolving /\ Turns
  BY <1>1 DEF Accounting, CreateCatalog, CreateInventory, Goto, SameCycle, Quiet, Resolving, Shape,
     OthersKeep
<1>4. pc[s] # "order" /\ pc'[s] \in Outside /\ Picked(s)'
  BY <1>3 DEF Outside, Labels, Picked
<1>5. CASE own' = [own EXCEPT ![s] = @ \cup catalog] /\ UNCHANGED held
  <2>1. own'[s] = own[s] \cup catalog /\ held'[s] = held[s] /\ buffer'[s] = buffer[s]
    BY <1>3, <1>5 DEF Resolving, Shape
  <2> HIDE DEF catalog
  <2>2. QED
    BY <1>2, <1>3, <1>4, <2>1, QuietBalances
<1>6. ASSUME NEW place, NEW p, NEW q \in Levels,
             own' = [own EXCEPT ![s] = @ \cup catalog \cup {InventoryRow(i, place, p, q)}],
             held' = [held EXCEPT ![s][i] = q]
      PROVE  Balanced'
  <2> DEFINE x == InventoryRow(i, place, p, q)
  <2>1. /\ i \in Inventories /\ i - settings.stocked = cycle[s] /\ q \in Nat
        /\ InventoryId(i) \notin Ids(Visible(s))
        /\ \A z \in Sessions \ {s} : held[z][i] = Free
    BY <1>3, InventoryIsNew, SimulatorAssumption
  <2>2. /\ x.units # NoUnits /\ x.units[1] = i /\ x.units[2] = q
        /\ x.id = InventoryId(i) /\ Table(x.id) = "inventories"
    BY RowsOfStock
  <2>3. own'[s] = (own[s] \cup catalog) \cup {x} /\ buffer'[s] = buffer[s]
    BY <1>3, <1>6 DEF Resolving, Shape
  <2> HIDE DEF x, catalog
  <2>4. x \notin Visible(s)
    BY <2>1, <2>2 DEF Ids
  <2>5. RowFits(x, Ids(Visible(s) \cup catalog \cup {x}))
    <3>1. InventoryId(i) \in Ids(Visible(s) \cup catalog \cup {x})
      BY <2>2 DEF Ids
    <3>2. QED
      BY <2>1, <2>2, <3>1 DEF RowFits, StockTables
  <2>6. Stocked(Visible(s), i) = {}
    <3>1. \A r \in Visible(s) : RowFits(r, Ids(Visible(s)))
      BY <1>3, VisibleRowsFit
    <3>2. QED
      BY <2>1, <3>1 DEF Stocked, RowFits
  <2>7. Total(Stocked(Visible(s), i)) = 0
    BY <2>6, TotalOfNone
  <2>8. /\ held'[s][i] = 0 + q
        /\ \A j \in Inventories : j # i => held'[s][j] = held[s][j]
    BY <1>3, <1>6, <2>1 DEF Resolving, Shape
  <2>9. \E v \in Nat : Total(Stocked(Visible(s), i)) = v /\ held'[s][i] = v + q
    BY <2>7, <2>8
  <2>10. \A r \in catalog : Plain(r)
    BY <1>2 DEF catalog
  <2> HIDE DEF i
  <2>11. InsertsStock(s, catalog, x)
    BY <1>3, <1>4, <2>1, <2>2, <2>3, <2>4, <2>5, <2>8, <2>9, <2>10 DEF InsertsStock
  <2>12. QED
    BY <1>3, <2>11, InsertBalances
<1>7. QED
  BY <1>1, <1>5, <1>6 DEF CreateInventory

LEMMA QuietStepsBalance ==
  ASSUME NEW s \in Sessions, Accounting,
         \/ Reserve(s) \/ ReserveAgain(s) \/ ChooseRestock(s) \/ NoRestock(s)
         \/ BeginBatch(s) \/ NextCycle(s) \/ Restart(s)
  PROVE  Balanced'
<1>1. Balanced /\ Shape
  BY DEF Accounting, Resolving
<1>2. UNCHANGED <<rows, stock, own, held, buffer>>
  BY DEF Reserve, ReserveAgain, ChooseRestock, NoRestock, BeginBatch, NextCycle, Restart
<1>3. OthersKeep(s) /\ pc[s] # "order"
  <2>1. CASE Reserve(s) \/ ReserveAgain(s) \/ ChooseRestock(s) \/ NoRestock(s)
    BY <1>1, <2>1 DEF Reserve, ReserveAgain, Reaches, ChooseRestock, NoRestock, Goto, SameCycle,
       Quiet, Shape, OthersKeep
  <2>2. CASE BeginBatch(s) \/ NextCycle(s) \/ Restart(s)
    BY <1>1, <2>2 DEF BeginBatch, NextCycle, Restart, Goto, SameCycle, Quiet, Shape, OthersKeep
  <2>3. QED
    BY <2>1, <2>2
<1>4. CASE Reserve(s)
  <2>1. PICK i \in Inventories, q \in 1..MaxQuantity :
          pick' = [pick EXCEPT ![s] = <<i, ParentOf(s, InventoryId(i), "products"), q>>]
    BY <1>4 DEF Reserve
  <2>2. pick'[s][1] = i /\ pick'[s][3] = q /\ q \in Nat /\ pc'[s] = "decrease"
    BY <1>1, <1>4, <2>1, SimulatorAssumption DEF Reserve, Goto, Shape
  <2>3. Picked(s)'
    BY <2>2 DEF Picked
  <2>4. QED
    BY <1>1, <1>2, <1>3, <2>2, <2>3, NothingBalances
<1>5. CASE ChooseRestock(s)
  <2>1. PICK i \in Inventories, q \in Restocks : pick' = [pick EXCEPT ![s] = <<i, NoUnits, q>>]
    BY <1>5 DEF ChooseRestock, Low, Seen
  <2>2. pick'[s][1] = i /\ pick'[s][3] = q /\ q \in Nat /\ pc'[s] = "increase"
    BY <1>1, <1>5, <2>1, SimulatorAssumption DEF ChooseRestock, Goto, Shape
  <2>3. Picked(s)'
    BY <2>2 DEF Picked
  <2>4. QED
    BY <1>1, <1>2, <1>3, <2>2, <2>3, NothingBalances
<1>6. CASE ReserveAgain(s) \/ NoRestock(s) \/ BeginBatch(s) \/ NextCycle(s) \/ Restart(s)
  <2>1. pc'[s] \in {"reserve", "next", "customer", "idle"}
    BY <1>1, <1>6 DEF ReserveAgain, NoRestock, BeginBatch, NextCycle, Restart, Goto, Shape
  <2>2. Picked(s)'
    BY <2>1 DEF Picked
  <2>3. QED
    BY <1>1, <1>2, <1>3, <2>1, <2>2, NothingBalances
<1>7. QED
  BY <1>4, <1>5, <1>6

LEMMA LastStepsBalance ==
  ASSUME NEW s \in Sessions, Balanced, Resolving, LastFlush(s) \/ EndBatch(s)
  PROVE  Balanced'
<1>1. ASSUME NEW L, NEW label, \A r \in L : Plain(r), pc[s] # "order", Goto(s, label),
             label \in Outside, CommitWith(s, L), OthersKeep(s), \A r \in buffer'[s] : Plain(r)
      PROVE  Balanced'
  <2>1. SessionBalances(s)
    BY DEF Balanced
  <2>2. FitsIn(own[s]) /\ \A i \in Inventories : Adds(own[s], held[s][i], 0, i)
    BY <1>1, <2>1 DEF SessionBalances, Taking
  <2>3. own'[s] = {} /\ held'[s] = NoneHeld
    BY <1>1, CommitKeepsShape DEF Resolving
  <2>4. rows' = (rows \cup own[s]) \cup L /\ stock' = [i \in Inventories |-> InView(s, i)]
    BY <1>1 DEF CommitWith
  <2>5. pc'[s] \in Outside
    BY <1>1 DEF Goto, Resolving, Shape
  <2>6. QED
    BY <1>1, <2>2, <2>3, <2>4, <2>5, TransactionCommits
<1>2. \A r \in buffer[s] : Plain(r)
  BY DEF Balanced, SessionBalances
<1>3. CASE LastFlush(s) /\ buffer[s] = {}
  <2>1. /\ UNCHANGED <<rows, stock, own, held, buffer>> /\ OthersKeep(s)
        /\ pc[s] = "next" /\ pc'[s] = "commit"
    BY <1>3 DEF LastFlush, Goto, SameCycle, Quiet, Resolving, Shape, OthersKeep
  <2>2. Picked(s)'
    BY <2>1 DEF Picked
  <2>3. QED
    BY <2>1, <2>2, NothingBalances
<1>4. CASE LastFlush(s) /\ buffer[s] # {}
  <2>1. /\ pc[s] = "next" /\ Goto(s, "commit") /\ CommitWith(s, Landing(s, buffer[s]))
        /\ buffer' = [buffer EXCEPT ![s] = {}] /\ SameCycle /\ UNCHANGED <<orders, pick, tries>>
    BY <1>4 DEF LastFlush
  <2>2. OthersKeep(s) /\ buffer'[s] = {}
    BY <2>1, CommitKeepsShape DEF Goto, SameCycle, Quiet, Resolving, Shape, OthersKeep
  <2>3. \A r \in Landing(s, buffer[s]) : Plain(r)
    BY <1>2, LandingIsOfBuffer
  <2>4. QED
    BY <1>1, <2>1, <2>2, <2>3 DEF Outside, Labels
<1>5. CASE EndBatch(s)
  <2>1. /\ pc[s] = "commit" /\ Goto(s, "idle") /\ CommitWith(s, {})
        /\ UNCHANGED <<settings, batch, cycle, buffer, orders, pick, tries, last, crashes>>
    BY <1>5 DEF EndBatch
  <2>2. OthersKeep(s) /\ buffer'[s] = buffer[s]
    BY <2>1, CommitKeepsShape DEF Goto, Resolving, Shape, OthersKeep
  <2>3. QED
    BY <1>1, <1>2, <2>1, <2>2 DEF Outside, Labels
<1>6. QED
  BY <1>3, <1>4, <1>5

-----------------------------------------------------------------------------
(* The turns.  A step inserts stock numbered by its own cycle, at the call *)
(* that comes past it.                                                     *)

LEMMA BatchesApart ==
  ASSUME NEW s \in Sessions, NEW q \in Sessions, s # q, Turns, InBatch(s), InBatch(q)
  PROVE  /\ cycle[s] \notin cycle[q]..LastCycle(q) /\ cycle[s] \in Int /\ cycle[s] <= last
<1>1. settings.size \in Nat /\ last \in Nat
  BY SimulatorAssumption DEF Turns
<1>2. InTurn(s) /\ InTurn(q) /\ (LastCycle(s) < batch[q] \/ LastCycle(q) < batch[s])
  BY DEF Turns
<1>3. QED
  BY <1>1, <1>2 DEF InTurn, LastCycle

LEMMA StockTurns ==
  ASSUME NEW s \in Sessions, Turns, OthersKeep(s), UNCHANGED <<settings, last>>,
         InBatch(s)' =>
           /\ InBatch(s) /\ batch'[s] = batch[s] /\ cycle'[s] = cycle[s]
           /\ \A t : Past(t, pc[s]) => Past(t, pc'[s]),
         NEW L, AllStock' \subseteq AllStock \cup L,
         \A r \in L : InBatch(s)' /\ Number(r) = cycle[s] /\ Past(Table(r.id), pc'[s])
  PROVE  Turns'
<1>1. /\ \A r : Number(r)' = Number(r)
      /\ \A q \in Sessions \ {s} : /\ InBatch(q)' = InBatch(q) /\ LastCycle(q)' = LastCycle(q)
                                   /\ InTurn(q)' = InTurn(q)
                                   /\ \A r : NotAhead(q, r)' = NotAhead(q, r)
      /\ InBatch(s)' => LastCycle(s)' = LastCycle(s) /\ InTurn(s)' = InTurn(s)
  BY DEF Number, InBatch, LastCycle, InTurn, NotAhead, Past, OthersKeep
<1>2. \A q \in Sessions : InBatch(q)' =>
        InBatch(q) /\ batch'[q] = batch[q] /\ LastCycle(q)' = LastCycle(q) /\ InTurn(q)' = InTurn(q)
  BY <1>1 DEF OthersKeep
<1>3. \A q, p \in Sessions : q # p /\ InBatch(q)' /\ InBatch(p)' =>
        LastCycle(q)' < batch'[p] \/ LastCycle(p)' < batch'[q]
  BY <1>2 DEF Turns
<1>4. ASSUME NEW r \in AllStock'
      PROVE  /\ Number(r)' \in Int /\ Number(r)' <= last'
             /\ \A q \in Sessions : InBatch(q)' => NotAhead(q, r)'
  <2>1. CASE r \in AllStock
    <3>1. Number(r) \in Int /\ Number(r) <= last
      BY <2>1 DEF Turns
    <3>2. ASSUME NEW q \in Sessions, InBatch(q)'
          PROVE  NotAhead(q, r)'
      <4>1. NotAhead(q, r)
        BY <1>2, <2>1, <3>2 DEF Turns
      <4>2. CASE q = s
        BY <1>1, <3>2, <4>1, <4>2 DEF NotAhead
      <4>3. QED
        BY <1>1, <4>1, <4>2
    <3>3. QED
      BY <1>1, <3>1, <3>2
  <2>2. CASE r \in L
    <3>1. InBatch(s)' /\ InBatch(s) /\ Number(r) = cycle[s] /\ Past(Table(r.id), pc'[s])
      BY <2>2
    <3>2. Number(r) \in Int /\ Number(r) <= last
      <4>1. settings.size \in Nat /\ last \in Nat /\ InTurn(s)
        BY <3>1, SimulatorAssumption DEF Turns
      <4>2. QED
        BY <3>1, <4>1 DEF InTurn, LastCycle
    <3>3. ASSUME NEW q \in Sessions, InBatch(q)'
          PROVE  NotAhead(q, r)'
      <4>1. CASE q = s
        BY <1>1, <3>1, <4>1 DEF NotAhead
      <4>2. CASE q # s
        <5>1. Number(r) \notin cycle[q]..LastCycle(q)
          BY <1>2, <3>1, <3>3, <4>2, BatchesApart
        <5>2. NotAhead(q, r)
          BY <5>1 DEF NotAhead
        <5>3. QED
          BY <1>1, <4>2, <5>2
      <4>3. QED
        BY <4>1, <4>2
    <3>4. QED
      BY <1>1, <3>2, <3>3
  <2>3. QED
    BY <2>1, <2>2
<1>5. \A q \in Sessions : InBatch(q)' => InTurn(q)'
  BY <1>2 DEF Turns
<1>6. settings' \in Settings /\ last' \in 0..MaxCycles
  BY DEF Turns
<1>7. QED
  BY <1>3, <1>4, <1>5, <1>6 DEF Turns

LEMMA LandingTurns ==
  ASSUME NEW s \in Sessions, Balanced, Turns, OthersKeep(s), UNCHANGED <<settings, last>>,
         NEW now, NEW added, Lands(s, now, added), DOMAIN own' = Sessions,
         InBatch(s)' =>
           /\ InBatch(s) /\ batch'[s] = batch[s] /\ cycle'[s] = cycle[s]
           /\ \A t : Past(t, pc[s]) => Past(t, pc'[s]),
         \A r \in added : ~Plain(r) =>
           InBatch(s)' /\ Number(r) = cycle[s] /\ Past(Table(r.id), pc'[s])
  PROVE  Turns'
<1>1. \A r \in buffer[s] : Plain(r)
  BY DEF Balanced, SessionBalances
<1>2. \A r \in rows' \cup own'[s] : r \in rows \cup own[s] \cup buffer[s] \cup added
  BY DEF Lands
<1> DEFINE L == {r \in added : ~Plain(r)}
<1>3. AllStock' \subseteq AllStock \cup L
  <2>1. ASSUME NEW r \in AllStock'
        PROVE  r \in AllStock \cup L
    <3>1. r.units # NoUnits /\ ~Plain(r)
      BY DEF AllStock, StockRows, Plain
    <3>2. CASE r \in rows' \cup own'[s]
      BY <1>1, <1>2, <3>1, <3>2 DEF AllStock, StockRows
    <3>3. CASE \E q \in Sessions \ {s} : r \in own'[q]
      BY <3>1, <3>3 DEF AllStock, StockRows, OthersKeep
    <3>4. QED
      BY <3>2, <3>3 DEF AllStock, StockRows
  <2>2. QED
    BY <2>1
<1>4. \A r \in L : InBatch(s)' /\ Number(r) = cycle[s] /\ Past(Table(r.id), pc'[s])
  OBVIOUS
<1> HIDE DEF L
<1>5. QED
  BY <1>3, <1>4, StockTurns

LEMMA WritingStepsTurn ==
  ASSUME NEW s \in Sessions, Accounting,
         \/ CreateCustomer(s) \/ InsertOrder(s) \/ InsertDetails(s)
         \/ CreatePayment(s) \/ CreateShipment(s) \/ CreateReview(s)
  PROVE  Turns'
<1>1. ASSUME NEW now, NEW row, NEW more, NEW label, Writes(s, now, row, more), Goto(s, label),
             SameCycle, DOMAIN orders' = Sessions, DOMAIN pick' = Sessions,
             \A q \in Sessions \ {s} : orders'[q] = orders[q] /\ pick'[q] = pick[q],
             InBatch(s), \A t : Past(t, pc[s]) => Past(t, label),
             \A r \in now \cup {row} \cup more : ~Plain(r) =>
               label \notin {"idle", "dead"} /\ Number(r) = cycle[s] /\ Past(Table(r.id), label)
      PROVE  Turns'
  <2>1. Resolving /\ Balanced /\ Turns
    BY DEF Accounting
  <2>2. Lands(s, now, now \cup {row} \cup more) /\ DOMAIN own' = Sessions
    BY <1>1, <2>1, WritesLand DEF Resolving
  <2>3. /\ OthersKeep(s) /\ pc'[s] = label
        /\ batch'[s] = batch[s] /\ cycle'[s] = cycle[s]
    BY <1>1, <2>1, WritesFrame DEF Resolving
  <2>4. UNCHANGED <<settings, last>>
    BY <1>1 DEF SameCycle, Quiet
  <2>5. InBatch(s)' <=> label \notin {"idle", "dead"}
    BY <2>3 DEF InBatch
  <2>6. QED
    BY <1>1, <2>1, <2>2, <2>3, <2>4, <2>5, LandingTurns
<1>2. Shape
  BY DEF Accounting, Resolving
<1>3. CASE CreateCustomer(s)
  <2>1. /\ Writes(s, {CustomerRow(batch[s], cycle[s])}, AddressRow(batch[s], cycle[s]), {})
        /\ Goto(s, "catalog") /\ SameCycle /\ orders' = orders /\ pick' = pick
        /\ pc[s] = "customer"
    BY <1>3 DEF CreateCustomer
  <2>2. \A t : Past(t, "customer") => Past(t, "catalog")
    BY DEF Past, BeforeOrder
  <2>3. \A r \in {CustomerRow(batch[s], cycle[s])} \cup {AddressRow(batch[s], cycle[s])} \cup {} :
          Plain(r)
    BY PlainRows
  <2>4. QED
    BY <1>1, <1>2, <2>1, <2>2, <2>3 DEF InBatch, Shape
<1>4. CASE InsertOrder(s)
  <2>1. PICK c : Writes(s, {OrderRow(batch[s], cycle[s], c, pick[s][1], pick[s][3])},
                        ItemRow(batch[s], cycle[s], pick[s][2]), {})
    BY <1>4 DEF InsertOrder
  <2>2. /\ Goto(s, "details") /\ SameCycle /\ orders' = orders /\ pick' = pick /\ pc[s] = "order"
    BY <1>4 DEF InsertOrder
  <2>3. \A t : Past(t, "order") => Past(t, "details")
    BY DEF Past, BeforeOrder
  <2> DEFINE x == OrderRow(batch[s], cycle[s], c, pick[s][1], pick[s][3])
             row == ItemRow(batch[s], cycle[s], pick[s][2])
  <2>4. Plain(row)
    BY PlainRows
  <2>5. Number(x) = cycle[s] /\ Past(Table(x.id), "details")
    <3>1. x.id[3] = cycle[s] /\ Table(x.id) = "orders"
      BY RowsOfStock
    <3> HIDE DEF x
    <3>2. QED
      BY <3>1 DEF Number, Past, BeforeOrder
  <2>6. Writes(s, {x}, row, {})
    BY <2>1
  <2> HIDE DEF x, row
  <2>7. \A r \in {x} \cup {row} \cup {} : ~Plain(r) =>
          /\ "details" \notin {"idle", "dead"} /\ Number(r) = cycle[s]
          /\ Past(Table(r.id), "details")
    BY <2>4, <2>5
  <2>8. InBatch(s) /\ DOMAIN orders' = Sessions /\ DOMAIN pick' = Sessions
    BY <1>2, <2>2 DEF InBatch, Shape
  <2>9. QED
    BY <1>1, <2>2, <2>3, <2>6, <2>7, <2>8
<1>5. CASE InsertDetails(s)
  <2>1. /\ Writes(s, {}, HistoryRow(batch[s], cycle[s]),
                  {MovementRow(batch[s], cycle[s], pick[s][1])})
        /\ Goto(s, "payment") /\ SameCycle /\ pc[s] = "details"
        /\ DOMAIN orders' = Sessions /\ DOMAIN pick' = Sessions
        /\ \A q \in Sessions \ {s} : orders'[q] = orders[q] /\ pick'[q] = pick[q]
    BY <1>2, <1>5 DEF InsertDetails, Shape
  <2>2. \A t : Past(t, "details") => Past(t, "payment")
    BY DEF Past, BeforeOrder
  <2>3. \A r \in {} \cup {HistoryRow(batch[s], cycle[s])}
                    \cup {MovementRow(batch[s], cycle[s], pick[s][1])} : Plain(r)
    BY PlainRows
  <2>4. QED
    BY <1>1, <2>1, <2>2, <2>3 DEF InBatch
<1>6. ASSUME NEW row, NEW label, Writes(s, {}, row, {}), Plain(row), Goto(s, label), SameCycle,
             orders' = orders, pick' = pick, InBatch(s), \A t : Past(t, pc[s]) => Past(t, label)
      PROVE  Turns'
  <2>1. \A r \in {} \cup {row} \cup {} : Plain(r)
    BY <1>6
  <2>2. DOMAIN orders' = Sessions /\ DOMAIN pick' = Sessions
    BY <1>2, <1>6 DEF Shape
  <2>3. QED
    BY <1>1, <1>6, <2>1, <2>2
<1>7. CASE CreatePayment(s)
  <2>1. PICK o : Writes(s, {}, PaymentRow(batch[s], cycle[s], o.order, Seed("payment_methods")), {})
    BY <1>7 DEF CreatePayment
  <2>2. /\ Goto(s, "shipment") /\ SameCycle /\ orders' = orders /\ pick' = pick /\ InBatch(s)
        /\ \A t : Past(t, pc[s]) => Past(t, "shipment")
    BY <1>7 DEF CreatePayment, InBatch, Past, BeforeOrder
  <2>3. Plain(PaymentRow(batch[s], cycle[s], o.order, Seed("payment_methods")))
    BY PlainRows
  <2>4. QED
    BY <1>6, <2>1, <2>2, <2>3
<1>8. CASE CreateShipment(s)
  <2>1. PICK o : Writes(s, {}, ShipmentRow(batch[s], cycle[s], o.order, Seed("carriers")), {})
    BY <1>8 DEF CreateShipment
  <2>2. /\ Goto(s, "review") /\ SameCycle /\ orders' = orders /\ pick' = pick /\ InBatch(s)
        /\ \A t : Past(t, pc[s]) => Past(t, "review")
    BY <1>8 DEF CreateShipment, InBatch, Past, BeforeOrder
  <2>3. Plain(ShipmentRow(batch[s], cycle[s], o.order, Seed("carriers")))
    BY PlainRows
  <2>4. QED
    BY <1>6, <2>1, <2>2, <2>3
<1>9. CASE CreateReview(s)
  <2>1. PICK o : Writes(s, {}, ReviewRow(batch[s], cycle[s], o.order, o.customer, o.product), {})
    BY <1>9 DEF CreateReview
  <2>2. /\ Goto(s, "restock") /\ SameCycle /\ orders' = orders /\ pick' = pick /\ InBatch(s)
        /\ \A t : Past(t, pc[s]) => Past(t, "restock")
    BY <1>9 DEF CreateReview, InBatch, Past, BeforeOrder
  <2>3. Plain(ReviewRow(batch[s], cycle[s], o.order, o.customer, o.product))
    BY PlainRows
  <2>4. QED
    BY <1>6, <2>1, <2>2, <2>3
<1>10. QED
  BY <1>3, <1>4, <1>5, <1>7, <1>8, <1>9

LEMMA CatalogTurns ==
  ASSUME NEW s \in Sessions, Accounting, CreateCatalog(s)
  PROVE  Turns'
<1>1. PICK w \in CreateWarehouse(s) : CreateInventory(s, {CreateSeller(s), CreateProduct(s)} \cup w)
  BY DEF CreateCatalog
<1> DEFINE catalog == {CreateSeller(s), CreateProduct(s)} \cup w
           i == NewInventory(s)
<1>2. \A r \in catalog : Plain(r)
  <2>1. Plain(CreateSeller(s)) /\ Plain(CreateProduct(s))
    BY PlainRows DEF CreateSeller, CreateProduct
  <2>2. \A r \in w : Plain(r)
    BY PlainRows DEF CreateWarehouse
  <2>3. \A r \in catalog : r = CreateSeller(s) \/ r = CreateProduct(s) \/ r \in w
    OBVIOUS
  <2>4. QED
    BY <2>1, <2>2, <2>3
<1>3. /\ pc'[s] = "reserve" /\ pc[s] = "catalog"
      /\ UNCHANGED <<rows, stock, buffer, settings, last>>
      /\ batch'[s] = batch[s] /\ cycle'[s] = cycle[s] /\ OthersKeep(s)
      /\ Balanced /\ Turns /\ Shape
  BY <1>1 DEF Accounting, CreateCatalog, CreateInventory, Goto, SameCycle, Quiet, Resolving, Shape,
     OthersKeep
<1>4. /\ InBatch(s) /\ InBatch(s)' /\ \A t : Past(t, pc[s]) => Past(t, pc'[s])
      /\ Past("inventories", pc'[s])
  BY <1>3 DEF InBatch, Past, BeforeOrder
<1>5. CASE own' = [own EXCEPT ![s] = @ \cup catalog]
  <2> HIDE DEF catalog
  <2>1. Lands(s, catalog, catalog) /\ DOMAIN own' = Sessions
    BY <1>3, <1>5, InsertLands
  <2>2. QED
    BY <1>2, <1>3, <1>4, <2>1, LandingTurns
<1>6. ASSUME NEW place, NEW p, NEW level,
             own' = [own EXCEPT ![s] = @ \cup catalog \cup {InventoryRow(i, place, p, level)}]
      PROVE  Turns'
  <2> DEFINE x == InventoryRow(i, place, p, level)
             now == catalog \cup {x}
  <2>1. Number(x) = cycle[s] /\ Table(x.id) = "inventories"
    <3>1. i - settings.stocked = cycle[s]
      BY <1>3, InventoryIsNew
    <3>2. x.id[3] = i /\ Table(x.id) = "inventories"
      BY RowsOfStock
    <3> HIDE DEF x
    <3>3. QED
      BY <3>1, <3>2 DEF Number
  <2> HIDE DEF x, catalog
  <2>2. own' = [own EXCEPT ![s] = @ \cup now]
    <3>1. own[s] \cup catalog \cup {x} = own[s] \cup now
      OBVIOUS
    <3>2. QED
      BY <1>6, <3>1 DEF x
  <2>3. \A r \in now : ~Plain(r) =>
          InBatch(s)' /\ Number(r) = cycle[s] /\ Past(Table(r.id), pc'[s])
    BY <1>2, <1>4, <2>1 DEF catalog
  <2> HIDE DEF now
  <2>4. Lands(s, now, now) /\ DOMAIN own' = Sessions
    BY <1>3, <2>2, InsertLands
  <2>5. QED
    BY <1>3, <1>4, <2>3, <2>4, LandingTurns
<1>7. QED
  BY <1>1, <1>5, <1>6 DEF CreateInventory

LEMMA RestockTurns ==
  ASSUME NEW s \in Sessions, Accounting, Increase(s)
  PROVE  Turns'
<1> DEFINE x == RestockRow(batch[s], cycle[s], pick[s][1], pick[s][3])
           now == {x}
<1>1. /\ pc[s] = "increase" /\ UNCHANGED <<rows, stock, buffer, settings, last>>
      /\ own' = [own EXCEPT ![s] = @ \cup now] /\ Balanced /\ Turns /\ Shape
  BY DEF Increase, SameCycle, Quiet, Accounting, Resolving
<1>2. /\ pc'[s] = "next" /\ batch'[s] = batch[s] /\ cycle'[s] = cycle[s] /\ OthersKeep(s)
  BY <1>1 DEF Increase, SameCycle, Quiet, Goto, Shape, OthersKeep
<1>3. Lands(s, now, now) /\ DOMAIN own' = Sessions
  BY <1>1, InsertLands
<1>4. x.id[3] = cycle[s] /\ Table(x.id) = "restocks"
  BY RowsOfStock
<1> HIDE DEF x
<1>5. Number(x) = cycle[s] /\ Past(Table(x.id), pc'[s])
  BY <1>2, <1>4 DEF Number, Past
<1>6. InBatch(s) /\ InBatch(s)' /\ \A t : Past(t, pc[s]) => Past(t, pc'[s])
  BY <1>1, <1>2 DEF InBatch, Past, BeforeOrder
<1>7. \A r \in now : ~Plain(r) => InBatch(s)' /\ Number(r) = cycle[s] /\ Past(Table(r.id), pc'[s])
  BY <1>5, <1>6
<1> HIDE DEF now
<1>8. QED
  BY <1>1, <1>2, <1>3, <1>6, <1>7, LandingTurns

(* Steps that write no row of stock, and those that end a batch.           *)
LEMMA QuietTurns ==
  ASSUME NEW s \in Sessions, Accounting, UNCHANGED <<settings, last>>, OthersKeep(s),
         InBatch(s)' =>
           /\ InBatch(s) /\ batch'[s] = batch[s] /\ cycle'[s] = cycle[s]
           /\ \A t : Past(t, pc[s]) => Past(t, pc'[s]),
         DOMAIN own' = Sessions, own'[s] \subseteq own[s],
         rows' \subseteq rows \cup own[s] \cup buffer[s]
  PROVE  Turns'
<1>1. Balanced /\ Turns /\ \A r \in buffer[s] : r.units = NoUnits
  BY DEF Accounting, Balanced, SessionBalances, Plain
<1> DEFINE none == {}
<1>2. AllStock' \subseteq AllStock \cup none
  BY <1>1 DEF AllStock, StockRows, OthersKeep
<1>3. \A r \in none : InBatch(s)' /\ Number(r) = cycle[s] /\ Past(Table(r.id), pc'[s])
  OBVIOUS
<1> HIDE DEF none
<1>4. QED
  BY <1>1, <1>2, <1>3, StockTurns

LEMMA QuietStepsTurn ==
  ASSUME NEW s \in Sessions, Accounting,
         \/ Reserve(s) \/ Decrease(s) \/ ReserveAgain(s) \/ ChooseRestock(s) \/ NoRestock(s)
         \/ LastFlush(s) \/ EndBatch(s) \/ RollBack(s) \/ Restart(s)
  PROVE  Turns'
<1>1. Shape
  BY DEF Accounting, Resolving
<1>2. CASE Reserve(s) \/ Decrease(s) \/ ReserveAgain(s) \/ ChooseRestock(s) \/ NoRestock(s)
  <2>1. UNCHANGED <<settings, last, rows, own, batch, cycle>> /\ InBatch(s)
    BY <1>2 DEF Reserve, Decrease, ReserveAgain, Reaches, ChooseRestock, NoRestock, SameCycle,
       Quiet, InBatch
  <2>2. OthersKeep(s) /\ DOMAIN own' = Sessions
    BY <1>1, <1>2 DEF Reserve, Decrease, ReserveAgain, ChooseRestock, NoRestock, Goto, SameCycle,
       Quiet, Shape, OthersKeep
  <2>3. \/ pc[s] = "reserve" /\ pc'[s] = "decrease"
        \/ pc[s] = "decrease" /\ pc'[s] \in {"order", "reserve"}
        \/ pc[s] = "restock" /\ pc'[s] \in {"increase", "next"}
    BY <1>1, <1>2 DEF Reserve, Decrease, ReserveAgain, Reaches, ChooseRestock, NoRestock, Goto,
       Shape
  <2>4. \A t : Past(t, pc[s]) => Past(t, pc'[s])
    BY <2>3 DEF Past, BeforeOrder
  <2>5. QED
    BY <2>1, <2>2, <2>4, QuietTurns
<1>3. CASE LastFlush(s)
  <2>1. UNCHANGED <<settings, last, batch, cycle>> /\ InBatch(s) /\ pc[s] = "next"
        /\ pc'[s] = "commit"
    BY <1>1, <1>3 DEF LastFlush, SameCycle, Quiet, InBatch, Goto, Shape
  <2>2. \A t : Past(t, pc[s]) => Past(t, pc'[s])
    BY <2>1 DEF Past, BeforeOrder
  <2>3. CASE buffer[s] = {}
    <3>1. UNCHANGED <<rows, own, held, buffer>>
      BY <1>3, <2>3 DEF LastFlush
    <3>2. OthersKeep(s) /\ DOMAIN own' = Sessions
      BY <1>1, <1>3, <3>1 DEF LastFlush, Goto, SameCycle, Quiet, Shape, OthersKeep
    <3>3. QED
      BY <2>1, <2>2, <3>1, <3>2, QuietTurns
  <2>4. CASE buffer[s] # {}
    <3>1. CommitWith(s, Landing(s, buffer[s])) /\ buffer' = [buffer EXCEPT ![s] = {}]
      BY <1>3, <2>4 DEF LastFlush
    <3>2. OthersKeep(s) /\ DOMAIN own' = Sessions /\ own'[s] = {}
      BY <1>1, <1>3, <3>1, CommitKeepsShape DEF LastFlush, Goto, SameCycle, Quiet, Shape,
         OthersKeep
    <3>3. rows' \subseteq rows \cup own[s] \cup buffer[s]
      BY <3>1, LandingIsOfBuffer DEF CommitWith
    <3>4. QED
      BY <2>1, <2>2, <3>2, <3>3, QuietTurns
  <2>5. QED
    BY <2>3, <2>4
<1>4. CASE EndBatch(s)
  <2>1. UNCHANGED <<settings, last>> /\ pc'[s] = "idle" /\ CommitWith(s, {})
    BY <1>1, <1>4 DEF EndBatch, Goto, Shape
  <2>2. OthersKeep(s) /\ DOMAIN own' = Sessions /\ own'[s] = {} /\ ~InBatch(s)'
    BY <1>1, <1>4, <2>1, CommitKeepsShape DEF EndBatch, Goto, Shape, OthersKeep, InBatch
  <2>3. rows' \subseteq rows \cup own[s] \cup buffer[s]
    BY <2>1 DEF CommitWith
  <2>4. QED
    BY <2>1, <2>2, <2>3, QuietTurns
<1>5. CASE RollBack(s)
  <2>1. UNCHANGED <<settings, last, rows>> /\ pc'[s] = "dead" /\ own'[s] = {}
    BY <1>1, <1>5 DEF RollBack, Goto, Shape
  <2>2. OthersKeep(s) /\ DOMAIN own' = Sessions /\ ~InBatch(s)'
    BY <1>1, <1>5, <2>1 DEF RollBack, Goto, Shape, OthersKeep, InBatch
  <2>3. QED
    BY <2>1, <2>2, QuietTurns
<1>6. CASE Restart(s)
  <2>1. UNCHANGED <<settings, last, rows, own>> /\ pc'[s] = "idle"
    BY <1>1, <1>6 DEF Restart, SameCycle, Quiet, Goto, Shape
  <2>2. OthersKeep(s) /\ DOMAIN own' = Sessions /\ ~InBatch(s)'
    BY <1>1, <1>6, <2>1 DEF Restart, SameCycle, Quiet, Goto, Shape, OthersKeep, InBatch
  <2>3. QED
    BY <2>1, <2>2, QuietTurns
<1>7. QED
  BY <1>2, <1>3, <1>4, <1>5, <1>6

(* The cycles a new batch takes are after all there were.                  *)
LEMMA BeginBatchTurns ==
  ASSUME NEW s \in Sessions, Accounting, BeginBatch(s)
  PROVE  Turns'
<1>1. /\ UNCHANGED <<settings, rows, own>> /\ last' = last + settings.size /\ last' <= MaxCycles
      /\ Turns /\ Shape
  BY DEF BeginBatch, Accounting, Resolving
<1>2. /\ OthersKeep(s) /\ pc'[s] = "customer"
      /\ batch'[s] = last + 1 /\ cycle'[s] = last + 1 /\ ~InBatch(s)
  BY <1>1 DEF BeginBatch, Goto, Shape, OthersKeep, InBatch
<1>3. last \in Nat /\ settings.size \in Nat \ {0} /\ MaxCycles \in Nat
  BY <1>1, SimulatorAssumption DEF Turns
<1>4. last' \in 0..MaxCycles /\ last < last' /\ LastCycle(s)' = last'
  BY <1>1, <1>2, <1>3 DEF LastCycle
<1>5. /\ \A q \in Sessions \ {s} : /\ InBatch(q)' = InBatch(q) /\ LastCycle(q)' = LastCycle(q)
                                   /\ batch'[q] = batch[q] /\ cycle'[q] = cycle[q]
                                   /\ \A r : NotAhead(q, r)' = NotAhead(q, r)
      /\ \A r : Number(r)' = Number(r)
  BY <1>1, <1>2 DEF InBatch, LastCycle, NotAhead, Number, Past, OthersKeep
<1>6. \A q \in Sessions \ {s} : InBatch(q)' => InTurn(q) /\ LastCycle(q) \in 1..last
  BY <1>1, <1>5 DEF Turns, InTurn
<1>7. ASSUME NEW q \in Sessions, InBatch(q)'
      PROVE  InTurn(q)'
  <2>1. CASE q = s
    BY <1>2, <1>3, <1>4, <2>1 DEF InTurn
  <2>2. CASE q # s
    <3>1. InTurn(q) /\ LastCycle(q) \in 1..last'
      BY <1>3, <1>4, <1>6, <1>7, <2>2
    <3>2. QED
      BY <1>5, <2>2, <3>1 DEF InTurn
  <2>3. QED
    BY <2>1, <2>2
<1>8. ASSUME NEW q \in Sessions, NEW p \in Sessions, q # p, InBatch(q)', InBatch(p)'
      PROVE  LastCycle(q)' < batch'[p] \/ LastCycle(p)' < batch'[q]
  <2>1. CASE q = s
    BY <1>2, <1>3, <1>5, <1>6, <1>8, <2>1
  <2>2. CASE p = s
    BY <1>2, <1>3, <1>5, <1>6, <1>8, <2>2
  <2>3. CASE q # s /\ p # s
    BY <1>1, <1>5, <1>8, <2>3 DEF Turns
  <2>4. QED
    BY <2>1, <2>2, <2>3
<1>9. ASSUME NEW r \in AllStock'
      PROVE  /\ Number(r)' \in Int /\ Number(r)' <= last'
             /\ \A q \in Sessions : InBatch(q)' => NotAhead(q, r)'
  <2>1. r \in AllStock
    BY <1>1 DEF AllStock, StockRows
  <2>2. Number(r) \in Int /\ Number(r) <= last
    BY <1>1, <2>1 DEF Turns
  <2>3. ASSUME NEW q \in Sessions, InBatch(q)'
        PROVE  NotAhead(q, r)'
    <3>1. CASE q = s
      <4>1. Number(r)' \notin cycle'[s]..LastCycle(s)'
        BY <1>2, <1>3, <1>4, <1>5, <2>2
      <4>2. QED
        BY <3>1, <4>1 DEF NotAhead
    <3>2. CASE q # s
      BY <1>1, <1>5, <2>1, <2>3, <3>2 DEF Turns
    <3>3. QED
      BY <3>1, <3>2
  <2>4. QED
    BY <1>3, <1>4, <1>5, <2>2, <2>3
<1>10. QED
  BY <1>1, <1>4, <1>7, <1>8, <1>9 DEF Turns

LEMMA NextCycleTurns ==
  ASSUME NEW s \in Sessions, Accounting, NextCycle(s)
  PROVE  Turns'
<1>1. /\ UNCHANGED <<settings, rows, own, last, batch>> /\ cycle[s] < LastCycle(s)
      /\ InBatch(s) /\ Turns /\ Shape
  BY DEF NextCycle, Quiet, Accounting, Resolving, InBatch
<1>2. OthersKeep(s) /\ InBatch(s)' /\ cycle'[s] = cycle[s] + 1
  BY <1>1 DEF NextCycle, Quiet, Goto, Shape, OthersKeep, InBatch
<1>3. last \in Nat /\ settings.size \in Nat \ {0} /\ InTurn(s)
  BY <1>1, SimulatorAssumption DEF Turns
<1>4. /\ \A q \in Sessions : InBatch(q)' = InBatch(q) /\ LastCycle(q)' = LastCycle(q)
      /\ \A q \in Sessions \ {s} : /\ cycle'[q] = cycle[q]
                                   /\ \A r : NotAhead(q, r)' = NotAhead(q, r)
      /\ \A r : Number(r)' = Number(r)
  BY <1>1, <1>2 DEF InBatch, LastCycle, NotAhead, Number, Past, OthersKeep
<1>5. cycle[s] \in Int /\ LastCycle(s) \in Int /\ cycle'[s] \in batch[s]..LastCycle(s)
  BY <1>1, <1>2, <1>3 DEF InTurn, LastCycle
<1>6. \A q \in Sessions : InBatch(q)' => InTurn(q)'
  <2>1. InTurn(s)'
    BY <1>1, <1>3, <1>4, <1>5 DEF InTurn
  <2>2. \A q \in Sessions \ {s} : InBatch(q)' => InTurn(q)'
    BY <1>1, <1>4 DEF Turns, InTurn
  <2>3. QED
    BY <2>1, <2>2
<1>7. \A r \in AllStock : NotAhead(s, r)'
  <2>1. SUFFICES ASSUME NEW r \in AllStock, Number(r)' \in cycle'[s]..LastCycle(s)'
                 PROVE  FALSE
    BY DEF NotAhead
  <2>2. Number(r) \in Int /\ NotAhead(s, r)
    BY <1>1 DEF Turns
  <2>3. QED
    BY <1>2, <1>4, <1>5, <2>1, <2>2 DEF NotAhead
<1>8. AllStock' = AllStock
  BY <1>1 DEF AllStock, StockRows
<1>9. ASSUME NEW r \in AllStock'
      PROVE  /\ Number(r)' \in Int /\ Number(r)' <= last'
             /\ \A q \in Sessions : InBatch(q)' => NotAhead(q, r)'
  BY <1>1, <1>4, <1>7, <1>8 DEF Turns
<1>10. \A q, p \in Sessions : q # p /\ InBatch(q)' /\ InBatch(p)' =>
         LastCycle(q)' < batch'[p] \/ LastCycle(p)' < batch'[q]
  BY <1>1, <1>4 DEF Turns
<1>11. QED
  BY <1>1, <1>6, <1>9, <1>10 DEF Turns

LEMMA StepAccounts ==
  ASSUME NEW s \in Sessions, Accounting, SimulatorStep(s)
  PROVE  Balanced' /\ Turns'
<1>1. Balanced /\ Resolving
  BY DEF Accounting
<1>2. CASE BeginBatch(s) \/ NextCycle(s) \/ Restart(s)
  BY <1>2, QuietStepsBalance, BeginBatchTurns, NextCycleTurns, QuietStepsTurn
<1>3. CASE Raises(s) \/ Killed(s) \/ Deadlocked(s)
  <2>1. RollBack(s)
    BY <1>3 DEF Raises, Killed, Deadlocked
  <2>2. QED
    BY <1>1, <2>1, RollBackBalances, QuietStepsTurn
<1>4. CASE \/ CreateCustomer(s) \/ InsertDetails(s)
           \/ CreatePayment(s) \/ CreateShipment(s) \/ CreateReview(s)
  BY <1>1, <1>4, WritingStepsBalance, WritingStepsTurn
<1>5. CASE CreateCatalog(s)
  BY <1>5, CatalogBalances, CatalogTurns
<1>6. CASE Reserve(s) \/ ReserveAgain(s) \/ ChooseRestock(s) \/ NoRestock(s)
  BY <1>6, QuietStepsBalance, QuietStepsTurn
<1>7. CASE Decrease(s)
  BY <1>1, <1>7, DecreaseBalances, QuietStepsTurn
<1>8. CASE InsertOrder(s)
  BY <1>8, InsertOrderBalances, WritingStepsTurn
<1>9. CASE Increase(s)
  BY <1>9, IncreaseBalances, RestockTurns
<1>10. CASE LastFlush(s) \/ EndBatch(s)
  BY <1>1, <1>10, LastStepsBalance, QuietStepsTurn
<1>11. QED
  BY <1>2, <1>3, <1>4, <1>5, <1>6, <1>7, <1>8, <1>9, <1>10 DEF SimulatorStep, Cycle

LEMMA StutteringAccounts ==
  ASSUME Accounting, UNCHANGED simulatorVars
  PROVE  Balanced' /\ Turns'
<1>1. /\ UNCHANGED <<settings, rows, stock, pc, batch, cycle, own, held, buffer, pick, last>>
      /\ Balanced /\ Turns
  BY DEF simulatorVars, session, Accounting
<1>2. \A i : Stocked(rows, i)' = Stocked(rows, i)
  BY <1>1 DEF Stocked
<1>3. RowsBalance'
  BY <1>1, <1>2 DEF Balanced, RowsBalance, RowFits, Plain, OnHand, Total, Ids, StockRows
<1>4. OneWriter'
  BY <1>1 DEF Balanced, OneWriter
<1>5. ASSUME NEW s \in Sessions
      PROVE  SessionBalances(s)' /\ Picked(s)'
  <2>1. SessionBalances(s) /\ Picked(s)
    BY <1>1 DEF Balanced
  <2>2. \A i : /\ Stocked(own[s], i)' = Stocked(own[s], i)
               /\ Total(Stocked(rows \cup own[s], i))' = Total(Stocked(rows \cup own[s], i))
               /\ Taking(s, i)' = Taking(s, i)
    BY <1>1 DEF Stocked, Total, Taking
  <2>3. \A i \in Inventories : Adds(own[s], held[s][i], Taking(s, i), i)'
    BY <1>1, <2>1, <2>2 DEF SessionBalances, Adds
  <2>4. FitsIn(own[s])'
    BY <1>1, <2>1 DEF SessionBalances, FitsIn, RowFits, Plain, Ids, StockRows
  <2>5. \A r \in buffer'[s] : Plain(r)'
    BY <1>1, <2>1 DEF SessionBalances, Plain
  <2>6. Picked(s)'
    BY <1>1, <2>1 DEF Picked
  <2>7. QED
    BY <2>3, <2>4, <2>5, <2>6 DEF SessionBalances
<1>6. Turns'
  <2>1. AllStock' = AllStock /\ \A r : Number(r)' = Number(r)
    BY <1>1 DEF AllStock, StockRows, Number
  <2>2. \A s \in Sessions : /\ InBatch(s)' = InBatch(s) /\ LastCycle(s)' = LastCycle(s)
                            /\ InTurn(s)' = InTurn(s)
                            /\ \A r : NotAhead(s, r)' = NotAhead(s, r)
    BY <1>1 DEF InBatch, LastCycle, InTurn, NotAhead, Number, Past
  <2>3. QED
    BY <1>1, <2>1, <2>2 DEF Turns
<1>7. QED
  BY <1>3, <1>4, <1>5, <1>6 DEF Balanced

LEMMA NextAccounts ==
  ASSUME Accounting, [SimulatorNext]_simulatorVars
  PROVE  Accounting'
<1>1. Resolving'
  BY NextResolves DEF Accounting
<1>2. Balanced' /\ Turns'
  BY StepAccounts, StutteringAccounts DEF SimulatorNext
<1>3. QED
  BY <1>1, <1>2 DEF Accounting

LEMMA InitAccounts ==
  ASSUME SimulatorInit
  PROVE  Accounting
<1> DEFINE stocked(i) == InventoryRow(i, Seed("warehouses"), Seed("products"), InStock)
           S == {stocked(i) : i \in 1..settings.stocked}
           others == rows \ S
<1>1. /\ settings \in Settings /\ settings.stocked \in 0..MaxStocked /\ MaxStocked \in Nat
      /\ MaxCycles \in Nat /\ InStock \in Nat
  BY SimulatorAssumption DEF SimulatorInit
<1>2. /\ last = 0 /\ \A s \in Sessions : /\ pc[s] = "idle" /\ own[s] = {} /\ buffer[s] = {}
                                         /\ \A i \in Inventories : held[s][i] = Free
  BY DEF SimulatorInit
<1>3. \A i : LET r == stocked(i) IN
        /\ r.units # NoUnits /\ r.units[1] = i /\ r.units[2] = InStock
        /\ r.id = InventoryId(i) /\ r.id[3] = i /\ Table(r.id) = "inventories"
  BY RowsOfStock
<1>4. S \subseteq rows /\ rows = others \cup S
  BY DEF SimulatorInit
<1>5. \A r \in others : Plain(r)
  <2>1. \A t \in {"payment_methods", "carriers", "categories", "sellers", "warehouses"} :
          Plain(Row(Seed(t), {}))
    BY DEF Plain, Row, Seed, Table, Id
  <2>2. Plain(Row(Seed("products"), {Seed("sellers"), Seed("categories")}))
    BY DEF Plain, Row, Seed, Table, Id
  <2>3. QED
    BY <2>1, <2>2 DEF SimulatorInit
<1>6. 1..settings.stocked \subseteq Inventories
  BY <1>1 DEF Inventories
<1>7. IsFiniteSet(S)
  <2> DEFINE f == [i \in 1..settings.stocked |-> stocked(i)]
  <2>1. f \in Surjection(1..settings.stocked, S)
    <3> HIDE DEF stocked
    <3>1. QED
      BY DEF Surjection
  <2>2. IsFiniteSet(1..settings.stocked)
    BY <1>1, FS_Interval
  <2> HIDE DEF f, S
  <2>3. QED
    BY <2>1, <2>2, FS_Surjection
<1> HIDE DEF stocked
<1>8. StockRows(rows) = S
  BY <1>3, <1>4, <1>5 DEF StockRows, Plain
<1>9. \A i \in 1..settings.stocked : Stocked(rows, i) = {stocked(i)}
  BY <1>3, <1>4, <1>5 DEF Stocked, Plain
<1>10. \A i : InventoryId(i) \in Ids(rows) <=> i \in 1..settings.stocked
  <2>1. ASSUME NEW i, InventoryId(i) \in Ids(rows)
        PROVE  i \in 1..settings.stocked
    <3>1. PICK r \in rows : r.id = InventoryId(i)
      BY <2>1 DEF Ids
    <3>2. Table(r.id) = "inventories" /\ r.id[3] = i
      BY <3>1 DEF InventoryId, Table, Id
    <3>3. r \in S
      BY <1>4, <1>5, <3>2 DEF Plain
    <3>4. QED
      BY <1>3, <3>2, <3>3
  <2>2. ASSUME NEW i \in 1..settings.stocked
        PROVE  InventoryId(i) \in Ids(rows)
    BY <1>3, <1>4 DEF Ids
  <2>3. QED
    BY <2>1, <2>2
<1>11. RowsBalance
  <2>1. \A r \in rows : RowFits(r, Ids(rows))
    <3>1. \A r \in others : RowFits(r, Ids(rows))
      BY <1>5 DEF RowFits, Plain
    <3>2. \A i \in 1..settings.stocked : RowFits(stocked(i), Ids(rows))
      BY <1>1, <1>3, <1>6, <1>10 DEF RowFits, StockTables
    <3>3. QED
      BY <1>4, <3>1, <3>2
  <2>2. ASSUME NEW i \in Inventories
        PROVE  OnHand(i)
    <3>1. CASE i \in 1..settings.stocked
      <4>1. stock[i] = InStock
        BY <1>1, <3>1 DEF SimulatorInit
      <4>2. Total({} \cup {stocked(i)}) = Total({}) + Units(stocked(i))
        <5>1. Units(stocked(i)) \in Int
          BY <1>1, <1>3 DEF Units
        <5>2. IsFiniteSet({}) /\ stocked(i) \notin {} /\ \A r \in {} : Units(r) \in Int
          BY FS_EmptySet
        <5>3. QED
          BY <5>1, <5>2, TotalOfMore
      <4>3. Units(stocked(i)) = InStock /\ {} \cup {stocked(i)} = {stocked(i)}
        BY <1>3 DEF Units
      <4>4. Total(Stocked(rows, i)) = InStock
        <5>1. Total({stocked(i)}) = 0 + InStock
          BY <4>2, <4>3, TotalOfNone
        <5>2. QED
          BY <1>1, <1>9, <3>1, <5>1
      <4>5. QED
        BY <1>1, <1>10, <3>1, <4>1, <4>4 DEF OnHand
    <3>2. CASE i \notin 1..settings.stocked
      <4>1. i \in Nat \ {0}
        BY <1>1 DEF Inventories
      <4>2. stock[i] = Absent
        BY <1>1, <3>2, <4>1 DEF SimulatorInit
      <4>3. QED
        BY <1>10, <3>2, <4>2 DEF OnHand
    <3>3. QED
      BY <3>1, <3>2
  <2>3. QED
    BY <1>7, <1>8, <2>1, <2>2 DEF RowsBalance
<1>12. OneWriter
  BY <1>2 DEF OneWriter
<1>13. \A s \in Sessions : SessionBalances(s) /\ Picked(s)
  <2>1. IsFiniteSet(StockRows({})) /\ \A i : Stocked({}, i) = {}
    BY FS_EmptySet DEF StockRows, Stocked
  <2>2. QED
    BY <1>2, <2>1 DEF SessionBalances, Adds, FitsIn, Picked
<1>14. Balanced
  BY <1>11, <1>12, <1>13 DEF Balanced
<1>15. \A s \in Sessions : ~InBatch(s)
  BY <1>2 DEF InBatch
<1>16. \A r \in AllStock : Number(r) \in Int /\ Number(r) <= last
  <2>1. AllStock = S
    BY <1>2, <1>8 DEF AllStock, StockRows
  <2>2. \A i \in 1..settings.stocked :
          Number(stocked(i)) \in Int /\ Number(stocked(i)) <= 0
    BY <1>1, <1>3 DEF Number
  <2>3. QED
    BY <1>2, <2>1, <2>2
<1>17. Turns
  BY <1>1, <1>2, <1>15, <1>16 DEF Turns
<1>18. QED
  BY <1>14, <1>17, InitResolves DEF Accounting

(* For any number of processes, batches, thresholds and kills: the stock   *)
(* of an inventory that is committed is what the committed rows say of it, *)
(* and never negative, although what an UPDATE took may be committed by    *)
(* the flush of any later row, and the row that says so with it.           *)
THEOREM StockIsKept == SimulatorSpec => []StockIsAccounted
<1>1. SimulatorInit => Accounting
  BY InitAccounts
<1>2. Accounting /\ [SimulatorNext]_simulatorVars => Accounting'
  BY NextAccounts
<1>3. Accounting => StockIsAccounted
  <2>1. \A i : Balance(i) = Total(Stocked(rows, i))
    BY TotalIsSum DEF Balance, Stocked
  <2>2. QED
    BY <2>1 DEF Accounting, Balanced, RowsBalance, OnHand, StockIsAccounted
<1>4. QED
  BY <1>1, <1>2, <1>3, PTL DEF SimulatorSpec

-----------------------------------------------------------------------------
(* Types.  A row has the parents its table's foreign keys name, because    *)
(* the pool and the pick of a session keep identities of the right table.  *)

LEMMA ParentsAreRefs ==
  ASSUME NEW t
  PROVE  ParentsIn(Baseline, t) = {o[3] : o \in {p \in BaselineRefs : p[2] = t}}
<1>1. \A o \in BaselineRefs : o[1] = "fk"
  BY DEF BaselineRefs, Refs
<1>2. \A o \in Baseline \ BaselineRefs : o[1] # "fk"
  BY DEF Baseline, BaselineTables1, BaselineTables2, BaselineTables3, BaselineTables4,
         BaselineKeys, BaselineUniques, BaselineIndexes1, BaselineIndexes2, Schema,
         Tables, Keys, Uniques, Checks, Indexes
<1>3. BaselineRefs \subseteq Baseline
  BY DEF Baseline
<1>4. {p \in Baseline : p[1] = "fk" /\ p[2] = t} = {p \in BaselineRefs : p[2] = t}
  BY <1>1, <1>2, <1>3
<1>5. QED
  BY <1>4 DEF ParentsIn

(* The foreign keys of the baseline.                                       *)
Points(t, p) ==
  \/ t = "categories" /\ p = "categories"
  \/ t = "customer_addresses" /\ p = "customers"
  \/ t = "inventories" /\ p \in {"products", "warehouses"}
  \/ t = "inventory_movements" /\ p \in {"inventories", "orders"}
  \/ t = "order_items" /\ p \in {"orders", "products"}
  \/ t = "order_status_history" /\ p = "orders"
  \/ t = "orders" /\ p = "customers"
  \/ t = "payments" /\ p \in {"orders", "payment_methods"}
  \/ t = "products" /\ p \in {"categories", "sellers"}
  \/ t = "refunds" /\ p = "payments"
  \/ t = "reviews" /\ p \in {"customers", "orders", "products"}
  \/ t = "shipments" /\ p \in {"carriers", "orders"}

LEMMA ParentsPoint ==
  ASSUME NEW t, NEW p
  PROVE  p \in ParentsIn(Baseline, t) <=> Points(t, p)
<1>1. p \in ParentsIn(Baseline, t) <=> \E o \in BaselineRefs : o[2] = t /\ o[3] = p
  BY ParentsAreRefs
<1>2. \A o \in BaselineRefs : o = <<"fk", o[2], o[3]>>
  BY DEF BaselineRefs, Refs
<1>3. p \in ParentsIn(Baseline, t) <=> <<"fk", t, p>> \in BaselineRefs
  BY <1>1, <1>2
<1>4. <<"fk", t, p>> \in BaselineRefs <=> Points(t, p)
  BY DEF BaselineRefs, Refs, Points
<1>5. QED
  BY <1>3, <1>4

LEMMA ParentsOfTables ==
  /\ \A t \in {"customers", "sellers", "warehouses", "restocks"} : ParentsIn(Baseline, t) = {}
  /\ ParentsIn(Baseline, "customer_addresses") = {"customers"}
  /\ ParentsIn(Baseline, "products") = {"sellers", "categories"}
  /\ ParentsIn(Baseline, "inventories") = {"warehouses", "products"}
  /\ ParentsIn(Baseline, "orders") = {"customers"}
  /\ ParentsIn(Baseline, "order_items") = {"orders", "products"}
  /\ ParentsIn(Baseline, "order_status_history") = {"orders"}
  /\ ParentsIn(Baseline, "inventory_movements") = {"orders", "inventories"}
  /\ ParentsIn(Baseline, "payments") = {"orders", "payment_methods"}
  /\ ParentsIn(Baseline, "shipments") = {"orders", "carriers"}
  /\ ParentsIn(Baseline, "reviews") = {"orders", "customers", "products"}
<1> USE ParentsPoint DEF Points
<1>1. \A t \in {"customers", "sellers", "warehouses", "restocks"} : ParentsIn(Baseline, t) = {}
  OBVIOUS
<1>2. ParentsIn(Baseline, "customer_addresses") = {"customers"}
  OBVIOUS
<1>3. ParentsIn(Baseline, "products") = {"sellers", "categories"}
  OBVIOUS
<1>4. ParentsIn(Baseline, "inventories") = {"warehouses", "products"}
  OBVIOUS
<1>5. ParentsIn(Baseline, "orders") = {"customers"}
  OBVIOUS
<1>6. ParentsIn(Baseline, "order_items") = {"orders", "products"}
  OBVIOUS
<1>7. ParentsIn(Baseline, "order_status_history") = {"orders"}
  OBVIOUS
<1>8. ParentsIn(Baseline, "inventory_movements") = {"orders", "inventories"}
  OBVIOUS
<1>9. ParentsIn(Baseline, "payments") = {"orders", "payment_methods"}
  OBVIOUS
<1>10. ParentsIn(Baseline, "shipments") = {"orders", "carriers"}
  OBVIOUS
<1>11. ParentsIn(Baseline, "reviews") = {"orders", "customers", "products"}
  OBVIOUS
<1>12. QED
  BY <1>1, <1>2, <1>3, <1>4, <1>5, <1>6, <1>7, <1>8, <1>9, <1>10, <1>11

LEMMA RootsFitKeys ==
  ASSUME NEW b, NEW n, NEW i, NEW q
  PROVE  /\ FitsKeys(CustomerRow(b, n)) /\ FitsKeys(AddressRow(b, n)) /\ FitsKeys(SellerRow(b, n))
         /\ FitsKeys(WarehouseRow(b, n)) /\ FitsKeys(RestockRow(b, n, i, q))
         /\ FitsKeys(HistoryRow(b, n)) /\ FitsKeys(MovementRow(b, n, i))
<1> USE ParentsOfTables DEF FitsKeys, Table, Row, StockRow, Id, InventoryId
<1>1. FitsKeys(CustomerRow(b, n))
  BY DEF CustomerRow
<1>2. FitsKeys(AddressRow(b, n))
  BY DEF AddressRow
<1>3. FitsKeys(SellerRow(b, n))
  BY DEF SellerRow
<1>4. FitsKeys(WarehouseRow(b, n))
  BY DEF WarehouseRow
<1>5. FitsKeys(RestockRow(b, n, i, q))
  BY DEF RestockRow
<1>6. FitsKeys(HistoryRow(b, n))
  BY DEF HistoryRow
<1>7. FitsKeys(MovementRow(b, n, i))
  BY DEF MovementRow
<1>8. QED
  BY <1>1, <1>2, <1>3, <1>4, <1>5, <1>6, <1>7

LEMMA ChildrenFitKeys ==
  ASSUME NEW b, NEW n, NEW i, NEW q, NEW x, NEW y, NEW z
  PROVE  /\ Table(x) = "sellers" /\ Table(y) = "categories" => FitsKeys(ProductRow(b, n, x, y))
         /\ Table(x) = "warehouses" /\ Table(y) = "products" => FitsKeys(InventoryRow(i, x, y, q))
         /\ Table(x) = "customers" => FitsKeys(OrderRow(b, n, x, i, q))
         /\ Table(x) = "products" => FitsKeys(ItemRow(b, n, x))
         /\ Table(x) = "orders" /\ Table(y) = "payment_methods" => FitsKeys(PaymentRow(b, n, x, y))
         /\ Table(x) = "orders" /\ Table(y) = "carriers" => FitsKeys(ShipmentRow(b, n, x, y))
         /\ Table(x) = "orders" /\ Table(y) = "customers" /\ Table(z) = "products" =>
              FitsKeys(ReviewRow(b, n, x, y, z))
<1> USE ParentsOfTables DEF FitsKeys, Table, Row, StockRow, Id, InventoryId
<1>1. Table(x) = "sellers" /\ Table(y) = "categories" => FitsKeys(ProductRow(b, n, x, y))
  BY DEF ProductRow
<1>2. Table(x) = "warehouses" /\ Table(y) = "products" => FitsKeys(InventoryRow(i, x, y, q))
  BY DEF InventoryRow
<1>3. Table(x) = "customers" => FitsKeys(OrderRow(b, n, x, i, q))
  BY DEF OrderRow
<1>4. Table(x) = "products" => FitsKeys(ItemRow(b, n, x))
  BY DEF ItemRow
<1>5. Table(x) = "orders" /\ Table(y) = "payment_methods" => FitsKeys(PaymentRow(b, n, x, y))
  BY DEF PaymentRow
<1>6. Table(x) = "orders" /\ Table(y) = "carriers" => FitsKeys(ShipmentRow(b, n, x, y))
  BY DEF ShipmentRow
<1>7. Table(x) = "orders" /\ Table(y) = "customers" /\ Table(z) = "products" =>
        FitsKeys(ReviewRow(b, n, x, y, z))
  BY DEF ReviewRow
<1>8. QED
  BY <1>1, <1>2, <1>3, <1>4, <1>5, <1>6, <1>7

(* The parent of a table that a row which s sees has.                      *)
LEMMA ParentIsOfTable ==
  ASSUME NEW s \in Sessions, NEW id, NEW t, RowsResolve, DataResolves(s),
         id \in Ids(Visible(s)),
         \/ Table(id) = "inventories" /\ t = "products"
         \/ Table(id) = "orders" /\ t = "customers"
  PROVE  Table(ParentOf(s, id, t)) = t
<1> DEFINE parents == UNION {r.refs : r \in {q \in Visible(s) : q.id = id}}
<1>1. PICK r \in Visible(s) : r.id = id
  BY DEF Ids
<1>2. \A q \in Visible(s) : HasParents(q)
  BY DEF RowsResolve, DataResolves, Visible
<1>3. \E p \in parents : Table(p) = t
  BY <1>1, <1>2 DEF HasParents
<1>4. Table(CHOOSE p \in parents : Table(p) = t) = t
  BY <1>3
<1>5. QED
  BY <1>4 DEF ParentOf

LEMMA GeneratorsFit == GeneratorsFitTheSchema
<1>1. \A p \in GeneratedPayments : p.status \in PaymentStatuses /\ (p.paid => p.authorized)
  <2>1. \A p \in GeneratedPayments :
          /\ p.status \in PaymentStatuses /\ p.paid = (p.status \in {"PAID", "REFUNDED"})
          /\ p.authorized = (p.status \in {"AUTHORIZED", "PAID", "REFUNDED"})
    BY DEF GeneratedPayments, PaymentStatuses
  <2>2. QED
    BY <2>1
<1>2. \A h \in GeneratedShipments :
        h.status \in ShipmentStatuses /\ (h.delivered => h.shipped /\ h.estimated)
  <2>1. \A h \in GeneratedShipments :
          /\ h.status \in ShipmentStatuses /\ h.delivered = (h.status = "DELIVERED")
          /\ h.shipped = (h.status # "CREATED")
          /\ h.estimated = (h.status \in {"SHIPPED", "IN_TRANSIT", "DELIVERED"})
    BY DEF GeneratedShipments, ShipmentStatuses
  <2>2. QED
    BY <2>1
<1>3. /\ GeneratedRatings \subseteq Ratings
      /\ CreatedProduct \in ProductStatuses /\ CreatedAddress \in AddressTypes
      /\ CreatedOrder \in OrderStatuses /\ OutboundMovement \in MovementTypes
  BY DEF GeneratedRatings, Ratings, CreatedProduct, ProductStatuses, CreatedAddress, AddressTypes,
     CreatedOrder, OrderStatuses, OutboundMovement, MovementTypes
<1>4. QED
  BY <1>1, <1>2, <1>3 DEF GeneratorsFitTheSchema

-----------------------------------------------------------------------------
(* What is of its type besides: the numbers, and per session its rows, its *)
(* pool and its pick.                                                      *)

Numbers ==
  /\ crashes \in 0..MaxCrashes /\ finished \subseteq 1..last
  /\ stock \in [Inventories -> Int] /\ held \in [Sessions -> [Inventories -> Int]]
  /\ pc \in [Sessions -> Labels] /\ tries \in [Sessions -> 0..MaxAttempts]
  /\ batch \in [Sessions -> 0..last] /\ cycle \in [Sessions -> 0..last]

BufferFits(s) == IsFiniteSet(buffer[s]) /\ Cardinality(buffer[s]) < settings.threshold

PoolFits(s) ==
  \A o \in orders[s] :
    Table(o.order) = "orders" /\ Table(o.customer) = "customers" /\ Table(o.product) = "products"

SessionFits(s) ==
  /\ BufferFits(s) /\ PoolFits(s)
  /\ \A r \in own[s] \cup buffer[s] : FitsKeys(r)
  /\ pc[s] \in {"decrease", "order", "details"} => Table(pick[s][2]) = "products"

Typed == Accounting /\ Numbers /\ \A s \in Sessions : SessionFits(s)

LEMMA CommitNumbers ==
  ASSUME NEW s \in Sessions, NEW new, Numbers, CommitWith(s, new)
  PROVE  stock' \in [Inventories -> Int] /\ held' \in [Sessions -> [Inventories -> Int]]
<1>1. NoneHeld \in [Inventories -> Int]
  BY DEF NoneHeld, Free
<1>2. \A i \in Inventories : InView(s, i) \in Int
  BY DEF InView, Numbers
<1>3. QED
  BY <1>1, <1>2 DEF CommitWith, Numbers

LEMMA WritesNumbers ==
  ASSUME NEW s \in Sessions, NEW now, NEW row, NEW more, Numbers, Writes(s, now, row, more)
  PROVE  stock' \in [Inventories -> Int] /\ held' \in [Sessions -> [Inventories -> Int]]
<1>1. CASE \E new : CommitWith(s, new)
  BY <1>1, CommitNumbers
<1>2. CASE UNCHANGED <<stock, held>>
  BY <1>2 DEF Numbers
<1>3. QED
  BY <1>1, <1>2 DEF Writes

LEMMA GotoNumbers ==
  ASSUME NEW s \in Sessions, NEW label \in Labels, Numbers, Goto(s, label)
  PROVE  pc' \in [Sessions -> Labels]
BY DEF Goto, Numbers

(* The buffer of a session stays under its threshold, which is two or more. *)
LEMMA WritesFill ==
  ASSUME NEW s \in Sessions, NEW now, NEW row, NEW more, DOMAIN buffer = Sessions,
         settings \in Settings, settings' = settings, BufferFits(s),
         more = {} \/ (\E x : more = {x}), Writes(s, now, row, more)
  PROVE  BufferFits(s)'
<1> DEFINE b == buffer[s] \cup {row}
<1>1. settings.threshold \in Nat \ {0, 1}
  BY SimulatorAssumption
<1>2. IsFiniteSet(more) /\ Cardinality(more) \in {0, 1}
  BY FS_EmptySet, FS_Singleton
<1>3. IsFiniteSet(b) /\ IsFiniteSet(b \cup more)
  <2>1. IsFiniteSet(buffer[s])
    BY DEF BufferFits
  <2>2. IsFiniteSet(b)
    BY <2>1, FS_AddElement
  <2> HIDE DEF b
  <2>3. QED
    BY <1>2, <2>2, FS_Union
<1>4. Cardinality(b \cup more) \in Nat
  BY <1>3, FS_CardinalityType
<1>5. CASE buffer' = [buffer EXCEPT ![s] = more]
  <2>1. buffer'[s] = more
    BY <1>5
  <2>2. QED
    BY <1>1, <1>2, <2>1 DEF BufferFits
<1>6. CASE buffer' = [buffer EXCEPT ![s] = {}]
  <2>1. buffer'[s] = {}
    BY <1>6
  <2>2. QED
    BY <1>1, <2>1, FS_EmptySet DEF BufferFits
<1>7. CASE /\ buffer' = [buffer EXCEPT ![s] = b \cup more]
           /\ ~(Cardinality(b \cup more) >= settings.threshold)
  <2>1. buffer'[s] = b \cup more
    BY <1>7
  <2> HIDE DEF b
  <2>2. QED
    BY <1>1, <1>3, <1>4, <1>7, <2>1 DEF BufferFits
<1>8. QED
  BY <1>5, <1>6, <1>7 DEF Writes

LEMMA WritesFit ==
  ASSUME NEW s \in Sessions, NEW now, NEW row, NEW more, Shape, Writes(s, now, row, more),
         \A r \in own[s] \cup buffer[s] : FitsKeys(r),
         \A r \in now \cup {row} \cup more : FitsKeys(r)
  PROVE  \A r \in own'[s] \cup buffer'[s] : FitsKeys(r)
<1> DEFINE b == buffer[s] \cup {row}
<1>1. CASE /\ \E new : CommitWith(s, new)
           /\ buffer' = [buffer EXCEPT ![s] = more] \/ buffer' = [buffer EXCEPT ![s] = {}]
  <2>1. own'[s] = {} /\ buffer'[s] \subseteq more
    BY <1>1, CommitKeepsShape DEF Shape
  <2>2. QED
    BY <2>1
<1>2. CASE /\ own' = [own EXCEPT ![s] = @ \cup now]
           /\ buffer' = [buffer EXCEPT ![s] = b \cup more]
  <2>1. own'[s] = own[s] \cup now /\ buffer'[s] = b \cup more
    BY <1>2 DEF Shape
  <2>2. QED
    BY <2>1
<1>3. QED
  BY <1>1, <1>2 DEF Writes

(* A session that a step does not touch stays as it is.                    *)
LEMMA OtherFits ==
  ASSUME NEW s \in Sessions, NEW q \in Sessions \ {s}, OthersKeep(s), settings' = settings,
         SessionFits(q)
  PROVE  SessionFits(q)'
BY DEF SessionFits, BufferFits, PoolFits, FitsKeys, OthersKeep

(* A step that writes leaves its session of its type.                      *)
LEMMA WritesTyped ==
  ASSUME NEW s \in Sessions, NEW now, NEW row, NEW more, NEW label \in Labels, Shape,
         settings \in Settings, Numbers, SessionFits(s), Writes(s, now, row, more),
         more = {} \/ (\E x : more = {x}), Goto(s, label), SameCycle, UNCHANGED tries,
         DOMAIN orders' = Sessions, DOMAIN pick' = Sessions,
         \A q \in Sessions \ {s} : orders'[q] = orders[q] /\ pick'[q] = pick[q],
         \A r \in now \cup {row} \cup more : FitsKeys(r),
         PoolFits(s)', label \in {"decrease", "order", "details"} => Table(pick'[s][2]) = "products"
  PROVE  Numbers' /\ SessionFits(s)' /\ OthersKeep(s) /\ settings' = settings
<1>1. settings' = settings /\ UNCHANGED <<batch, cycle, last, finished, crashes>>
  BY DEF SameCycle, Quiet
<1>2. OthersKeep(s) /\ pc'[s] = label
  BY WritesFrame
<1>3. Numbers'
  BY <1>1, WritesNumbers, GotoNumbers DEF Numbers
<1>4. BufferFits(s)'
  BY <1>1, WritesFill DEF SessionFits, Shape
<1>5. \A r \in own'[s] \cup buffer'[s] : FitsKeys(r)
  BY WritesFit DEF SessionFits
<1>6. SessionFits(s)'
  BY <1>2, <1>4, <1>5 DEF SessionFits, FitsKeys
<1>7. QED
  BY <1>1, <1>2, <1>3, <1>6

(* A step keeps the types: of the numbers, of its session, of the others.  *)
Keeps(s) == Numbers' /\ SessionFits(s)' /\ OthersKeep(s) /\ settings' = settings

LEMMA FirstWritesTyped ==
  ASSUME NEW s \in Sessions, Typed, CreateCustomer(s) \/ InsertOrder(s)
  PROVE  Keeps(s)
<1>1. Shape /\ settings \in Settings /\ Numbers /\ SessionFits(s)
  BY DEF Typed, Accounting, Resolving, Turns
<1>2. CASE CreateCustomer(s)
  <2>1. /\ Writes(s, {CustomerRow(batch[s], cycle[s])}, AddressRow(batch[s], cycle[s]), {})
        /\ Goto(s, "catalog") /\ SameCycle /\ UNCHANGED <<orders, pick, tries>>
    BY <1>2 DEF CreateCustomer
  <2>2. \A r \in {CustomerRow(batch[s], cycle[s])} \cup {AddressRow(batch[s], cycle[s])} \cup {} :
          FitsKeys(r)
    BY RootsFitKeys
  <2>3. PoolFits(s)'
    BY <1>1, <2>1 DEF SessionFits, PoolFits
  <2>4. QED
    BY <1>1, <2>1, <2>2, <2>3, WritesTyped DEF Keeps, Shape, Labels
<1>3. CASE InsertOrder(s)
  <2>1. PICK c \in Pool(s, "customers") :
          Writes(s, {OrderRow(batch[s], cycle[s], c, pick[s][1], pick[s][3])},
                 ItemRow(batch[s], cycle[s], pick[s][2]), {})
    BY <1>3 DEF InsertOrder
  <2>2. /\ pc[s] = "order" /\ Goto(s, "details") /\ SameCycle /\ UNCHANGED <<orders, pick, tries>>
    BY <1>3 DEF InsertOrder
  <2>3. Table(c) = "customers" /\ Table(pick[s][2]) = "products"
    BY <1>1, <2>2, TablesOfIds DEF Pool, SessionFits
  <2>4. \A r \in {OrderRow(batch[s], cycle[s], c, pick[s][1], pick[s][3])}
                   \cup {ItemRow(batch[s], cycle[s], pick[s][2])} \cup {} : FitsKeys(r)
    BY <2>3, ChildrenFitKeys
  <2>5. PoolFits(s)'
    BY <1>1, <2>2 DEF SessionFits, PoolFits
  <2>6. QED
    BY <1>1, <2>1, <2>2, <2>3, <2>4, <2>5, WritesTyped DEF Keeps, Shape, Labels
<1>4. QED
  BY <1>2, <1>3

LEMMA DetailsTyped ==
  ASSUME NEW s \in Sessions, Typed, InsertDetails(s)
  PROVE  Keeps(s)
<1> DEFINE o == Id("orders", batch[s], cycle[s])
           new == [order |-> o, customer |-> ParentOf(s, o, "customers"), product |-> pick[s][2]]
           history == HistoryRow(batch[s], cycle[s])
           movement == MovementRow(batch[s], cycle[s], pick[s][1])
<1>1. /\ Shape /\ settings \in Settings /\ Numbers /\ SessionFits(s)
      /\ RowsResolve /\ SessionResolves(s)
  BY DEF Typed, Accounting, Resolving, Turns
<1>2. /\ pc[s] = "details" /\ Writes(s, {}, history, {movement})
      /\ Goto(s, "payment") /\ SameCycle /\ UNCHANGED tries
      /\ orders' = [orders EXCEPT ![s] = @ \cup {new}] /\ pick' = [pick EXCEPT ![s] = NoPick]
  BY DEF InsertDetails
<1>3. Table(o) = "orders" /\ Table(pick[s][2]) = "products"
  BY <1>1, <1>2, TablesOfIds DEF SessionFits
<1>4. Table(ParentOf(s, o, "customers")) = "customers"
  <2>1. o \in Ids(Visible(s)) /\ DataResolves(s)
    BY <1>1, <1>2 DEF SessionResolves, PickResolves
  <2>2. QED
    BY <1>1, <1>3, <2>1, ParentIsOfTable
<1>5. /\ orders'[s] = orders[s] \cup {new} /\ DOMAIN orders' = Sessions /\ DOMAIN pick' = Sessions
      /\ \A q \in Sessions \ {s} : orders'[q] = orders[q] /\ pick'[q] = pick[q]
  BY <1>1, <1>2 DEF Shape
<1>6. PoolFits(s)'
  BY <1>1, <1>3, <1>4, <1>5 DEF SessionFits, PoolFits
<1>7. \A r \in {} \cup {history} \cup {movement} : FitsKeys(r)
  BY RootsFitKeys
<1> HIDE DEF history, movement, new, o
<1>8. QED
  BY <1>1, <1>2, <1>5, <1>6, <1>7, WritesTyped DEF Keeps, Labels

LEMMA PoolWritesTyped ==
  ASSUME NEW s \in Sessions, Typed, CreatePayment(s) \/ CreateShipment(s) \/ CreateReview(s)
  PROVE  Keeps(s)
<1>1. Shape /\ settings \in Settings /\ Numbers /\ SessionFits(s)
  BY DEF Typed, Accounting, Resolving, Turns
<1>2. ASSUME NEW row, NEW label \in {"shipment", "review", "restock"}, Writes(s, {}, row, {}),
             Goto(s, label), SameCycle, UNCHANGED <<orders, pick, tries>>, FitsKeys(row)
      PROVE  Keeps(s)
  <2>1. \A r \in {} \cup {row} \cup {} : FitsKeys(r)
    BY <1>2
  <2>2. PoolFits(s)'
    BY <1>1, <1>2 DEF SessionFits, PoolFits
  <2>3. label \in Labels
    BY DEF Labels
  <2>4. QED
    BY <1>1, <1>2, <2>1, <2>2, <2>3, WritesTyped DEF Keeps, Shape
<1>3. CASE CreatePayment(s)
  <2>1. PICK o \in orders[s] :
          Writes(s, {}, PaymentRow(batch[s], cycle[s], o.order, Seed("payment_methods")), {})
    BY <1>3 DEF CreatePayment
  <2>2. FitsKeys(PaymentRow(batch[s], cycle[s], o.order, Seed("payment_methods")))
    BY <1>1, ChildrenFitKeys, TablesOfIds DEF SessionFits, PoolFits, Seed
  <2>3. QED
    BY <1>2, <1>3, <2>1, <2>2 DEF CreatePayment
<1>4. CASE CreateShipment(s)
  <2>1. PICK o \in orders[s] :
          Writes(s, {}, ShipmentRow(batch[s], cycle[s], o.order, Seed("carriers")), {})
    BY <1>4 DEF CreateShipment
  <2>2. FitsKeys(ShipmentRow(batch[s], cycle[s], o.order, Seed("carriers")))
    BY <1>1, ChildrenFitKeys, TablesOfIds DEF SessionFits, PoolFits, Seed
  <2>3. QED
    BY <1>2, <1>4, <2>1, <2>2 DEF CreateShipment
<1>5. CASE CreateReview(s)
  <2>1. PICK o \in orders[s] :
          Writes(s, {}, ReviewRow(batch[s], cycle[s], o.order, o.customer, o.product), {})
    BY <1>5 DEF CreateReview
  <2>2. FitsKeys(ReviewRow(batch[s], cycle[s], o.order, o.customer, o.product))
    BY <1>1, ChildrenFitKeys DEF SessionFits, PoolFits
  <2>3. QED
    BY <1>2, <1>5, <2>1, <2>2 DEF CreateReview
<1>6. QED
  BY <1>3, <1>4, <1>5

LEMMA CatalogTyped ==
  ASSUME NEW s \in Sessions, Typed, CreateCatalog(s)
  PROVE  Keeps(s)
<1>1. /\ Shape /\ Numbers /\ SessionFits(s)
  BY DEF Typed, Accounting, Resolving
<1> DEFINE seller == CreateSeller(s)
           product == CreateProduct(s)
<1>2. PICK w \in CreateWarehouse(s) : CreateInventory(s, {seller, product} \cup w)
  BY DEF CreateCatalog
<1> DEFINE catalog == {seller, product} \cup w
<1>3. /\ pc'[s] = "reserve" /\ SameCycle /\ UNCHANGED <<rows, stock, buffer, orders, pick, tries>>
      /\ OthersKeep(s) /\ Goto(s, "reserve")
  BY <1>1, <1>2 DEF CreateCatalog, CreateInventory, Goto, SameCycle, Quiet, Shape, OthersKeep
<1>4. \A r \in catalog : FitsKeys(r)
  <2>1. FitsKeys(seller)
    BY RootsFitKeys DEF CreateSeller
  <2>2. Table(seller.id) = "sellers"
    BY DEF CreateSeller, SellerRow, Row, Table, Id
  <2>3. FitsKeys(product)
    BY <2>2, ChildrenFitKeys, TablesOfIds DEF CreateProduct, Seed
  <2>4. \A r \in w : FitsKeys(r)
    BY RootsFitKeys DEF CreateWarehouse
  <2>5. \A r \in catalog : r = seller \/ r = product \/ r \in w
    OBVIOUS
  <2> HIDE DEF seller, product
  <2>6. QED
    BY <2>1, <2>3, <2>4, <2>5
<1>5. \A place \in Ids(OfTable(Visible(s) \cup catalog, "warehouses")) : Table(place) = "warehouses"
  BY DEF Ids, OfTable
<1>6. \A p \in Pool(s, "products") \cup Ids(OfTable(catalog, "products")) : Table(p) = "products"
  <2>1. \A p \in Pool(s, "products") : Table(p) = "products"
    BY TablesOfIds DEF Pool
  <2>2. \A p \in Ids(OfTable(catalog, "products")) : Table(p) = "products"
    BY DEF Ids, OfTable
  <2>3. QED
    BY <2>1, <2>2
<1>7. \/ own' = [own EXCEPT ![s] = @ \cup catalog] /\ UNCHANGED held
      \/ \E place \in Ids(OfTable(Visible(s) \cup catalog, "warehouses")),
            p \in Pool(s, "products") \cup Ids(OfTable(catalog, "products")), q \in Levels :
           /\ own' = [own EXCEPT ![s] = @ \cup catalog
                                          \cup {InventoryRow(NewInventory(s), place, p, q)}]
           /\ held' = [held EXCEPT ![s][NewInventory(s)] = q]
  BY <1>2 DEF CreateInventory
<1> HIDE DEF catalog
<1>8. \A r \in own'[s] : FitsKeys(r)
  <2>1. CASE own' = [own EXCEPT ![s] = @ \cup catalog]
    BY <1>1, <1>4, <2>1 DEF SessionFits, Shape
  <2>2. ASSUME NEW place, NEW p, NEW q, Table(place) = "warehouses", Table(p) = "products",
               own' = [own EXCEPT ![s] = @ \cup catalog
                                             \cup {InventoryRow(NewInventory(s), place, p, q)}]
        PROVE  \A r \in own'[s] : FitsKeys(r)
    <3>1. FitsKeys(InventoryRow(NewInventory(s), place, p, q))
      BY <2>2, ChildrenFitKeys
    <3>2. QED
      BY <1>1, <1>4, <2>2, <3>1 DEF SessionFits, Shape
  <2>3. QED
    BY <1>5, <1>6, <1>7, <2>1, <2>2
<1>9. held' \in [Sessions -> [Inventories -> Int]]
  BY <1>1, <1>7, SimulatorAssumption DEF Numbers
<1>10. Numbers'
  BY <1>1, <1>3, <1>9, GotoNumbers DEF Numbers, SameCycle, Quiet, Labels
<1>11. SessionFits(s)'
  BY <1>1, <1>3, <1>8 DEF SessionFits, BufferFits, PoolFits, FitsKeys, SameCycle, Quiet
<1>12. QED
  BY <1>3, <1>10, <1>11 DEF Keeps, SameCycle, Quiet

(* The steps that pick, take and put back stock.                           *)
LEMMA StockStepsTyped ==
  ASSUME NEW s \in Sessions, Typed,
         \/ Reserve(s) \/ Decrease(s) \/ ReserveAgain(s)
         \/ ChooseRestock(s) \/ Increase(s) \/ NoRestock(s)
  PROVE  Keeps(s)
<1>1. /\ Shape /\ Numbers /\ SessionFits(s) /\ RowsResolve /\ DataResolves(s) /\ Picked(s)
  BY DEF Typed, Accounting, Resolving, SessionResolves, Balanced
<1>2. /\ SameCycle /\ UNCHANGED <<rows, stock, buffer, orders>> /\ OthersKeep(s)
  BY <1>1 DEF Reserve, Decrease, ReserveAgain, ChooseRestock, Increase, NoRestock, Goto, SameCycle,
     Quiet, Shape, OthersKeep
<1>3. ASSUME NEW label \in Labels, Goto(s, label), tries' \in [Sessions -> 0..MaxAttempts],
             held' \in [Sessions -> [Inventories -> Int]], \A r \in own'[s] : FitsKeys(r),
             label \in {"decrease", "order", "details"} => Table(pick'[s][2]) = "products"
      PROVE  Keeps(s)
  <2>1. pc'[s] = label
    BY <1>1, <1>3 DEF Goto, Shape
  <2>2. Numbers'
    BY <1>1, <1>2, <1>3, GotoNumbers DEF Numbers, SameCycle, Quiet
  <2>3. SessionFits(s)'
    BY <1>1, <1>2, <1>3, <2>1 DEF SessionFits, BufferFits, PoolFits, FitsKeys, SameCycle, Quiet
  <2>4. QED
    BY <1>2, <2>2, <2>3 DEF Keeps, SameCycle, Quiet
<1>4. /\ tries \in [Sessions -> 0..MaxAttempts] /\ held \in [Sessions -> [Inventories -> Int]]
      /\ MaxAttempts \in Nat /\ \A r \in own[s] : FitsKeys(r)
  BY <1>1, SimulatorAssumption DEF Numbers, SessionFits
<1>5. \A i \in Inventories : InView(s, i) \in Int
  BY <1>1 DEF InView, Numbers
<1>6. CASE Reserve(s)
  <2>1. PICK i \in Inventories, q \in 1..MaxQuantity :
          /\ q <= InView(s, i)
          /\ pick' = [pick EXCEPT ![s] = <<i, ParentOf(s, InventoryId(i), "products"), q>>]
    BY <1>6 DEF Reserve
  <2>2. InventoryId(i) \in Ids(Visible(s))
    <3>1. InView(s, i) # Absent
      BY <1>5, <2>1, SimulatorAssumption DEF Absent
    <3>2. QED
      BY <1>1, <3>1, StockIsVisible
  <2>3. Table(ParentOf(s, InventoryId(i), "products")) = "products"
    BY <1>1, <2>2, ParentIsOfTable, TablesOfIds DEF InventoryId
  <2>4. pick'[s][2] = ParentOf(s, InventoryId(i), "products")
    BY <1>1, <2>1 DEF Shape
  <2>5. QED
    BY <1>3, <1>4, <1>6, <2>3, <2>4 DEF Reserve, Labels
<1>7. CASE Decrease(s)
  <2>1. /\ pc[s] = "decrease" /\ Goto(s, "order") /\ tries' = [tries EXCEPT ![s] = 0]
        /\ held' = [held EXCEPT ![s][pick[s][1]] = InView(s, pick[s][1]) - pick[s][3]]
        /\ UNCHANGED <<own, pick>>
    BY <1>7 DEF Decrease, Reaches
  <2>2. InView(s, pick[s][1]) - pick[s][3] \in Int
    BY <1>1, <1>5, <2>1 DEF Picked
  <2>3. held' \in [Sessions -> [Inventories -> Int]]
    BY <1>4, <2>1, <2>2
  <2>4. tries' \in [Sessions -> 0..MaxAttempts]
    BY <1>4, <2>1
  <2>5. Table(pick'[s][2]) = "products"
    BY <1>1, <2>1 DEF SessionFits
  <2>6. QED
    BY <1>3, <1>4, <2>1, <2>3, <2>4, <2>5 DEF Labels
<1>8. CASE ReserveAgain(s)
  <2>1. /\ tries[s] + 1 < MaxAttempts /\ Goto(s, "reserve")
        /\ tries' = [tries EXCEPT ![s] = @ + 1] /\ UNCHANGED <<own, held>>
    BY <1>8 DEF ReserveAgain
  <2>2. tries' \in [Sessions -> 0..MaxAttempts]
    BY <1>4, <2>1
  <2>3. QED
    BY <1>3, <1>4, <2>1, <2>2 DEF Labels
<1>9. CASE ChooseRestock(s)
  BY <1>3, <1>4, <1>9 DEF ChooseRestock, Labels
<1>10. CASE Increase(s)
  <2>1. /\ pc[s] = "increase" /\ Goto(s, "next") /\ UNCHANGED tries
        /\ held' = [held EXCEPT ![s][pick[s][1]] = InView(s, pick[s][1]) + pick[s][3]]
        /\ own' = [own EXCEPT ![s] =
                     @ \cup {RestockRow(batch[s], cycle[s], pick[s][1], pick[s][3])}]
    BY <1>10 DEF Increase
  <2>2. InView(s, pick[s][1]) + pick[s][3] \in Int
    BY <1>1, <1>5, <2>1 DEF Picked
  <2>3. held' \in [Sessions -> [Inventories -> Int]]
    BY <1>4, <2>1, <2>2
  <2>4. \A r \in own'[s] : FitsKeys(r)
    BY <1>1, <1>4, <2>1, RootsFitKeys DEF Shape
  <2>5. QED
    BY <1>3, <1>4, <2>1, <2>3, <2>4 DEF Labels
<1>11. CASE NoRestock(s)
  BY <1>3, <1>4, <1>11 DEF NoRestock, Labels
<1>12. QED
  BY <1>6, <1>7, <1>8, <1>9, <1>10, <1>11

LEMMA RollBackTyped ==
  ASSUME NEW s \in Sessions, Typed, Raises(s) \/ Killed(s) \/ Deadlocked(s)
  PROVE  Keeps(s)
<1>1. Shape /\ Numbers /\ settings \in Settings /\ settings.threshold \in Nat \ {0}
  BY SimulatorAssumption DEF Typed, Accounting, Resolving, Turns
<1>2. RollBack(s)
  BY DEF Raises, Killed, Deadlocked
<1>3. crashes' \in 0..MaxCrashes
  BY <1>1, SimulatorAssumption DEF Numbers, Raises, Killed, Deadlocked
<1>4. /\ OthersKeep(s) /\ own'[s] = {} /\ buffer'[s] = {} /\ orders'[s] = {} /\ pc'[s] = "dead"
      /\ settings' = settings
  BY <1>1, <1>2 DEF RollBack, Goto, Shape, OthersKeep
<1>5. Numbers'
  <2>1. NoneHeld \in [Inventories -> Int] /\ 0 \in 0..MaxAttempts
    BY SimulatorAssumption DEF NoneHeld, Free
  <2>2. held' \in [Sessions -> [Inventories -> Int]] /\ tries' \in [Sessions -> 0..MaxAttempts]
    BY <1>1, <1>2, <2>1 DEF RollBack, Numbers
  <2>3. pc' \in [Sessions -> Labels]
    BY <1>1, <1>2, GotoNumbers DEF RollBack, Labels
  <2>4. QED
    BY <1>1, <1>2, <1>3, <2>2, <2>3 DEF RollBack, Numbers
<1>6. SessionFits(s)'
  BY <1>1, <1>4, FS_EmptySet DEF SessionFits, BufferFits, PoolFits
<1>7. QED
  BY <1>4, <1>5, <1>6 DEF Keeps

LEMMA BatchStepsTyped ==
  ASSUME NEW s \in Sessions, Typed, BeginBatch(s) \/ NextCycle(s) \/ Restart(s)
  PROVE  Keeps(s)
<1>1. /\ Shape /\ Numbers /\ SessionFits(s) /\ settings \in Settings /\ last \in Nat
      /\ settings.size \in Nat \ {0} /\ (InBatch(s) => InTurn(s))
  BY SimulatorAssumption DEF Typed, Accounting, Resolving, Turns
<1>2. /\ UNCHANGED <<settings, rows, stock, own, held, buffer, pick, tries, finished, crashes>>
      /\ OthersKeep(s) /\ pc'[s] \in {"customer", "idle"}
      /\ orders'[s] = orders[s] \/ orders'[s] = {}
  BY <1>1 DEF BeginBatch, NextCycle, Restart, SameCycle, Quiet, Goto, Shape, OthersKeep
<1>3. /\ last' \in Nat /\ last <= last' /\ pc' \in [Sessions -> Labels]
      /\ batch' \in [Sessions -> 0..last'] /\ cycle' \in [Sessions -> 0..last']
  <2>1. CASE BeginBatch(s)
    <3>1. /\ Goto(s, "customer") /\ last' = last + settings.size
          /\ batch' = [batch EXCEPT ![s] = last + 1] /\ cycle' = [cycle EXCEPT ![s] = last + 1]
      BY <2>1 DEF BeginBatch
    <3>2. last' \in Nat /\ last <= last' /\ last + 1 \in 0..last' /\ 0..last \subseteq 0..last'
      BY <1>1, <3>1
    <3>3. pc' \in [Sessions -> Labels]
      BY <1>1, <3>1, GotoNumbers DEF Labels
    <3>4. batch' \in [Sessions -> 0..last'] /\ cycle' \in [Sessions -> 0..last']
      BY <1>1, <3>1, <3>2 DEF Numbers
    <3>5. QED
      BY <3>2, <3>3, <3>4
  <2>2. CASE NextCycle(s)
    <3>1. /\ Goto(s, "customer") /\ UNCHANGED <<last, batch>> /\ InBatch(s)
          /\ cycle[s] < LastCycle(s) /\ cycle' = [cycle EXCEPT ![s] = @ + 1]
      BY <2>2 DEF NextCycle, Quiet, InBatch
    <3>2. cycle[s] + 1 \in 0..last
      BY <1>1, <3>1 DEF InTurn, LastCycle
    <3>3. pc' \in [Sessions -> Labels]
      BY <1>1, <3>1, GotoNumbers DEF Labels
    <3>4. cycle' \in [Sessions -> 0..last]
      BY <1>1, <3>1, <3>2 DEF Numbers
    <3>5. QED
      BY <1>1, <3>1, <3>3, <3>4 DEF Numbers
  <2>3. CASE Restart(s)
    <3>1. Goto(s, "idle") /\ UNCHANGED <<last, batch, cycle>>
      BY <2>3 DEF Restart, SameCycle, Quiet
    <3>2. pc' \in [Sessions -> Labels]
      BY <1>1, <3>1, GotoNumbers DEF Labels
    <3>3. QED
      BY <1>1, <3>1, <3>2 DEF Numbers
  <2>4. QED
    BY <2>1, <2>2, <2>3
<1>4. Numbers'
  <2>1. 1..last \subseteq 1..last'
    BY <1>1, <1>3
  <2>2. QED
    BY <1>1, <1>2, <1>3, <2>1 DEF Numbers
<1>5. SessionFits(s)'
  BY <1>1, <1>2 DEF SessionFits, BufferFits, PoolFits, FitsKeys
<1>6. QED
  BY <1>2, <1>4, <1>5 DEF Keeps

LEMMA LastStepsTyped ==
  ASSUME NEW s \in Sessions, Typed, LastFlush(s) \/ EndBatch(s)
  PROVE  Keeps(s)
<1>1. /\ Shape /\ Numbers /\ SessionFits(s) /\ settings \in Settings /\ last \in Nat
      /\ settings.threshold \in Nat \ {0} /\ settings.size \in Nat \ {0}
      /\ (InBatch(s) => InTurn(s))
  BY SimulatorAssumption DEF Typed, Accounting, Resolving, Turns
<1>2. /\ UNCHANGED <<settings, batch, cycle, orders, pick, tries, last, crashes>>
      /\ \/ UNCHANGED <<stock, own, held>> \/ \E new : CommitWith(s, new)
      /\ buffer' = buffer \/ buffer' = [buffer EXCEPT ![s] = {}]
      /\ \E label \in {"commit", "idle"} : Goto(s, label)
  BY DEF LastFlush, EndBatch, SameCycle, Quiet
<1>3. /\ OthersKeep(s) /\ pc'[s] \in {"commit", "idle"} /\ own'[s] \in {own[s], {}}
      /\ buffer'[s] \in {buffer[s], {}}
  BY <1>1, <1>2, CommitKeepsShape DEF Goto, Shape, OthersKeep
<1>4. stock' \in [Inventories -> Int] /\ held' \in [Sessions -> [Inventories -> Int]]
  BY <1>1, <1>2, CommitNumbers DEF Numbers
<1>5. pc' \in [Sessions -> Labels]
  BY <1>1, <1>2, GotoNumbers DEF Labels
<1>6. finished' \subseteq 1..last
  <2>1. CASE LastFlush(s)
    BY <1>1, <2>1 DEF LastFlush, SameCycle, Quiet, Numbers
  <2>2. CASE EndBatch(s)
    <3>1. finished' = finished \cup {batch[s]} /\ InBatch(s)
      BY <2>2 DEF EndBatch, InBatch
    <3>2. batch[s] \in 1..last
      BY <1>1, <3>1 DEF InTurn, LastCycle
    <3>3. QED
      BY <1>1, <3>1, <3>2 DEF Numbers
  <2>3. QED
    BY <2>1, <2>2
<1>7. Numbers'
  BY <1>1, <1>2, <1>4, <1>5, <1>6 DEF Numbers
<1>8. BufferFits(s)'
  BY <1>1, <1>2, <1>3, FS_EmptySet DEF SessionFits, BufferFits
<1>9. SessionFits(s)'
  BY <1>1, <1>2, <1>3, <1>8 DEF SessionFits, PoolFits, FitsKeys
<1>10. QED
  BY <1>2, <1>3, <1>7, <1>9 DEF Keeps

LEMMA NextTyped == Typed /\ [SimulatorNext]_simulatorVars => Typed'
<1> SUFFICES ASSUME Typed, [SimulatorNext]_simulatorVars PROVE Typed'
  OBVIOUS
<1>1. Accounting'
  BY NextAccounts DEF Typed
<1>2. ASSUME NEW s \in Sessions, SimulatorStep(s)
      PROVE  Keeps(s)
  BY <1>2, FirstWritesTyped, DetailsTyped, PoolWritesTyped, CatalogTyped, StockStepsTyped,
     RollBackTyped, BatchStepsTyped, LastStepsTyped DEF SimulatorStep, Cycle
<1>3. ASSUME NEW s \in Sessions, Keeps(s)
      PROVE  Typed'
  <2>1. ASSUME NEW q \in Sessions \ {s}
        PROVE  SessionFits(q)'
    BY <1>3, OtherFits DEF Typed, Keeps
  <2>2. QED
    BY <1>1, <1>3, <2>1 DEF Typed, Keeps
<1>4. CASE UNCHANGED simulatorVars
  <2>1. Numbers'
    BY <1>4 DEF Typed, Numbers, simulatorVars, session
  <2>2. \A s \in Sessions : SessionFits(s)'
    BY <1>4 DEF Typed, SessionFits, BufferFits, PoolFits, FitsKeys, simulatorVars, session
  <2>3. QED
    BY <1>1, <2>1, <2>2 DEF Typed
<1>5. QED
  BY <1>2, <1>3, <1>4 DEF SimulatorNext

LEMMA InitTyped == SimulatorInit => Typed
<1> SUFFICES ASSUME SimulatorInit PROVE Typed
  OBVIOUS
<1>1. settings.threshold \in Nat \ {0} /\ InStock \in Int /\ MaxAttempts \in Nat
      /\ MaxCrashes \in Nat
  BY SimulatorAssumption DEF SimulatorInit
<1>2. Numbers
  BY <1>1 DEF SimulatorInit, Numbers, Labels, Absent, Free
<1>3. \A s \in Sessions : SessionFits(s)
  BY <1>1, FS_EmptySet DEF SimulatorInit, SessionFits, BufferFits, PoolFits
<1>4. QED
  BY <1>2, <1>3, InitAccounts DEF Typed

(* For any sizes, thresholds, processes and kills: the buffer of a         *)
(* BatchWriter never holds as many rows as its threshold, every row that   *)
(* is written refers to the tables its foreign keys name, every generated  *)
(* value passes its column's CHECK, and the counters keep their ranges.    *)
THEOREM SimulatorIsTyped == SimulatorSpec => []SimulatorTypeOK
<1>1. Typed => SimulatorTypeOK
  <2> SUFFICES ASSUME Typed PROVE SimulatorTypeOK
    OBVIOUS
  <2>1. settings \in Settings /\ last \in 0..MaxCycles /\ Numbers
    BY DEF Typed, Accounting, Turns
  <2>2. \A s \in Sessions : Cardinality(buffer[s]) < settings.threshold
    BY DEF Typed, SessionFits, BufferFits
  <2>3. \A s \in Sessions : \A r \in own[s] \cup buffer[s] : FitsKeys(r)
    BY DEF Typed, SessionFits
  <2>4. QED
    BY <2>1, <2>2, <2>3, GeneratorsFit DEF SimulatorTypeOK, Numbers
<1>2. QED
  BY <1>1, InitTyped, NextTyped, PTL DEF SimulatorSpec
=============================================================================
