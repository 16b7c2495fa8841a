------------------------ MODULE MarketplaceDatabase ------------------------
(***************************************************************************)
(* How the marketplace database comes to be: the container runs the init   *)
(* scripts once, on an empty volume; an operator stamps, upgrades and      *)
(* downgrades it with Alembic; simulator batches seed the categories.      *)
(*                                                                         *)
(* An init statement is committed on its own, an Alembic command is one    *)
(* transaction, and so is a seed.  What a command answered is in outcome.  *)
(***************************************************************************)
EXTENDS MarketplaceSchema

CONSTANTS
  Seeders,      \* simulator batches, each a process of its own
  Categories,   \* the number of category names (CATEGORIES has 10)
  MaxCommands   \* bound: Alembic commands

ASSUME DatabaseAssumption == Categories \in Nat /\ MaxCommands \in Nat

VARIABLES
  boot,         \* of the container: "initialising", "up" or "interrupted"
  statement,    \* the init statement to run next
  present,      \* the objects of the marketplace schema
  version,      \* the row of alembic_version
  outcome,      \* what the last command answered
  names,        \* committed rows of categories, by name
  seeder,       \* per batch: the name it is at (0: not seeding)
  missing,      \* per batch: its look-up of that name has found nothing
  mine,         \* per batch: the names it has inserted and not committed
  overlapped,   \* history: two batches have been seeding at once
  commands      \* history: Alembic commands

built == <<boot, statement, present, version, outcome, commands>>
seeding == <<names, seeder, missing, mine, overlapped>>
databaseVars == <<built, seeding>>

Versions == {"none", "baseline", "head"}
Outcomes == {"none", "done", "exists", "no version table", "duplicates", "missing"}

DatabaseInit ==
  /\ boot = "initialising" /\ statement = 1 /\ present = {}
  /\ version = "none" /\ outcome = "none" /\ commands = 0
  /\ names = [n \in 1..Categories |-> 0] /\ overlapped = FALSE
  /\ seeder = [s \in Seeders |-> 0] /\ missing = [s \in Seeders |-> FALSE]
  /\ mine = [s \in Seeders |-> {}]

-----------------------------------------------------------------------------
(* The container.                                                          *)

RunsNow ==
  /\ InitScript[statement].needs \subseteq present
  /\ InitScript[statement].makes \cap present = {}

RunStatement ==
  /\ boot = "initialising" /\ RunsNow
  /\ present' = present \cup InitScript[statement].makes
  /\ statement' = statement + 1
  /\ boot' = IF statement = Len(InitScript) THEN "up" ELSE "initialising"
  /\ UNCHANGED <<version, outcome, commands, seeding>>

(* The volume is no longer empty, so a restart does not run the scripts.   *)
KillInit ==
  /\ boot = "initialising"
  /\ boot' = "interrupted"
  /\ UNCHANGED <<statement, present, version, outcome, commands, seeding>>

-----------------------------------------------------------------------------
(* Alembic.  The server accepts connections once the scripts are over.     *)

Command(answer) ==
  /\ boot # "initialising" /\ commands < MaxCommands
  /\ commands' = commands + 1 /\ outcome' = answer
  /\ UNCHANGED <<boot, statement, seeding>>

StampBaseline ==
  /\ version = "none" /\ version' = "baseline"
  /\ Command("done") /\ UNCHANGED present

(* The dump leaves the session without a search path, and Alembic writes   *)
(* its version with an unqualified name: the whole upgrade is rolled back. *)
UpgradeFromNothing ==
  /\ version = "none"
  /\ Command(IF Schema \in present THEN "exists" ELSE "no version table")
  /\ UNCHANGED <<present, version>>

(* ALTER TABLE waits for the transactions that have used the table.        *)
NobodySeeds == \A s \in Seeders : seeder[s] = 0
NamesAreUnique == \A n \in DOMAIN names : names[n] <= 1

UpgradeToHead ==
  /\ version = "baseline" /\ NobodySeeds
  /\ <<"table", "categories">> \in present /\ NamesAreUnique
  /\ present' = present \cup {NameUnique} /\ version' = "head"
  /\ Command("done")

UpgradeFails ==
  /\ version = "baseline" /\ NobodySeeds
  /\ \/ <<"table", "categories">> \notin present /\ Command("missing")
     \/ ~NamesAreUnique /\ Command("duplicates")
  /\ UNCHANGED <<present, version>>

DowngradeHead ==
  /\ version = "head" /\ NobodySeeds
  /\ present' = present \ {NameUnique} /\ version' = "baseline"
  /\ Command("done")

DowngradeBaseline ==
  /\ version = "baseline" /\ NobodySeeds /\ Schema \in present
  /\ boot # "initialising" /\ commands < MaxCommands
  /\ present' = {} /\ names' = [n \in DOMAIN names |-> 0]
  /\ version' = "none"
  /\ commands' = commands + 1 /\ outcome' = "done"
  /\ UNCHANGED <<boot, statement, seeder, missing, mine, overlapped>>

-----------------------------------------------------------------------------
(* seed_categories(): for each name look it up, insert it when it is       *)
(* missing, and commit at the end.  A look-up does not see the rows of a   *)
(* transaction that is still open.                                         *)

BeginSeed(s) ==
  /\ boot # "initialising" /\ <<"table", "categories">> \in present
  /\ seeder[s] = 0 /\ seeder' = [seeder EXCEPT ![s] = 1]
  /\ overlapped' = (overlapped \/ ~NobodySeeds)
  /\ UNCHANGED <<built, names, mine, missing>>

Name(s) == seeder[s]

SeedDoesNotLook(s) ==      \* mutant: the look-up is lost
  /\ seeder[s] \in 1..Categories /\ ~missing[s]
  /\ missing' = [missing EXCEPT ![s] = TRUE]
  /\ UNCHANGED <<built, names, seeder, mine, overlapped>>

SeedLooksUp(s) ==
  /\ seeder[s] \in 1..Categories /\ ~missing[s]
  /\ IF names[Name(s)] > 0
     THEN seeder' = [seeder EXCEPT ![s] = @ + 1] /\ UNCHANGED missing
     ELSE missing' = [missing EXCEPT ![s] = TRUE] /\ UNCHANGED seeder
  /\ UNCHANGED <<built, names, mine, overlapped>>

(* With the constraint an insert waits for another's uncommitted row, and  *)
(* raises when that row, or one committed since the look-up, is there.     *)
Collides(s) == NameUnique \in present /\ names[Name(s)] > 0

SeedInserts(s) ==
  /\ missing[s] /\ ~Collides(s)
  /\ NameUnique \in present => \A q \in Seeders \ {s} : Name(s) \notin mine[q]
  /\ mine' = [mine EXCEPT ![s] = @ \cup {Name(s)}]
  /\ seeder' = [seeder EXCEPT ![s] = @ + 1]
  /\ missing' = [missing EXCEPT ![s] = FALSE]
  /\ UNCHANGED <<built, names, overlapped>>

SeedEnds(s) ==
  /\ seeder' = [seeder EXCEPT ![s] = 0]
  /\ mine' = [mine EXCEPT ![s] = {}] /\ missing' = [missing EXCEPT ![s] = FALSE]
  /\ UNCHANGED <<built, overlapped>>

SeedRaises(s) == missing[s] /\ Collides(s) /\ SeedEnds(s) /\ UNCHANGED names

SeedDies(s) == seeder[s] # 0 /\ SeedEnds(s) /\ UNCHANGED names

SeedCommits(s) ==
  /\ seeder[s] = Categories + 1
  /\ names' = [n \in DOMAIN names |-> IF n \in mine[s] THEN names[n] + 1 ELSE names[n]]
  /\ SeedEnds(s)

SeedStep(s) ==
  \/ BeginSeed(s) \/ SeedLooksUp(s) \/ SeedInserts(s) \/ SeedRaises(s) \/ SeedDies(s)
  \/ SeedCommits(s)

DatabaseNext ==
  \/ RunStatement \/ KillInit
  \/ StampBaseline \/ UpgradeFromNothing \/ UpgradeToHead \/ UpgradeFails
  \/ DowngradeHead \/ DowngradeBaseline
  \/ \E s \in Seeders : SeedStep(s)

DatabaseSpec == DatabaseInit /\ [][DatabaseNext]_databaseVars

-----------------------------------------------------------------------------
DatabaseTypeOK ==
  /\ boot \in {"initialising", "up", "interrupted"} /\ statement \in 1..(Len(InitScript) + 1)
  /\ version \in Versions /\ outcome \in Outcomes /\ commands \in 0..MaxCommands
  /\ overlapped \in BOOLEAN
  /\ names \in [1..Categories -> Nat] /\ seeder \in [Seeders -> 0..(Categories + 1)]
  /\ missing \in [Seeders -> BOOLEAN] /\ mine \in [Seeders -> SUBSET (1..Categories)]

(* The scripts are in an order in which each statement finds what it needs.*)
ScriptsAreOrdered == boot = "initialising" => RunsNow

(* The scripts and the baseline describe one schema: what the scripts have *)
(* built and Alembic has brought to head is the baseline and the           *)
(* constraint of the second migration, whichever way it got there.         *)
HeadIsComplete ==
  version = "head" /\ boot = "up" => present = Baseline \cup {NameUnique}

(* Seeding again finds the categories that are there, as long as batches   *)
(* do not seed at once, and no duplicate is left under the constraint.     *)
SeedIsIdempotent ==
  ~NamesAreUnique => overlapped /\ NameUnique \notin present

(* The documents' claim, which fails: `alembic upgrade head` is enough on a *)
(* database without the schema (docstring of the baseline) and on one that  *)
(* the container's scripts have built (README).                             *)
UpgradeHeadIsEnough ==
  present = {} \/ boot = "up" => outcome \notin {"exists", "no version table"}

BringUpIsSound == ScriptsAreOrdered /\ HeadIsComplete /\ SeedIsIdempotent
=============================================================================
