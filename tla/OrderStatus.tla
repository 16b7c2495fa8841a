----------------------------- MODULE OrderStatus -----------------------------
(***************************************************************************)
(* OrderStatusService: at the end of a batch a simulator process walks the *)
(* orders forward.  For each status in turn it selects the oldest orders   *)
(* that have been in it long enough, rolls for each of them, and updates   *)
(* those it cancels or advances, on the condition that their status is     *)
(* still the one it selected.  All of a tick is one transaction.           *)
(*                                                                         *)
(* now() and CURRENT_TIMESTAMP are the time the transaction began, so what *)
(* is kept of time is: how long ago an order was updated, and how long ago *)
(* a process's transaction began.                                          *)
(***************************************************************************)
EXTENDS Integers, Sequences, FiniteSets

CONSTANTS
  Walkers,      \* simulator processes
  Orders,
  MinAge,       \* min_age_seconds, the same of every rule
  MaxLag,       \* how long a tick's transaction may last
  Plans,        \* what runs: [walkers, orders, limit], the limit being
                \* _CANDIDATES_PER_STATUS_PER_TICK
  MaxDeaths     \* bound: processes killed

ASSUME StatusAssumption ==
  /\ MinAge \in Nat \ {0} /\ MaxLag \in Nat /\ MaxDeaths \in Nat
  /\ Plans \subseteq [walkers : SUBSET Walkers, orders : SUBSET Orders, limit : Nat \ {0}]

VARIABLES
  plan,      \* which of Plans it is
  status,       \* orders.status, committed
  history,      \* order_status_history of an order after its first row, committed
  age,          \* the time since orders.updated_at, up to MaxAge
  rule,         \* per process: the rule it is at, 0 when it has no transaction
  lag,          \* the time since its transaction began
  candidates,   \* candidates it has still to roll for
  selected,     \* it has selected the candidates of its rule
  moves,        \* the new status of orders its transaction has updated
  deaths        \* history: processes killed

walker == <<rule, lag, candidates, selected, moves>>
statusVars == <<plan, status, history, age, walker, deaths>>

MaxAge == MinAge + MaxLag
NotYet == "none"       \* an order nobody has created
Same == "unmoved"

Forward == <<[from |-> "PENDING", to |-> "PAID"], [from |-> "PAID", to |-> "PROCESSING"],
             [from |-> "PROCESSING", to |-> "SHIPPED"], [from |-> "SHIPPED", to |-> "DELIVERED"]>>
Cancellable == {"PENDING", "PAID", "PROCESSING"}
Settled == {"DELIVERED", "CANCELLED"}
Statuses == {"PENDING", "PAID", "PROCESSING", "SHIPPED"} \cup Settled
Rules == 1..Len(Forward)

StatusInit ==
  /\ plan \in Plans
  /\ status = [o \in Orders |-> NotYet] /\ history = [o \in Orders |-> <<>>]
  /\ age = [o \in Orders |-> 0]
  /\ rule = [s \in Walkers |-> 0] /\ lag = [s \in Walkers |-> 0]
  /\ candidates = [s \in Walkers |-> {}] /\ selected = [s \in Walkers |-> FALSE]
  /\ moves = [s \in Walkers |-> [o \in Orders |-> Same]]
  /\ deaths = 0

-----------------------------------------------------------------------------
(* The world.                                                              *)

CreateOrder(o) ==
  /\ o \in plan.orders /\ status[o] = NotYet
  /\ status' = [status EXCEPT ![o] = "PENDING"]
  /\ age' = [age EXCEPT ![o] = 0]
  /\ UNCHANGED <<plan, history, walker, deaths>>

Tick ==
  /\ \A s \in Walkers : rule[s] # 0 => lag[s] < MaxLag
  /\ age' = [o \in Orders |->
              IF status[o] \in Statuses \ Settled /\ age[o] < MaxAge THEN age[o] + 1 ELSE age[o]]
  /\ lag' = [s \in Walkers |-> IF rule[s] # 0 THEN lag[s] + 1 ELSE 0]
  /\ age' # age \/ lag' # lag
  /\ UNCHANGED <<plan, status, history, rule, candidates, selected, moves, deaths>>

-----------------------------------------------------------------------------
(* progress_eligible_orders().                                             *)

Begin(s) ==
  /\ s \in plan.walkers /\ rule[s] = 0 /\ rule' = [rule EXCEPT ![s] = 1]
  /\ UNCHANGED <<plan, status, history, age, lag, candidates, selected, moves, deaths>>

(* find_eligible(): what its own transaction has moved is as young as that *)
(* transaction.                                                            *)
Eligible(s) ==
  {o \in Orders : /\ status[o] = Forward[rule[s]].from /\ moves[s][o] = Same
                  /\ age[o] - lag[s] >= MinAge}

Oldest(os, n) ==
  {c \in SUBSET os : /\ Cardinality(c) = IF Cardinality(os) < n THEN Cardinality(os) ELSE n
                     /\ \A o \in c, q \in os \ c : age[q] <= age[o]}

FindEligible(s) ==
  /\ rule[s] \in Rules /\ ~selected[s]
  /\ \E c \in Oldest(Eligible(s), plan.limit) : candidates' = [candidates EXCEPT ![s] = c]
  /\ selected' = [selected EXCEPT ![s] = TRUE]
  /\ UNCHANGED <<plan, status, history, age, rule, lag, moves, deaths>>

(* ORDER BY updated_at ASC; orders one transaction moved are equally old.  *)
Candidate(s, o) == o \in candidates[s] /\ \A q \in candidates[s] : age[q] <= age[o]
Locked(s, o) == \E q \in Walkers \ {s} : moves[q][o] # Same

Done(s, o) == candidates' = [candidates EXCEPT ![s] = @ \ {o}]

Stays(s, o) ==
  /\ Candidate(s, o) /\ Done(s, o)
  /\ UNCHANGED <<plan, status, history, age, rule, lag, selected, moves, deaths>>

(* transition(): the UPDATE waits for another's lock, then looks again.    *)
Whatever(s, o) == TRUE      \* mutant: an UPDATE by order_id alone
StillIn(s, o) == status[o] = Forward[rule[s]].from

Transition(s, o, new) ==
  /\ Candidate(s, o) /\ ~Locked(s, o) /\ Done(s, o)
  /\ IF StillIn(s, o) THEN moves' = [moves EXCEPT ![s][o] = new] ELSE UNCHANGED moves
  /\ UNCHANGED <<plan, status, history, age, rule, lag, selected, deaths>>

Advance(s, o) == rule[s] \in Rules /\ Transition(s, o, Forward[rule[s]].to)

Cancel(s, o) ==
  /\ rule[s] \in Rules /\ Forward[rule[s]].from \in Cancellable
  /\ Transition(s, o, "CANCELLED")

NextRule(s) ==
  /\ rule[s] \in Rules /\ selected[s] /\ candidates[s] = {}
  /\ rule' = [rule EXCEPT ![s] = @ + 1] /\ selected' = [selected EXCEPT ![s] = FALSE]
  /\ UNCHANGED <<plan, status, history, age, lag, candidates, moves, deaths>>

Close(s) ==
  /\ rule' = [rule EXCEPT ![s] = 0] /\ lag' = [lag EXCEPT ![s] = 0]
  /\ candidates' = [candidates EXCEPT ![s] = {}] /\ selected' = [selected EXCEPT ![s] = FALSE]
  /\ moves' = [moves EXCEPT ![s] = [o \in Orders |-> Same]]
  /\ UNCHANGED plan

(* The transaction's time is what updated_at and changed_at are set to.    *)
Commit(s) ==
  LET moved == {o \in Orders : moves[s][o] # Same} IN
  /\ rule[s] = Len(Forward) + 1 /\ Close(s)
  /\ status' = [o \in Orders |-> IF o \in moved THEN moves[s][o] ELSE status[o]]
  /\ history' = [o \in Orders |->
                  IF o \in moved THEN Append(history[o], <<status[o], moves[s][o]>>)
                  ELSE history[o]]
  /\ age' = [o \in Orders |-> IF o \in moved THEN lag[s] ELSE age[o]]
  /\ UNCHANGED deaths

(* The process is killed, or PostgreSQL ends a cycle of waits.             *)
BlockedBy(s, q) == \E o \in Orders : Candidate(s, o) /\ q # s /\ moves[q][o] # Same

Aborted(s) ==
  /\ rule[s] # 0
  /\ \/ deaths < MaxDeaths /\ deaths' = deaths + 1
     \/ (\E q \in Walkers : BlockedBy(s, q) /\ BlockedBy(q, s)) /\ UNCHANGED deaths
  /\ Close(s) /\ UNCHANGED <<status, history, age>>

Rolls(s, o) == Stays(s, o) \/ Advance(s, o) \/ Cancel(s, o)

Progress(s) ==
  \/ Begin(s) \/ FindEligible(s) \/ NextRule(s) \/ Commit(s)
  \/ \E o \in Orders : Rolls(s, o)

StatusNext ==
  \/ Tick
  \/ \E o \in Orders : CreateOrder(o)
  \/ \E s \in Walkers : Progress(s) \/ Aborted(s)

StatusSpec == StatusInit /\ [][StatusNext]_statusVars

-----------------------------------------------------------------------------
StatusTypeOK ==
  /\ plan \in Plans /\ status \in [Orders -> Statuses \cup {NotYet}]
  /\ history \in [Orders -> Seq(Statuses \X Statuses)]
  /\ age \in [Orders -> 0..MaxAge] /\ lag \in [Walkers -> 0..MaxLag]
  /\ rule \in [Walkers -> 0..(Len(Forward) + 1)] /\ selected \in [Walkers -> BOOLEAN]
  /\ candidates \in [Walkers -> SUBSET Orders] /\ deaths \in 0..MaxDeaths
  /\ moves \in [Walkers -> [Orders -> Statuses \cup {Same}]]

(* The history of an order is a path of the state machine from PENDING to  *)
(* the status the order has, and each step of it is made once: no two      *)
(* simulators advance an order twice, deliver it twice (dbt:               *)
(* order_status_history_delivered_at_most_once) or cancel what another     *)
(* has moved on.                                                           *)
Steps ==
  {<<Forward[r].from, Forward[r].to>> : r \in Rules} \cup {<<c, "CANCELLED">> : c \in Cancellable}

HistoryIsAPath ==
  \A o \in Orders : status[o] # NotYet =>
    LET path == <<<<NotYet, "PENDING">>>> \o history[o] IN
    /\ \A n \in 1..Len(history[o]) : history[o][n] \in Steps /\ path[n][2] = path[n + 1][1]
    /\ path[Len(path)][2] = status[o]

(* Every change leaves the histories such paths, and is later than the     *)
(* one before it by the age the rule asks for, although processes commit   *)
(* out of the order in which they began (dbt:                              *)
(* fact_order_status_transitions_duration_non_negative).                   *)
ChangesInOrder == \A o \in Orders : history'[o] # history[o] => age[o] - age'[o] >= MinAge

OrdersMoveSoundly == [][HistoryIsAPath' /\ ChangesInOrder]_statusVars
=============================================================================
