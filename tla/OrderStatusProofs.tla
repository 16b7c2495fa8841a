------------------------- MODULE OrderStatusProofs -------------------------
(***************************************************************************)
(* Proofs about the walk of the orders, for any processes, orders, limits, *)
(* ages and deaths: histories are paths of the state machine, and each     *)
(* change is later than the one before it.                                 *)
(***************************************************************************)
EXTENDS OrderStatus, TLAPS

-----------------------------------------------------------------------------
(* The state machine.                                                      *)

(* How far along an order is.                                              *)
Place(x) ==
  IF x = "PENDING" THEN 1 ELSE IF x = "PAID" THEN 2 ELSE IF x = "PROCESSING" THEN 3
  ELSE IF x = "SHIPPED" THEN 4 ELSE IF x \in Settled THEN 5 ELSE 0

LEMMA RulesGoForward ==
  /\ Len(Forward) = 4 /\ Rules = 1..4
  /\ \A r \in Rules :
       /\ Forward[r].from \in Statuses \ Settled /\ Forward[r].to \in Statuses
       /\ Place(Forward[r].from) = r /\ Place(Forward[r].to) = r + 1
       /\ <<Forward[r].from, Forward[r].to>> \in Steps
       /\ Forward[r].from \in Cancellable => <<Forward[r].from, "CANCELLED">> \in Steps
<1>1. Len(Forward) = 4 /\ Rules = 1..4
  BY DEF Forward, Rules
<1>2. ASSUME NEW r \in 1..4
      PROVE  /\ Forward[r].from \in Statuses \ Settled /\ Forward[r].to \in Statuses
             /\ Place(Forward[r].from) = r /\ Place(Forward[r].to) = r + 1
  <2>1. r = 1 \/ r = 2 \/ r = 3 \/ r = 4
    OBVIOUS
  <2>2. QED
    BY <2>1 DEF Forward, Statuses, Settled, Place
<1>3. QED
  BY <1>1, <1>2 DEF Steps

(* A step leads from a status that is not settled to a later one.          *)
LEMMA StepsGoForward ==
  ASSUME NEW x, NEW y, <<x, y>> \in Steps
  PROVE  /\ x \in Statuses \ Settled /\ y \in Statuses /\ Place(x) < Place(y)
         /\ Place(x) \in 1..5 /\ Place(y) \in 1..5
<1>1. CASE \E r \in Rules : <<x, y>> = <<Forward[r].from, Forward[r].to>>
  BY <1>1, RulesGoForward
<1>2. CASE x \in Cancellable /\ y = "CANCELLED"
  BY <1>2 DEF Cancellable, Statuses, Settled, Place
<1>3. QED
  BY <1>1, <1>2 DEF Steps

-----------------------------------------------------------------------------
(* Histories.                                                              *)

PathOf(h) == <<<<NotYet, "PENDING">>>> \o h

IsPathTo(h, x) ==
  /\ \A n \in 1..Len(h) : h[n] \in Steps /\ PathOf(h)[n][2] = PathOf(h)[n + 1][1]
  /\ PathOf(h)[Len(PathOf(h))][2] = x

LEMMA PathOfHistory ==
  ASSUME NEW h \in Seq(Statuses \X Statuses)
  PROVE  /\ Len(h) \in Nat /\ Len(PathOf(h)) = Len(h) + 1
         /\ PathOf(h)[1] = <<NotYet, "PENDING">>
         /\ \A n \in 1..Len(h) : PathOf(h)[n + 1] = h[n]
BY DEF PathOf

(* A history with one more step is a path to where that step leads.        *)
LEMMA PathGrows ==
  ASSUME NEW h \in Seq(Statuses \X Statuses), NEW x, NEW y,
         IsPathTo(h, x), <<x, y>> \in Steps
  PROVE  /\ Append(h, <<x, y>>) \in Seq(Statuses \X Statuses)
         /\ IsPathTo(Append(h, <<x, y>>), y)
<1> DEFINE g == Append(h, <<x, y>>)
<1>1. x \in Statuses /\ y \in Statuses
  BY StepsGoForward
<1>2. /\ g \in Seq(Statuses \X Statuses) /\ Len(g) = Len(h) + 1 /\ Len(h) \in Nat
      /\ g[Len(h) + 1] = <<x, y>> /\ \A n \in 1..Len(h) : g[n] = h[n]
  BY <1>1
<1> HIDE DEF g
<1>3. /\ Len(PathOf(g)) = Len(h) + 2 /\ PathOf(g)[1] = <<NotYet, "PENDING">>
      /\ \A n \in 1..(Len(h) + 1) : PathOf(g)[n + 1] = g[n]
  BY <1>2, PathOfHistory
<1>4. /\ Len(PathOf(h)) = Len(h) + 1 /\ PathOf(h)[1] = <<NotYet, "PENDING">>
      /\ \A n \in 1..Len(h) : PathOf(h)[n + 1] = h[n]
  BY PathOfHistory
<1>5. \A n \in 1..(Len(h) + 1) : PathOf(g)[n] = PathOf(h)[n]
  <2> SUFFICES ASSUME NEW n \in 1..(Len(h) + 1) PROVE PathOf(g)[n] = PathOf(h)[n]
    OBVIOUS
  <2>1. CASE n = 1
    BY <2>1, <1>3, <1>4
  <2>2. CASE n # 1
    <3>1. n - 1 \in 1..Len(h) /\ n - 1 \in 1..(Len(h) + 1) /\ (n - 1) + 1 = n
      BY <2>2, <1>2
    <3>2. PathOf(g)[(n - 1) + 1] = g[n - 1] /\ PathOf(h)[(n - 1) + 1] = h[n - 1]
      BY <3>1, <1>3, <1>4
    <3>3. QED
      BY <3>1, <3>2, <1>2
  <2>3. QED
    BY <2>1, <2>2
<1>6. PathOf(g)[Len(h) + 1][2] = x
  BY <1>2, <1>4, <1>5 DEF IsPathTo
<1>7. PathOf(g)[Len(h) + 2] = <<x, y>>
  <2>1. PathOf(g)[(Len(h) + 1) + 1] = g[Len(h) + 1] /\ (Len(h) + 1) + 1 = Len(h) + 2
    BY <1>2, <1>3
  <2>2. QED
    BY <2>1, <1>2
<1>8. ASSUME NEW n \in 1..Len(g) PROVE g[n] \in Steps /\ PathOf(g)[n][2] = PathOf(g)[n + 1][1]
  <2>1. CASE n \in 1..Len(h)
    <3>1. n + 1 \in 1..(Len(h) + 1) /\ n \in 1..(Len(h) + 1)
      BY <2>1, <1>2
    <3>2. h[n] \in Steps /\ PathOf(h)[n][2] = PathOf(h)[n + 1][1]
      BY <2>1 DEF IsPathTo
    <3>3. QED
      BY <2>1, <3>1, <3>2, <1>2, <1>5
  <2>2. CASE n = Len(h) + 1
    <3>1. n + 1 = Len(h) + 2
      BY <2>2, <1>2
    <3>2. QED
      BY <2>2, <3>1, <1>2, <1>6, <1>7
  <2>3. QED
    BY <2>1, <2>2, <1>2
<1>9. IsPathTo(g, y)
  <2>1. PathOf(g)[Len(PathOf(g))][2] = y
    BY <1>3, <1>7
  <2>2. QED
    BY <2>1, <1>8 DEF IsPathTo
<1>10. QED
  BY <1>2, <1>9 DEF g

LEMMA EmptyPath == <<>> \in Seq(Statuses \X Statuses) /\ IsPathTo(<<>>, "PENDING")
<1>1. <<>> \in Seq(Statuses \X Statuses) /\ Len(<<>>) = 0
  OBVIOUS
<1>2. Len(PathOf(<<>>)) = 1 /\ PathOf(<<>>)[1] = <<NotYet, "PENDING">>
  BY DEF PathOf
<1>3. QED
  BY <1>1, <1>2 DEF IsPathTo

-----------------------------------------------------------------------------
(* The inductive invariant.                                                *)

(* What a transaction sees of an order is older than the rule asks for.    *)
Rested(s, o) == age[o] - lag[s] >= MinAge

(* A candidate is still in the status it was selected for and has rested,  *)
(* or has been moved further by another.                                   *)
CandidatesRested ==
  \A s \in Walkers : \A o \in candidates[s] :
    /\ rule[s] \in Rules /\ Place(status[o]) >= rule[s]
    /\ StillIn(s, o) => Rested(s, o)

(* What a transaction has moved is its own, and moves by a step.           *)
MovesAreOwned ==
  \A s \in Walkers, o \in Orders : moves[s][o] # Same =>
    /\ rule[s] # 0 /\ <<status[o], moves[s][o]>> \in Steps /\ Rested(s, o)
    /\ \A q \in Walkers : q # s => moves[q][o] = Same

Paths ==
  \A o \in Orders :
    /\ status[o] = NotYet => history[o] = <<>>
    /\ status[o] # NotYet => IsPathTo(history[o], status[o])

StatusInv == StatusTypeOK /\ CandidatesRested /\ MovesAreOwned /\ Paths

LEMMA MaxAgeIsEnough == MaxAge \in Nat /\ MaxAge = MinAge + MaxLag /\ MinAge \in Nat \ {0} /\ MaxLag \in Nat
BY StatusAssumption DEF MaxAge

LEMMA StatusesAreNot == NotYet \notin Statuses /\ Same \notin Statuses /\ "PENDING" \in Statuses \ Settled
BY DEF NotYet, Same, Statuses, Settled

LEMMA StatusInitInv == StatusInit => StatusInv
<1> SUFFICES ASSUME StatusInit PROVE StatusInv
  OBVIOUS
<1>1. StatusTypeOK
  <2>1. 0 \in 0..MaxAge /\ 0 \in 0..MaxLag /\ 0 \in 0..MaxDeaths /\ 0 \in 0..(Len(Forward) + 1)
    BY MaxAgeIsEnough, StatusAssumption, RulesGoForward
  <2>2. /\ status \in [Orders -> Statuses \cup {NotYet}] /\ age \in [Orders -> 0..MaxAge]
        /\ lag \in [Walkers -> 0..MaxLag] /\ rule \in [Walkers -> 0..(Len(Forward) + 1)]
    BY <2>1 DEF StatusInit
  <2>3. history \in [Orders -> Seq(Statuses \X Statuses)]
    BY EmptyPath DEF StatusInit
  <2>4. /\ selected \in [Walkers -> BOOLEAN] /\ candidates \in [Walkers -> SUBSET Orders]
        /\ moves \in [Walkers -> [Orders -> Statuses \cup {Same}]]
    BY DEF StatusInit
  <2>5. QED
    BY <2>1, <2>2, <2>3, <2>4 DEF StatusInit, StatusTypeOK
<1>2. CandidatesRested /\ MovesAreOwned /\ Paths
  BY DEF StatusInit, CandidatesRested, MovesAreOwned, Paths
<1>3. QED
  BY <1>1, <1>2 DEF StatusInv

-----------------------------------------------------------------------------
(* Steps that leave what is committed, and the time, as they are.          *)
LEMMA WalkInv ==
  ASSUME StatusInv, StatusTypeOK', CandidatesRested', MovesAreOwned',
         UNCHANGED <<status, history>>
  PROVE  StatusInv'
BY DEF StatusInv, Paths

LEMMA CreateOrderInv ==
  ASSUME StatusInv, NEW o \in Orders, CreateOrder(o) PROVE StatusInv'
<1>1. /\ status[o] = NotYet /\ status' = [status EXCEPT ![o] = "PENDING"]
      /\ age' = [age EXCEPT ![o] = 0]
      /\ UNCHANGED <<plan, history, rule, lag, candidates, selected, moves, deaths>>
  BY DEF CreateOrder, walker
<1>2. StatusTypeOK /\ CandidatesRested /\ MovesAreOwned /\ Paths
  BY DEF StatusInv
<1>3. status'[o] = "PENDING" /\ \A q \in Orders : q # o => status'[q] = status[q] /\ age'[q] = age[q]
  BY <1>1, <1>2 DEF StatusTypeOK
<1>4. StatusTypeOK'
  <2>1. status' \in [Orders -> Statuses \cup {NotYet}]
    BY <1>1, <1>2, StatusesAreNot DEF StatusTypeOK
  <2>2. age' \in [Orders -> 0..MaxAge]
    BY <1>1, <1>2, MaxAgeIsEnough DEF StatusTypeOK
  <2>3. QED
    BY <1>1, <1>2, <2>1, <2>2 DEF StatusTypeOK
<1>5. CandidatesRested'
  <2> SUFFICES ASSUME NEW s \in Walkers, NEW q \in candidates[s]
               PROVE  /\ rule[s] \in Rules /\ Place(status'[q]) >= rule[s]
                      /\ status'[q] = Forward[rule[s]].from => age'[q] - lag[s] >= MinAge
    BY <1>1 DEF CandidatesRested, StillIn, Rested
  <2>1. rule[s] \in 1..4 /\ Place(status[q]) >= rule[s] /\ q \in Orders
    BY <1>2, RulesGoForward DEF CandidatesRested, StatusTypeOK
  <2>2. q # o
    <3>1. Place(NotYet) = 0
      BY DEF Place, NotYet, Settled
    <3>2. QED
      BY <1>1, <2>1, <3>1
  <2>3. QED
    BY <2>1, <2>2, <1>2, <1>3 DEF CandidatesRested, StillIn, Rested
<1>6. MovesAreOwned'
  <2> SUFFICES ASSUME NEW s \in Walkers, NEW q \in Orders, moves[s][q] # Same
               PROVE  /\ rule[s] # 0 /\ <<status'[q], moves[s][q]>> \in Steps
                      /\ age'[q] - lag[s] >= MinAge
                      /\ \A t \in Walkers : t # s => moves[t][q] = Same
    BY <1>1 DEF MovesAreOwned, Rested
  <2>1. <<status[q], moves[s][q]>> \in Steps
    BY <1>2 DEF MovesAreOwned
  <2>2. q # o
    BY <2>1, <1>1, StepsGoForward, StatusesAreNot
  <2>3. QED
    BY <2>2, <1>2, <1>3 DEF MovesAreOwned, Rested
<1>7. Paths'
  <2> SUFFICES ASSUME NEW q \in Orders
               PROVE  /\ status'[q] = NotYet => history[q] = <<>>
                      /\ status'[q] # NotYet => IsPathTo(history[q], status'[q])
    BY <1>1 DEF Paths
  <2>1. CASE q = o
    BY <2>1, <1>1, <1>2, <1>3, EmptyPath, StatusesAreNot DEF Paths
  <2>2. CASE q # o
    BY <2>2, <1>2, <1>3 DEF Paths
  <2>3. QED
    BY <2>1, <2>2
<1>8. QED
  BY <1>4, <1>5, <1>6, <1>7 DEF StatusInv

(* An order and a transaction on it age together, up to where that is      *)
(* enough for any transaction.                                             *)
LEMMA TickInv == ASSUME StatusInv, Tick PROVE StatusInv'
<1>1. UNCHANGED <<plan, status, history, rule, candidates, selected, moves, deaths>>
  BY DEF Tick
<1>2. StatusTypeOK /\ CandidatesRested /\ MovesAreOwned /\ Paths
  BY DEF StatusInv
<1>3. \A o \in Orders :
        age'[o] = IF status[o] \in Statuses \ Settled /\ age[o] < MaxAge THEN age[o] + 1 ELSE age[o]
  BY DEF Tick
<1>4. \A s \in Walkers :
        lag'[s] = (IF rule[s] # 0 THEN lag[s] + 1 ELSE 0) /\ (rule[s] # 0 => lag[s] < MaxLag)
  BY DEF Tick
<1>5. \A o \in Orders, s \in Walkers : age[o] \in 0..MaxAge /\ lag[s] \in 0..MaxLag
  BY <1>2 DEF StatusTypeOK
<1>6. StatusTypeOK'
  <2>1. \A o \in Orders : age'[o] \in 0..MaxAge
    <3> SUFFICES ASSUME NEW o \in Orders PROVE age'[o] \in 0..MaxAge
      OBVIOUS
    <3>1. age[o] \in 0..MaxAge /\ MaxAge \in Nat
      BY <1>2, MaxAgeIsEnough DEF StatusTypeOK
    <3>2. age'[o] = age[o] \/ (age[o] < MaxAge /\ age'[o] = age[o] + 1)
      BY <1>3
    <3>3. QED
      BY <3>1, <3>2
  <2>2. \A s \in Walkers : lag'[s] \in 0..MaxLag
    <3> SUFFICES ASSUME NEW s \in Walkers PROVE lag'[s] \in 0..MaxLag
      OBVIOUS
    <3>1. lag[s] \in 0..MaxLag /\ MaxLag \in Nat
      BY <1>2, MaxAgeIsEnough DEF StatusTypeOK
    <3>2. lag'[s] = 0 \/ (lag[s] < MaxLag /\ lag'[s] = lag[s] + 1)
      BY <1>4
    <3>3. QED
      BY <3>1, <3>2
  <2>3. age' \in [Orders -> 0..MaxAge] /\ lag' \in [Walkers -> 0..MaxLag]
    BY <2>1, <2>2 DEF Tick
  <2>4. QED
    BY <1>1, <1>2, <2>3 DEF StatusTypeOK
<1>7. ASSUME NEW s \in Walkers, NEW o \in Orders, Rested(s, o), rule[s] # 0,
             status[o] \in Statuses \ Settled
      PROVE  Rested(s, o)'
  <2>1. lag'[s] = lag[s] + 1 /\ lag[s] < MaxLag /\ age[o] - lag[s] >= MinAge
    BY <1>4, <1>7 DEF Rested
  <2>2. age'[o] = IF age[o] < MaxAge THEN age[o] + 1 ELSE age[o]
    BY <1>3, <1>7
  <2>3. age'[o] - lag'[s] >= MinAge
    BY <2>1, <2>2, <1>5, MaxAgeIsEnough
  <2>4. QED
    BY <2>3 DEF Rested
<1>8. CandidatesRested'
  <2> SUFFICES ASSUME NEW s \in Walkers, NEW o \in candidates[s], StillIn(s, o)
               PROVE  Rested(s, o)'
    BY <1>1, <1>2 DEF CandidatesRested, StillIn
  <2>1. rule[s] \in 1..4 /\ Rested(s, o) /\ o \in Orders
    BY <1>2, RulesGoForward DEF CandidatesRested, StatusTypeOK
  <2>2. status[o] \in Statuses \ Settled
    BY <2>1, RulesGoForward DEF StillIn
  <2>3. QED
    BY <2>1, <2>2, <1>7
<1>9. MovesAreOwned'
  <2> SUFFICES ASSUME NEW s \in Walkers, NEW o \in Orders, moves[s][o] # Same
               PROVE  Rested(s, o)'
    BY <1>1, <1>2 DEF MovesAreOwned
  <2>1. rule[s] # 0 /\ Rested(s, o) /\ <<status[o], moves[s][o]>> \in Steps
    BY <1>2 DEF MovesAreOwned
  <2>2. status[o] \in Statuses \ Settled
    BY <2>1, StepsGoForward
  <2>3. QED
    BY <2>1, <2>2, <1>7
<1>10. QED
  BY <1>1, <1>6, <1>8, <1>9, WalkInv

-----------------------------------------------------------------------------
(* A process on its walk.                                                  *)

LEMMA BeginInv == ASSUME StatusInv, NEW s \in Walkers, Begin(s) PROVE StatusInv'
<1>1. /\ rule[s] = 0 /\ rule' = [rule EXCEPT ![s] = 1]
      /\ UNCHANGED <<plan, status, history, age, lag, candidates, selected, moves, deaths>>
  BY DEF Begin
<1>2. StatusTypeOK /\ CandidatesRested /\ MovesAreOwned
  BY DEF StatusInv
<1>3. rule'[s] = 1 /\ \A q \in Walkers : q # s => rule'[q] = rule[q]
  BY <1>1, <1>2 DEF StatusTypeOK
<1>4. StatusTypeOK'
  BY <1>1, <1>2, RulesGoForward DEF StatusTypeOK
<1>5. CandidatesRested'
  <2>1. candidates[s] = {}
    BY <1>1, <1>2, RulesGoForward DEF CandidatesRested
  <2>2. QED
    BY <1>1, <1>2, <1>3, <2>1 DEF CandidatesRested, StillIn, Rested
<1>6. MovesAreOwned'
  BY <1>1, <1>2, <1>3 DEF MovesAreOwned, Rested
<1>7. QED
  BY <1>1, <1>4, <1>5, <1>6, WalkInv

LEMMA FindEligibleInv ==
  ASSUME StatusInv, NEW s \in Walkers, FindEligible(s) PROVE StatusInv'
<1>1. PICK c \in Oldest(Eligible(s), plan.limit) : candidates' = [candidates EXCEPT ![s] = c]
  BY DEF FindEligible
<1>2. /\ rule[s] \in Rules /\ selected' = [selected EXCEPT ![s] = TRUE]
      /\ UNCHANGED <<plan, status, history, age, rule, lag, moves, deaths>>
  BY DEF FindEligible
<1>3. StatusTypeOK /\ CandidatesRested /\ MovesAreOwned
  BY DEF StatusInv
<1>4. c \subseteq Orders /\ \A o \in c : StillIn(s, o) /\ Rested(s, o)
  BY <1>1 DEF Oldest, Eligible, StillIn, Rested
<1>5. \A q \in Walkers : candidates'[q] = IF q = s THEN c ELSE candidates[q]
  BY <1>1, <1>3 DEF StatusTypeOK
<1>6. StatusTypeOK'
  BY <1>1, <1>2, <1>3, <1>4 DEF StatusTypeOK
<1>7. CandidatesRested'
  <2>1. \A o \in c : Place(status[o]) = rule[s] /\ rule[s] \in 1..4
    BY <1>2, <1>4, RulesGoForward DEF StillIn
  <2>2. \A o \in c : Place(status[o]) >= rule[s]
    BY <2>1
  <2>3. QED
    BY <1>2, <1>3, <1>4, <1>5, <2>2 DEF CandidatesRested, StillIn, Rested
<1>8. MovesAreOwned'
  BY <1>2, <1>3 DEF MovesAreOwned, Rested
<1>9. QED
  BY <1>2, <1>6, <1>7, <1>8, WalkInv

(* One candidate less; it is moved on, if at all, from the status it was   *)
(* selected for, and by nobody else.                                       *)
LEMMA RollsInv ==
  ASSUME StatusInv, NEW s \in Walkers, NEW o \in Orders, Rolls(s, o) PROVE StatusInv'
<1>1. /\ o \in candidates[s] /\ candidates' = [candidates EXCEPT ![s] = @ \ {o}]
      /\ UNCHANGED <<plan, status, history, age, rule, lag, selected, deaths>>
  BY DEF Rolls, Stays, Advance, Cancel, Transition, Candidate, Done
<1>2. StatusTypeOK /\ CandidatesRested /\ MovesAreOwned
  BY DEF StatusInv
<1>3. moves' = moves \/
        \E new \in Statuses :
          /\ moves' = [moves EXCEPT ![s][o] = new] /\ ~Locked(s, o) /\ StillIn(s, o)
          /\ <<Forward[rule[s]].from, new>> \in Steps
  <2>1. CASE Stays(s, o)
    BY <2>1 DEF Stays
  <2>2. CASE Advance(s, o)
    BY <2>2, RulesGoForward DEF Advance, Transition
  <2>3. CASE Cancel(s, o)
    <3>1. "CANCELLED" \in Statuses
      BY DEF Statuses, Settled
    <3>2. QED
      BY <2>3, <3>1, RulesGoForward DEF Cancel, Transition
  <2>4. QED
    BY <2>1, <2>2, <2>3 DEF Rolls
<1>4. \A q \in Walkers : candidates'[q] \subseteq candidates[q]
  BY <1>1, <1>2 DEF StatusTypeOK
<1>5. StatusTypeOK'
  <2>1. candidates' \in [Walkers -> SUBSET Orders]
    BY <1>1, <1>2 DEF StatusTypeOK
  <2>2. moves' \in [Walkers -> [Orders -> Statuses \cup {Same}]]
    <3>1. moves \in [Walkers -> [Orders -> Statuses \cup {Same}]]
      BY <1>2 DEF StatusTypeOK
    <3>2. ASSUME NEW new \in Statuses
          PROVE  [moves[s] EXCEPT ![o] = new] \in [Orders -> Statuses \cup {Same}]
      BY <3>1
    <3>3. ASSUME NEW new \in Statuses, moves' = [moves EXCEPT ![s][o] = new]
          PROVE  moves' \in [Walkers -> [Orders -> Statuses \cup {Same}]]
      BY <3>1, <3>2, <3>3
    <3>4. QED
      BY <3>1, <3>3, <1>3
  <2>3. QED
    BY <1>1, <1>2, <2>1, <2>2 DEF StatusTypeOK
<1>6. CandidatesRested'
  BY <1>1, <1>2, <1>4 DEF CandidatesRested, StillIn, Rested
<1>7. MovesAreOwned'
  <2>1. CASE moves' = moves
    BY <2>1, <1>1, <1>2 DEF MovesAreOwned, Rested
  <2>2. ASSUME NEW new \in Statuses, moves' = [moves EXCEPT ![s][o] = new], ~Locked(s, o),
               StillIn(s, o), <<Forward[rule[s]].from, new>> \in Steps
        PROVE  MovesAreOwned'
    <3>1. \A q \in Walkers, p \in Orders :
            moves'[q][p] = IF q = s /\ p = o THEN new ELSE moves[q][p]
      BY <2>2, <1>2 DEF StatusTypeOK
    <3>2. rule[s] \in 1..4 /\ Rested(s, o) /\ <<status[o], new>> \in Steps
      BY <1>1, <1>2, <2>2, RulesGoForward DEF CandidatesRested, StillIn
    <3>3. \A q \in Walkers : q # s => moves[q][o] = Same
      BY <2>2 DEF Locked
    <3> SUFFICES ASSUME NEW q \in Walkers, NEW p \in Orders, moves'[q][p] # Same
                 PROVE  /\ rule[q] # 0 /\ <<status[p], moves'[q][p]>> \in Steps /\ Rested(q, p)
                        /\ \A t \in Walkers : t # q => moves'[t][p] = Same
      BY <1>1 DEF MovesAreOwned, Rested
    <3>4. CASE q = s /\ p = o
      BY <3>1, <3>2, <3>3, <3>4
    <3>5. CASE q # s /\ p = o
      BY <3>1, <3>3, <3>5
    <3>6. CASE p # o
      BY <3>1, <3>6, <1>2 DEF MovesAreOwned
    <3>7. QED
      BY <3>4, <3>5, <3>6
  <2>3. QED
    BY <2>1, <2>2, <1>3
<1>8. QED
  BY <1>1, <1>5, <1>6, <1>7, WalkInv

LEMMA NextRuleInv == ASSUME StatusInv, NEW s \in Walkers, NextRule(s) PROVE StatusInv'
<1>1. /\ rule[s] \in Rules /\ candidates[s] = {} /\ rule' = [rule EXCEPT ![s] = @ + 1]
      /\ selected' = [selected EXCEPT ![s] = FALSE]
      /\ UNCHANGED <<plan, status, history, age, lag, candidates, moves, deaths>>
  BY DEF NextRule
<1>2. StatusTypeOK /\ CandidatesRested /\ MovesAreOwned
  BY DEF StatusInv
<1>3. /\ rule'[s] = rule[s] + 1 /\ rule[s] \in 1..4
      /\ \A q \in Walkers : q # s => rule'[q] = rule[q]
  BY <1>1, <1>2, RulesGoForward DEF StatusTypeOK
<1>4. StatusTypeOK'
  <2>1. rule' \in [Walkers -> 0..(Len(Forward) + 1)]
    BY <1>1, <1>2, <1>3, RulesGoForward DEF StatusTypeOK
  <2>2. QED
    BY <1>1, <1>2, <2>1 DEF StatusTypeOK
<1>5. CandidatesRested'
  BY <1>1, <1>2, <1>3 DEF CandidatesRested, StillIn, Rested
<1>6. MovesAreOwned'
  BY <1>1, <1>2, <1>3 DEF MovesAreOwned, Rested
<1>7. QED
  BY <1>1, <1>4, <1>5, <1>6, WalkInv

-----------------------------------------------------------------------------
(* The end of a transaction.                                               *)

(* A process whose transaction is over holds nothing, and the others keep  *)
(* what they hold.                                                         *)
LEMMA Closed ==
  ASSUME StatusTypeOK, NEW s \in Walkers, Close(s)
  PROVE  /\ rule' \in [Walkers -> 0..(Len(Forward) + 1)] /\ lag' \in [Walkers -> 0..MaxLag]
         /\ candidates' \in [Walkers -> SUBSET Orders] /\ selected' \in [Walkers -> BOOLEAN]
         /\ moves' \in [Walkers -> [Orders -> Statuses \cup {Same}]] /\ plan' = plan
         /\ candidates'[s] = {} /\ \A o \in Orders : moves'[s][o] = Same
         /\ \A q \in Walkers : q # s =>
              rule'[q] = rule[q] /\ lag'[q] = lag[q] /\ candidates'[q] = candidates[q]
              /\ moves'[q] = moves[q]
<1>1. rule' \in [Walkers -> 0..(Len(Forward) + 1)] /\ lag' \in [Walkers -> 0..MaxLag]
  BY MaxAgeIsEnough, RulesGoForward DEF StatusTypeOK, Close
<1>2. /\ candidates' \in [Walkers -> SUBSET Orders] /\ selected' \in [Walkers -> BOOLEAN]
      /\ moves' \in [Walkers -> [Orders -> Statuses \cup {Same}]] /\ plan' = plan
  BY DEF StatusTypeOK, Close
<1>3. candidates'[s] = {} /\ \A o \in Orders : moves'[s][o] = Same
  BY DEF StatusTypeOK, Close
<1>4. \A q \in Walkers : q # s =>
        rule'[q] = rule[q] /\ lag'[q] = lag[q] /\ candidates'[q] = candidates[q]
        /\ moves'[q] = moves[q]
  BY DEF StatusTypeOK, Close
<1>5. QED
  BY <1>1, <1>2, <1>3, <1>4

LEMMA AbortedInv == ASSUME StatusInv, NEW s \in Walkers, Aborted(s) PROVE StatusInv'
<1>1. Close(s) /\ UNCHANGED <<status, history, age>>
  BY DEF Aborted
<1>2. StatusTypeOK /\ CandidatesRested /\ MovesAreOwned
  BY DEF StatusInv
<1>3. deaths' \in 0..MaxDeaths
  BY <1>2, StatusAssumption DEF Aborted, StatusTypeOK
<1>4. StatusTypeOK'
  BY <1>1, <1>2, <1>3, Closed DEF StatusTypeOK
<1>5. CandidatesRested'
  BY <1>1, <1>2, Closed DEF CandidatesRested, StillIn, Rested
<1>6. MovesAreOwned'
  <2> SUFFICES ASSUME NEW q \in Walkers, NEW o \in Orders, moves'[q][o] # Same
               PROVE  /\ rule'[q] # 0 /\ <<status[o], moves'[q][o]>> \in Steps
                      /\ age[o] - lag'[q] >= MinAge
                      /\ \A t \in Walkers : t # q => moves'[t][o] = Same
    BY <1>1 DEF MovesAreOwned, Rested
  <2>1. q # s /\ moves'[q] = moves[q] /\ rule'[q] = rule[q] /\ lag'[q] = lag[q]
    BY <1>1, <1>2, Closed
  <2>2. /\ rule[q] # 0 /\ <<status[o], moves[q][o]>> \in Steps /\ age[o] - lag[q] >= MinAge
        /\ \A t \in Walkers : t # q => moves[t][o] = Same
    BY <2>1, <1>2 DEF MovesAreOwned, Rested
  <2>3. \A t \in Walkers : t # q => moves'[t][o] = Same
    BY <2>2, <1>1, <1>2, Closed
  <2>4. QED
    BY <2>1, <2>2, <2>3
<1>7. QED
  BY <1>1, <1>4, <1>5, <1>6, WalkInv

(* What a commit changes is one step further than it was, and as young as  *)
(* the transaction.                                                        *)
LEMMA CommitInv ==
  ASSUME StatusInv, NEW s \in Walkers, Commit(s)
  PROVE  /\ StatusInv'
         /\ \A o \in Orders : history'[o] # history[o] => age[o] - age'[o] >= MinAge
<1> DEFINE moved == {o \in Orders : moves[s][o] # Same}
<1>1. /\ Close(s) /\ deaths' = deaths
      /\ status' = [o \in Orders |-> IF o \in moved THEN moves[s][o] ELSE status[o]]
      /\ history' = [o \in Orders |->
                      IF o \in moved THEN Append(history[o], <<status[o], moves[s][o]>>)
                      ELSE history[o]]
      /\ age' = [o \in Orders |-> IF o \in moved THEN lag[s] ELSE age[o]]
  BY DEF Commit
<1>2. StatusTypeOK /\ CandidatesRested /\ MovesAreOwned /\ Paths
  BY DEF StatusInv
<1> HIDE DEF moved
<1>3. ASSUME NEW o \in moved
      PROVE  /\ o \in Orders /\ moves[s][o] # Same /\ <<status[o], moves[s][o]>> \in Steps
             /\ age[o] - lag[s] >= MinAge /\ status[o] \in Statuses /\ moves[s][o] \in Statuses
             /\ \A q \in Walkers : q # s => moves[q][o] = Same
  <2>1. o \in Orders /\ moves[s][o] # Same
    BY <1>3 DEF moved
  <2>2. QED
    BY <2>1, <1>2, StepsGoForward DEF MovesAreOwned, Rested
<1>4. ASSUME NEW o \in Orders, o \notin moved
      PROVE  status'[o] = status[o] /\ history'[o] = history[o] /\ age'[o] = age[o]
  BY <1>1, <1>4
<1>5. ASSUME NEW o \in moved
      PROVE  /\ status'[o] = moves[s][o] /\ age'[o] = lag[s]
             /\ history'[o] = Append(history[o], <<status[o], moves[s][o]>>)
  BY <1>1, <1>3
<1>6. ASSUME NEW o \in moved
      PROVE  /\ history'[o] \in Seq(Statuses \X Statuses)
             /\ IsPathTo(history'[o], status'[o]) /\ status'[o] # NotYet
  <2>1. status[o] # NotYet /\ status'[o] # NotYet /\ o \in Orders
    BY <1>3, <1>5, StatusesAreNot
  <2>2. history[o] \in Seq(Statuses \X Statuses) /\ IsPathTo(history[o], status[o])
    BY <2>1, <1>2 DEF StatusTypeOK, Paths
  <2>3. QED
    BY <2>1, <2>2, <1>3, <1>5, PathGrows
<1>7. StatusTypeOK'
  <2>1. status' \in [Orders -> Statuses \cup {NotYet}]
    BY <1>1, <1>2, <1>3 DEF StatusTypeOK
  <2>2. \A o \in Orders : history'[o] \in Seq(Statuses \X Statuses)
    BY <1>2, <1>4, <1>6 DEF StatusTypeOK
  <2>3. history' \in [Orders -> Seq(Statuses \X Statuses)]
    BY <2>2, <1>1
  <2>4. lag[s] \in 0..MaxAge
    BY <1>2, MaxAgeIsEnough DEF StatusTypeOK
  <2>5. age' \in [Orders -> 0..MaxAge]
    BY <1>1, <1>2, <2>4 DEF StatusTypeOK
  <2>6. QED
    BY <1>1, <1>2, <2>1, <2>3, <2>5, Closed DEF StatusTypeOK
<1>8. CandidatesRested'
  <2> SUFFICES ASSUME NEW q \in Walkers, NEW o \in candidates'[q]
               PROVE  /\ rule'[q] \in Rules /\ Place(status'[o]) >= rule'[q]
                      /\ status'[o] = Forward[rule'[q]].from => age'[o] - lag'[q] >= MinAge
    BY DEF CandidatesRested, StillIn, Rested
  <2>1. q # s /\ rule'[q] = rule[q] /\ lag'[q] = lag[q] /\ o \in candidates[q] /\ o \in Orders
    BY <1>1, <1>2, Closed DEF StatusTypeOK
  <2>2. rule[q] \in 1..4 /\ Rules = 1..4 /\ Place(status[o]) >= rule[q]
        /\ Place(Forward[rule[q]].from) = rule[q]
    BY <2>1, <1>2, RulesGoForward DEF CandidatesRested
  <2>3. CASE o \notin moved
    BY <2>1, <2>2, <2>3, <1>2, <1>4 DEF CandidatesRested, StillIn, Rested
  <2>4. CASE o \in moved
    <3>1. Place(status[o]) < Place(status'[o]) /\ Place(status[o]) \in 1..5 /\ Place(status'[o]) \in 1..5
      BY <2>4, <1>3, <1>5, StepsGoForward
    <3>2. Place(status'[o]) > rule[q]
      BY <3>1, <2>2
    <3>3. status'[o] # Forward[rule[q]].from
      BY <3>1, <3>2, <2>2
    <3>4. QED
      BY <3>1, <3>2, <3>3, <2>1, <2>2
  <2>5. QED
    BY <2>3, <2>4
<1>9. MovesAreOwned'
  <2> SUFFICES ASSUME NEW q \in Walkers, NEW o \in Orders, moves'[q][o] # Same
               PROVE  /\ rule'[q] # 0 /\ <<status'[o], moves'[q][o]>> \in Steps
                      /\ age'[o] - lag'[q] >= MinAge
                      /\ \A t \in Walkers : t # q => moves'[t][o] = Same
    BY DEF MovesAreOwned, Rested
  <2>1. q # s /\ moves'[q] = moves[q] /\ rule'[q] = rule[q] /\ lag'[q] = lag[q]
    BY <1>1, <1>2, Closed
  <2>2. o \notin moved
    BY <2>1, <1>3
  <2>3. /\ rule[q] # 0 /\ <<status[o], moves[q][o]>> \in Steps /\ age[o] - lag[q] >= MinAge
        /\ \A t \in Walkers : t # q => moves[t][o] = Same
    BY <2>1, <1>2 DEF MovesAreOwned, Rested
  <2>4. \A t \in Walkers : t # q => moves'[t][o] = Same
    BY <2>3, <1>1, <1>2, Closed
  <2>5. QED
    BY <2>1, <2>2, <2>3, <2>4, <1>4
<1>10. Paths'
  <2> SUFFICES ASSUME NEW o \in Orders
               PROVE  /\ status'[o] = NotYet => history'[o] = <<>>
                      /\ status'[o] # NotYet => IsPathTo(history'[o], status'[o])
    BY DEF Paths
  <2>1. CASE o \in moved
    BY <2>1, <1>6
  <2>2. CASE o \notin moved
    BY <2>2, <1>2, <1>4 DEF Paths
  <2>3. QED
    BY <2>1, <2>2
<1>11. ASSUME NEW o \in Orders, history'[o] # history[o] PROVE age[o] - age'[o] >= MinAge
  <2>1. o \in moved
    BY <1>4, <1>11
  <2>2. QED
    BY <2>1, <1>3, <1>5
<1>12. QED
  BY <1>7, <1>8, <1>9, <1>10, <1>11 DEF StatusInv

-----------------------------------------------------------------------------
LEMMA StatusInvKept ==
  ASSUME StatusInv, [StatusNext]_statusVars PROVE StatusInv' /\ ChangesInOrder
<1>1. CASE UNCHANGED statusVars
  <2>1. UNCHANGED <<plan, status, history, age, rule, lag, candidates, selected, moves, deaths>>
    BY <1>1 DEF statusVars, walker
  <2>2. StatusTypeOK'
    BY <2>1 DEF StatusInv, StatusTypeOK
  <2>3. CandidatesRested' /\ MovesAreOwned'
    BY <2>1 DEF StatusInv, CandidatesRested, MovesAreOwned, StillIn, Rested
  <2>4. QED
    BY <2>1, <2>2, <2>3, WalkInv DEF ChangesInOrder
<1>2. CASE Tick
  BY <1>2, TickInv DEF Tick, ChangesInOrder
<1>3. ASSUME NEW o \in Orders, CreateOrder(o) PROVE StatusInv' /\ ChangesInOrder
  BY <1>3, CreateOrderInv DEF CreateOrder, ChangesInOrder
<1>4. ASSUME NEW s \in Walkers, Progress(s) PROVE StatusInv' /\ ChangesInOrder
  <2>1. CASE Begin(s)
    BY <2>1, BeginInv DEF Begin, ChangesInOrder
  <2>2. CASE FindEligible(s)
    BY <2>2, FindEligibleInv DEF FindEligible, ChangesInOrder
  <2>3. CASE NextRule(s)
    BY <2>3, NextRuleInv DEF NextRule, ChangesInOrder
  <2>4. CASE Commit(s)
    BY <2>4, CommitInv DEF ChangesInOrder
  <2>5. CASE \E o \in Orders : Rolls(s, o)
    BY <2>5, RollsInv DEF Rolls, Stays, Advance, Cancel, Transition, ChangesInOrder
  <2>6. QED
    BY <1>4, <2>1, <2>2, <2>3, <2>4, <2>5 DEF Progress
<1>5. ASSUME NEW s \in Walkers, Aborted(s) PROVE StatusInv' /\ ChangesInOrder
  BY <1>5, AbortedInv DEF Aborted, ChangesInOrder
<1>6. QED
  BY <1>1, <1>2, <1>3, <1>4, <1>5 DEF StatusNext

LEMMA StatusInvariant == StatusSpec => []StatusInv
<1>1. StatusInv /\ [StatusNext]_statusVars => StatusInv'
  BY StatusInvKept
<1>2. QED
  BY <1>1, StatusInitInv, PTL DEF StatusSpec

LEMMA PathsAreHistories == Paths => HistoryIsAPath
BY DEF Paths, HistoryIsAPath, IsPathTo, PathOf

(* Every variable of the walk keeps its type, for any processes, orders,   *)
(* ages, limits and deaths.                                                *)
THEOREM StatusTypeCorrect == StatusSpec => []StatusTypeOK
<1>1. StatusInv => StatusTypeOK
  BY DEF StatusInv
<1>2. QED
  BY <1>1, StatusInvariant, PTL

(* For any number of processes and orders: the history of an order is      *)
(* always a path of the state machine to the status it has, and each       *)
(* change is later than the one before by the age the rule asks for,       *)
(* however transactions overlap, wait for each other and are ended.        *)
THEOREM OrdersAreMovedSoundly == StatusSpec => OrdersMoveSoundly
<1>1. StatusInv /\ StatusInv' /\ [StatusNext]_statusVars
        => [HistoryIsAPath' /\ ChangesInOrder]_statusVars
  <2>1. StatusInv' => Paths'
    BY DEF StatusInv
  <2>2. Paths' => HistoryIsAPath'
    BY PathsAreHistories, PTL
  <2>3. QED
    BY <2>1, <2>2, StatusInvKept
<1>2. QED
  BY <1>1, StatusInvariant, PTL DEF StatusSpec, OrdersMoveSoundly
=============================================================================
