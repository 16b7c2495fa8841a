------------------------- MODULE ControlPlaneProofs -------------------------
(***************************************************************************)
(* Proofs about the control plane, for any clients, registrations,         *)
(* bootstraps, rows and bounds: a trigger creates one run, what Glue says  *)
(* of a table was true of it, and a bootstrap may be repeated.             *)
(***************************************************************************)
EXTENDS WorkflowClient, GlueCatalog, AirflowBootstrap, TLAPS

-----------------------------------------------------------------------------
(* The Airflow client.                                                     *)

(* A call is one client's, and a call being made has no answer yet.        *)
CallsAreOwned ==
  /\ \A c, d \in Clients : call[c] = call[d] /\ call[c] # 0 => c = d
  /\ \A c \in Clients : Busy(c) => call[c] # 0 /\ answer[call[c]] = "none"
  /\ \A n \in Calls : n > calls => made[n] = 0 /\ answer[n] = "none"

(* What a call has created so far follows from the request it is at.       *)
MadeSoFar ==
  \A c \in Clients :
    /\ request[c] = "trigger" => made[call[c]] = 0
    /\ request[c] = "look_up" => made[call[c]] = 1

(* A token that the second attempt finds expired was new in this call.     *)
SecondTokenIsNew ==
  \A c \in Clients :
    Busy(c) /\ doing[c] = "send_again" /\ token[c] # "valid" => call[c] \in renewed

ClientInv == ClientTypeOK /\ CallsAreOwned /\ MadeSoFar /\ SecondTokenIsNew /\ TriggersOnce

LEMMA ClientInitInv == ClientInit => ClientInv
BY ClientAssumption
DEF ClientInit, ClientInv, ClientTypeOK, CallsAreOwned, MadeSoFar, SecondTokenIsNew, TriggersOnce,
    Busy, Calls, Logins

(* The call a busy client is at.                                           *)
LEMMA BusyCall ==
  ASSUME ClientInv, NEW c \in Clients, Busy(c)
  PROVE  /\ call[c] \in Calls /\ call[c] \in 1..calls /\ answer[call[c]] = "none"
         /\ \A d \in Clients : call[d] = call[c] => d = c
<1>1. call[c] \in 0..calls /\ calls \in 0..MaxCalls /\ MaxCalls \in Nat
  BY ClientAssumption DEF ClientInv, ClientTypeOK
<1>2. call[c] # 0 /\ answer[call[c]] = "none"
  BY DEF ClientInv, CallsAreOwned
<1>3. call[c] \in Calls /\ call[c] \in 1..calls
  BY <1>1, <1>2 DEF Calls
<1>4. \A d \in Clients : call[d] = call[c] => d = c
  BY <1>2 DEF ClientInv, CallsAreOwned
<1>5. QED
  BY <1>2, <1>3, <1>4

LEMMA ClientStepInv ==
  ASSUME ClientInv, NEW c \in Clients, ClientStep(c) PROVE ClientInv'
<1>1. ClientTypeOK /\ CallsAreOwned /\ MadeSoFar /\ SecondTokenIsNew /\ TriggersOnce
  BY DEF ClientInv
<1>2. Busy(c) => /\ call[c] \in Calls /\ call[c] \in 1..calls /\ answer[call[c]] = "none"
                 /\ \A d \in Clients : call[d] = call[c] => d = c
  BY BusyCall
<1> USE ClientAssumption
<1>3. CASE Expire(c)
  <2>1. ClientTypeOK'
    <3>1. expiries' \in 0..MaxExpiries
      BY <1>1, <1>3 DEF Expire, ClientTypeOK
    <3>2. renewed' \subseteq 1..calls
      BY <1>1, <1>2, <1>3 DEF Expire, ClientTypeOK
    <3>3. QED
      BY <1>1, <1>3, <3>1, <3>2 DEF Expire, ClientTypeOK
  <2>2. CallsAreOwned' /\ MadeSoFar'
    BY <1>1, <1>3 DEF Expire, CallsAreOwned, MadeSoFar, Busy
  <2>3. SecondTokenIsNew' /\ TriggersOnce'
    BY <1>1, <1>3 DEF Expire, SecondTokenIsNew, TriggersOnce, Busy, ClientTypeOK
  <2>4. QED
    BY <2>1, <2>2, <2>3 DEF ClientInv
<1>4. CASE Trigger(c)
  <2>1. ClientTypeOK'
    <3>1. calls' = calls + 1 /\ calls \in Nat /\ calls' \in 0..MaxCalls
      BY <1>1, <1>4 DEF Trigger, ClientTypeOK
    <3>2. 1..calls \subseteq 1..calls' /\ 0..calls \subseteq 0..calls' /\ calls' \in 0..calls'
      BY <3>1
    <3>3. call' \in [Clients -> 0..calls']
      BY <1>1, <1>4, <3>1, <3>2 DEF Trigger, ClientTypeOK
    <3>4. fault' \subseteq 1..calls' /\ renewed' \subseteq 1..calls'
      BY <1>1, <1>4, <3>2 DEF Trigger, ClientTypeOK
    <3>5. request' \in [Clients -> {"none", "trigger", "look_up"}]
          /\ doing' \in [Clients -> Logins \cup {"send", "send_again"}]
      BY <1>1, <1>4 DEF Trigger, FirstStep, ClientTypeOK, Logins
    <3>6. QED
      BY <1>1, <1>4, <3>1, <3>3, <3>4, <3>5 DEF Trigger, ClientTypeOK
  <2>2. calls + 1 \in Calls /\ made[calls + 1] = 0 /\ answer[calls + 1] = "none"
        /\ \A d \in Clients : call[d] # calls + 1
    BY <1>1, <1>4 DEF Trigger, ClientTypeOK, CallsAreOwned, Calls
  <2>3. CallsAreOwned'
    BY <1>1, <1>4, <2>2 DEF Trigger, ClientTypeOK, CallsAreOwned, Busy, Calls
  <2>4. MadeSoFar' /\ SecondTokenIsNew' /\ TriggersOnce'
    BY <1>1, <1>4, <2>2 DEF Trigger, FirstStep, ClientTypeOK, MadeSoFar, SecondTokenIsNew, TriggersOnce, Busy
  <2>5. QED
    BY <2>1, <2>3, <2>4 DEF ClientInv
<1>5. CASE LoginSucceeds(c) \/ Unauthorized(c)
  <2>1. ClientTypeOK'
    BY <1>1, <1>5 DEF LoginSucceeds, Unauthorized, ClientTypeOK, Logins
  <2>2. CallsAreOwned' /\ MadeSoFar' /\ TriggersOnce'
    BY <1>1, <1>5 DEF LoginSucceeds, Unauthorized, CallsAreOwned, MadeSoFar, TriggersOnce, Busy
  <2>3. SecondTokenIsNew'
    BY <1>1, <1>5 DEF LoginSucceeds, Unauthorized, SecondTokenIsNew, Busy, ClientTypeOK
  <2>4. QED
    BY <2>1, <2>2, <2>3 DEF ClientInv
<1>6. CASE LoginFails(c) \/ UnauthorizedAgain(c)
  <2>1. Busy(c) /\ CallRaises(c) /\ UNCHANGED <<token, made, renewed>>
        /\ fault \subseteq fault' /\ fault' \subseteq fault \cup {call[c]}
        /\ call[c] \in fault' \cup renewed
    BY <1>1, <1>6 DEF LoginFails, UnauthorizedAgain, Sends, SecondTokenIsNew
  <2>2. ClientTypeOK'
    BY <1>1, <1>2, <2>1 DEF CallRaises, ClientTypeOK
  <2>3. CallsAreOwned' /\ MadeSoFar' /\ SecondTokenIsNew'
    BY <1>1, <1>2, <2>1
    DEF CallRaises, ClientTypeOK, CallsAreOwned, MadeSoFar, SecondTokenIsNew, Busy
  <2>4. TriggersOnce'
    BY <1>1, <1>2, <2>1 DEF CallRaises, ClientTypeOK, TriggersOnce
  <2>5. QED
    BY <2>2, <2>3, <2>4 DEF ClientInv
<1>7. CASE RunIsCreated(c)
  <2>1. Busy(c) /\ made[call[c]] = 0 /\ made' = [made EXCEPT ![call[c]] = @ + 1]
    BY <1>1, <1>7 DEF RunIsCreated, Sends, Executes, MadeSoFar
  <2>2. made'[call[c]] = 1 /\ \A n \in Calls : n # call[c] => made'[n] = made[n]
    BY <1>1, <1>2, <2>1 DEF ClientTypeOK
  <2>3. ClientTypeOK'
    BY <1>1, <1>2, <1>7, <2>1 DEF RunIsCreated, ClientTypeOK
  <2>4. CallsAreOwned'
    BY <1>1, <1>2, <1>7, <2>1, <2>2 DEF RunIsCreated, ClientTypeOK, CallsAreOwned, Busy
  <2>5. MadeSoFar'
    BY <1>1, <1>2, <1>7, <2>1, <2>2, BusyCall DEF RunIsCreated, ClientTypeOK, MadeSoFar, Busy
  <2>6. SecondTokenIsNew' /\ TriggersOnce'
    BY <1>1, <1>2, <1>7, <2>1, <2>2
    DEF RunIsCreated, ClientTypeOK, SecondTokenIsNew, TriggersOnce, Busy
  <2>7. QED
    BY <2>3, <2>4, <2>5, <2>6 DEF ClientInv
<1>8. CASE Returns(c)
  <2>1. Busy(c) /\ made[call[c]] = 1
    BY <1>1, <1>8 DEF Returns, Sends, MadeSoFar
  <2>2. ClientTypeOK'
    BY <1>1, <1>2, <1>8, <2>1 DEF Returns, ClientTypeOK
  <2>3. CallsAreOwned' /\ MadeSoFar' /\ SecondTokenIsNew' /\ TriggersOnce'
    BY <1>1, <1>2, <1>8, <2>1
    DEF Returns, ClientTypeOK, CallsAreOwned, MadeSoFar, SecondTokenIsNew, TriggersOnce, Busy
  <2>4. QED
    BY <2>2, <2>3 DEF ClientInv
<1>9. CASE RequestFails(c)
  <2>1. Busy(c) /\ CallRaises(c) /\ UNCHANGED <<token, renewed>> /\ fault' = fault \cup {call[c]}
    BY <1>9 DEF RequestFails, Sends
  <2>2. /\ made' \in [Calls -> Nat] /\ made'[call[c]] <= 1
        /\ \A n \in Calls : n # call[c] => made'[n] = made[n]
    <3>1. PICK m \in {0, 1} : Executes(c, m)
      BY <1>9 DEF RequestFails
    <3>2. CASE request[c] = "trigger"
      BY <1>1, <1>2, <2>1, <3>1, <3>2 DEF Executes, MadeSoFar, ClientTypeOK
    <3>3. CASE request[c] # "trigger"
      BY <1>1, <1>2, <2>1, <3>1, <3>3 DEF Executes, TriggersOnce, ClientTypeOK
    <3>4. QED
      BY <3>2, <3>3
  <2>3. ClientTypeOK'
    BY <1>1, <1>2, <2>1, <2>2 DEF CallRaises, ClientTypeOK
  <2>4. CallsAreOwned'
    BY <1>1, <1>2, <2>1, <2>2 DEF CallRaises, ClientTypeOK, CallsAreOwned, Busy
  <2>5. \A d \in Clients : request'[d] # "none" =>
          d # c /\ request'[d] = request[d] /\ made'[call[d]] = made[call[d]]
    <3> SUFFICES ASSUME NEW d \in Clients, request'[d] # "none"
                 PROVE  d # c /\ request'[d] = request[d] /\ made'[call[d]] = made[call[d]]
      OBVIOUS
    <3>1. d # c /\ request'[d] = request[d]
      BY <1>1, <2>1 DEF CallRaises, ClientTypeOK
    <3>2. Busy(d)
      BY <3>1 DEF Busy
    <3>3. call[d] \in Calls /\ call[d] # call[c]
      BY <3>1, <3>2, <1>2, <2>1, BusyCall
    <3>4. QED
      BY <3>1, <3>3, <2>2
  <2>6. MadeSoFar'
    BY <1>1, <2>1, <2>5 DEF CallRaises, MadeSoFar
  <2>7. SecondTokenIsNew'
    BY <1>1, <2>1 DEF CallRaises, ClientTypeOK, SecondTokenIsNew, Busy
  <2>8. TriggersOnce'
    BY <1>1, <1>2, <2>1, <2>2 DEF CallRaises, ClientTypeOK, TriggersOnce
  <2>9. QED
    BY <2>3, <2>4, <2>6, <2>7, <2>8 DEF ClientInv
<1>10. QED
  BY <1>3, <1>4, <1>5, <1>6, <1>7, <1>8, <1>9 DEF ClientStep

LEMMA ClientNextInv == ClientInv /\ [ClientNext]_clientVars => ClientInv'
<1>1. ClientInv /\ ClientNext => ClientInv'
  BY ClientStepInv DEF ClientNext
<1>2. ClientInv /\ UNCHANGED clientVars => ClientInv'
  BY DEF ClientInv, ClientTypeOK, CallsAreOwned, MadeSoFar, SecondTokenIsNew, TriggersOnce, Busy,
         clientVars
<1>3. QED
  BY <1>1, <1>2

(* A trigger that is sent again after a 401 creates one run, whatever the  *)
(* number of clients, calls and tokens, and nothing is raised for a token  *)
(* that was stale when the call began.                                     *)
THEOREM TriggerIsSentOnce == ClientSpec => []TriggersOnce
<1>1. ClientInv => TriggersOnce
  BY DEF ClientInv
<1>2. QED
  BY <1>1, ClientInitInv, ClientNextInv, PTL DEF ClientSpec

-----------------------------------------------------------------------------
(* Glue.                                                                   *)

(* Some commit says what the schema is, as of any commit.                  *)
IsNewest(m, n) == m \in WithMeta(1, n) /\ \A k \in WithMeta(1, n) : k <= m
SchemaIsSaid == \A n \in 1..Len(log) : \E m \in WithMeta(1, n) : IsNewest(m, n)

(* What a table or a registration says of a commit.                        *)
Says(s, n) == n \in 1..Len(log) /\ s = SchemaAt(n) /\ s \notin Unsupported
TableIsTrue(t) == t # NoTable => Says(t.schema, t.asOf)

Listed ==
  \A r \in Registrars :
    stage[r] = "reading" =>
      /\ listed[r][1] \in 1..kept /\ listed[r][2] \in 1..Len(log)

SchemasAreRead ==
  \A r \in Registrars :
    stage[r] \in {"checking", "creating"} => Says(schema[r], listed[r][2])

(* Registrations that run at once know it, and only one of those finds a   *)
(* table that was not there when it looked.                                *)
Overlaps ==
  /\ \A q, r \in Registrars : q # r /\ Running(q) /\ Running(r) => r \in together
  /\ \A r \in Registrars : stage[r] = "creating" /\ table # NoTable => r \in together

CatalogInv ==
  /\ CatalogTypeOK /\ SchemaIsSaid /\ TableIsTrue(table) /\ TableIsTrue(moving)
  /\ Listed /\ SchemasAreRead /\ Overlaps /\ OnlyOverlapRefused

LEMMA CatalogInitInv == CatalogInit => CatalogInv
BY CatalogAssumption
DEF CatalogInit, CatalogInv, CatalogTypeOK, SchemaIsSaid, TableIsTrue, Listed, SchemasAreRead,
    Overlaps, OnlyOverlapRefused, TheTables, Running

(* The newest commit with a metaData is the largest of them.               *)
LEMMA NewestIsMax ==
  ASSUME CatalogInv, NEW n \in 1..Len(log)
  PROVE  IsNewest(Max(WithMeta(1, n)), n)
<1>1. \E m \in WithMeta(1, n) : IsNewest(m, n)
  BY DEF CatalogInv, SchemaIsSaid
<1>2. \A m \in WithMeta(1, n) : m \in Int
  BY DEF WithMeta
<1>3. \E m \in WithMeta(1, n) : \A k \in WithMeta(1, n) : m >= k
  BY <1>1, <1>2 DEF IsNewest
<1>4. Max(WithMeta(1, n)) \in WithMeta(1, n) /\ \A k \in WithMeta(1, n) : Max(WithMeta(1, n)) >= k
  BY <1>3 DEF Max
<1>5. QED
  BY <1>2, <1>4 DEF IsNewest

(* Reading backwards to the first metaData finds the schema there was.     *)
LEMMA BackwardsIsNewest ==
  ASSUME CatalogInv, NEW a \in Nat \ {0}, NEW n \in 1..Len(log), WithMeta(a, n) # {}
  PROVE  Max(WithMeta(a, n)) = Max(WithMeta(1, n))
<1> DEFINE m == Max(WithMeta(1, n))
<1>1. m \in WithMeta(1, n) /\ \A k \in WithMeta(1, n) : k <= m
  BY NewestIsMax DEF IsNewest
<1>2. WithMeta(a, n) \subseteq WithMeta(1, n)
  BY DEF WithMeta
<1>3. m \in WithMeta(a, n)
  <2>1. PICK k \in WithMeta(a, n) : TRUE
    OBVIOUS
  <2>2. k \in Nat /\ a <= k /\ k <= m /\ m \in 1..n /\ log[m] # NoMeta
    BY <2>1, <1>1, <1>2 DEF WithMeta
  <2>3. m \in a..n
    BY <2>2
  <2>4. QED
    BY <2>2, <2>3 DEF WithMeta
<1>4. \A k \in WithMeta(a, n) : m >= k /\ k \in Int /\ m \in Int
  BY <1>1, <1>2 DEF WithMeta
<1> HIDE DEF m
<1>5. \E x \in WithMeta(a, n) : \A k \in WithMeta(a, n) : x >= k
  BY <1>3, <1>4
<1>6. Max(WithMeta(a, n)) \in WithMeta(a, n)
      /\ \A k \in WithMeta(a, n) : Max(WithMeta(a, n)) >= k
  BY <1>5 DEF Max
<1>7. Max(WithMeta(a, n)) = m
  BY <1>3, <1>4, <1>6
<1>8. QED
  BY <1>7 DEF m

(* A commit changes nothing of what was said of the ones before it.        *)
LEMMA CommitKeepsSchemas ==
  ASSUME CatalogInv, CommitSilver
  PROVE  /\ Len(log') = Len(log) + 1
         /\ \A n \in 1..Len(log) : WithMeta(1, n)' = WithMeta(1, n) /\ SchemaAt(n)' = SchemaAt(n)
         /\ SchemaIsSaid'
<1>1. PICK s \in Schemas :
        log' = Append(log, IF log # <<>> /\ SchemaAt(Len(log)) = s THEN NoMeta ELSE s)
  BY DEF CommitSilver
<1> DEFINE x == IF log # <<>> /\ SchemaAt(Len(log)) = s THEN NoMeta ELSE s
<1>2. log \in Seq(Schemas \cup {NoMeta}) /\ x \in Schemas \cup {NoMeta}
  BY DEF CatalogInv, CatalogTypeOK
<1>3. log' = Append(log, x)
  BY <1>1
<1>4. x # NoMeta \/ log # <<>>
  BY CatalogAssumption DEF NoMeta
<1> HIDE DEF x
<1>5. /\ Len(log) \in Nat /\ Len(log') = Len(log) + 1 /\ log'[Len(log) + 1] = x
      /\ \A n \in 1..Len(log) : log'[n] = log[n]
  BY <1>2, <1>3
<1>6. \A n \in 1..Len(log) : WithMeta(1, n)' = WithMeta(1, n)
  BY <1>5 DEF WithMeta
<1>7. \A n \in 1..Len(log) : SchemaAt(n)' = SchemaAt(n)
  <2> SUFFICES ASSUME NEW n \in 1..Len(log) PROVE SchemaAt(n)' = SchemaAt(n)
    OBVIOUS
  <2>1. Max(WithMeta(1, n)) \in 1..Len(log)
    BY <1>5, NewestIsMax DEF IsNewest, WithMeta
  <2>2. Max(WithMeta(1, n)') = Max(WithMeta(1, n))
    BY <1>6
  <2>3. QED
    BY <2>1, <2>2, <1>5 DEF SchemaAt
<1>8. ASSUME NEW n \in 1..Len(log') PROVE \E m \in WithMeta(1, n)' : IsNewest(m, n)'
  <2>1. CASE n \in 1..Len(log)
    BY <2>1, <1>6 DEF CatalogInv, SchemaIsSaid, IsNewest
  <2>2. CASE n = Len(log) + 1 /\ x # NoMeta
    <3>1. n \in WithMeta(1, n)' /\ \A k \in WithMeta(1, n)' : k <= n
      BY <2>2, <1>5 DEF WithMeta
    <3>2. QED
      BY <3>1 DEF IsNewest
  <2>3. CASE n = Len(log) + 1 /\ x = NoMeta
    <3>1. Len(log) \in 1..Len(log)
      BY <2>3, <1>2, <1>4, <1>5
    <3>2. WithMeta(1, n)' = WithMeta(1, Len(log))
      <4>1. \A k : k \in WithMeta(1, n)' <=> k \in 1..n /\ log'[k] # NoMeta
        BY DEF WithMeta
      <4>2. \A k : k \in WithMeta(1, Len(log)) <=> k \in 1..Len(log) /\ log[k] # NoMeta
        BY DEF WithMeta
      <4>3. \A k : k \in 1..n <=> k \in 1..Len(log) \/ k = n
        BY <2>3, <1>5
      <4>4. QED
        BY <4>1, <4>2, <4>3, <2>3, <1>5
    <3>3. PICK m \in WithMeta(1, Len(log)) : IsNewest(m, Len(log))
      BY <3>1 DEF CatalogInv, SchemaIsSaid
    <3>4. QED
      BY <3>2, <3>3 DEF IsNewest
  <2>4. QED
    BY <2>1, <2>2, <2>3, <1>5
<1>9. QED
  BY <1>5, <1>6, <1>7, <1>8 DEF SchemaIsSaid

(* Steps that leave the log and what is listed, read and kept alone.       *)
LEMMA CommitSilverInv == ASSUME CatalogInv, CommitSilver PROVE CatalogInv'
<1>1. UNCHANGED <<kept, database, table, stage, listed, schema, together, moving, uses>>
  BY DEF CommitSilver
<1>2. /\ Len(log') = Len(log) + 1 /\ SchemaIsSaid'
      /\ \A n \in 1..Len(log) : SchemaAt(n)' = SchemaAt(n)
  BY CommitKeepsSchemas
<1>3. Len(log) \in Nat /\ \A n : n \in 1..Len(log) => n \in 1..Len(log')
  BY <1>2 DEF CatalogInv, CatalogTypeOK
<1>4. \A s, n : Says(s, n) => Says(s, n)'
  BY <1>2, <1>3 DEF Says
<1>5. CatalogTypeOK'
  <2>1. log' \in Seq(Schemas \cup {NoMeta})
    BY DEF CommitSilver, CatalogInv, CatalogTypeOK
  <2>2. Len(log') <= MaxCommits
    BY <1>2, <1>3, CatalogAssumption DEF CommitSilver, CatalogInv, CatalogTypeOK
  <2>3. QED
    BY <1>1, <2>1, <2>2 DEF CatalogInv, CatalogTypeOK
<1>6. TableIsTrue(table)' /\ TableIsTrue(moving)' /\ SchemasAreRead'
  BY <1>1, <1>4 DEF CatalogInv, TableIsTrue, SchemasAreRead
<1>7. Listed'
  BY <1>1, <1>3 DEF CatalogInv, Listed
<1>8. Overlaps' /\ OnlyOverlapRefused'
  BY <1>1 DEF CatalogInv, Overlaps, OnlyOverlapRefused, Running
<1>9. QED
  BY <1>2, <1>5, <1>6, <1>7, <1>8 DEF CatalogInv

LEMMA SchemasStay == ASSUME UNCHANGED log PROVE (SchemaIsSaid' <=> SchemaIsSaid) /\ \A s, n : Says(s, n)' <=> Says(s, n)
BY DEF SchemaIsSaid, IsNewest, WithMeta, Says, SchemaAt

LEMMA CatalogUseInv ==
  ASSUME CatalogInv,
         CleanUpLog \/ CreateDatabase \/ DeleteDatabase \/ DeleteTable \/ ReadTable
           \/ UpdateTableLocation
  PROVE  CatalogInv'
<1>1. UNCHANGED <<log, stage, listed, schema, together>>
  BY DEF CleanUpLog, CreateDatabase, DeleteDatabase, DeleteTable, ReadTable, UpdateTableLocation, Uses
<1>2. kept \in Nat \ {0} /\ kept' \in Nat /\ kept <= kept'
  BY DEF CatalogInv, CatalogTypeOK, CleanUpLog, CreateDatabase, DeleteDatabase, DeleteTable, ReadTable,
         UpdateTableLocation, Uses
<1>3. table' \in {table, NoTable, moving} /\ moving' \in {moving, NoTable, table}
      /\ (table' # NoTable => table # NoTable)
  BY DEF CleanUpLog, CreateDatabase, DeleteDatabase, DeleteTable, ReadTable, UpdateTableLocation, Uses
<1>4. NoTable \in TheTables
  BY DEF TheTables
<1>5. CatalogTypeOK'
  <2>1. database' \in BOOLEAN
    BY DEF CatalogInv, CatalogTypeOK, CleanUpLog, CreateDatabase, DeleteDatabase, DeleteTable,
           ReadTable, UpdateTableLocation
  <2>2. uses' \in 0..MaxUses
    <3>1. uses \in 0..MaxUses /\ MaxUses \in Nat
      BY CatalogAssumption DEF CatalogInv, CatalogTypeOK
    <3>2. uses' = uses \/ (uses < MaxUses /\ uses' = uses + 1)
      BY DEF CleanUpLog, CreateDatabase, DeleteDatabase, DeleteTable, ReadTable,
             UpdateTableLocation, Uses
    <3>3. QED
      BY <3>1, <3>2
  <2>3. QED
    BY <1>1, <1>2, <1>3, <1>4, <2>1, <2>2 DEF CatalogInv, CatalogTypeOK
<1>6. SchemaIsSaid' /\ SchemasAreRead'
  BY <1>1, SchemasStay DEF CatalogInv, SchemasAreRead
<1>7. TableIsTrue(table)' /\ TableIsTrue(moving)'
  BY <1>1, <1>3, SchemasStay DEF CatalogInv, TableIsTrue
<1>8. Listed'
  BY <1>1, <1>2 DEF CatalogInv, Listed
<1>9. Overlaps' /\ OnlyOverlapRefused'
  BY <1>1, <1>3 DEF CatalogInv, Overlaps, OnlyOverlapRefused, Running
<1>10. QED
  BY <1>5, <1>6, <1>7, <1>8, <1>9 DEF CatalogInv

LEMMA RegisterInv ==
  ASSUME CatalogInv, NEW r \in Registrars, Register(r) PROVE CatalogInv'
<1> DEFINE Moved(label) == stage' = [stage EXCEPT ![r] = label]
<1>1. UNCHANGED <<log, kept, database, moving, uses>>
  BY DEF Register, ListLog, ReadSchema, ReadRaises, TableExists, CreateGlueTable, CreateRaises,
         RunAgain, GlueUnchanged
<1>2. CatalogTypeOK /\ SchemaIsSaid /\ TableIsTrue(table) /\ TableIsTrue(moving)
      /\ Listed /\ SchemasAreRead /\ Overlaps /\ OnlyOverlapRefused
  BY DEF CatalogInv
<1>3. SchemaIsSaid' /\ TableIsTrue(moving)'
  BY <1>1, <1>2, SchemasStay DEF TableIsTrue
<1>4. \A q \in Registrars : q # r => stage'[q] = stage[q]
  BY <1>2 DEF Register, ListLog, ReadSchema, ReadRaises, TableExists, CreateGlueTable, CreateRaises,
         RunAgain, StageGoes, CatalogTypeOK
<1>5. CASE ListLog(r)
  <2>1. /\ listed' = [listed EXCEPT ![r] = <<kept, Len(log)>>] /\ UNCHANGED <<schema, table>>
        /\ stage'[r] \in {"no_Delta_table", "reading"} /\ stage[r] = "idle"
        /\ stage'[r] = "reading" => log # <<>>
    BY <1>2, <1>5 DEF ListLog, StageGoes, GlueUnchanged, CatalogTypeOK
  <2>2. /\ together \subseteq together' /\ together' \subseteq Registrars
        /\ \A q \in Registrars : q # r /\ Running(q) => q \in together' /\ r \in together'
    BY <1>2, <1>5 DEF ListLog, CatalogTypeOK
  <2>3. CatalogTypeOK'
    <3>1. stage' \in [Registrars -> {"idle", "reading", "checking", "creating", "completed",
                        "no_Delta_table", "raised", "raised_exists"}]
      BY <1>2, <1>5 DEF ListLog, StageGoes, CatalogTypeOK
    <3>2. QED
      <4>1. listed' \in [Registrars -> (Nat \ {0}) \X Nat]
        BY <1>2, <2>1 DEF CatalogTypeOK
      <4>2. QED
        BY <1>1, <1>2, <2>1, <2>2, <3>1, <4>1 DEF CatalogTypeOK
  <2>4. TableIsTrue(table)'
    BY <1>1, <1>2, <2>1, SchemasStay DEF TableIsTrue
  <2>5. Listed'
    <3>1. log # <<>> => Len(log) \in 1..Len(log)
      BY <1>2 DEF CatalogTypeOK
    <3>2. kept \in 1..kept
      BY <1>2 DEF CatalogTypeOK
    <3>3. \A q \in Registrars : listed'[q] = IF q = r THEN <<kept, Len(log)>> ELSE listed[q]
      BY <1>2, <2>1 DEF CatalogTypeOK
    <3>4. QED
      BY <1>1, <1>2, <1>4, <2>1, <3>1, <3>2, <3>3 DEF Listed
  <2>6. SchemasAreRead'
    BY <1>1, <1>2, <1>4, <2>1, SchemasStay DEF SchemasAreRead
  <2>7. Overlaps' /\ OnlyOverlapRefused'
    BY <1>2, <1>4, <2>1, <2>2 DEF Overlaps, OnlyOverlapRefused, Running
  <2>8. QED
    BY <1>3, <2>3, <2>4, <2>5, <2>6, <2>7 DEF CatalogInv
<1>6. CASE ReadSchema(r)
  <2> DEFINE a == listed[r][1]
             n == listed[r][2]
  <2>1. /\ stage[r] = "reading" /\ WithMeta(a, n) # {} /\ log[Newest(r)] \notin Unsupported
        /\ Newest(r) = Max(WithMeta(a, n))
        /\ schema' = [schema EXCEPT ![r] = log[Newest(r)]]
        /\ stage' = [stage EXCEPT ![r] = "checking"] /\ UNCHANGED <<table, listed, together>>
    BY <1>6 DEF ReadSchema, StageGoes, GlueUnchanged, MetaFound, Newest
  <2>2. a \in Nat \ {0} /\ n \in 1..Len(log)
    BY <1>2, <2>1 DEF Listed, CatalogTypeOK
  <2> HIDE DEF a, n
  <2>3. Newest(r) = Max(WithMeta(1, n))
    BY <2>1, <2>2, BackwardsIsNewest
  <2>4. log[Newest(r)] = SchemaAt(n)
    BY <2>3 DEF SchemaAt
  <2>5. Newest(r) \in WithMeta(1, n)
    BY <2>2, <2>3, NewestIsMax DEF IsNewest
  <2>6. log[Newest(r)] \in Schemas
    <3>1. Newest(r) \in 1..Len(log) /\ log[Newest(r)] # NoMeta
      BY <1>2, <2>2, <2>5 DEF WithMeta, CatalogTypeOK
    <3>2. QED
      BY <1>2, <3>1 DEF CatalogTypeOK
  <2>7. CatalogTypeOK'
    BY <1>1, <1>2, <2>1, <2>6 DEF CatalogTypeOK
  <2>8. Says(schema'[r], listed'[r][2])
    BY <1>2, <2>1, <2>2, <2>4 DEF Says, CatalogTypeOK, n
  <2>9. SchemasAreRead'
    <3>1. \A q \in Registrars : q # r => schema'[q] = schema[q]
      BY <1>2, <2>1 DEF CatalogTypeOK
    <3>2. \A q \in Registrars :
            stage'[q] \in {"checking", "creating"} => Says(schema'[q], listed'[q][2])
      BY <1>2, <1>4, <2>1, <2>8, <3>1 DEF SchemasAreRead
    <3>3. QED
      BY <1>1, <3>2, SchemasStay DEF SchemasAreRead
  <2>10. stage'[r] = "checking"
    BY <1>2, <2>1 DEF CatalogTypeOK
  <2>11. TableIsTrue(table)' /\ Listed'
    BY <1>1, <1>2, <1>4, <2>1, <2>10, SchemasStay DEF TableIsTrue, Listed
  <2>12. Overlaps' /\ OnlyOverlapRefused'
    BY <1>2, <1>4, <2>1, <2>10 DEF Overlaps, OnlyOverlapRefused, Running
  <2>13. QED
    BY <1>3, <2>7, <2>9, <2>11, <2>12 DEF CatalogInv
<1>7. CASE ReadRaises(r) \/ TableExists(r) \/ CreateRaises(r)
  <2>1. /\ UNCHANGED <<table, listed, schema, together>>
        /\ stage[r] \in {"reading", "checking", "creating"}
        /\ \/ stage'[r] \in {"raised", "completed"}
           \/ stage'[r] = "creating" /\ stage[r] = "checking" /\ table = NoTable
           \/ stage'[r] = "raised_exists" /\ stage[r] = "creating" /\ table # NoTable
    BY <1>2, <1>7 DEF ReadRaises, TableExists, CreateRaises, StageGoes, GlueUnchanged, CatalogTypeOK
  <2>2. CatalogTypeOK'
    BY <1>1, <1>2, <1>7, <2>1
    DEF ReadRaises, TableExists, CreateRaises, StageGoes, CatalogTypeOK
  <2>3. SchemasAreRead' /\ TableIsTrue(table)' /\ Listed'
    BY <1>1, <1>2, <1>4, <2>1, SchemasStay DEF SchemasAreRead, TableIsTrue, Listed
  <2>4. Overlaps' /\ OnlyOverlapRefused'
    BY <1>2, <1>4, <2>1 DEF Overlaps, OnlyOverlapRefused, Running
  <2>5. QED
    BY <1>3, <2>2, <2>3, <2>4 DEF CatalogInv
<1>8. CASE CreateGlueTable(r)
  <2>1. /\ stage[r] = "creating" /\ stage'[r] = "completed" /\ table = NoTable
        /\ table' = TableOf(schema[r], listed[r][2]) /\ UNCHANGED <<listed, schema, together>>
    BY <1>2, <1>8 DEF CreateGlueTable, StageGoes, CatalogTypeOK
  <2>2. Says(schema[r], listed[r][2])
    BY <1>2, <2>1 DEF SchemasAreRead
  <2>3. table'.schema = schema[r] /\ table'.asOf = listed[r][2]
    BY <2>1 DEF TableOf
  <2>4. schema[r] \in Schemas
    <3>1. IsNewest(Max(WithMeta(1, listed[r][2])), listed[r][2])
      BY <2>2, NewestIsMax DEF Says
    <3>2. Max(WithMeta(1, listed[r][2])) \in 1..Len(log) /\ schema[r] # NoMeta
      BY <1>2, <2>2, <3>1 DEF IsNewest, WithMeta, Says, SchemaAt, CatalogTypeOK
    <3>3. QED
      BY <1>2, <3>2 DEF CatalogTypeOK
  <2>5. table' \in TheTables
    <3>1. listed[r][2] \in 1..MaxCommits
      BY <1>2, <2>2, CatalogAssumption DEF Says, CatalogTypeOK
    <3>2. QED
      BY <2>1, <2>4, <3>1 DEF TableOf, TheTables
  <2>6. CatalogTypeOK'
    BY <1>1, <1>2, <1>8, <2>1, <2>5 DEF CreateGlueTable, StageGoes, CatalogTypeOK
  <2>7. TableIsTrue(table)'
    BY <1>1, <2>2, <2>3, SchemasStay DEF TableIsTrue
  <2>8. SchemasAreRead' /\ Listed'
    BY <1>1, <1>2, <1>4, <2>1, SchemasStay DEF SchemasAreRead, Listed
  <2>9. Overlaps' /\ OnlyOverlapRefused'
    BY <1>2, <1>4, <2>1 DEF Overlaps, OnlyOverlapRefused, Running
  <2>10. QED
    BY <1>3, <2>6, <2>7, <2>8, <2>9 DEF CatalogInv
<1>9. CASE RunAgain(r)
  <2>1. /\ stage'[r] = "idle" /\ together' = together \ {r} /\ ~Running(r) /\ UNCHANGED table
        /\ \A q \in Registrars : q # r => listed'[q] = listed[q] /\ schema'[q] = schema[q]
    BY <1>2, <1>9 DEF RunAgain, StageGoes, GlueUnchanged, CatalogTypeOK
  <2>2. CatalogTypeOK'
    BY <1>1, <1>2, <1>9 DEF RunAgain, StageGoes, GlueUnchanged, CatalogTypeOK
  <2>3. SchemasAreRead' /\ Listed' /\ TableIsTrue(table)'
    BY <1>1, <1>2, <1>4, <2>1, SchemasStay DEF SchemasAreRead, Listed, TableIsTrue
  <2>4. Overlaps' /\ OnlyOverlapRefused'
    BY <1>2, <1>4, <2>1 DEF Overlaps, OnlyOverlapRefused, Running
  <2>5. QED
    BY <1>3, <2>2, <2>3, <2>4 DEF CatalogInv
<1>10. QED
  BY <1>5, <1>6, <1>7, <1>8, <1>9 DEF Register

LEMMA CatalogNextInv == CatalogInv /\ [CatalogNext]_catalogVars => CatalogInv'
<1>1. CatalogInv /\ CatalogNext => CatalogInv'
  BY CommitSilverInv, CatalogUseInv, RegisterInv DEF CatalogNext
<1>2. ASSUME CatalogInv, UNCHANGED catalogVars PROVE CatalogInv'
  <2>1. UNCHANGED <<log, kept, database, table, stage, listed, schema, together, moving, uses>>
    BY <1>2 DEF catalogVars
  <2>2. CatalogTypeOK' /\ Listed' /\ Overlaps' /\ OnlyOverlapRefused'
    BY <1>2, <2>1 DEF CatalogInv, CatalogTypeOK, Listed, Overlaps, OnlyOverlapRefused, Running
  <2>3. SchemaIsSaid' /\ TableIsTrue(table)' /\ TableIsTrue(moving)' /\ SchemasAreRead'
    BY <1>2, <2>1, SchemasStay DEF CatalogInv, TableIsTrue, SchemasAreRead
  <2>4. QED
    BY <2>2, <2>3 DEF CatalogInv
<1>3. QED
  BY <1>1, <1>2

(* For any number of registrations, commits and schemas: the schema Glue   *)
(* has is the one the table had at the commit it was listed at, however    *)
(* the log is cleaned up and Glue is used meanwhile.                       *)
THEOREM GlueTellsTheTruth == CatalogSpec => []CatalogIsTruthful
<1>1. CatalogInv => CatalogIsTruthful
  BY DEF CatalogInv, TableIsTrue, Says, CatalogIsTruthful
<1>2. QED
  BY <1>1, CatalogInitInv, CatalogNextInv, PTL DEF CatalogSpec

(* A registration is refused for a table that exists only if another ran   *)
(* at once.                                                                *)
THEOREM RegistrationIsRepeatable == CatalogSpec => []OnlyOverlapRefused
<1>1. CatalogInv => OnlyOverlapRefused
  BY DEF CatalogInv
<1>2. QED
  BY <1>1, CatalogInitInv, CatalogNextInv, PTL DEF CatalogSpec

-----------------------------------------------------------------------------
(* The bootstrap of Airflow.                                               *)

(* What a bootstrap that has looked up or written a row is doing.          *)
AtWork ==
  \A b \in Boots :
    /\ seen[b] # Unseen => AtRow(b) /\ section[b] \in Transactions
    /\ wrote[b] # {} => Active(b) /\ section[b] \in Transactions /\ wrote[b] \subseteq RowsOf(section[b])

AloneMeansAlone ==
  /\ \A b, q \in Boots : alone[b] /\ q # b => ~Active(q)
  /\ ~concurrent => \A b \in Boots : Active(b) => alone[b]

(* What a bootstrap on its own has seen is still there, and what it has    *)
(* done is as its configuration says.                                      *)
Passed(b, i) ==
  LET r == Sections[section[b]][i] IN
    committed[r] = BuiltFrom(taken[b], section[b], r) \/ r \in wrote[b]

DoneSoFar ==
  \A b \in Boots : alone[b] =>
    /\ seen[b] # Unseen => committed[RowAt(b)] = seen[b]
    /\ \A n \in 1..4 : n < section[b] => \A r \in RowsOf(n) :
         IsFinal(n, r) => committed[r] = BuiltFrom(taken[b], n, r)
    /\ Active(b) => \A i \in 1..Len(Sections[section[b]]) : i < nth[b] => Passed(b, i)

(* What is read later is not what the rows so far are made of.             *)
ReadSoFar ==
  \A b \in Boots :
    /\ section[b] \in 1..5 => taken[b]["environment"] # 0
    /\ section[b] \in 2..5 =>
         taken[b]["config.yaml"] # 0 /\ taken[b]["terraform_outputs.json"] # 0
    /\ section[b] = 5 => taken[b]["pools.json"] # 0
    /\ Active(b) /\ nth[b] # 1 => HasRead(b)

BootstrapInv ==
  /\ BootstrapTypeOK /\ AtWork /\ AloneMeansAlone /\ DoneSoFar /\ ReadSoFar
  /\ ~concurrent => \A n \in Transactions : IsWhole(n)

(* The rows of a section are those of its sequence.                        *)
LEMMA SectionRows ==
  ASSUME NEW n \in 1..4
  PROVE  /\ Len(Sections[n]) \in Nat /\ RowsOf(n) \subseteq AirflowRows
         /\ \A i \in 1..Len(Sections[n]) : Sections[n][i] \in RowsOf(n)
         /\ \A r \in RowsOf(n) : \E i \in 1..Len(Sections[n]) : r = Sections[n][i]
<1>1. Sections[n] \in Seq(STRING)
  BY BootstrapAssumption
<1>2. Len(Sections[n]) \in Nat /\ DOMAIN Sections[n] = 1..Len(Sections[n])
  BY <1>1
<1>3. RowsOf(n) \subseteq AirflowRows
  <2>1. n = 1 \/ n = 2 \/ n = 3 \/ n = 4
    OBVIOUS
  <2>2. QED
    BY <2>1 DEF AirflowRows
<1>4. \A r : r \in RowsOf(n) <=> \E i \in DOMAIN Sections[n] : r = Sections[n][i]
  BY DEF RowsOf, ToSet
<1>5. QED
  BY <1>2, <1>3, <1>4

(* What a section makes of a row is made of some of the inputs, all read   *)
(* when the section is over.                                               *)
LEMMA InputsRead ==
  ASSUME NEW n \in 1..4, NEW r \in RowsOf(n)
  PROVE  /\ InputsOf(n, r) \subseteq Inputs
         /\ n = 1 => InputsOf(n, r) \subseteq {"environment", "terraform_outputs.json"}
         /\ n = 2 => InputsOf(n, r) = {"terraform_outputs.json"}
         /\ n = 3 => InputsOf(n, r) = {"config.yaml"}
         /\ n = 4 => InputsOf(n, r) = {"pools.json"}
<1>1. CASE n = 1
  <2>1. InputsOf(n, r) = ConnectionInputs[r] /\ r \in RowsOf(1)
    BY <1>1 DEF InputsOf
  <2>2. ConnectionInputs[r] \in SUBSET {"environment", "terraform_outputs.json"}
    BY <2>1, BootstrapAssumption
  <2>3. QED
    BY <1>1, <2>1, <2>2 DEF Inputs
<1>2. CASE n = 2
  BY <1>2 DEF InputsOf, Inputs
<1>3. CASE n = 3
  BY <1>3 DEF InputsOf, Inputs
<1>4. CASE n = 4
  BY <1>4 DEF InputsOf, Inputs
<1>5. QED
  BY <1>1, <1>2, <1>3, <1>4

LEMMA BuiltRowValue ==
  ASSUME NEW n \in 1..4, NEW r \in RowsOf(n), NEW v \in [Inputs -> 0..MaxVersions]
  PROVE  BuiltFrom(v, n, r) \in RowValues
<1>1. InputsOf(n, r) \in SUBSET Inputs
  BY InputsRead
<1>2. BuiltFrom(v, n, r) \in [InputsOf(n, r) -> 0..MaxVersions]
  BY <1>1 DEF BuiltFrom
<1>3. QED
  BY <1>1, <1>2 DEF RowValues

(* The files that are read at a section.                                   *)
LEMMA ReadAt ==
  ASSUME NEW b \in Boots, Active(b)
  PROVE  HasRead(b) <=>
           /\ section[b] = 1 =>
                taken[b]["config.yaml"] # 0 /\ taken[b]["terraform_outputs.json"] # 0
           /\ section[b] = 4 => taken[b]["pools.json"] # 0
<1>1. section[b] = 1 \/ section[b] = 2 \/ section[b] = 3 \/ section[b] = 4
  BY DEF Active
<1>2. /\ ToSet(Reads[1]) = {"config.yaml", "terraform_outputs.json"}
      /\ ToSet(Reads[2]) = {} /\ ToSet(Reads[3]) = {} /\ ToSet(Reads[4]) = {"pools.json"}
  BY DEF ToSet, Reads
<1>3. QED
  BY <1>1, <1>2 DEF HasRead

LEMMA BootstrapInitInv == BootstrapInit => BootstrapInv
<1> SUFFICES ASSUME BootstrapInit PROVE BootstrapInv
  OBVIOUS
<1>1. \A b \in Boots : ~Active(b) /\ seen[b] = Unseen /\ wrote[b] = {} /\ alone[b] = FALSE
  BY DEF BootstrapInit, Active
<1>2. BootstrapTypeOK
  <2>1. 1 \in 1..MaxVersions /\ 0 \in 0..MaxVersions
    BY BootstrapAssumption
  <2>2. configured \in [Inputs -> 1..MaxVersions]
        /\ committed \in [AirflowRows -> RowValues \cup {NoRow}]
        /\ seen \in [Boots -> RowValues \cup {NoRow, Unseen}]
    BY <2>1 DEF BootstrapInit
  <2>3. section \in [Boots -> 0..5] /\ nth \in [Boots -> Nat \ {0}]
        /\ wrote \in [Boots -> SUBSET AirflowRows]
    BY DEF BootstrapInit
  <2>4. Unread \in [Inputs -> 0..MaxVersions]
    BY <2>1 DEF Unread
  <2>5. taken \in [Boots -> [Inputs -> 0..MaxVersions]]
    BY <2>4 DEF BootstrapInit
  <2>6. alone \in [Boots -> BOOLEAN] /\ concurrent \in BOOLEAN
    BY DEF BootstrapInit
  <2>7. QED
    BY <2>2, <2>3, <2>5, <2>6 DEF BootstrapTypeOK
<1>3. \A n \in Transactions : IsWhole(n)
  BY SectionRows DEF BootstrapInit, IsWhole, Transactions
<1>4. ReadSoFar
  BY <1>1 DEF BootstrapInit, ReadSoFar
<1>5. QED
  BY <1>1, <1>2, <1>3, <1>4 DEF BootstrapInv, AtWork, AloneMeansAlone, DoneSoFar

(* A bootstrap at a row is at one of its section.                          *)
LEMMA RowIsThere ==
  ASSUME BootstrapTypeOK, NEW b \in Boots, AtRow(b)
  PROVE  /\ section[b] \in 1..4 /\ nth[b] \in 1..Len(Sections[section[b]])
         /\ RowAt(b) \in RowsOf(section[b]) /\ RowAt(b) \in AirflowRows
<1>1. section[b] \in 1..4 /\ nth[b] \in 1..Len(Sections[section[b]])
  BY SectionRows DEF BootstrapTypeOK, AtRow, Active
<1>2. QED
  BY <1>1, SectionRows DEF RowAt

LEMMA BootstrapStutters ==
  ASSUME BootstrapInv, UNCHANGED <<committed, section, nth, taken, seen, wrote, alone, concurrent>>,
         configured' \in [Inputs -> 1..MaxVersions]
  PROVE  BootstrapInv'
<1>1. BootstrapTypeOK'
  BY DEF BootstrapInv, BootstrapTypeOK
<1>2. AtWork' /\ AloneMeansAlone' /\ ReadSoFar'
  BY DEF BootstrapInv, AtWork, AloneMeansAlone, ReadSoFar, Active, AtRow, HasRead
<1>3. DoneSoFar'
  BY DEF BootstrapInv, DoneSoFar, Passed, Active, RowAt
<1>4. ~concurrent' => \A n \in Transactions : IsWhole(n)'
  BY DEF BootstrapInv, IsWhole
<1>5. QED
  BY <1>1, <1>2, <1>3, <1>4 DEF BootstrapInv

LEMMA BeginBootstrapInv ==
  ASSUME BootstrapInv, NEW b \in Boots, BeginBootstrap(b) PROVE BootstrapInv'
<1> DEFINE others == \E q \in Boots : Active(q)
           fresh == [Unread EXCEPT !["environment"] = configured["environment"]]
<1>1. /\ ~Active(b) /\ section' = [section EXCEPT ![b] = 1] /\ nth' = [nth EXCEPT ![b] = 1]
      /\ taken' = [taken EXCEPT ![b] = fresh]
      /\ alone' = [q \in Boots |-> q = b /\ ~others]
      /\ concurrent' = (concurrent \/ others)
      /\ UNCHANGED <<configured, committed, seen, wrote>>
  BY DEF BeginBootstrap
<1>2. BootstrapTypeOK /\ AtWork /\ AloneMeansAlone /\ DoneSoFar /\ ReadSoFar
      /\ (~concurrent => \A n \in Transactions : IsWhole(n))
  BY DEF BootstrapInv
<1> HIDE DEF fresh
<1>3. /\ section'[b] = 1 /\ nth'[b] = 1 /\ taken'[b] = fresh
      /\ \A q \in Boots : q # b =>
           section'[q] = section[q] /\ nth'[q] = nth[q] /\ taken'[q] = taken[q]
  BY <1>1, <1>2 DEF BootstrapTypeOK
<1>4. fresh \in [Inputs -> 0..MaxVersions] /\ fresh["environment"] # 0
  <2>1. "environment" \in Inputs /\ Unread \in [Inputs -> 0..MaxVersions]
    BY BootstrapAssumption DEF Inputs, Unread
  <2>2. configured["environment"] \in 1..MaxVersions
    BY <2>1, <1>2 DEF BootstrapTypeOK
  <2>3. QED
    BY <2>1, <2>2, BootstrapAssumption DEF fresh
<1>5. BootstrapTypeOK'
  BY <1>1, <1>2, <1>4 DEF BootstrapTypeOK
<1>6. seen[b] = Unseen /\ wrote[b] = {}
  BY <1>1, <1>2 DEF AtWork, AtRow
<1>7. AtWork'
  BY <1>1, <1>2, <1>3, <1>6 DEF AtWork, AtRow, Active, HasRead
<1>8. AloneMeansAlone'
  BY <1>1, <1>2, <1>3 DEF AloneMeansAlone, Active
<1>9. DoneSoFar'
  <2>1. \A q \in Boots : alone'[q] => q = b
    BY <1>1
  <2>2. seen'[b] = Unseen
    BY <1>1, <1>6
  <2>3. \A n \in 1..4 : ~(n < 1)
    OBVIOUS
  <2>4. \A i \in 1..Len(Sections[1]) : ~(i < 1)
    OBVIOUS
  <2>5. QED
    BY <1>3, <2>1, <2>2, <2>3, <2>4 DEF DoneSoFar
<1>10. ReadSoFar'
  BY <1>2, <1>3, <1>4 DEF ReadSoFar, Active, HasRead
<1>11. ~concurrent' => \A n \in Transactions : IsWhole(n)'
  BY <1>1, <1>2 DEF IsWhole
<1>12. QED
  BY <1>5, <1>7, <1>8, <1>9, <1>10, <1>11 DEF BootstrapInv

(* A file that is read now is none the rows so far are made of.            *)
LEMMA LoadInv ==
  ASSUME BootstrapInv, NEW b \in Boots, Load(b) PROVE BootstrapInv'
<1>1. PICK i \in 1..Len(Reads[section[b]]) :
        /\ taken[b][Reads[section[b]][i]] = 0
        /\ taken' = [taken EXCEPT ![b][Reads[section[b]][i]] = configured[Reads[section[b]][i]]]
  BY DEF Load
<1> DEFINE f == Reads[section[b]][i]
<1>2. Active(b) /\ UNCHANGED <<configured, committed, section, nth, seen, wrote, alone, concurrent>>
  BY DEF Load
<1>3. BootstrapTypeOK /\ AtWork /\ AloneMeansAlone /\ DoneSoFar /\ ReadSoFar
      /\ (~concurrent => \A n \in Transactions : IsWhole(n))
  BY DEF BootstrapInv
<1>4. /\ section[b] \in {1, 4}
      /\ section[b] = 1 => f \in {"config.yaml", "terraform_outputs.json"}
      /\ section[b] = 4 => f = "pools.json"
  <2>1. section[b] = 1 \/ section[b] = 2 \/ section[b] = 3 \/ section[b] = 4
    BY <1>2 DEF Active
  <2>2. /\ Len(Reads[1]) = 2 /\ Len(Reads[2]) = 0 /\ Len(Reads[3]) = 0 /\ Len(Reads[4]) = 1
        /\ Reads[1][1] = "config.yaml" /\ Reads[1][2] = "terraform_outputs.json"
        /\ Reads[4][1] = "pools.json"
    BY DEF Reads
  <2>3. QED
    BY <2>1, <2>2
<1>5. f \in Inputs
  BY <1>4 DEF Inputs
<1>6. ~HasRead(b)
  BY <1>1, <1>2, <1>4, ReadAt
<1> HIDE DEF f
<1>7. taken' = [taken EXCEPT ![b][f] = configured[f]] /\ taken[b][f] = 0
  BY <1>1 DEF f
<1>8. /\ \A g \in Inputs : g # f => taken'[b][g] = taken[b][g]
      /\ taken'[b][f] = configured[f] /\ configured[f] \in 1..MaxVersions
      /\ \A q \in Boots : q # b => taken'[q] = taken[q]
  BY <1>3, <1>5, <1>7 DEF BootstrapTypeOK
<1>9. nth[b] = 1 /\ ~AtRow(b)
  BY <1>2, <1>3, <1>6 DEF ReadSoFar, AtRow
<1>10. BootstrapTypeOK'
  <2>1. taken' \in [Boots -> [Inputs -> 0..MaxVersions]]
    BY <1>3, <1>5, <1>7, <1>8, BootstrapAssumption DEF BootstrapTypeOK
  <2>2. QED
    BY <1>2, <1>3, <2>1 DEF BootstrapTypeOK
<1>11. AtWork'
  <2> SUFFICES ASSUME NEW q \in Boots
               PROVE  /\ seen[q] # Unseen => AtRow(q)' /\ section[q] \in Transactions
                      /\ wrote[q] # {} => /\ Active(q) /\ section[q] \in Transactions
                                          /\ wrote[q] \subseteq RowsOf(section[q])
    BY <1>2 DEF AtWork, Active
  <2>1. CASE q = b
    BY <2>1, <1>3, <1>9 DEF AtWork
  <2>2. CASE q # b
    BY <2>2, <1>2, <1>3, <1>8 DEF AtWork, AtRow, Active, HasRead
  <2>3. QED
    BY <2>1, <2>2
<1>12. AloneMeansAlone'
  BY <1>2, <1>3 DEF AloneMeansAlone, Active
<1>13. DoneSoFar'
  <2> SUFFICES ASSUME NEW q \in Boots, alone[q]
               PROVE  /\ seen[q] # Unseen => committed[RowAt(q)'] = seen[q]
                      /\ \A n \in 1..4 : n < section[q] => \A r \in RowsOf(n) :
                           IsFinal(n, r) => committed[r] = BuiltFrom(taken'[q], n, r)
                      /\ Active(q) => \A j \in 1..Len(Sections[section[q]]) : j < nth[q] => Passed(q, j)'
    BY <1>2 DEF DoneSoFar, Active
  <2>1. q = b
    BY <1>2, <1>3 DEF AloneMeansAlone
  <2>2. ASSUME NEW n \in 1..4, n < section[b], NEW r \in RowsOf(n), IsFinal(n, r)
        PROVE  committed[r] = BuiltFrom(taken'[b], n, r)
    <3>1. committed[r] = BuiltFrom(taken[b], n, r)
      BY <2>1, <2>2, <1>3 DEF DoneSoFar
    <3>2. section[b] = 4 /\ f = "pools.json" /\ n \in {1, 2, 3}
      BY <2>2, <1>4
    <3>3. InputsOf(n, r) \subseteq Inputs /\ f \notin InputsOf(n, r)
      BY <3>2, <2>2, InputsRead
    <3>4. BuiltFrom(taken'[b], n, r) = BuiltFrom(taken[b], n, r)
      BY <3>3, <1>8 DEF BuiltFrom
    <3>5. QED
      BY <3>1, <3>4
  <2>3. \A j \in 1..Len(Sections[section[b]]) : ~(j < nth[b])
    BY <1>9
  <2>4. committed[RowAt(b)'] = committed[RowAt(b)]
    BY <1>2 DEF RowAt
  <2>5. QED
    BY <2>1, <2>2, <2>3, <2>4, <1>3 DEF DoneSoFar
<1>14. ReadSoFar'
  <2>1. \A q \in Boots, g \in Inputs : taken[q][g] # 0 => taken'[q][g] # 0
    BY <1>8
  <2>2. ASSUME NEW q \in Boots, Active(q), nth[q] # 1 PROVE HasRead(q)'
    <3>1. q # b /\ HasRead(q)
      BY <2>2, <1>3, <1>9 DEF ReadSoFar
    <3>2. QED
      BY <3>1, <1>2, <1>8 DEF HasRead
  <2>3. QED
    BY <2>1, <2>2, <1>2, <1>3 DEF ReadSoFar, Active, Inputs
<1>15. ~concurrent' => \A n \in Transactions : IsWhole(n)'
  BY <1>2, <1>3 DEF IsWhole
<1>16. QED
  BY <1>10, <1>11, <1>12, <1>13, <1>14, <1>15 DEF BootstrapInv

LEMMA FailsInv ==
  ASSUME BootstrapInv, NEW b \in Boots, Fails(b) PROVE BootstrapInv'
<1>1. /\ section' = [section EXCEPT ![b] = 0]
      /\ nth' = [nth EXCEPT ![b] = 1] /\ taken' = [taken EXCEPT ![b] = Unread]
      /\ seen' = [seen EXCEPT ![b] = Unseen] /\ wrote' = [wrote EXCEPT ![b] = {}]
      /\ UNCHANGED <<configured, committed, alone, concurrent>>
  BY DEF Fails
<1>2. BootstrapTypeOK /\ AtWork /\ AloneMeansAlone /\ DoneSoFar /\ ReadSoFar
      /\ (~concurrent => \A n \in Transactions : IsWhole(n))
  BY DEF BootstrapInv
<1>3. /\ section'[b] = 0 /\ seen'[b] = Unseen /\ wrote'[b] = {}
      /\ \A q \in Boots : q # b =>
           /\ section'[q] = section[q] /\ nth'[q] = nth[q] /\ taken'[q] = taken[q]
           /\ seen'[q] = seen[q] /\ wrote'[q] = wrote[q]
  BY <1>1, <1>2 DEF BootstrapTypeOK
<1>4. BootstrapTypeOK'
  <2>1. Unread \in [Inputs -> 0..MaxVersions]
    BY BootstrapAssumption DEF Unread
  <2>2. QED
    BY <1>1, <1>2, <2>1 DEF BootstrapTypeOK
<1>5. AtWork' /\ AloneMeansAlone' /\ ReadSoFar'
  BY <1>1, <1>2, <1>3 DEF AtWork, AloneMeansAlone, ReadSoFar, AtRow, Active, HasRead
<1>6. DoneSoFar'
  <2> SUFFICES ASSUME NEW q \in Boots, alone'[q]
               PROVE  /\ seen'[q] # Unseen => committed'[RowAt(q)'] = seen'[q]
                      /\ \A n \in 1..4 : n < section'[q] => \A r \in RowsOf(n) :
                           IsFinal(n, r) => committed'[r] = BuiltFrom(taken'[q], n, r)
                      /\ Active(q)' => \A i \in 1..Len(Sections[section'[q]]) : i < nth'[q] => Passed(q, i)'
    BY DEF DoneSoFar
  <2>1. CASE q = b
    BY <2>1, <1>3 DEF Active
  <2>2. CASE q # b
    BY <2>2, <1>1, <1>2, <1>3 DEF DoneSoFar, Passed, Active, RowAt
  <2>3. QED
    BY <2>1, <2>2
<1>7. ~concurrent' => \A n \in Transactions : IsWhole(n)'
  BY <1>1, <1>2 DEF IsWhole
<1>8. QED
  BY <1>4, <1>5, <1>6, <1>7 DEF BootstrapInv

LEMMA LookUpInv ==
  ASSUME BootstrapInv, NEW b \in Boots, LookUp(b) PROVE BootstrapInv'
<1>1. /\ AtRow(b) /\ section[b] \in Transactions
      /\ seen' = [seen EXCEPT ![b] = committed[RowAt(b)]]
      /\ UNCHANGED <<configured, committed, section, nth, taken, wrote, alone, concurrent>>
  BY DEF LookUp
<1>2. BootstrapTypeOK /\ AtWork /\ AloneMeansAlone /\ DoneSoFar /\ ReadSoFar
      /\ (~concurrent => \A n \in Transactions : IsWhole(n))
  BY DEF BootstrapInv
<1>3. committed[RowAt(b)] \in RowValues \cup {NoRow}
  BY <1>1, <1>2, RowIsThere DEF BootstrapTypeOK
<1>4. \A q \in Boots : seen'[q] = IF q = b THEN committed[RowAt(b)] ELSE seen[q]
  BY <1>1, <1>2 DEF BootstrapTypeOK
<1>5. BootstrapTypeOK'
  BY <1>1, <1>2, <1>3 DEF BootstrapTypeOK
<1>6. AtWork' /\ AloneMeansAlone' /\ ReadSoFar'
  BY <1>1, <1>2, <1>4 DEF AtWork, AloneMeansAlone, ReadSoFar, AtRow, Active, HasRead
<1>7. DoneSoFar'
  BY <1>1, <1>2, <1>4 DEF DoneSoFar, Passed, Active, RowAt
<1>8. ~concurrent' => \A n \in Transactions : IsWhole(n)'
  BY <1>1, <1>2 DEF IsWhole
<1>9. QED
  BY <1>5, <1>6, <1>7, <1>8 DEF BootstrapInv

(* A bootstrap goes on to the next row of its section: the row it was at   *)
(* is as its configuration says, or will be when it commits.               *)
LEMMA NextRowInv ==
  ASSUME BootstrapInv, NEW b \in Boots, SameValues(b) \/ Write(b) PROVE BootstrapInv'
<1>1. /\ seen[b] # Unseen /\ nth' = [nth EXCEPT ![b] = @ + 1] /\ seen' = [seen EXCEPT ![b] = Unseen]
      /\ UNCHANGED <<configured, committed, section, taken, alone, concurrent>>
      /\ \/ seen[b] = Value(b) /\ wrote' = wrote
         \/ wrote' = [wrote EXCEPT ![b] = @ \cup {RowAt(b)}]
  BY DEF SameValues, Write, NextRow
<1>2. BootstrapTypeOK /\ AtWork /\ AloneMeansAlone /\ DoneSoFar /\ ReadSoFar
      /\ (~concurrent => \A n \in Transactions : IsWhole(n))
  BY DEF BootstrapInv
<1>3. AtRow(b) /\ section[b] \in Transactions
  BY <1>1, <1>2 DEF AtWork
<1>4. section[b] \in 1..4 /\ nth[b] \in 1..Len(Sections[section[b]])
      /\ RowAt(b) \in RowsOf(section[b]) /\ RowAt(b) \in AirflowRows
  BY <1>2, <1>3, RowIsThere
<1>5. /\ nth'[b] = nth[b] + 1 /\ seen'[b] = Unseen
      /\ \/ seen[b] = Value(b) /\ wrote'[b] = wrote[b]
         \/ wrote'[b] = wrote[b] \cup {RowAt(b)}
      /\ \A q \in Boots : q # b => nth'[q] = nth[q] /\ seen'[q] = seen[q] /\ wrote'[q] = wrote[q]
  BY <1>1, <1>2 DEF BootstrapTypeOK
<1>6. BootstrapTypeOK'
  <2>1. nth' \in [Boots -> Nat \ {0}]
    BY <1>1, <1>2 DEF BootstrapTypeOK
  <2>2. wrote' \in [Boots -> SUBSET AirflowRows]
    <3>1. wrote \in [Boots -> SUBSET AirflowRows]
      BY <1>2 DEF BootstrapTypeOK
    <3>2. wrote[b] \cup {RowAt(b)} \in SUBSET AirflowRows
      BY <3>1, <1>4
    <3>3. wrote' = wrote \/ wrote' = [wrote EXCEPT ![b] = wrote[b] \cup {RowAt(b)}]
      BY <1>1
    <3>4. QED
      BY <3>1, <3>2, <3>3
  <2>3. seen' \in [Boots -> RowValues \cup {NoRow, Unseen}]
    BY <1>1, <1>2 DEF BootstrapTypeOK
  <2>4. QED
    BY <1>1, <1>2, <2>1, <2>2, <2>3 DEF BootstrapTypeOK
<1>7. AloneMeansAlone' /\ ReadSoFar'
  <2>1. AloneMeansAlone'
    BY <1>1, <1>2 DEF AloneMeansAlone, Active
  <2>2. HasRead(b)
    BY <1>3 DEF AtRow
  <2>3. ReadSoFar'
    BY <1>1, <1>2, <1>5, <2>2 DEF ReadSoFar, Active, HasRead
  <2>4. QED
    BY <2>1, <2>3
<1>8. AtWork'
  <2> SUFFICES ASSUME NEW q \in Boots
               PROVE  /\ seen'[q] # Unseen => AtRow(q)' /\ section[q] \in Transactions
                      /\ wrote'[q] # {} => /\ Active(q) /\ section[q] \in Transactions
                                           /\ wrote'[q] \subseteq RowsOf(section[q])
    BY <1>1 DEF AtWork, Active
  <2>1. CASE q = b
    BY <2>1, <1>2, <1>3, <1>4, <1>5 DEF AtWork, AtRow
  <2>2. CASE q # b
    BY <2>2, <1>1, <1>2, <1>5 DEF AtWork, AtRow, Active, HasRead
  <2>3. QED
    BY <2>1, <2>2
<1>9. DoneSoFar'
  <2> SUFFICES ASSUME NEW q \in Boots, alone[q]
               PROVE  /\ seen'[q] # Unseen => committed[RowAt(q)'] = seen'[q]
                      /\ \A n \in 1..4 : n < section[q] => \A r \in RowsOf(n) :
                           IsFinal(n, r) => committed[r] = BuiltFrom(taken[q], n, r)
                      /\ Active(q) => \A i \in 1..Len(Sections[section[q]]) : i < nth'[q] => Passed(q, i)'
    BY <1>1 DEF DoneSoFar, Active
  <2>1. CASE q # b
    BY <2>1, <1>1, <1>2, <1>5 DEF DoneSoFar, Passed, RowAt
  <2>2. CASE q = b
    <3>1. ASSUME NEW i \in 1..Len(Sections[section[b]]), i < nth'[b] PROVE Passed(b, i)'
      <4>1. i < nth[b] \/ i = nth[b]
        BY <3>1, <1>4, <1>5
      <4>2. CASE i < nth[b]
        <5>1. Passed(b, i)
          BY <4>2, <2>2, <1>2, <1>3 DEF DoneSoFar, AtRow
        <5>2. QED
          BY <5>1, <1>1, <1>5 DEF Passed
      <4>3. CASE i = nth[b]
        <5>1. Sections[section[b]][i] = RowAt(b) /\ committed[RowAt(b)] = seen[b]
          BY <4>3, <2>2, <1>1, <1>2 DEF DoneSoFar, RowAt
        <5>2. QED
          BY <5>1, <1>1, <1>5 DEF Passed, Value
      <4>4. QED
        BY <4>1, <4>2, <4>3
    <3>2. QED
      BY <2>2, <3>1, <1>2, <1>5 DEF DoneSoFar
  <2>3. QED
    BY <2>1, <2>2
<1>10. ~concurrent' => \A n \in Transactions : IsWhole(n)'
  BY <1>1, <1>2 DEF IsWhole
<1>11. QED
  BY <1>6, <1>7, <1>8, <1>9, <1>10 DEF BootstrapInv

(* A section that ends has every row as the configuration says, and the    *)
(* rows of the others are not touched.                                     *)
LEMMA CommitSectionInv ==
  ASSUME BootstrapInv, NEW b \in Boots, CommitSection(b) PROVE BootstrapInv'
<1>1. /\ AtEnd(b) /\ section' = [section EXCEPT ![b] = @ + 1] /\ nth' = [nth EXCEPT ![b] = 1]
      /\ committed' = [r \in AirflowRows |->
            IF r \in wrote[b] THEN BuiltFrom(taken[b], section[b], r) ELSE committed[r]]
      /\ wrote' = [wrote EXCEPT ![b] = {}]
      /\ UNCHANGED <<configured, taken, seen, alone, concurrent>>
  BY DEF CommitSection
<1>2. BootstrapTypeOK /\ AtWork /\ AloneMeansAlone /\ DoneSoFar /\ ReadSoFar
      /\ (~concurrent => \A n \in Transactions : IsWhole(n))
  BY DEF BootstrapInv
<1> DEFINE n0 == section[b]
<1>3. Active(b) /\ n0 \in 1..4 /\ nth[b] > Len(Sections[n0]) /\ ~AtRow(b)
  <2>1. Active(b) /\ nth[b] > Len(Sections[n0])
    BY <1>1 DEF AtEnd
  <2>2. n0 \in 1..4
    BY <2>1 DEF Active
  <2>3. Len(Sections[n0]) \in Nat /\ nth[b] \in Nat
    BY <2>2, <1>2, SectionRows DEF BootstrapTypeOK
  <2>4. QED
    BY <2>1, <2>2, <2>3 DEF AtRow
<1>4. seen[b] = Unseen
  BY <1>2, <1>3 DEF AtWork
<1>5. /\ section'[b] = n0 + 1 /\ nth'[b] = 1 /\ wrote'[b] = {}
      /\ \A q \in Boots : q # b =>
           section'[q] = section[q] /\ nth'[q] = nth[q] /\ wrote'[q] = wrote[q]
  BY <1>1, <1>2 DEF BootstrapTypeOK
<1>6. \A r \in AirflowRows :
        committed'[r] = IF r \in wrote[b] THEN BuiltFrom(taken[b], n0, r) ELSE committed[r]
  BY <1>1
<1>7. BootstrapTypeOK'
  <2>1. section' \in [Boots -> 0..5]
    BY <1>1, <1>2, <1>3 DEF BootstrapTypeOK
  <2>2. committed' \in [AirflowRows -> RowValues \cup {NoRow}]
    <3>1. wrote[b] \subseteq RowsOf(n0) /\ taken[b] \in [Inputs -> 0..MaxVersions]
      BY <1>2 DEF AtWork, BootstrapTypeOK
    <3>2. \A r \in wrote[b] : BuiltFrom(taken[b], n0, r) \in RowValues
      BY <3>1, <1>3, BuiltRowValue
    <3>3. \A r \in AirflowRows : committed[r] \in RowValues \cup {NoRow}
      BY <1>2 DEF BootstrapTypeOK
    <3>4. QED
      BY <3>2, <3>3, <1>1
  <2>3. nth' \in [Boots -> Nat \ {0}] /\ wrote' \in [Boots -> SUBSET AirflowRows]
    BY <1>1, <1>2 DEF BootstrapTypeOK
  <2>4. QED
    BY <1>1, <1>2, <2>1, <2>2, <2>3 DEF BootstrapTypeOK
<1>8. AtWork'
  <2> SUFFICES ASSUME NEW q \in Boots
               PROVE  /\ seen'[q] # Unseen => AtRow(q)' /\ section'[q] \in Transactions
                      /\ wrote'[q] # {} => /\ Active(q)' /\ section'[q] \in Transactions
                                           /\ wrote'[q] \subseteq RowsOf(section'[q])
    BY DEF AtWork
  <2>1. CASE q = b
    BY <2>1, <1>1, <1>4, <1>5
  <2>2. CASE q # b
    BY <2>2, <1>1, <1>2, <1>5 DEF AtWork, AtRow, Active, HasRead
  <2>3. QED
    BY <2>1, <2>2
<1>9. AloneMeansAlone'
  <2>1. \A q \in Boots : Active(q)' => Active(q)
    BY <1>3, <1>5 DEF Active
  <2>2. QED
    BY <2>1, <1>1, <1>2 DEF AloneMeansAlone
<1>10. ASSUME alone[b] PROVE \A r \in RowsOf(n0) : committed'[r] = BuiltFrom(taken[b], n0, r)
  <2> SUFFICES ASSUME NEW r \in RowsOf(n0) PROVE committed'[r] = BuiltFrom(taken[b], n0, r)
    OBVIOUS
  <2>1. PICK i \in 1..Len(Sections[n0]) : r = Sections[n0][i]
    BY <1>3, SectionRows
  <2>2. i < nth[b]
    BY <2>1, <1>2, <1>3, SectionRows DEF BootstrapTypeOK
  <2>3. Passed(b, i)
    BY <2>1, <2>2, <1>2, <1>3, <1>10 DEF DoneSoFar
  <2>4. r \in AirflowRows
    BY <1>3, SectionRows
  <2>5. QED
    BY <2>1, <2>3, <2>4, <1>6 DEF Passed
<1>11. DoneSoFar'
  <2> SUFFICES ASSUME NEW q \in Boots, alone'[q]
               PROVE  /\ seen'[q] # Unseen => committed'[RowAt(q)'] = seen'[q]
                      /\ \A n \in 1..4 : n < section'[q] => \A r \in RowsOf(n) :
                           IsFinal(n, r) => committed'[r] = BuiltFrom(taken'[q], n, r)
                      /\ Active(q)' => \A i \in 1..Len(Sections[section'[q]]) : i < nth'[q] => Passed(q, i)'
    BY DEF DoneSoFar
  <2> alone[q] /\ taken' = taken
    BY <1>1
  <2>1. q = b
    BY <1>2, <1>3 DEF AloneMeansAlone
  <2>2. ASSUME NEW n \in 1..4, n < section'[b], NEW r \in RowsOf(n), IsFinal(n, r)
        PROVE  committed'[r] = BuiltFrom(taken[b], n, r)
    <3>1. n < n0 \/ n = n0
      BY <2>2, <1>3, <1>5
    <3>2. CASE n = n0
      BY <3>2, <2>1, <2>2, <1>10
    <3>3. CASE n < n0
      <4>1. committed[r] = BuiltFrom(taken[b], n, r) /\ r \in AirflowRows
        BY <3>3, <2>1, <2>2, <1>2, SectionRows DEF DoneSoFar
      <4>2. r \notin RowsOf(n0)
        BY <3>3, <2>2, <1>3 DEF IsFinal
      <4>3. r \notin wrote[b]
        BY <4>2, <1>2 DEF AtWork
      <4>4. QED
        BY <4>1, <4>3, <1>6
    <3>4. QED
      BY <3>1, <3>2, <3>3
  <2>3. \A i \in 1..Len(Sections[section'[b]]) : ~(i < nth'[b])
    BY <1>5
  <2>4. QED
    BY <2>1, <2>2, <2>3, <1>1, <1>4
<1>12. ~concurrent' => \A n \in Transactions : IsWhole(n)'
  <2> SUFFICES ASSUME ~concurrent, NEW n \in Transactions PROVE IsWhole(n)'
    BY <1>1
  <2>1. alone[b] /\ n \in 1..4
    BY <1>2, <1>3 DEF AloneMeansAlone, Transactions
  <2>2. CASE n = n0
    <3>1. taken[b] \in [Inputs -> 0..MaxVersions]
      BY <1>2 DEF BootstrapTypeOK
    <3>2. QED
      BY <2>1, <2>2, <3>1, <1>10 DEF IsWhole
  <2>3. CASE n # n0
    <3>1. \A r \in RowsOf(n) : r \notin RowsOf(n0) /\ r \in AirflowRows
      <4>1. {n, n0} # {2, 3}
        BY DEF Transactions
      <4>2. RowsOf(n) \cap RowsOf(n0) = {}
        BY <4>1, <2>1, <2>3, <1>3, BootstrapAssumption
      <4>3. QED
        BY <4>2, <2>1, SectionRows
    <3>2. wrote[b] \subseteq RowsOf(n0)
      BY <1>2 DEF AtWork
    <3>3. \A r \in RowsOf(n) : committed'[r] = committed[r]
      BY <3>1, <3>2, <1>6
    <3>4. QED
      BY <3>3, <1>2 DEF IsWhole
  <2>4. QED
    BY <2>2, <2>3
<1>13. ReadSoFar'
  <2>1. \A q \in Boots : q # b => (Active(q)' <=> Active(q)) /\ (HasRead(q)' <=> HasRead(q))
    BY <1>1, <1>5 DEF Active, HasRead
  <2>2. HasRead(b) /\ (n0 = 1 \/ n0 = 2 \/ n0 = 3 \/ n0 = 4)
    BY <1>1, <1>3 DEF AtEnd
  <2>3. /\ n0 = 1 => taken[b]["config.yaml"] # 0 /\ taken[b]["terraform_outputs.json"] # 0
        /\ n0 = 4 => taken[b]["pools.json"] # 0
    BY <2>2, <1>3, ReadAt
  <2>4. QED
    BY <2>1, <2>2, <2>3, <1>1, <1>2, <1>5 DEF ReadSoFar
<1>14. QED
  BY <1>7, <1>8, <1>9, <1>11, <1>12, <1>13 DEF BootstrapInv

LEMMA SetVariableInv ==
  ASSUME BootstrapInv, NEW b \in Boots, SetVariable(b) PROVE BootstrapInv'
<1>1. /\ AtRow(b) /\ section[b] \notin Transactions
      /\ committed' = [committed EXCEPT ![RowAt(b)] = Value(b)]
      /\ nth' = [nth EXCEPT ![b] = @ + 1]
      /\ UNCHANGED <<configured, section, taken, seen, wrote, alone, concurrent>>
  BY DEF SetVariable
<1>2. BootstrapTypeOK /\ AtWork /\ AloneMeansAlone /\ DoneSoFar /\ ReadSoFar
      /\ (~concurrent => \A n \in Transactions : IsWhole(n))
  BY DEF BootstrapInv
<1>3. /\ section[b] \in 1..4 /\ nth[b] \in 1..Len(Sections[section[b]])
      /\ RowAt(b) \in RowsOf(section[b]) /\ RowAt(b) \in AirflowRows /\ Active(b)
  BY <1>1, <1>2, RowIsThere DEF AtRow
<1>4. seen[b] = Unseen /\ wrote[b] = {}
  BY <1>1, <1>2 DEF AtWork
<1>5. /\ nth'[b] = nth[b] + 1
      /\ \A q \in Boots : q # b => nth'[q] = nth[q]
      /\ \A r \in AirflowRows : committed'[r] = IF r = RowAt(b) THEN Value(b) ELSE committed[r]
  BY <1>1, <1>2 DEF BootstrapTypeOK
<1>6. BootstrapTypeOK'
  <2>1. nth' \in [Boots -> Nat \ {0}]
    BY <1>1, <1>2 DEF BootstrapTypeOK
  <2>2. committed' \in [AirflowRows -> RowValues \cup {NoRow}]
    <3>1. taken[b] \in [Inputs -> 0..MaxVersions]
      BY <1>2 DEF BootstrapTypeOK
    <3>2. Value(b) \in RowValues
      BY <3>1, <1>3, BuiltRowValue DEF Value
    <3>3. QED
      BY <3>2, <1>1, <1>2, <1>3 DEF BootstrapTypeOK
  <2>3. QED
    BY <1>1, <1>2, <2>1, <2>2 DEF BootstrapTypeOK
<1>7. AtWork'
  <2> SUFFICES ASSUME NEW q \in Boots
               PROVE  /\ seen[q] # Unseen => AtRow(q)' /\ section[q] \in Transactions
                      /\ wrote[q] # {} => /\ Active(q) /\ section[q] \in Transactions
                                          /\ wrote[q] \subseteq RowsOf(section[q])
    BY <1>1 DEF AtWork, Active
  <2>1. CASE q = b
    BY <2>1, <1>4
  <2>2. CASE q # b
    BY <2>2, <1>1, <1>2, <1>5 DEF AtWork, AtRow, Active, HasRead
  <2>3. QED
    BY <2>1, <2>2
<1>8. AloneMeansAlone' /\ ReadSoFar'
  <2>1. AloneMeansAlone'
    BY <1>1, <1>2 DEF AloneMeansAlone, Active
  <2>2. HasRead(b)
    BY <1>1 DEF AtRow
  <2>3. ReadSoFar'
    BY <1>1, <1>2, <1>5, <2>2 DEF ReadSoFar, Active, HasRead
  <2>4. QED
    BY <2>1, <2>3
<1>9. DoneSoFar'
  <2> SUFFICES ASSUME NEW q \in Boots, alone[q]
               PROVE  /\ seen[q] # Unseen => committed'[RowAt(q)'] = seen[q]
                      /\ \A n \in 1..4 : n < section[q] => \A r \in RowsOf(n) :
                           IsFinal(n, r) => committed'[r] = BuiltFrom(taken[q], n, r)
                      /\ Active(q) => \A i \in 1..Len(Sections[section[q]]) : i < nth'[q] => Passed(q, i)'
    BY <1>1 DEF DoneSoFar, Active
  <2>1. q = b
    BY <1>2, <1>3 DEF AloneMeansAlone
  <2>2. ASSUME NEW n \in 1..4, n < section[b], NEW r \in RowsOf(n), IsFinal(n, r)
        PROVE  committed'[r] = BuiltFrom(taken[b], n, r)
    <3>1. committed[r] = BuiltFrom(taken[b], n, r) /\ r \in AirflowRows
      BY <2>1, <2>2, <1>2, SectionRows DEF DoneSoFar
    <3>2. r # RowAt(b)
      BY <2>2, <1>3 DEF IsFinal
    <3>3. QED
      BY <3>1, <3>2, <1>5
  <2>3. ASSUME NEW i \in 1..Len(Sections[section[b]]), i < nth'[b] PROVE Passed(b, i)'
    <3>1. Sections[section[b]][i] \in AirflowRows
      BY <1>3, SectionRows
    <3>2. i < nth[b] \/ i = nth[b]
      BY <2>3, <1>3, <1>5
    <3>3. CASE i = nth[b]
      BY <3>1, <3>3, <1>1, <1>5 DEF Passed, Value, RowAt
    <3>4. CASE i < nth[b]
      <4>1. Passed(b, i)
        BY <3>4, <2>1, <1>2, <1>3 DEF DoneSoFar
      <4>2. QED
        BY <4>1, <3>1, <1>1, <1>5 DEF Passed, Value
    <3>5. QED
      BY <3>2, <3>3, <3>4
  <2>4. QED
    BY <2>1, <2>2, <2>3, <1>4
<1>10. ~concurrent' => \A n \in Transactions : IsWhole(n)'
  <2> SUFFICES ASSUME ~concurrent, NEW n \in Transactions PROVE IsWhole(n)'
    BY <1>1
  <2>1. n \in 1..4 /\ n # section[b] /\ {n, section[b]} # {2, 3}
    BY <1>1 DEF Transactions
  <2>2. RowAt(b) \notin RowsOf(n) /\ RowsOf(n) \subseteq AirflowRows
    BY <2>1, <1>3, SectionRows, BootstrapAssumption
  <2>3. \A r \in RowsOf(n) : committed'[r] = committed[r]
    BY <2>2, <1>5
  <2>4. QED
    BY <2>3, <1>2 DEF IsWhole
<1>11. QED
  BY <1>6, <1>7, <1>8, <1>9, <1>10 DEF BootstrapInv

LEMMA BootstrapNextInv == BootstrapInv /\ [BootstrapNext]_bootstrapVars => BootstrapInv'
<1> SUFFICES ASSUME BootstrapInv, [BootstrapNext]_bootstrapVars PROVE BootstrapInv'
  OBVIOUS
<1>1. configured \in [Inputs -> 1..MaxVersions]
  BY DEF BootstrapInv, BootstrapTypeOK
<1>2. CASE UNCHANGED bootstrapVars
  BY <1>1, <1>2, BootstrapStutters DEF bootstrapVars
<1>3. ASSUME NEW f \in Inputs, ChangeConfiguration(f) PROVE BootstrapInv'
  <2>1. configured' \in [Inputs -> 1..MaxVersions]
    BY <1>1, <1>3, BootstrapAssumption DEF ChangeConfiguration
  <2>2. QED
    BY <2>1, <1>3, BootstrapStutters DEF ChangeConfiguration
<1>4. ASSUME NEW b \in Boots, BootstrapStep(b) PROVE BootstrapInv'
  BY <1>4, BeginBootstrapInv, LoadInv, FailsInv, LookUpInv, NextRowInv, CommitSectionInv, SetVariableInv
  DEF BootstrapStep, InsertRaises
<1>5. QED
  BY <1>2, <1>3, <1>4 DEF BootstrapNext

(* For any bootstraps, rows and versions of what they are made of:         *)
(* whatever failed before, a bootstrap that completes alone leaves every   *)
(* row as the files say that it has read, each when it read it; and the    *)
(* rows of a transaction are never of two readings, as long as no two run  *)
(* at once.                                                                *)
THEOREM BootstrapMayBeRepeated == BootstrapSpec => []BootstrapIsRepeatable
<1>1. ASSUME BootstrapInv PROVE BootstrapIsRepeatable
  <2>1. ASSUME NEW b \in Boots, section[b] = 5, alone[b],
               NEW n \in 1..4, NEW r \in RowsOf(n), IsFinal(n, r)
        PROVE  committed[r] = BuiltFrom(taken[b], n, r)
    BY <1>1, <2>1 DEF BootstrapInv, DoneSoFar
  <2>2. EndsAsRead
    BY <2>1 DEF EndsAsRead
  <2>3. QED
    BY <1>1, <2>2 DEF BootstrapInv, BootstrapIsRepeatable
<1>2. QED
  BY <1>1, BootstrapInitInv, BootstrapNextInv, PTL DEF BootstrapSpec
=============================================================================
