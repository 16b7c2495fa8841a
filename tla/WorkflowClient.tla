--------------------------- MODULE WorkflowClient ---------------------------
(***************************************************************************)
(* AirflowWorkflowProvider.trigger() over AirflowClient: one request that  *)
(* creates a DAG run, then one that looks up the DAG.  A request uses the  *)
(* cached token; a 401 clears it, and the request is sent once more with a *)
(* new one.  Any other error ends the call.                                *)
(***************************************************************************)
EXTENDS Integers

CONSTANTS
  Clients,        \* clients, each with a token of its own
  MaxCalls,       \* bound: calls of trigger()
  MaxExpiries     \* bound: tokens that expire

ASSUME ClientAssumption == MaxCalls \in Nat /\ MaxExpiries \in Nat

Calls == 1..MaxCalls

VARIABLES
  token,     \* per client: "none", or cached and "valid" or "expired"
  request,   \* per client: the request it is at: "none", "trigger" or "look_up"
  doing,     \* per client: "login", "send", "login_again" or "send_again"
  call,      \* per client: its latest call
  made,      \* DAG runs a call has created
  answer,    \* what became of a call: "none", "returned" or "raised"
  fault,     \* history: calls that met an error that is not a 401
  renewed,   \* history: calls whose token expired after they had begun
  calls,     \* history: calls of trigger()
  expiries   \* history: tokens that expired

clientVars == <<token, request, doing, call, made, answer, fault, renewed, calls, expiries>>

ClientInit ==
  /\ token = [c \in Clients |-> "none"] /\ request = [c \in Clients |-> "none"]
  /\ doing = [c \in Clients |-> "login"] /\ call = [c \in Clients |-> 0]
  /\ made = [n \in Calls |-> 0] /\ answer = [n \in Calls |-> "none"]
  /\ fault = {} /\ renewed = {} /\ calls = 0 /\ expiries = 0

Busy(c) == request[c] # "none"

(* The server forgets a token: it expires, or the server restarts.         *)
Expire(c) ==
  /\ token[c] = "valid" /\ expiries < MaxExpiries /\ expiries' = expiries + 1
  /\ token' = [token EXCEPT ![c] = "expired"]
  /\ renewed' = IF Busy(c) THEN renewed \cup {call[c]} ELSE renewed
  /\ UNCHANGED <<request, doing, call, made, answer, fault, calls>>

(* _authenticate() returns at once when there is a cached token.           *)
FirstStep(c) == IF token[c] = "none" THEN "login" ELSE "send"

Trigger(c) ==
  /\ ~Busy(c) /\ calls < MaxCalls /\ calls' = calls + 1
  /\ call' = [call EXCEPT ![c] = calls + 1]
  /\ request' = [request EXCEPT ![c] = "trigger"] /\ doing' = [doing EXCEPT ![c] = FirstStep(c)]
  /\ UNCHANGED <<token, made, answer, fault, renewed, expiries>>

Logins == {"login", "login_again"}

LoginSucceeds(c) ==
  /\ Busy(c) /\ doing[c] \in Logins /\ token' = [token EXCEPT ![c] = "valid"]
  /\ doing' = [doing EXCEPT ![c] = IF @ = "login" THEN "send" ELSE "send_again"]
  /\ UNCHANGED <<request, call, made, answer, fault, renewed, calls, expiries>>

CallRaises(c) ==
  /\ request' = [request EXCEPT ![c] = "none"]
  /\ answer' = [answer EXCEPT ![call[c]] = "raised"]
  /\ UNCHANGED <<doing, call, calls, expiries>>

LoginFails(c) ==
  /\ Busy(c) /\ doing[c] \in Logins /\ CallRaises(c)
  /\ fault' = fault \cup {call[c]} /\ UNCHANGED <<token, made, renewed>>

Sends(c) == Busy(c) /\ doing[c] \notin Logins

Unauthorized(c) ==
  /\ Sends(c) /\ token[c] = "expired" /\ doing[c] = "send"
  /\ token' = [token EXCEPT ![c] = "none"] /\ doing' = [doing EXCEPT ![c] = "login_again"]
  /\ UNCHANGED <<request, call, made, answer, fault, renewed, calls, expiries>>

UnauthorizedAgain(c) ==
  /\ Sends(c) /\ token[c] = "expired" /\ doing[c] = "send_again" /\ CallRaises(c)
  /\ UNCHANGED <<token, made, fault, renewed>>

Executes(c, m) ==
  made' = IF request[c] = "trigger" THEN [made EXCEPT ![call[c]] = @ + m] ELSE made

RunIsCreated(c) ==
  /\ Sends(c) /\ token[c] = "valid" /\ request[c] = "trigger" /\ Executes(c, 1)
  /\ request' = [request EXCEPT ![c] = "look_up"] /\ doing' = [doing EXCEPT ![c] = "send"]
  /\ UNCHANGED <<token, call, answer, fault, renewed, calls, expiries>>

Returns(c) ==
  /\ Sends(c) /\ token[c] = "valid" /\ request[c] = "look_up"
  /\ request' = [request EXCEPT ![c] = "none"]
  /\ answer' = [answer EXCEPT ![call[c]] = "returned"]
  /\ UNCHANGED <<token, doing, call, made, fault, renewed, calls, expiries>>

(* An error response, or none at all: then the server may have done it.    *)
RequestFails(c) ==
  /\ Sends(c) /\ token[c] = "valid" /\ CallRaises(c)
  /\ \E m \in {0, 1} : Executes(c, m)
  /\ fault' = fault \cup {call[c]} /\ UNCHANGED <<token, renewed>>

ClientStep(c) ==
  \/ Expire(c) \/ Trigger(c) \/ LoginSucceeds(c) \/ LoginFails(c) \/ Unauthorized(c)
  \/ UnauthorizedAgain(c) \/ RunIsCreated(c) \/ Returns(c) \/ RequestFails(c)

ClientNext == \E c \in Clients : ClientStep(c)

ClientSpec == ClientInit /\ [][ClientNext]_clientVars

-----------------------------------------------------------------------------
ClientTypeOK ==
  /\ token \in [Clients -> {"none", "valid", "expired"}]
  /\ request \in [Clients -> {"none", "trigger", "look_up"}]
  /\ doing \in [Clients -> Logins \cup {"send", "send_again"}]
  /\ call \in [Clients -> 0..calls] /\ calls \in 0..MaxCalls /\ expiries \in 0..MaxExpiries
  /\ made \in [Calls -> Nat] /\ answer \in [Calls -> {"none", "returned", "raised"}]
  /\ fault \subseteq 1..calls /\ renewed \subseteq 1..calls

(* Sending again after a 401 never creates a second run, and a call that   *)
(* returned created one.  Tokens that had expired before a call began make *)
(* no difference to it: it raises only when something else failed, or its  *)
(* token expired while it ran.                                             *)
TriggersOnce ==
  \A n \in Calls :
    /\ made[n] <= 1 /\ (answer[n] = "returned" => made[n] = 1)
    /\ answer[n] = "raised" => n \in fault \cup renewed
=============================================================================
