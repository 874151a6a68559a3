------------------------------ MODULE RecordGate ------------------------------
(***************************************************************************)
(* The pre-record gate: gates that may write to a backend only after an     *)
(* audit process has durably recorded the request and the intent to         *)
(* dispatch it (experiments/pre-record-gate/record_gate: gate.py,           *)
(* services.py, auth.py).                                                   *)
(*                                                                         *)
(* An exchange is the service's one transaction and its answer.  A gate may *)
(* give up on one at any time (rpc's timeout, a rejection, an answer lost   *)
(* after the commit, one that does not verify); the message it leaves on    *)
(* the wire may still arrive.  Services keep nothing but their databases,   *)
(* so their crashes are exchanges that fail.  Signed statements hold what   *)
(* their digests are about.                                                 *)
(***************************************************************************)
EXTENDS Naturals, Sequences

CONSTANTS
    Request,          \* [intent, tokens]; an intent is [id, args]
    Gate,             \* gate processes
    None

Intent == {r.intent : r \in Request}
Id == {i.id : i \in Intent}

Recorded == {"prepared", "dispatch_intent", "result_unknown", "confirmed_success"}
Dispatched == Recorded \ {"prepared"}
Row == [request : Request, state : Recorded]

ASSUME NoneAssumption == None \notin Request \cup Gate \cup Intent \cup Row

VARIABLES
    pc, req,          \* per gate: the step of its call, and the call's request
    result,           \* per gate: what its last call reported; None
    audit,            \* operations: per id None or [request, state]
    events,           \* events: per id, the suffixes of the signed events
    effects,          \* backend: per id None or the intent carried out
    attempts,         \* backend: write requests handled, per id
    late              \* messages on the wire nobody waits for any more

gateVars == <<pc, req, result>>
auditVars == <<audit, events>>
backendVars == <<effects, attempts>>
vars == <<gateVars, auditVars, backendVars, late>>

Init ==
    /\ pc = [g \in Gate |-> "idle"]
    /\ req = [g \in Gate |-> None]
    /\ result = [g \in Gate |-> None]
    /\ audit = [i \in Id |-> None]
    /\ events = [i \in Id |-> <<>>]
    /\ effects = [i \in Id |-> None]
    /\ attempts = [i \in Id |-> 0]
    /\ late = {}

-----------------------------------------------------------------------------
(* The audit process: one transaction per action, an event with each state. *)

Set(i, r, s) == audit' = [audit EXCEPT ![i] = [request |-> r, state |-> s]]
Log(i, suffix) == events' = [events EXCEPT ![i] = Append(@, suffix)]
Holds(op) == audit[op.id] # None /\ audit[op.id].request.intent = op

\* An operation id belongs to the first request recorded under it, with its
\* arguments and its tokens.
AuditPrepare(r) ==
    LET i == r.intent.id IN
    \/ audit[i] = None /\ Set(i, r, "prepared") /\ Log(i, "request")
    \/ audit[i] # None /\ audit[i].request = r /\ UNCHANGED auditVars

\* MUTANT: an unresolved dispatch may be claimed again.
ClaimAgain(op) ==
    /\ Holds(op)
    /\ IF audit[op.id].state \in {"prepared", "result_unknown"}
       THEN Set(op.id, audit[op.id].request, "dispatch_intent") /\ Log(op.id, "dispatch")
       ELSE UNCHANGED auditVars

AuditClaim(op) ==
    /\ Holds(op)
    /\ IF audit[op.id].state = "prepared"
       THEN Set(op.id, audit[op.id].request, "dispatch_intent") /\ Log(op.id, "dispatch")
       ELSE UNCHANGED auditVars

AuditUnknown(op) ==
    /\ Holds(op) /\ audit[op.id].state \in Dispatched
    /\ IF audit[op.id].state = "dispatch_intent"
       THEN Set(op.id, audit[op.id].request, "result_unknown") /\ Log(op.id, "unknown")
       ELSE UNCHANGED auditVars

\* MUTANT: every confirmation is logged.
ConfirmLogsAll(op) ==
    /\ Holds(op) /\ audit[op.id].state \in Dispatched
    /\ Set(op.id, audit[op.id].request, "confirmed_success")
    /\ Log(op.id, "result")

AuditConfirm(op) ==
    /\ Holds(op) /\ audit[op.id].state \in Dispatched
    /\ IF audit[op.id].state # "confirmed_success"
       THEN Set(op.id, audit[op.id].request, "confirmed_success") /\ Log(op.id, "result")
       ELSE UNCHANGED auditVars

\* The backend: the attempt is counted first; an id has one effect, repeated by
\* its receipt, and a different intent under it is refused.
BackendWrite(op) ==
    /\ attempts' = [attempts EXCEPT ![op.id] = @ + 1]
    /\ effects' = [effects EXCEPT ![op.id] = IF @ = None THEN op ELSE @]

-----------------------------------------------------------------------------
(* A gate's calls.                                                         *)

Op(g) == req[g].intent
State(g) == audit[Op(g).id].state
Goto(g, l) == pc' = [pc EXCEPT ![g] = l] /\ UNCHANGED <<req, result>>

Return(g, s) ==
    /\ pc' = [pc EXCEPT ![g] = "idle"]
    /\ req' = [req EXCEPT ![g] = None]
    /\ result' = [result EXCEPT ![g] = [state |-> s, op |-> Op(g)]]

Begin(g, r, l) ==
    /\ pc[g] = "idle"
    /\ pc' = [pc EXCEPT ![g] = l]
    /\ req' = [req EXCEPT ![g] = r]
    /\ result' = [result EXCEPT ![g] = None]
    /\ UNCHANGED <<auditVars, backendVars, late>>

\* execute.  Tokens expire or are revoked and status snapshots go stale at any
\* time, so what authorize says is an input; a request it denies goes no further.
Execute(g, r) == Begin(g, r, "prepare")

Deny(g, r) ==
    /\ pc[g] = "idle"
    /\ result' = [result EXCEPT ![g] = [state |-> "denied", op |-> r.intent]]
    /\ UNCHANGED <<pc, req, auditVars, backendVars, late>>

Prepare(g) ==
    /\ pc[g] = "prepare"
    /\ AuditPrepare(req[g])
    /\ LET s == audit'[Op(g).id].state IN
         IF s = "prepared" THEN Goto(g, "refresh")
         ELSE Return(g, IF s = "confirmed_success" THEN s ELSE "result_unknown")
    /\ UNCHANGED <<backendVars, late>>

\* The intent about to be sent is the recorded one, and still authorized.
Refresh(g, candidate, authorized) ==
    /\ pc[g] = "refresh"
    /\ IF candidate = Op(g) /\ authorized THEN Goto(g, "claim") ELSE Return(g, "denied")
    /\ UNCHANGED <<auditVars, backendVars, late>>

\* The permit: only the acknowledgement of the claim that recorded the intent.
Claim(g) ==
    /\ pc[g] = "claim"
    /\ AuditClaim(Op(g))
    /\ IF audit' # audit THEN Goto(g, "write")
       ELSE Return(g, IF State(g) = "confirmed_success" THEN State(g) ELSE "result_unknown")
    /\ UNCHANGED <<backendVars, late>>

Write(g) ==
    /\ pc[g] = "write"
    /\ effects[Op(g).id] \in {None, Op(g)}
    /\ BackendWrite(Op(g))
    /\ Goto(g, "confirm")
    /\ UNCHANGED <<auditVars, late>>

\* Success is reported only once the receipt is recorded.
Confirm(g) ==
    /\ pc[g] \in {"confirm", "reconfirm"}
    /\ AuditConfirm(Op(g))
    /\ Return(g, "confirmed_success")
    /\ UNCHANGED <<backendVars, late>>

\* unresolved: another process may have confirmed the result meanwhile.
Unresolved(g) ==
    /\ pc[g] = "unresolved"
    /\ AuditUnknown(Op(g))
    /\ Return(g, audit'[Op(g).id].state)
    /\ UNCHANGED <<backendVars, late>>

\* MUTANT: reconcile looks nothing up before the outcome is recorded as unknown.
GetUnresolved(g) ==
    /\ pc[g] = "get"
    /\ Holds(Op(g))
    /\ CASE State(g) = "confirmed_success" -> Return(g, "confirmed_success")
         [] State(g) = "prepared" -> Return(g, "not_dispatched")
         [] State(g) = "dispatch_intent" -> Return(g, "result_unknown")
         [] OTHER -> Goto(g, "lookup")
    /\ UNCHANGED <<auditVars, backendVars, late>>

\* reconcile: the audit's state first; it looks up, and never writes.
Get(g) ==
    /\ pc[g] = "get"
    /\ Holds(Op(g))
    /\ CASE State(g) = "confirmed_success" -> Return(g, "confirmed_success")
         [] State(g) = "prepared" -> Return(g, "not_dispatched")
         [] OTHER -> Goto(g, "lookup")
    /\ UNCHANGED <<auditVars, backendVars, late>>

Lookup(g) ==
    /\ pc[g] = "lookup"
    /\ \/ effects[Op(g).id] = None /\ Return(g, "result_unknown")
       \/ effects[Op(g).id] = Op(g) /\ Goto(g, "reconfirm")
    /\ UNCHANGED <<auditVars, backendVars, late>>

\* The message an exchange leaves behind.  The audit process answers a repeated
\* message with what it did before, so equal ones count once; writes are counted
\* by sender.
Left(g) ==
    LET of(action, by) == {[action |-> action, req |-> req[g], by |-> by]} IN
    CASE pc[g] = "prepare" -> of("prepare", None)
      [] pc[g] = "claim" -> of("claim", None)
      [] pc[g] = "write" -> of("write", g)
      [] pc[g] \in {"confirm", "reconfirm"} -> of("confirm", None)
      [] pc[g] = "unresolved" -> of("unknown", None)
      [] OTHER -> {}

\* MUTANT: a receipt that could not be recorded is reported all the same.
FailsConfirmed(g) ==
    /\ pc[g] \notin {"idle", "refresh"}
    /\ late' \in {late, late \cup Left(g)}
    /\ CASE pc[g] \in {"prepare", "claim"} -> Return(g, "blocked")
         [] pc[g] = "write" -> Goto(g, "unresolved")
         [] pc[g] = "confirm" -> Return(g, "confirmed_success")
         [] OTHER -> Return(g, "result_unknown")
    /\ UNCHANGED <<auditVars, backendVars>>

\* The exchange a gate is at fails: before a permit nothing is sent, after it the
\* outcome is open until a receipt is recorded.
Fails(g) ==
    /\ pc[g] \notin {"idle", "refresh"}
    /\ late' \in {late, late \cup Left(g)}
    /\ CASE pc[g] \in {"prepare", "claim"} -> Return(g, "blocked")
         [] pc[g] \in {"write", "confirm"} -> Goto(g, "unresolved")
         [] OTHER -> Return(g, "result_unknown")
    /\ UNCHANGED <<auditVars, backendVars>>

\* SIGKILL at any step of a call, also with a message on its way.
Crash(g) ==
    /\ pc[g] # "idle"
    /\ late' \in {late, late \cup Left(g)}
    /\ pc' = [pc EXCEPT ![g] = "idle"]
    /\ req' = [req EXCEPT ![g] = None]
    /\ UNCHANGED <<result, auditVars, backendVars>>

\* A message arrives after its sender stopped waiting: its answer is lost.
Arrive(m) ==
    /\ late' = late \ {m}
    /\ \/ /\ \/ m.action = "prepare" /\ AuditPrepare(m.req)
             \/ m.action = "claim" /\ AuditClaim(m.req.intent)
             \/ m.action = "unknown" /\ AuditUnknown(m.req.intent)
             \/ m.action = "confirm" /\ AuditConfirm(m.req.intent)
          /\ UNCHANGED backendVars
       \/ m.action = "write" /\ BackendWrite(m.req.intent) /\ UNCHANGED auditVars
    /\ UNCHANGED <<gateVars>>

Call(g, r) == Execute(g, r) \/ Deny(g, r) \/ Begin(g, r, "get")

Continue(g) ==
    \/ Prepare(g) \/ Claim(g) \/ Write(g) \/ Confirm(g) \/ Unresolved(g)
    \/ Get(g) \/ Lookup(g) \/ Fails(g)
    \/ \E candidate \in Intent, authorized \in BOOLEAN : Refresh(g, candidate, authorized)

Next ==
    \/ \E g \in Gate, r \in Request : Call(g, r)
    \/ \E g \in Gate : Continue(g) \/ Crash(g)
    \/ \E m \in late : Arrive(m)

Spec == Init /\ [][Next]_vars

-----------------------------------------------------------------------------
(* validate_events: what the evidence adapter demands of exported events.   *)

Valid(log) ==
    LET At(i) == log[i]
        Before(suffix, i) == \E k \in 1..(i - 1) : At(k) = suffix IN
    \A i \in 1..Len(log) :
        /\ ~ Before(At(i), i)
        /\ At(i) \in {"dispatch", "unknown", "result"} => Before("request", i)
        /\ At(i) \in {"unknown", "result"} => Before("dispatch", i)
        /\ At(i) = "unknown" => ~ Before("result", i)

-----------------------------------------------------------------------------
(* Properties.                                                             *)

\* Type invariant.
TypeOK ==
    /\ pc \in [Gate -> {"idle", "prepare", "refresh", "claim", "write", "confirm",
                        "unresolved", "get", "lookup", "reconfirm"}]
    /\ req \in [Gate -> Request \cup {None}]
    /\ result \in [Gate -> {None} \cup
          [state : {"denied", "blocked", "not_dispatched", "result_unknown", "confirmed_success"},
           op : Intent]]
    /\ audit \in [Id -> {None} \cup Row]
    /\ events \in [Id -> Seq({"request", "dispatch", "unknown", "result"})]
    /\ effects \in [Id -> {None} \cup Intent]
    /\ attempts \in [Id -> Nat]
    /\ late \subseteq [action : {"prepare", "claim", "write", "confirm", "unknown"},
                       req : Request, by : Gate \cup {None}]

\* One durable dispatch intent is worth one write: whatever gates race on an
\* operation id, die, time out or retry, the backend sees at most one write for it,
\* only after the intent was recorded, and carries out the recorded intent.
AtMostOneWrite ==
    \A i \in Id :
        /\ attempts[i] \in {0, 1}
        /\ attempts[i] = 1 =>
             audit[i] # None /\ audit[i].state \in Dispatched
        /\ effects[i] # None => audit[i] # None /\ effects[i] = audit[i].request.intent

\* Success is never recorded nor reported without the effect: neither a missing
\* lookup nor a lost acknowledgement is taken for one.
ConfirmedIsReal ==
    /\ \A i \in Id :
         audit[i] # None /\ audit[i].state = "confirmed_success" =>
             effects[i] = audit[i].request.intent
    /\ \A g \in Gate :
         result[g] # None /\ result[g].state = "confirmed_success" =>
             /\ effects[result[g].op.id] = result[g].op
             /\ audit[result[g].op.id].state = "confirmed_success"

\* Every export passes the adapter's checks on order and uniqueness of events, in
\* whatever order confirmations and "unknown" outcomes of several processes arrive.
ExportsValidate == \A i \in Id : Valid(events[i])

\* A record is final in its request and only ever moves on: nothing that arrives
\* late takes a confirmed result, or a claim, back.
Moves(i) ==
    audit[i] # None =>
        /\ audit'[i] # None /\ audit'[i].request = audit[i].request
        /\ audit[i].state = "confirmed_success" => audit'[i].state = "confirmed_success"
        /\ audit[i].state # "prepared" => audit'[i].state # "prepared"
        /\ audit[i].state = "result_unknown" => audit'[i].state # "dispatch_intent"
RecordMovesOn == [][\A k \in Id : Moves(k)]_vars

-----------------------------------------------------------------------------
(* Liveness.                                                               *)

\* Crashes end, reconcile is called again until it has answered, and services that
\* are up do not let every exchange fail; a call runs on (rpc times out).
Fairness ==
    /\ <>[][~ \E g \in Gate : Crash(g)]_vars
    /\ \A g \in Gate :
         /\ WF_vars(Continue(g))
         /\ \A r \in Request : SF_vars(Begin(g, r, "get"))
         /\ SF_vars(Get(g)) /\ SF_vars(Lookup(g)) /\ SF_vars(Confirm(g))

LiveSpec == Spec /\ Fairness

\* An effect is not lost to the record: once the backend has committed one,
\* reconciliation brings its receipt into the audit's record, also when the gate
\* that wrote it died with the answer.
EffectIsConfirmed ==
    \A i \in Id :
        effects[i] # None ~> audit[i] # None /\ audit[i].state = "confirmed_success"

=============================================================================
