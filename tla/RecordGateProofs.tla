--------------------------- MODULE RecordGateProofs ---------------------------
(* Invariance of the pre-record gate's safety properties, for any number of   *)
(* gates, requests and operation ids.                                         *)
EXTENDS RecordGate, Integers, SequenceTheorems, TLAPS

USE NoneAssumption
USE DEF auditVars, backendVars, gateVars

-----------------------------------------------------------------------------
(* The inductive invariant.                                                *)

CallOK == \A g \in Gate : pc[g] # "idle" => req[g] \in Request

\* A claimed dispatch is one write that has not reached the backend yet, with the
\* gate that holds the permit or on the wire.
Claimed(op) == Holds(op) /\ audit[op.id].state \in Dispatched
Writes(m) == m.action = "write"
GatePermits ==
    \A g \in Gate : pc[g] = "write" =>
        /\ Claimed(Op(g)) /\ attempts[Op(g).id] = 0
        /\ \A h \in Gate \ {g} : pc[h] = "write" => Op(h).id # Op(g).id
        /\ \A m \in late : Writes(m) => m.req.intent.id # Op(g).id
WirePermits ==
    \A m \in late : Writes(m) =>
        /\ Claimed(m.req.intent) /\ attempts[m.req.intent.id] = 0
        /\ \A n \in late \ {m} : Writes(n) => n.req.intent.id # m.req.intent.id

\* A confirmation under way is of an effect.
Receipts ==
    /\ \A g \in Gate : pc[g] \in {"confirm", "reconfirm"} => effects[Op(g).id] = Op(g)
    /\ \A m \in late : m.action = "confirm" => effects[m.req.intent.id] = m.req.intent

\* The two halves of ConfirmedIsReal.
RecordReal ==
    \A i \in Id :
        audit[i] # None /\ audit[i].state = "confirmed_success" =>
            effects[i] = audit[i].request.intent
Real(v) ==
    v # None /\ v.state = "confirmed_success" =>
        /\ effects[v.op.id] = v.op
        /\ audit[v.op.id] # None /\ audit[v.op.id].state = "confirmed_success"
ReportReal == \A g \in Gate : Real(result[g])

\* The log of an operation is one of the five a record can have.
Logged(i) ==
    IF audit[i] = None THEN events[i] = <<>>
    ELSE CASE audit[i].state = "prepared" -> events[i] = <<"request">>
           [] audit[i].state = "dispatch_intent" -> events[i] = <<"request", "dispatch">>
           [] audit[i].state = "result_unknown" ->
                events[i] = <<"request", "dispatch", "unknown">>
           [] audit[i].state = "confirmed_success" ->
                events[i] \in {<<"request", "dispatch", "result">>,
                               <<"request", "dispatch", "unknown", "result">>}

\* A record keeps the id it is stored under, and its log.
RecordInv ==
    /\ audit \in [Id -> {None} \cup Row]
    /\ events \in [Id -> Seq({"request", "dispatch", "unknown", "result"})]
    /\ \A i \in Id : audit[i] # None => audit[i].request.intent.id = i
    /\ \A i \in Id : Logged(i)

\* The rest of the type invariant.
Step == {"idle", "prepare", "refresh", "claim", "write", "confirm", "unresolved",
         "get", "lookup", "reconfirm"}
Outcome == {"denied", "blocked", "not_dispatched", "result_unknown", "confirmed_success"}
GateType ==
    /\ pc \in [Gate -> Step]
    /\ req \in [Gate -> Request \cup {None}]
    /\ result \in [Gate -> {None} \cup [state : Outcome, op : Intent]]
    /\ CallOK
BackendType ==
    /\ effects \in [Id -> {None} \cup Intent]
    /\ attempts \in [Id -> Nat]
WireType ==
    late \subseteq [action : {"prepare", "claim", "write", "confirm", "unknown"},
                   req : Request, by : Gate \cup {None}]

IInv ==
    /\ GateType /\ BackendType /\ WireType /\ RecordInv
    /\ AtMostOneWrite /\ RecordReal /\ ReportReal
    /\ GatePermits /\ WirePermits /\ Receipts

\* A request is of one intent.
LEMMA RequestIntent == \A r \in Request : r.intent \in Intent /\ r.intent.id \in Id
BY DEF Intent, Id

\* What Append makes of short logs.
LEMMA AppendIs ==
    ASSUME NEW S, NEW s \in Seq(S), NEW z \in S, NEW t \in Seq(S),
           Len(t) = Len(s) + 1, \A i \in 1..Len(s) : t[i] = s[i], t[Len(t)] = z
    PROVE  Append(s, z) = t
<1>1. /\ Append(s, z) \in Seq(S) /\ Len(Append(s, z)) = Len(t)
      /\ \A i \in 1..Len(s) : Append(s, z)[i] = s[i]
      /\ Append(s, z)[Len(t)] = z
    BY AppendProperties
<1>2. Len(s) \in Nat
    OBVIOUS
<1>3. \A i \in 1..Len(Append(s, z)) : Append(s, z)[i] = t[i]
    <2> TAKE i \in 1..Len(Append(s, z))
    <2>1. i \in 1..Len(s) \/ i = Len(t)
        BY <1>1, <1>2
    <2> QED
        BY <1>1, <2>1
<1> QED
    BY <1>1, <1>3, SeqEqual

\* The logs the record lifecycle makes are appended one entry at a time:
LEMMA Appended1 ==
    ASSUME NEW x, NEW z
    PROVE  Append(<<x>>, z) = <<x, z>>
<1> DEFINE S == {x, z}
           s == <<x>>
           t == <<x, z>>
<1>1. /\ s \in Seq(S) /\ Len(s) = 1 /\ t \in Seq(S) /\ Len(t) = 2
      /\ \A i \in 1..1 : t[i] = s[i]
      /\ t[2] = z
    OBVIOUS
<1>0. z \in S
    OBVIOUS
<1> HIDE DEF S, s, t
<1>2. Len(t) = Len(s) + 1 /\ t[Len(t)] = z /\ \A i \in 1..Len(s) : t[i] = s[i]
    BY <1>1
<1>3. Append(s, z) = t
    BY <1>0, <1>1, <1>2, AppendIs, Zenon
<1> QED
    BY <1>3 DEF s, t

\* to a log of two,
LEMMA Appended2 ==
    ASSUME NEW x, NEW y, NEW z
    PROVE  Append(<<x, y>>, z) = <<x, y, z>>
<1> DEFINE S == {x, y, z}
           s == <<x, y>>
           t == <<x, y, z>>
<1>1. /\ s \in Seq(S) /\ Len(s) = 2 /\ t \in Seq(S) /\ Len(t) = 3
      /\ \A i \in 1..2 : t[i] = s[i]
      /\ t[3] = z
    OBVIOUS
<1>0. z \in S
    OBVIOUS
<1> HIDE DEF S, s, t
<1>2. Len(t) = Len(s) + 1 /\ t[Len(t)] = z /\ \A i \in 1..Len(s) : t[i] = s[i]
    BY <1>1
<1>3. Append(s, z) = t
    BY <1>0, <1>1, <1>2, AppendIs, Zenon
<1> QED
    BY <1>3 DEF s, t

\* and to a log of three.
LEMMA Appended3 ==
    ASSUME NEW w, NEW x, NEW y, NEW z
    PROVE  Append(<<w, x, y>>, z) = <<w, x, y, z>>
<1> DEFINE S == {w, x, y, z}
           s == <<w, x, y>>
           t == <<w, x, y, z>>
<1>1. /\ s \in Seq(S) /\ Len(s) = 3 /\ t \in Seq(S) /\ Len(t) = 4
      /\ \A i \in 1..3 : t[i] = s[i]
      /\ t[4] = z
    OBVIOUS
<1>0. z \in S
    OBVIOUS
<1> HIDE DEF S, s, t
<1>2. Len(t) = Len(s) + 1 /\ t[Len(t)] = z /\ \A i \in 1..Len(s) : t[i] = s[i]
    BY <1>1
<1>3. Append(s, z) = t
    BY <1>0, <1>1, <1>2, AppendIs, Zenon
<1> QED
    BY <1>3 DEF s, t

\* The lifecycle of a record, entry by entry.
LEMMA LogsAppended ==
    /\ Append(<<"request">>, "dispatch") = <<"request", "dispatch">>
    /\ Append(<<"request", "dispatch">>, "unknown") = <<"request", "dispatch", "unknown">>
    /\ Append(<<"request", "dispatch">>, "result") = <<"request", "dispatch", "result">>
    /\ Append(<<"request", "dispatch", "unknown">>, "result")
          = <<"request", "dispatch", "unknown", "result">>
<1>1. Append(<<"request">>, "dispatch") = <<"request", "dispatch">>
    BY Appended1
<1>2. Append(<<"request", "dispatch">>, "unknown") = <<"request", "dispatch", "unknown">>
    BY Appended2
<1>3. Append(<<"request", "dispatch">>, "result") = <<"request", "dispatch", "result">>
    BY Appended2
<1>4. Append(<<"request", "dispatch", "unknown">>, "result")
          = <<"request", "dispatch", "unknown", "result">>
    BY Appended3
<1> QED
    BY <1>1, <1>2, <1>3, <1>4

LEMMA InitInv == Init => IInv
<1> SUFFICES ASSUME Init PROVE IInv
    OBVIOUS
<1> USE DEF Init
<1>1. RecordInv
    <2>1. <<>> \in Seq({"request", "dispatch", "unknown", "result"})
        OBVIOUS
    <2>2. events \in [Id -> Seq({"request", "dispatch", "unknown", "result"})]
        BY <2>1
    <2> QED
        BY <2>2 DEF RecordInv, Logged
<1>2. GateType /\ BackendType /\ WireType
    BY DEF GateType, BackendType, WireType, CallOK, Step
<1>3. AtMostOneWrite /\ RecordReal /\ ReportReal
    BY DEF AtMostOneWrite, RecordReal, ReportReal, Real
<1>4. GatePermits /\ WirePermits /\ Receipts
    BY DEF GatePermits, WirePermits, Receipts
<1> QED
    BY <1>1, <1>2, <1>3, <1>4 DEF IInv

-----------------------------------------------------------------------------
(* What the audit's transactions do to the record.                         *)

AuditStep(r) ==
    \/ AuditPrepare(r) \/ AuditClaim(r.intent) \/ AuditUnknown(r.intent)
    \/ AuditConfirm(r.intent) /\ effects[r.intent.id] = r.intent
    \/ UNCHANGED auditVars

\* One record changes, to a later state with the event that goes with it.
LEMMA AuditRecord ==
    ASSUME RecordInv, RecordReal, NEW r \in Request, AuditStep(r), UNCHANGED effects
    PROVE  RecordInv' /\ RecordReal' /\ \A k \in Id : Moves(k)
<1> DEFINE i == r.intent.id
<1>1. i \in Id
    BY RequestIntent
<1>2. CASE UNCHANGED auditVars
    BY <1>2 DEF RecordInv, RecordReal, Moves, Logged
<1>3. ASSUME NEW q \in Request, NEW s \in Recorded,
             NEW suffix \in {"request", "dispatch", "unknown", "result"},
             q.intent.id = i, Set(i, q, s), Log(i, suffix)
      PROVE  /\ audit'[i] = [request |-> q, state |-> s] /\ audit'[i] # None
             /\ events'[i] = Append(events[i], suffix)
             /\ (\A k \in Id : Logged(k)') <=> Logged(i)'
             /\ Logged(i)' => RecordInv'
             /\ \A k \in Id \ {i} : Moves(k)
             /\ (s = "confirmed_success" => effects[i] = q.intent) => RecordReal'
    <2>1. /\ audit' \in [Id -> {None} \cup Row]
          /\ audit'[i] = [request |-> q, state |-> s]
          /\ \A k \in Id \ {i} : audit'[k] = audit[k]
        BY <1>1, <1>3 DEF Set, RecordInv, Row
    <2>2. /\ events' \in [Id -> Seq({"request", "dispatch", "unknown", "result"})]
          /\ events'[i] = Append(events[i], suffix)
          /\ \A k \in Id \ {i} : events'[k] = events[k]
        BY <1>1, <1>3 DEF Log, RecordInv
    <2>3. audit'[i] # None
        BY <2>1 DEF Row
    <2>4. \A k \in Id \ {i} : Moves(k) /\ Logged(k)'
        BY <2>1, <2>2 DEF Moves, RecordInv, Logged
    <2>5. (s = "confirmed_success" => effects[i] = q.intent) => RecordReal'
        BY <1>1, <1>3, <2>1 DEF RecordReal
    <2> QED
        BY <1>1, <1>3, <2>1, <2>2, <2>3, <2>4, <2>5 DEF RecordInv
<1>4. CASE audit[i] = None /\ Set(i, r, "prepared") /\ Log(i, "request")
    <2>1. events[i] = <<>>
        BY <1>1, <1>4 DEF RecordInv, Logged
    <2>2. /\ audit'[i] = [request |-> r, state |-> "prepared"] /\ audit'[i] # None
          /\ events'[i] = Append(events[i], "request")
          /\ Logged(i)' => RecordInv'
          /\ \A k \in Id \ {i} : Moves(k)
          /\ RecordReal'
        BY <1>3, <1>4 DEF Recorded
    <2>3. Logged(i)'
        BY <2>1, <2>2 DEF Logged
    <2> QED
        BY <1>4, <2>2, <2>3 DEF Moves
<1>5. ASSUME audit[i] # None
      PROVE  /\ audit[i] \in Row /\ audit[i].request \in Request
             /\ audit[i].state \in Recorded /\ audit[i].request.intent.id = i /\ Logged(i)
    BY <1>1, <1>5 DEF RecordInv, Row
<1>6. CASE /\ audit[i] # None /\ audit[i].state = "prepared"
           /\ Set(i, audit[i].request, "dispatch_intent") /\ Log(i, "dispatch")
    <2>1. events[i] = <<"request">>
        BY <1>5, <1>6 DEF Logged
    <2>2. /\ audit'[i] = [request |-> audit[i].request, state |-> "dispatch_intent"]
          /\ audit'[i] # None
          /\ events'[i] = Append(events[i], "dispatch")
          /\ Logged(i)' => RecordInv'
          /\ \A k \in Id \ {i} : Moves(k)
          /\ RecordReal'
        BY <1>3, <1>5, <1>6 DEF Recorded
    <2>3. Logged(i)'
        BY <2>1, <2>2, LogsAppended DEF Logged
    <2> QED
        BY <1>6, <2>2, <2>3 DEF Moves
<1>7. CASE /\ audit[i] # None /\ audit[i].state = "dispatch_intent"
           /\ Set(i, audit[i].request, "result_unknown") /\ Log(i, "unknown")
    <2>1. events[i] = <<"request", "dispatch">>
        BY <1>5, <1>7 DEF Logged
    <2>2. /\ audit'[i] = [request |-> audit[i].request, state |-> "result_unknown"]
          /\ audit'[i] # None
          /\ events'[i] = Append(events[i], "unknown")
          /\ Logged(i)' => RecordInv'
          /\ \A k \in Id \ {i} : Moves(k)
          /\ RecordReal'
        BY <1>3, <1>5, <1>7 DEF Recorded
    <2>3. Logged(i)'
        BY <2>1, <2>2, LogsAppended DEF Logged
    <2> QED
        BY <1>7, <2>2, <2>3 DEF Moves
<1>8. CASE /\ audit[i] # None /\ audit[i].state \in {"dispatch_intent", "result_unknown"}
           /\ Set(i, audit[i].request, "confirmed_success") /\ Log(i, "result")
           /\ effects[i] = audit[i].request.intent
    <2>1. events[i] \in {<<"request", "dispatch">>, <<"request", "dispatch", "unknown">>}
        BY <1>5, <1>8 DEF Logged
    <2>2. /\ audit'[i] = [request |-> audit[i].request, state |-> "confirmed_success"]
          /\ audit'[i] # None
          /\ events'[i] = Append(events[i], "result")
          /\ Logged(i)' => RecordInv'
          /\ \A k \in Id \ {i} : Moves(k)
          /\ RecordReal'
        BY <1>3, <1>5, <1>8 DEF Recorded
    <2>3. events'[i] \in {<<"request", "dispatch", "result">>,
                          <<"request", "dispatch", "unknown", "result">>}
        BY <2>1, <2>2, LogsAppended
    <2>4. Logged(i)'
        BY <2>2, <2>3 DEF Logged
    <2> QED
        BY <1>8, <2>2, <2>4 DEF Moves
<1>9. CASE AuditPrepare(r)
    BY <1>2, <1>4, <1>9 DEF AuditPrepare
<1>10. CASE AuditClaim(r.intent)
    BY <1>2, <1>6, <1>10 DEF AuditClaim, Holds
<1>11. CASE AuditUnknown(r.intent)
    BY <1>2, <1>7, <1>11 DEF AuditUnknown, Holds
<1>12. CASE AuditConfirm(r.intent) /\ effects[i] = r.intent
    <2>1. \/ UNCHANGED auditVars
          \/ /\ audit[i] # None /\ audit[i].state \in {"dispatch_intent", "result_unknown"}
             /\ Set(i, audit[i].request, "confirmed_success") /\ Log(i, "result")
             /\ effects[i] = audit[i].request.intent
        BY <1>5, <1>12 DEF AuditConfirm, Holds, Dispatched, Recorded
    <2> QED
        BY <1>2, <1>8, <2>1
<1> QED
    BY <1>2, <1>9, <1>10, <1>11, <1>12 DEF AuditStep
-----------------------------------------------------------------------------
(* What a gate's step leaves alone.                                        *)

\* A call in progress moves to its next step or returns.
GateStep(g) ==
    /\ pc[g] # "idle"
    /\ \/ \E l \in Step : Goto(g, l)
       \/ \E s \in Outcome : Return(g, s)

OthersWait(g) ==
    \A h \in Gate \ {g} : pc'[h] = pc[h] /\ req'[h] = req[h] /\ result'[h] = result[h]

\* A gate's step is its own.
LEMMA GateMoves ==
    ASSUME GateType, NEW g \in Gate, GateStep(g)
    PROVE  GateType' /\ OthersWait(g)
<1>1. Op(g) \in Intent
    BY RequestIntent DEF GateStep, GateType, CallOK, Op
<1>2. CASE \E l \in Step : Goto(g, l)
    BY <1>2 DEF GateStep, Goto, GateType, CallOK, OthersWait
<1>3. CASE \E s \in Outcome : Return(g, s)
    <2>1. PICK s \in Outcome : Return(g, s)
        BY <1>3
    <2>2. [state |-> s, op |-> Op(g)] \in [state : Outcome, op : Intent]
        BY <1>1
    <2> QED
        BY <2>1, <2>2 DEF Return, GateType, CallOK, OthersWait, Step
<1> QED
    BY <1>2, <1>3 DEF GateStep

\* A claim stands and a reported success stays real, whatever the audit records.
LEMMA AuditKeeps ==
    ASSUME IInv, NEW r \in Request, AuditStep(r), UNCHANGED backendVars
    PROVE  /\ RecordInv' /\ RecordReal' /\ BackendType' /\ AtMostOneWrite'
           /\ \A k \in Id : Moves(k)
           /\ \A op \in Intent : Claimed(op) => Claimed(op)'
           /\ \A v \in {None} \cup [state : Outcome, op : Intent] : Real(v) => Real(v)'
<1>1. RecordInv' /\ RecordReal' /\ \A k \in Id : Moves(k)
    BY AuditRecord DEF IInv
<1>2. \A k \in Id : audit'[k] # None => audit'[k].state \in Recorded
    BY <1>1 DEF RecordInv, Row
<1>3. AtMostOneWrite' /\ BackendType'
    BY <1>1, <1>2 DEF IInv, AtMostOneWrite, Moves, Dispatched, BackendType
<1>4. \A op \in Intent : op.id \in Id
    BY DEF Id
<1>5. \A op \in Intent : Claimed(op) => Claimed(op)'
    BY <1>1, <1>2, <1>4 DEF Claimed, Holds, Moves, Dispatched
<1>6. \A v \in {None} \cup [state : Outcome, op : Intent] : Real(v) => Real(v)'
    BY <1>1, <1>4 DEF Real, Moves
<1> QED
    BY <1>1, <1>3, <1>5, <1>6

\* A step of one gate that takes no permit, with at most one audit transaction.
Quiet(g) ==
    /\ OthersWait(g) /\ GateType'
    /\ pc'[g] # "write"
    /\ pc'[g] \in {"confirm", "reconfirm"} => effects[Op(g).id] = Op(g) /\ req'[g] = req[g]
    /\ Real(result[g])'

\* A step of one record that tells the backend nothing.
LEMMA QuietStep ==
    ASSUME IInv, NEW g \in Gate, Quiet(g), NEW r \in Request, AuditStep(r),
           UNCHANGED <<backendVars, late>>
    PROVE  IInv'
<1>1. /\ RecordInv' /\ RecordReal' /\ BackendType' /\ AtMostOneWrite'
      /\ \A op \in Intent : Claimed(op) => Claimed(op)'
      /\ \A v \in {None} \cup [state : Outcome, op : Intent] : Real(v) => Real(v)'
    BY AuditKeeps
<1>2. GateType' /\ WireType'
    BY DEF Quiet, IInv, WireType
<1>3. ReportReal'
    <2> SUFFICES ASSUME NEW h \in Gate PROVE Real(result[h])'
        BY DEF ReportReal
    <2>1. CASE h = g
        BY <2>1 DEF Quiet
    <2>2. CASE h # g
        <3>1. result'[h] = result[h] /\ Real(result[h])
            BY <2>2 DEF Quiet, OthersWait, IInv, ReportReal
        <3>2. result[h] \in {None} \cup [state : Outcome, op : Intent]
            BY DEF IInv, GateType
        <3> QED
            BY <1>1, <3>1, <3>2 DEF Real
    <2> QED
        BY <2>1, <2>2
<1>4. \A h \in Gate : pc[h] # "idle" => Op(h) \in Intent
    BY RequestIntent DEF IInv, GateType, CallOK, Op
<1>5. GatePermits'
    <2> SUFFICES ASSUME NEW h \in Gate, pc'[h] = "write"
                 PROVE  /\ Claimed(Op(h))' /\ attempts'[Op(h)'.id] = 0
                        /\ \A k \in Gate \ {h} : pc'[k] = "write" => Op(k)'.id # Op(h)'.id
                        /\ \A m \in late' : Writes(m) => m.req.intent.id # Op(h)'.id
        BY DEF GatePermits
    <2>1. \A k \in Gate : pc'[k] = "write" => pc[k] = "write" /\ Op(k)' = Op(k)
        BY DEF Quiet, OthersWait, Op
    <2>2. /\ Claimed(Op(h)) /\ attempts[Op(h).id] = 0
          /\ \A k \in Gate \ {h} : pc[k] = "write" => Op(k).id # Op(h).id
          /\ \A m \in late : Writes(m) => m.req.intent.id # Op(h).id
        BY <2>1 DEF IInv, GatePermits
    <2>3. Claimed(Op(h))'
        BY <1>1, <1>4, <2>1, <2>2 DEF Claimed, Holds
    <2> QED
        BY <2>1, <2>2, <2>3
<1>6. WirePermits'
    <2>1. \A m \in late : m.req \in Request /\ m.req.intent \in Intent
        BY RequestIntent DEF IInv, WireType
    <2> QED
        BY <1>1, <2>1 DEF IInv, WirePermits, Claimed, Holds, Writes
<1>7. Receipts'
    BY DEF Quiet, OthersWait, IInv, Receipts, Op
<1> QED
    BY <1>1, <1>2, <1>3, <1>5, <1>6, <1>7 DEF IInv

-----------------------------------------------------------------------------
(* The invariant is kept by each action.                                   *)

\* A gate in a call has its request.
LEMMA InCall ==
    ASSUME IInv, NEW g \in Gate, pc[g] # "idle"
    PROVE  /\ req[g] \in Request /\ Op(g) = req[g].intent
           /\ Op(g) \in Intent /\ Op(g).id \in Id
BY RequestIntent DEF IInv, GateType, CallOK, Op

\* A call begins with its record and no claim.
LEMMA CallInv ==
    ASSUME IInv, NEW g \in Gate, NEW r \in Request, Call(g, r)
    PROVE  IInv'
<1>1. AuditStep(r) /\ UNCHANGED <<backendVars, late>>
    BY DEF Call, Execute, Deny, Begin, AuditStep
<1>2. CASE Execute(g, r) \/ Begin(g, r, "get")
    <2>1. PICK l \in {"prepare", "get"} : Begin(g, r, l)
        BY <1>2 DEF Execute
    <2>2. Quiet(g)
        BY <2>1 DEF Begin, Quiet, IInv, GateType, CallOK, OthersWait, Real, Step
    <2> QED
        BY <1>1, <2>2, QuietStep
<1>3. CASE Deny(g, r)
    <2>1. [state |-> "denied", op |-> r.intent] \in [state : Outcome, op : Intent]
        BY RequestIntent DEF Outcome
    <2>2. Quiet(g)
        BY <1>3, <2>1 DEF Deny, Quiet, IInv, GateType, CallOK, OthersWait, Real, Step
    <2> QED
        BY <1>1, <2>2, QuietStep
<1> QED
    BY <1>2, <1>3 DEF Call

\* A call that goes on to a step without a permit, or returns; success is real.
LEMMA CallQuiet ==
    ASSUME IInv, NEW g \in Gate, pc[g] # "idle",
           NEW r \in Request, AuditStep(r), UNCHANGED <<backendVars, late>>,
           \/ \E l \in Step \ {"write", "confirm", "reconfirm"} : Goto(g, l)
           \/ Goto(g, "reconfirm") /\ effects[Op(g).id] = Op(g)
           \/ \E s \in Outcome :
                 /\ Return(g, s)
                 /\ s = "confirmed_success" =>
                      /\ audit'[Op(g).id] # None
                      /\ audit'[Op(g).id].state = "confirmed_success"
                      /\ audit'[Op(g).id].request.intent = Op(g)
    PROVE  IInv'
<1> DEFINE Succeeds ==
        /\ audit'[Op(g).id] # None
        /\ audit'[Op(g).id].state = "confirmed_success"
        /\ audit'[Op(g).id].request.intent = Op(g)
<1>1. \/ \E l \in Step :
            /\ Goto(g, l) /\ l \notin {"write", "confirm"}
            /\ l = "reconfirm" => effects[Op(g).id] = Op(g)
      \/ \E s \in Outcome : Return(g, s) /\ (s = "confirmed_success" => Succeeds)
    BY Zenon DEF Step
<1>2. GateStep(g)
    BY <1>1 DEF GateStep
<1>3. GateType' /\ OthersWait(g)
    BY <1>2, GateMoves DEF IInv
<1>4. /\ RecordReal'
      /\ \A v \in {None} \cup [state : Outcome, op : Intent] : Real(v) => Real(v)'
    BY AuditKeeps
<1>5. ASSUME NEW l \in Step, Goto(g, l), l \notin {"write", "confirm"},
             l = "reconfirm" => effects[Op(g).id] = Op(g)
      PROVE  IInv'
    <2>1. pc'[g] = l /\ req' = req /\ result' = result
        BY <1>5 DEF Goto, IInv, GateType
    <2>2. result[g] \in {None} \cup [state : Outcome, op : Intent] /\ Real(result[g])
        BY DEF IInv, GateType, ReportReal
    <2>3. Real(result[g])'
        BY <1>4, <2>1, <2>2 DEF Real
    <2>4. Quiet(g)
        BY <1>5, <1>3, <2>1, <2>3 DEF Quiet
    <2> QED
        BY <2>4, QuietStep
<1>6. ASSUME NEW s \in Outcome, Return(g, s),
             s = "confirmed_success" => Succeeds
      PROVE  IInv'
    <2>1. pc'[g] = "idle" /\ result'[g] = [state |-> s, op |-> Op(g)]
        BY <1>6 DEF Return, IInv, GateType
    <2>2. result'[g].state = s /\ result'[g].op = Op(g)
        BY <2>1
    <2>3. Real(result[g])'
        BY <1>4, <1>6, <2>2, InCall DEF Real, RecordReal
    <2>4. Quiet(g)
        BY <1>3, <2>1, <2>3 DEF Quiet
    <2> QED
        BY <2>4, QuietStep
<1> QED
    BY <1>1, <1>5, <1>6

\* Reads and comparisons change nothing that is kept.
LEMMA LocalInv ==
    ASSUME IInv, NEW g \in Gate,
           \/ Get(g) \/ Lookup(g)
           \/ \E c \in Intent, authorized \in BOOLEAN : Refresh(g, c, authorized)
    PROVE  IInv'
<1>1. pc[g] # "idle" /\ UNCHANGED <<auditVars, backendVars, late>>
    BY DEF Get, Lookup, Refresh
<1>2. req[g] \in Request /\ AuditStep(req[g])
    BY <1>1, InCall DEF AuditStep
<1> QED
    BY <1>1, <1>2, CallQuiet DEF Get, Lookup, Refresh, Step, Outcome, Holds, State

\* The request is recorded before anything is done.
LEMMA PrepareInv ==
    ASSUME IInv, NEW g \in Gate, Prepare(g)
    PROVE  IInv'
<1>1. pc[g] # "idle" /\ AuditPrepare(req[g]) /\ UNCHANGED <<backendVars, late>>
    BY DEF Prepare
<1>2. req[g] \in Request /\ AuditStep(req[g]) /\ Op(g) = req[g].intent /\ Op(g).id \in Id
    BY <1>1, InCall DEF AuditStep
<1>3. audit'[Op(g).id].request = req[g] /\ audit'[Op(g).id] # None
    BY <1>1, <1>2 DEF AuditPrepare, Set, IInv, RecordInv, Row, Recorded
<1> QED
    BY <1>1, <1>2, <1>3, CallQuiet DEF Prepare, Step, Outcome

\* What is confirmed is what the backend applied.
LEMMA ConfirmInv ==
    ASSUME IInv, NEW g \in Gate, Confirm(g)
    PROVE  IInv'
<1>1. pc[g] \in {"confirm", "reconfirm"} /\ AuditConfirm(Op(g)) /\ UNCHANGED <<backendVars, late>>
    BY DEF Confirm
<1>2. req[g] \in Request /\ AuditStep(req[g]) /\ Op(g) = req[g].intent /\ Op(g).id \in Id
    BY <1>1, InCall DEF AuditStep, IInv, Receipts
<1>3. /\ audit'[Op(g).id] # None /\ audit'[Op(g).id].state = "confirmed_success"
      /\ audit'[Op(g).id].request.intent = Op(g)
    BY <1>1, <1>2 DEF AuditConfirm, Holds, Set, IInv, RecordInv, Row, Recorded
<1> QED
    BY <1>1, <1>2, <1>3, CallQuiet DEF Confirm, Outcome

\* What is not known is recorded as that.
LEMMA UnresolvedInv ==
    ASSUME IInv, NEW g \in Gate, Unresolved(g)
    PROVE  IInv'
<1>1. pc[g] # "idle" /\ AuditUnknown(Op(g)) /\ UNCHANGED <<backendVars, late>>
    BY DEF Unresolved
<1>2. req[g] \in Request /\ AuditStep(req[g]) /\ Op(g) = req[g].intent /\ Op(g).id \in Id
    BY <1>1, InCall DEF AuditStep
<1>3. /\ audit'[Op(g).id] # None
      /\ audit'[Op(g).id].state \in {"result_unknown", "confirmed_success"}
      /\ audit'[Op(g).id].request.intent = Op(g)
    BY <1>1, <1>2 DEF AuditUnknown, Holds, Set, IInv, RecordInv, Row, Recorded, Dispatched
<1> QED
    BY <1>1, <1>2, <1>3, CallQuiet DEF Unresolved, Outcome

\* The claim that recorded the intent is the only permit for it.
LEMMA ClaimInv ==
    ASSUME IInv, NEW g \in Gate, Claim(g)
    PROVE  IInv'
<1>1. pc[g] = "claim" /\ AuditClaim(Op(g)) /\ UNCHANGED <<backendVars, late>>
    BY DEF Claim
<1>2. /\ req[g] \in Request /\ Op(g) = req[g].intent
      /\ Op(g) \in Intent /\ Op(g).id \in Id
      /\ AuditStep(req[g]) /\ Holds(Op(g))
    BY <1>1, InCall DEF AuditStep, AuditClaim
<1>3. CASE audit' = audit
    BY <1>1, <1>2, <1>3, CallQuiet DEF Claim, Outcome, Holds, State
<1>4. CASE audit' # audit
    <2>1. Goto(g, "write")
        BY <1>4 DEF Claim
    <2>2. audit[Op(g).id].state = "prepared"
        BY <1>1, <1>4 DEF AuditClaim
    <2>3. /\ RecordInv' /\ RecordReal' /\ BackendType' /\ AtMostOneWrite'
          /\ \A op \in Intent : Claimed(op) => Claimed(op)'
          /\ \A v \in {None} \cup [state : Outcome, op : Intent] : Real(v) => Real(v)'
        BY <1>1, <1>2, AuditKeeps
    <2>4. GateType' /\ OthersWait(g) /\ WireType'
        <3>1. "write" \in Step
            BY DEF Step
        <3>2. GateStep(g)
            BY <1>1, <2>1, <3>1 DEF GateStep
        <3> QED
            BY <1>1, <3>2, GateMoves DEF IInv, WireType
    <2>5. pc'[g] = "write" /\ req' = req /\ result' = result
        BY <2>1 DEF Goto, IInv, GateType
    <2>6. ReportReal'
        BY <2>3, <2>5 DEF IInv, GateType, ReportReal, Real
    <2>7. Claimed(Op(g))' /\ attempts[Op(g).id] = 0
        <3>1. audit'[Op(g).id] = [request |-> audit[Op(g).id].request, state |-> "dispatch_intent"]
            BY <1>1, <1>2, <2>2 DEF AuditClaim, Set, IInv, RecordInv
        <3>2. audit'[Op(g).id] # None
            BY <1>2, <2>3, <3>1 DEF Holds, IInv, RecordInv, Row, Recorded
        <3>3. Op(g)' = Op(g)
            BY <2>5 DEF Op
        <3>4. attempts[Op(g).id] = 0
            BY <1>2, <2>2 DEF IInv, AtMostOneWrite, Dispatched
        <3> QED
            BY <1>2, <3>1, <3>2, <3>3, <3>4 DEF Claimed, Holds, Dispatched, Recorded
    <2>8. ASSUME NEW op \in Intent, Claimed(op) PROVE op.id # Op(g).id
        BY <2>2, <2>8 DEF Claimed, Dispatched
    <2>9. GatePermits'
        <3> SUFFICES ASSUME NEW h \in Gate, pc'[h] = "write"
                     PROVE  /\ Claimed(Op(h))' /\ attempts'[Op(h)'.id] = 0
                            /\ \A k \in Gate \ {h} : pc'[k] = "write" => Op(k)'.id # Op(h)'.id
                            /\ \A m \in late' : Writes(m) => m.req.intent.id # Op(h)'.id
            BY DEF GatePermits
        <3>1. \A k \in Gate : Op(k)' = Op(k)
            BY <2>5 DEF Op
        <3>2. \A k \in Gate \ {g} : pc'[k] = "write" =>
                  /\ pc[k] = "write" /\ Op(k) \in Intent /\ Claimed(Op(k))
                  /\ Op(k).id # Op(g).id
            BY <2>4, <2>8, InCall DEF OthersWait, IInv, GatePermits
        <3>3. \A m \in late : Writes(m) => m.req.intent.id # Op(g).id
            BY <2>8, RequestIntent DEF IInv, WirePermits, WireType
        <3>4. CASE h = g
            BY <1>1, <2>7, <3>1, <3>2, <3>3, <3>4
        <3>5. CASE h # g
            <4>1. Claimed(Op(h))'
                BY <2>3, <3>1, <3>2, <3>5 DEF Claimed, Holds
            <4>2. /\ attempts[Op(h).id] = 0
                  /\ \A k \in Gate \ {h} : pc[k] = "write" => Op(k).id # Op(h).id
                  /\ \A m \in late : Writes(m) => m.req.intent.id # Op(h).id
                BY <3>2, <3>5 DEF IInv, GatePermits
            <4> QED
                BY <1>1, <3>1, <3>2, <3>5, <4>1, <4>2
        <3> QED
            BY <3>4, <3>5
    <2>10. WirePermits'
        <3>1. \A m \in late : m.req.intent \in Intent
            BY RequestIntent DEF IInv, WireType
        <3> QED
            BY <1>1, <2>3, <3>1 DEF IInv, WirePermits, Claimed, Holds, Writes
    <2>11. Receipts'
        BY <1>1, <2>4, <2>5 DEF OthersWait, IInv, Receipts, Op
    <2> QED
        BY <2>3, <2>4, <2>6, <2>9, <2>10, <2>11 DEF IInv
<1> QED
    BY <1>3, <1>4

\* The one write of a claim carries out the recorded intent.
LEMMA BackendKeeps ==
    ASSUME IInv, NEW op \in Intent, Claimed(op), attempts[op.id] = 0, BackendWrite(op),
           UNCHANGED auditVars
    PROVE  /\ RecordInv' /\ RecordReal' /\ BackendType' /\ AtMostOneWrite'
           /\ effects'[op.id] = op
           /\ \A i \in Id \ {op.id} : attempts'[i] = attempts[i]
           /\ \A i \in Id : effects[i] # None => effects'[i] = effects[i]
           /\ \A v \in {None} \cup [state : Outcome, op : Intent] : Real(v) => Real(v)'
<1>1. op.id \in Id /\ op # None
    BY DEF Id
<1>2. audit[op.id] # None /\ audit[op.id].request.intent = op /\ audit[op.id].state \in Dispatched
    BY DEF Claimed, Holds
<1>3. /\ effects' = [effects EXCEPT ![op.id] = IF effects[op.id] = None THEN op ELSE effects[op.id]]
      /\ attempts' = [attempts EXCEPT ![op.id] = attempts[op.id] + 1]
      /\ effects \in [Id -> {None} \cup Intent] /\ attempts \in [Id -> Nat]
    BY DEF BackendWrite, IInv, BackendType
<1>4. /\ effects'[op.id] = op /\ attempts'[op.id] = 1
      /\ \A i \in Id \ {op.id} : effects'[i] = effects[i] /\ attempts'[i] = attempts[i]
    BY <1>1, <1>2, <1>3 DEF IInv, AtMostOneWrite
<1>5. \A i \in Id : effects[i] # None => effects'[i] = effects[i]
    BY <1>1, <1>2, <1>4 DEF IInv, AtMostOneWrite
<1>6. BackendType'
    BY <1>1, <1>3 DEF BackendType
<1>7. AtMostOneWrite'
    BY <1>1, <1>2, <1>4 DEF IInv, AtMostOneWrite
<1>8. RecordInv' /\ RecordReal'
    BY <1>2, <1>4 DEF IInv, RecordInv, RecordReal, Logged
<1>9. ASSUME NEW v \in {None} \cup [state : Outcome, op : Intent], Real(v) PROVE Real(v)'
    <2>1. v # None => v.op \in Intent /\ v.op.id \in Id /\ v.op # None
        BY DEF Id
    <2> QED
        BY <1>5, <1>9, <2>1 DEF Real
<1> QED
    BY <1>4, <1>5, <1>6, <1>7, <1>8, <1>9

\* The backend's write: its claim makes it the only one.
LEMMA WriteInv ==
    ASSUME IInv, NEW g \in Gate, Write(g)
    PROVE  IInv'
<1>1. /\ pc[g] = "write" /\ BackendWrite(Op(g)) /\ Goto(g, "confirm")
      /\ UNCHANGED <<auditVars, late>>
    BY DEF Write
<1>2. Op(g) \in Intent /\ Op(g).id \in Id
    BY <1>1, InCall
<1>3. /\ Claimed(Op(g)) /\ attempts[Op(g).id] = 0
      /\ \A h \in Gate \ {g} : pc[h] = "write" => Op(h).id # Op(g).id
      /\ \A m \in late : Writes(m) => m.req.intent.id # Op(g).id
    BY <1>1 DEF IInv, GatePermits
<1>4. /\ RecordInv' /\ RecordReal' /\ BackendType' /\ AtMostOneWrite'
      /\ effects'[Op(g).id] = Op(g)
      /\ \A i \in Id \ {Op(g).id} : attempts'[i] = attempts[i]
      /\ \A i \in Id : effects[i] # None => effects'[i] = effects[i]
      /\ \A v \in {None} \cup [state : Outcome, op : Intent] : Real(v) => Real(v)'
    BY <1>1, <1>2, <1>3, BackendKeeps
<1>5. GateType' /\ OthersWait(g) /\ WireType'
    <2>1. "confirm" \in Step
        BY DEF Step
    <2>2. GateStep(g)
        BY <1>1, <2>1 DEF GateStep
    <2> QED
        BY <1>1, <2>2, GateMoves DEF IInv, WireType
<1>6. pc'[g] = "confirm" /\ req' = req /\ result' = result
    BY <1>1 DEF Goto, IInv, GateType
<1>7. ReportReal'
    BY <1>4, <1>6 DEF IInv, GateType, ReportReal, Real
<1>8. \A h \in Gate : pc'[h] = "write" => pc[h] = "write" /\ h # g
    BY <1>5, <1>6 DEF OthersWait
<1>9. \A h \in Gate : pc[h] # "idle" => Op(h)' = Op(h) /\ Op(h) \in Intent /\ Op(h).id \in Id
    BY <1>6, InCall DEF Op
<1>10. GatePermits'
    BY <1>1, <1>3, <1>4, <1>8, <1>9 DEF IInv, GatePermits, Claimed, Holds, Writes
<1>11. \A m \in late : m.req.intent \in Intent /\ m.req.intent.id \in Id
    BY RequestIntent DEF IInv, WireType
<1>12. WirePermits'
    BY <1>1, <1>3, <1>4, <1>11 DEF IInv, WirePermits, Claimed, Holds, Writes
<1>13. Receipts'
    <2>1. \A h \in Gate : pc'[h] \in {"confirm", "reconfirm"} => effects'[Op(h).id] = Op(h)
        <3> SUFFICES ASSUME NEW h \in Gate \ {g}, pc'[h] \in {"confirm", "reconfirm"}
                     PROVE  effects'[Op(h).id] = Op(h)
            BY <1>4
        <3>1. effects[Op(h).id] = Op(h) /\ pc[h] # "idle"
            BY <1>5 DEF OthersWait, IInv, Receipts
        <3> QED
            BY <1>4, <1>9, <3>1
    <2>2. \A m \in late : m.action = "confirm" => effects'[m.req.intent.id] = m.req.intent
        BY <1>4, <1>11 DEF IInv, Receipts
    <2>3. \A h \in Gate : Op(h)' = Op(h)
        BY <1>6 DEF Op
    <2> QED
        BY <1>1, <2>1, <2>2, <2>3 DEF Receipts
<1> QED
    BY <1>4, <1>5, <1>7, <1>10, <1>12, <1>13 DEF IInv

\* What a failed or killed exchange leaves behind is what its gate was allowed.
LEMMA LeftMessage ==
    ASSUME IInv, NEW g \in Gate, pc[g] # "idle", NEW m \in Left(g)
    PROVE  /\ m \in [action : {"prepare", "claim", "write", "confirm", "unknown"},
                      req : Request, by : Gate \cup {None}]
           /\ m.req = req[g]
           /\ Left(g) = {m}
           /\ Writes(m) => pc[g] = "write"
           /\ m.action = "confirm" => pc[g] \in {"confirm", "reconfirm"}
<1>1. req[g] \in Request
    BY InCall
<1>2. \/ pc[g] = "prepare" /\ Left(g) = {[action |-> "prepare", req |-> req[g], by |-> None]}
      \/ pc[g] = "claim" /\ Left(g) = {[action |-> "claim", req |-> req[g], by |-> None]}
      \/ pc[g] = "write" /\ Left(g) = {[action |-> "write", req |-> req[g], by |-> g]}
      \/ /\ pc[g] \in {"confirm", "reconfirm"}
         /\ Left(g) = {[action |-> "confirm", req |-> req[g], by |-> None]}
      \/ pc[g] = "unresolved" /\ Left(g) = {[action |-> "unknown", req |-> req[g], by |-> None]}
      \/ Left(g) = {}
    BY DEF Left, IInv, GateType, Step
<1> QED
    BY <1>1, <1>2 DEF Writes

\* A gate that gives up may leave its messages on the way.
LEMMA LeaveInv ==
    ASSUME IInv, NEW g \in Gate, pc[g] # "idle", GateType', OthersWait(g),
           pc'[g] \notin {"write", "confirm", "reconfirm"}, Real(result[g])',
           late' \in {late, late \cup Left(g)}, UNCHANGED <<auditVars, backendVars>>
    PROVE  IInv'
<1>1. RecordInv' /\ RecordReal' /\ BackendType' /\ AtMostOneWrite'
    BY DEF IInv, RecordInv, RecordReal, Logged, BackendType, AtMostOneWrite
<1>2. WireType'
    BY LeftMessage DEF IInv, WireType
<1>3. ReportReal'
    BY DEF OthersWait, IInv, ReportReal, Real
<1>4. \A h \in Gate : pc'[h] = "write" => h # g /\ pc[h] = "write" /\ Op(h)' = Op(h)
    BY DEF OthersWait, Op
<1>5. \A m \in late' :
          \/ m \in late
          \/ /\ late' = late \cup {m} /\ m.req.intent = Op(g)
             /\ Writes(m) => pc[g] = "write"
             /\ m.action = "confirm" => pc[g] \in {"confirm", "reconfirm"}
    BY LeftMessage DEF Op
<1>6. GatePermits'
    BY <1>4, <1>5 DEF IInv, GatePermits, Claimed, Holds
<1>7. WirePermits'
    <2> SUFFICES ASSUME NEW m \in late', Writes(m)
                 PROVE  /\ Claimed(m.req.intent) /\ attempts[m.req.intent.id] = 0
                        /\ \A n \in late' \ {m} :
                             Writes(n) => n.req.intent.id # m.req.intent.id
        BY DEF WirePermits, Claimed, Holds, Writes
    <2>1. CASE m \in late /\ late' = late
        BY <2>1 DEF IInv, WirePermits
    <2>2. CASE m \in late /\ late' # late
        BY <1>5, <2>2 DEF IInv, WirePermits, GatePermits
    <2>3. CASE m \notin late
        BY <1>5, <2>3 DEF IInv, WirePermits, GatePermits
    <2> QED
        BY <2>1, <2>2, <2>3
<1>8. Receipts'
    BY <1>5 DEF OthersWait, IInv, Receipts, Op
<1> QED
    BY <1>1, <1>2, <1>3, <1>6, <1>7, <1>8 DEF IInv

\* Failures and timeouts,
LEMMA FailsInv ==
    ASSUME IInv, NEW g \in Gate, Fails(g)
    PROVE  IInv'
<1>1. /\ pc[g] # "idle" /\ late' \in {late, late \cup Left(g)}
      /\ UNCHANGED <<auditVars, backendVars>>
    BY DEF Fails
<1>2. Goto(g, "unresolved") \/ \E s \in {"blocked", "result_unknown"} : Return(g, s)
    BY DEF Fails
<1>3. GateType' /\ OthersWait(g)
    BY <1>1, <1>2, GateMoves DEF IInv, GateStep, Step, Outcome
<1>4. pc'[g] \in {"unresolved", "idle"}
    BY <1>2 DEF Goto, Return, IInv, GateType
<1>5. Real(result[g])'
    <2>1. CASE Goto(g, "unresolved")
        BY <1>1, <2>1 DEF Goto, IInv, ReportReal, Real
    <2>2. CASE \E s \in {"blocked", "result_unknown"} : Return(g, s)
        BY <2>2 DEF Return, IInv, GateType, Real
    <2> QED
        BY <1>2, <2>1, <2>2
<1> QED
    BY <1>1, <1>3, <1>4, <1>5, LeaveInv

\* crashes,
LEMMA CrashInv ==
    ASSUME IInv, NEW g \in Gate, Crash(g)
    PROVE  IInv'
<1>1. GateType' /\ OthersWait(g) /\ pc'[g] = "idle"
    BY DEF Crash, IInv, GateType, CallOK, OthersWait, Step
<1>2. Real(result[g])'
    BY DEF Crash, IInv, ReportReal, Real
<1> QED
    BY <1>1, <1>2, LeaveInv DEF Crash

\* and messages that arrive late keep the invariant.
LEMMA ArriveInv ==
    ASSUME IInv, NEW m \in late, Arrive(m)
    PROVE  IInv'
<1>1. /\ late' = late \ {m} /\ UNCHANGED gateVars
      /\ m.req \in Request /\ m.req.intent \in Intent /\ m.req.intent.id \in Id
    BY RequestIntent DEF Arrive, IInv, WireType
<1>2. GateType' /\ WireType' /\ \A g \in Gate : Op(g)' = Op(g)
    BY <1>1 DEF IInv, GateType, CallOK, WireType, Op
<1>3. /\ \A g \in Gate : pc[g] # "idle" => Op(g) \in Intent
      /\ \A n \in late : n.req.intent \in Intent /\ n.req.intent.id \in Id
    BY InCall, RequestIntent DEF IInv, WireType
<1>4. CASE UNCHANGED backendVars /\ AuditStep(m.req)
    <2>1. /\ RecordInv' /\ RecordReal' /\ BackendType' /\ AtMostOneWrite'
          /\ \A op \in Intent : Claimed(op) => Claimed(op)'
          /\ \A v \in {None} \cup [state : Outcome, op : Intent] : Real(v) => Real(v)'
        BY <1>1, <1>4, AuditKeeps
    <2>2. ReportReal'
        BY <1>1, <2>1 DEF IInv, GateType, ReportReal, Real
    <2>3. GatePermits'
        BY <1>1, <1>2, <1>3, <1>4, <2>1 DEF IInv, GatePermits, Claimed, Holds
    <2>4. WirePermits'
        BY <1>1, <1>3, <1>4, <2>1 DEF IInv, WirePermits, Claimed, Holds
    <2>5. Receipts'
        BY <1>1, <1>2, <1>4 DEF IInv, Receipts
    <2> QED
        BY <1>2, <2>1, <2>2, <2>3, <2>4, <2>5 DEF IInv
<1>5. CASE Writes(m) /\ BackendWrite(m.req.intent) /\ UNCHANGED auditVars
    <2>1. /\ Claimed(m.req.intent) /\ attempts[m.req.intent.id] = 0
          /\ \A n \in late \ {m} : Writes(n) => n.req.intent.id # m.req.intent.id
          /\ \A g \in Gate : pc[g] = "write" => Op(g).id # m.req.intent.id
        BY <1>5 DEF IInv, WirePermits, GatePermits
    <2>2. /\ RecordInv' /\ RecordReal' /\ BackendType' /\ AtMostOneWrite'
          /\ \A i \in Id \ {m.req.intent.id} : attempts'[i] = attempts[i]
          /\ \A i \in Id : effects[i] # None => effects'[i] = effects[i]
          /\ \A v \in {None} \cup [state : Outcome, op : Intent] : Real(v) => Real(v)'
        BY <1>1, <1>5, <2>1, BackendKeeps
    <2>3. ReportReal'
        BY <1>1, <2>2 DEF IInv, GateType, ReportReal, Real
    <2>4. GatePermits'
        <3>1. \A g \in Gate : pc[g] = "write" => Op(g).id \in Id
            BY InCall
        <3> QED
            BY <1>1, <1>2, <1>5, <2>1, <2>2, <3>1 DEF IInv, GatePermits, Claimed, Holds
    <2>5. WirePermits'
        BY <1>1, <1>3, <1>5, <2>1, <2>2 DEF IInv, WirePermits, Claimed, Holds
    <2>6. Receipts'
        <3>1. \A g \in Gate : pc[g] \in {"confirm", "reconfirm"} =>
                  Op(g).id \in Id /\ Op(g) # None
            BY InCall
        <3>2. \A n \in late : n.req.intent # None
            BY <1>3
        <3> QED
            BY <1>1, <1>2, <1>3, <2>2, <3>1, <3>2 DEF IInv, Receipts
    <2> QED
        BY <1>2, <2>2, <2>3, <2>4, <2>5, <2>6 DEF IInv
<1>6. m.action = "confirm" => effects[m.req.intent.id] = m.req.intent
    BY DEF IInv, Receipts
<1> QED
    BY <1>4, <1>5, <1>6 DEF Arrive, AuditStep, Writes

\* A step that changes nothing.
LEMMA SameInv ==
    ASSUME IInv, UNCHANGED vars
    PROVE  IInv'
<1>1. UNCHANGED <<pc, req, result, audit, events, attempts, effects, late>>
    BY DEF vars, gateVars, auditVars, backendVars
<1>2. GateType' /\ WireType'
    BY <1>1 DEF IInv, GateType, WireType, CallOK
<1>3. BackendType' /\ AtMostOneWrite'
    BY <1>1 DEF IInv, BackendType, AtMostOneWrite
<1>4. RecordInv'
    BY <1>1 DEF IInv, RecordInv, Logged
<1>5. RecordReal' /\ ReportReal'
    BY <1>1 DEF IInv, RecordReal, ReportReal, Real
<1>6. GatePermits' /\ WirePermits' /\ Receipts'
    BY <1>1 DEF IInv, GatePermits, WirePermits, Receipts, Claimed, Holds, Op
<1> QED
    BY <1>2, <1>3, <1>4, <1>5, <1>6 DEF IInv

\* The invariant is inductive.
LEMMA NextInv == IInv /\ [Next]_vars => IInv'
<1> SUFFICES ASSUME IInv, [Next]_vars PROVE IInv'
    OBVIOUS
<1>1. CASE UNCHANGED vars
    BY <1>1, SameInv
<1>2. ASSUME NEW g \in Gate, Continue(g) PROVE IInv'
    BY <1>2, PrepareInv, ClaimInv, WriteInv, ConfirmInv, UnresolvedInv, LocalInv, FailsInv
    DEF Continue
<1> QED
    BY <1>1, <1>2, CallInv, CrashInv, ArriveInv DEF Next

-----------------------------------------------------------------------------
(* Theorems.                                                               *)

\* What the five logs are worth to the evidence adapter.
LEMMA LoggedValid ==
    ASSUME RecordInv, NEW i \in Id
    PROVE  Valid(events[i])
<1>1. events[i] \in {<<>>, <<"request">>, <<"request", "dispatch">>,
                     <<"request", "dispatch", "unknown">>,
                     <<"request", "dispatch", "result">>,
                     <<"request", "dispatch", "unknown", "result">>}
    BY DEF RecordInv, Logged, Row, Recorded
<1>2. CASE events[i] = <<>>
    BY <1>2 DEF Valid
<1>3. CASE events[i] = <<"request">>
    BY <1>3 DEF Valid
<1>4. CASE events[i] = <<"request", "dispatch">>
    BY <1>4 DEF Valid
<1>5. CASE events[i] = <<"request", "dispatch", "unknown">>
    BY <1>5 DEF Valid
<1>6. CASE events[i] = <<"request", "dispatch", "result">>
    BY <1>6 DEF Valid
<1>7. CASE events[i] = <<"request", "dispatch", "unknown", "result">>
    BY <1>7 DEF Valid
<1> QED
    BY <1>1, <1>2, <1>3, <1>4, <1>5, <1>6, <1>7

\* Every step moves a record on along its lifecycle or leaves it.
LEMMA StepMoves ==
    ASSUME IInv, [Next]_vars
    PROVE  \A k \in Id : Moves(k)
<1>1. CASE UNCHANGED auditVars
    BY <1>1 DEF Moves
<1>2. ASSUME NEW r \in Request, AuditStep(r), UNCHANGED backendVars
      PROVE  \A k \in Id : Moves(k)
    BY <1>2, AuditKeeps
<1>3. ASSUME NEW g \in Gate, Continue(g)
      PROVE  \A k \in Id : Moves(k)
    <2>1. CASE Prepare(g)
        BY <1>2, <2>1, InCall DEF Prepare, AuditStep
    <2>2. CASE Claim(g)
        BY <1>2, <2>2, InCall DEF Claim, AuditStep
    <2>3. CASE Confirm(g)
        <3>1. effects[Op(g).id] = Op(g)
            BY <2>3 DEF Confirm, IInv, Receipts
        <3> QED
            BY <1>2, <2>3, <3>1, InCall DEF Confirm, AuditStep
    <2>4. CASE Unresolved(g)
        BY <1>2, <2>4, InCall DEF Unresolved, AuditStep
    <2> QED
        BY <1>1, <1>3, <2>1, <2>2, <2>3, <2>4
        DEF Continue, Write, Get, Lookup, Fails, Refresh
<1>4. ASSUME NEW m \in late, Arrive(m)
      PROVE  \A k \in Id : Moves(k)
    <2>1. m.req \in Request
        BY DEF IInv, WireType
    <2>2. m.action = "confirm" => effects[m.req.intent.id] = m.req.intent
        BY DEF IInv, Receipts
    <2> QED
        BY <1>1, <1>2, <1>4, <2>1, <2>2 DEF Arrive, AuditStep
<1>5. ASSUME NEW g \in Gate, NEW r \in Request, Call(g, r)
      PROVE  UNCHANGED auditVars
    BY <1>5 DEF Call, Execute, Deny, Begin
<1>6. ASSUME NEW g \in Gate, Crash(g)
      PROVE  UNCHANGED auditVars
    BY <1>6 DEF Crash
<1> QED
    BY <1>1, <1>3, <1>4, <1>5, <1>6 DEF Next, vars

\* The invariant holds throughout.
THEOREM Invariance == Spec => []IInv
BY InitInv, NextInv, PTL DEF Spec

\* Every variable keeps its type: records, logs, results and messages are ones the
\* processes can hold.
THEOREM TypeCorrect == Spec => []TypeOK
<1>1. IInv => TypeOK
    BY DEF IInv, GateType, BackendType, WireType, RecordInv, TypeOK, Step, Outcome
<1> QED
    BY <1>1, Invariance, PTL

\* execute and the services: one durable dispatch intent is worth one write.
THEOREM OneWritePerIntent == Spec => []AtMostOneWrite
<1>1. IInv => AtMostOneWrite
    BY DEF IInv
<1> QED
    BY <1>1, Invariance, PTL

\* receipt_check and audit_call: no success is recorded or reported without effect.
THEOREM SuccessIsReal == Spec => []ConfirmedIsReal
<1>1. IInv => ConfirmedIsReal
    BY DEF IInv, RecordReal, ReportReal, Real, ConfirmedIsReal
<1> QED
    BY <1>1, Invariance, PTL

\* audit and validate_events: what the audit process logs, the adapter accepts.
THEOREM LogsValidate == Spec => []ExportsValidate
<1>1. IInv => ExportsValidate
    BY LoggedValid DEF IInv, ExportsValidate
<1> QED
    BY <1>1, Invariance, PTL

\* audit: a record is final in its request and moves on only.
THEOREM RecordsMoveOn == Spec => RecordMovesOn
<1>1. IInv /\ [Next]_vars => [\A k \in Id : Moves(k)]_vars
    BY StepMoves
<1> QED
    BY <1>1, Invariance, PTL DEF Spec, RecordMovesOn

=============================================================================
