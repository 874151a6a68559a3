---------------------------- MODULE AssessTransfer ----------------------------
(***************************************************************************)
(* The transfer workflow of the assessor: what was authorized at the time of  *)
(* the operation, what was observed, and whether an observed action was       *)
(* authorized at its own time (incident_assessor/transfer.py).              *)
(*                                                                         *)
(* The target pins a policy document p.rules [from, until, grants, collector], *)
(* a grant being the set of fields in which it differs from the subject, and  *)
(* p.managed when it asks for the coverage of the managed route.             *)
(***************************************************************************)
EXTENDS Assessor, Sequences

Dimensions == <<"tenant_id", "account_id", "actor_id", "purpose", "route_id",
                "endpoint", "provider_id">>

TransferData(r) ==
    CASE r.kind \in {"transfer.policy", "transfer.decision", "transfer.coverage"} ->
            /\ r.data.from < r.data.until
            /\ r.kind = "transfer.decision" => r.data.decision \in {"permit", "deny"}
      [] r.kind = "transfer.collector_health" -> r.data.durable => r.data.available
      [] OTHER -> TRUE

\* MUTANT: a policy or decision counts whenever it was recorded.
WithinEver(r, at) == Covers(r.data.from, r.data.until, at)
\* _within: in force at that time, and already recorded then.
Within(r, at) == r.recorded <= at /\ Covers(r.data.from, r.data.until, at)

\* _policy: a pinned document with another content is not the policy.
PolicyAt(p, at) ==
    \E r \in BoundIn(p, "transfer.policy", PolicyFields) : r.data = p.rules /\ Within(r, at)
RegistryDenies(p, at) == PolicyAt(p, at) /\ {} \notin p.rules.grants
CollectorRequired(p, at) == PolicyAt(p, at) /\ p.rules.collector

\* _decision: the decisions among the latest of the applicable ones; two of them conflict.
DecisionsAt(p, at) ==
    LET candidates == {r \in Bound(p, "transfer.decision") : Within(r, at)} IN
    {r.data.decision : r \in {r \in candidates : \A q \in candidates : q.recorded <= r.recorded}}

\* _health_at: what was checked at exactly that time.
HealthAt(p, at) ==
    {r \in Bound(p, "transfer.collector_health") : r.data.at = at /\ at <= r.recorded}
Unavailable(p, at) == \E r \in HealthAt(p, at) : ~ r.data.durable \/ ~ r.data.available

Events(p, kind) ==
    {r \in Bound(p, kind) : OperationAt <= r.data.at /\ r.data.at <= r.recorded}
Dispatches(p) == Events(p, "transfer.dispatch")
Egresses(p) == Events(p, "transfer.egress")

-----------------------------------------------------------------------------
(* The authorization of the operation as proposed.                          *)

FromDecision(p) ==
    LET decided == DecisionsAt(p, OperationAt) IN
    IF RegistryDenies(p, OperationAt) \/ decided = {"deny"} THEN "DENY"
    ELSE IF PolicyAt(p, OperationAt) /\ decided = {"permit"} THEN "ALLOW" ELSE "REVIEW"

PermitsOtherBytes(p) ==
    \E r \in Records(p, "transfer.decision") :
        r.diff = {"payload_sha256"} /\ r.data.decision = "permit" /\ Within(r, OperationAt)

Proposed(p) ==
    LET decided == FromDecision(p)
        bytes == IF decided # "ALLOW" /\ PermitsOtherBytes(p) THEN "DENY" ELSE decided
        required == CollectorRequired(p, OperationAt) IN
    IF required /\ Unavailable(p, OperationAt) THEN "DENY"
    ELSE IF required /\ HealthAt(p, OperationAt) = {} /\ bytes = "ALLOW" THEN "REVIEW"
    ELSE bytes

\* _grant_failure: the first field that alone keeps a grant from matching.
GrantFailure(p) ==
    LET alone == {i \in DOMAIN Dimensions : {Dimensions[i]} \in p.rules.grants} IN
    IF alone = {} THEN "NO_MATCHING_APPROVAL"
    ELSE Dimensions[CHOOSE i \in alone : \A j \in alone : i <= j]

BindingAssessment(p) ==
    IF FromDecision(p) # "ALLOW" /\ PermitsOtherBytes(p) THEN "PAYLOAD_MISMATCH"
    ELSE IF RegistryDenies(p, OperationAt) THEN GrantFailure(p)
    ELSE IF FromDecision(p) = "REVIEW" THEN "UNRESOLVED" ELSE "MATCH"

-----------------------------------------------------------------------------
(* What was observed.                                                      *)

Coverage(p) ==
    {r \in Bound(p, "transfer.coverage") :
        /\ Covers(r.data.from, r.data.until, OperationAt) /\ r.data.until <= r.recorded
        /\ r.data.route}
CoverageDeclared(p) ==
    Coverage(p) # {} /\ p.managed /\ \A r \in Coverage(p) : r.data.complete

Observation(p) ==
    IF Egresses(p) # {} THEN "OBSERVED"
    ELSE IF Dispatches(p) # {} THEN "DISPATCH_OBSERVED"
    ELSE IF CoverageDeclared(p) /\ \A r \in Coverage(p) : ~ r.data.dispatch
    THEN "NOT_OBSERVED" ELSE "UNKNOWN"

\* An observed action is judged by what applied at its own time.
EventAuthorization(p, at) ==
    LET decided == DecisionsAt(p, at)
        required == CollectorRequired(p, at) IN
    IF \/ RegistryDenies(p, at) \/ decided = {"deny"}
       \/ required /\ Unavailable(p, at)
    THEN "DENY"
    ELSE IF /\ PolicyAt(p, at) /\ decided = {"permit"}
            /\ required => HealthAt(p, at) # {}
    THEN "ALLOW" ELSE "REVIEW"

\* MUTANT: an observed action is judged only while the coverage is complete.
ObservedCovered(p) ==
    IF CoverageDeclared(p)
    THEN {EventAuthorization(p, e.data.at) : e \in Egresses(p) \cup Dispatches(p)} ELSE {}
ObservedAuthorizations(p) ==
    {EventAuthorization(p, e.data.at) : e \in Egresses(p) \cup Dispatches(p)}

Control(p) == IF "DENY" \in ObservedAuthorizations(p) THEN "VIOLATION" ELSE "UNKNOWN"
Authorized(p) ==
    IF "DENY" \in ObservedAuthorizations(p) THEN "DENY"
    ELSE IF "REVIEW" \in ObservedAuthorizations(p) /\ Proposed(p) = "ALLOW" THEN "REVIEW"
    ELSE Proposed(p)

\* dispatch_action and application_route_action follow the authorization.
RouteAction(p) ==
    [DENY |-> "BLOCK", ALLOW |-> "PERMITTED", REVIEW |-> "HOLD"][Authorized(p)]

RetryAction(p) ==
    IF \E t \in Events(p, "transfer.timeout"), d \in Dispatches(p) : d.data.at <= t.data.at
    THEN "RECONCILE_BEFORE_RETRY" ELSE "NOT_ASSESSED"

TransferReport(p) ==
    [proposed |-> Proposed(p), authorization |-> Authorized(p), control |-> Control(p),
     observation |-> Observation(p), binding |-> BindingAssessment(p),
     coverage |-> CoverageDeclared(p), action |-> RouteAction(p), retry |-> RetryAction(p)]

=============================================================================
