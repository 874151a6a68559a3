----------------------------- MODULE AssessErasure -----------------------------
(***************************************************************************)
(* The erasure workflow of the assessor: how far a deletion is evidenced,     *)
(* from the local request to an independent review                         *)
(* (incident_assessor/erasure.py).                                         *)
(***************************************************************************)
EXTENDS Assessor

\* What the deletion evidence can be, in the order in which it builds.
Levels == [UNKNOWN |-> 0, REQUEST_ONLY |-> 1, ACKNOWLEDGED |-> 2, ATTESTED |-> 3, REVIEWED |-> 4]

ErasureData(r) ==
    CASE r.kind = "erasure.request" -> r.data.locations # {}
      [] r.kind = "erasure.acknowledgement" -> TRUE
      [] r.kind = "erasure.provider_attestation" ->
            r.data.locations # {} /\ r.data.locations \cap r.data.exclusions = {}
      [] r.kind = "erasure.review" ->
            /\ r.data.cited # {} /\ r.data.locations # {}
            /\ r.data.from < r.data.until
            /\ r.data.conclusion \in {"deletion-observed", "inconclusive"}

\* _timed: the event is not before its cause nor after its record.
Timed(r, earliest) == earliest <= r.data.at /\ r.data.at <= r.recorded

Requests(p) ==
    {r \in Bound(p, "erasure.request") : r.data.at = OperationAt /\ Timed(r, OperationAt)}
Answered(p, r, q) == r.data.request = q.id /\ Timed(r, q.data.at) /\ q.recorded <= r.recorded
Acknowledgements(p) ==
    {r \in Bound(p, "erasure.acknowledgement") : \E q \in Requests(p) : Answered(p, r, q)}
Attestations(p) ==
    {r \in Bound(p, "erasure.provider_attestation") :
        \E q \in Requests(p) : Answered(p, r, q) /\ r.data.locations \subseteq q.data.locations}
Receipts(p) == Acknowledgements(p) \cup Attestations(p)
Mismatched(p) ==
    {r \in UNION {Records(p, k) : k \in {"erasure.acknowledgement",
                                         "erasure.provider_attestation"}} : r.diff # {}}

\* MUTANT: one receipt for another target makes the others unusable.
ApplicabilityStrict(p) ==
    IF Mismatched(p) # {} THEN "UNUSABLE"
    ELSE IF Receipts(p) # {} THEN "MATCHED" ELSE "NOT_ESTABLISHED"
Applicability(p) ==
    IF Receipts(p) # {} THEN "MATCHED"
    ELSE IF Mismatched(p) # {} THEN "UNUSABLE" ELSE "NOT_ESTABLISHED"
ErasureBinding(p) ==
    IF Applicability(p) = "UNUSABLE"
    THEN IF \E r \in Mismatched(p) : {"object_ids", "tenant_id"} \subseteq r.diff
         THEN "OBJECT_AND_TENANT_MISMATCH" ELSE "TARGET_BINDING_MISMATCH"
    ELSE IF Requests(p) # {} THEN "MATCH" ELSE "UNRESOLVED"

-----------------------------------------------------------------------------
(* Reviews.                                                                *)

\* The reviewer belongs to neither organisation, and the keys name both of them.
Independent(review, request, attestation) ==
    LET of(r) == Keys[r.key].organization IN
    /\ Unknown \notin {Organization("provider"), Organization("responder")}
    /\ of(request) = Organization("responder") /\ of(attestation) = Organization("provider")
    /\ of(review) \notin {Organization("provider"), Organization("responder")}

\* A review that bears on an attestation: it is independent, its window holds the
\* completion, and all that it cites was established by the window's end.
Bearing(p, review) ==
    \E q \in Requests(p), a \in Attestations(p) :
        /\ review.data.request = q.id /\ review.data.attestation = a.id
        /\ a.data.request = q.id
        /\ Independent(review, q, a)
        /\ OperationAt <= review.data.from /\ review.data.from <= a.data.at
        /\ a.data.at < review.data.until /\ review.data.until <= review.recorded
        /\ {q.id, a.id} \subseteq review.data.cited
        /\ \A id \in review.data.cited :
              \E r \in Requests(p) \cup Receipts(p) : r.id = id /\ r.recorded <= review.data.until
        /\ review.data.locations \subseteq a.data.locations
Conclusions(p) ==
    {r.data.conclusion : r \in {r \in Bound(p, "erasure.review") : Bearing(p, r)}}

Reviewed(p) == Conclusions(p) = {"deletion-observed"}

DeletionEvidence(p) ==
    IF Reviewed(p) THEN "REVIEWED"
    ELSE IF Attestations(p) # {} THEN "ATTESTED"
    ELSE IF Acknowledgements(p) # {} THEN "ACKNOWLEDGED"
    ELSE IF Requests(p) # {} THEN "REQUEST_ONLY" ELSE "UNKNOWN"

\* excluded_scope_outcome, outside_scope_outcome and target_completion stay UNKNOWN.
ErasureReport(p) ==
    [deletion |-> DeletionEvidence(p), receipt |-> Applicability(p),
     binding |-> ErasureBinding(p), reviews |-> Conclusions(p)]

=============================================================================
