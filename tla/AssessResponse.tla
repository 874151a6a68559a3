---------------------------- MODULE AssessResponse ----------------------------
(***************************************************************************)
(* The incident response workflow of the assessor: what had been answered by  *)
(* a request's cutoff, and what a containment left behind                   *)
(* (incident_assessor/incident_response.py).                               *)
(***************************************************************************)
EXTENDS Assessor

ResponseData(r) ==
    CASE r.kind = "info_request" -> r.data.questions # {} /\ r.data.at < r.data.until
      [] r.kind = "info_receipt" -> TRUE
      [] r.kind = "info_response" -> r.data.answered # {}
      [] r.kind = "containment_action" ->
            /\ r.data.decided <= r.data.at
            /\ r.data.minimum \/ r.data.unavailable # {}
      [] r.kind = "containment_anchor_claim" -> r.data.records # {}

\* _time_ok.
Occurred(r) == r.data.at <= r.recorded

InfoRequests(p) ==
    {r \in Bound(p, "info_request") : Occurred(r) /\ r.data.at = OperationAt}
Earlier(a, b) == IF a <= b THEN a ELSE b
Cutoff(p, q) == Earlier(q.data.until, p.asOf)
\* The request that is assessed: the only one, recorded by its cutoff.
Asked(p) ==
    {q \in InfoRequests(p) : InfoRequests(p) = {q} /\ q.recorded <= Cutoff(p, q)}

Replies(p, q, kind) ==
    {r \in Bound(p, kind) : r.data.request = q.id /\ Occurred(r) /\ q.data.at <= r.data.at}
Responses(p, q) ==
    {r \in Replies(p, q, "info_response") : r.data.answered \subseteq q.data.questions}

InTime(p, q, r) == r.data.at <= Cutoff(p, q) /\ r.recorded <= Cutoff(p, q)

DeliveryOf(p, q) == \E r \in Replies(p, q, "info_receipt") : InTime(p, q, r)
ResponseStatus(p, q) ==
    LET timely == {r \in Responses(p, q) : InTime(p, q, r)} IN
    IF \E r \in timely : r.data.complete /\ r.data.answered = q.data.questions THEN "COMPLETE"
    ELSE IF timely # {} THEN "PARTIAL"
    ELSE IF q.data.until <= p.asOf THEN "NONE_BY_CUTOFF" ELSE "NONE_AS_OF_EVALUATION"
Later(p, q) == \E r \in Responses(p, q) : ~ InTime(p, q, r)

-----------------------------------------------------------------------------
(* Containment.                                                            *)

Removals(p) ==
    {r \in Bound(p, "containment_action") :
        r.data.account /\ r.data.at = OperationAt /\ Occurred(r)}
\* Conflicting records of one removal are left to a reviewer.
Settled(p) == \A r, q \in Removals(p) : r.data = q.data
Containment(p) ==
    IF Removals(p) = {} \/ ~ Settled(p) THEN "UNKNOWN"
    ELSE IF \E r \in Removals(p) : r.data.urgent /\ ~ r.data.delay THEN "AUTHORIZED_REMOVAL"
    ELSE "REQUIRES_REVIEW"
Preservation(p) ==
    IF Removals(p) = {} \/ ~ Settled(p) THEN "UNKNOWN"
    ELSE IF \E r \in Removals(p) : ~ r.data.minimum THEN "MINIMUM_HISTORY_UNAVAILABLE"
    ELSE "REPORTED_AVAILABLE"
\* An anchor after the removal does not make the capture contemporaneous.  The code takes
\* the first removal of the package; any of them is taken here.
AnchoredLate(p) ==
    /\ Removals(p) # {} /\ Settled(p)
    /\ LET action == CHOOSE r \in Removals(p) : TRUE IN
       \E r \in Bound(p, "containment_anchor_claim") :
          action.id \in r.data.records /\ Occurred(r) /\ r.data.at > OperationAt

ResponseReport(p) ==
    [response |-> {ResponseStatus(p, q) : q \in Asked(p)},
     delivered |-> {DeliveryOf(p, q) : q \in Asked(p)},
     later |-> {Later(p, q) : q \in Asked(p)},
     containment |-> Containment(p), preservation |-> Preservation(p), late |-> AnchoredLate(p)]

=============================================================================
