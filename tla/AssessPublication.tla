--------------------------- MODULE AssessPublication ---------------------------
(***************************************************************************)
(* The publication workflow of the assessor: what was done to the artifact,  *)
(* disclosed, approved and sent (incident_assessor/publication.py).         *)
(*                                                                         *)
(* A component is [artifact, category]; Document is the one that the target   *)
(* names, with its revision and payload.  The target pins p.rules, the stage's *)
(* policy [from, until, prohibited, categories, approval, resolved].         *)
(***************************************************************************)
EXTENDS Assessor

CONSTANT Document

RevisionFields == {"revision_id", "payload_sha256", "disclosure_sha256"}

Acts == {"generation", "substantive_editing", "proofreading", "translation", "code_review",
         "figure_generation"}
Categories == {"text", "figure", "code"}
\* What a manifest lists; the list itself is ordered, and two orders are two manifests.
Components(r) == {r.data.components[i] : i \in DOMAIN r.data.components}

PublicationData(r) ==
    CASE r.kind = "publication_policy" ->
            /\ r.data.from < r.data.until
            /\ r.data.prohibited \subseteq Acts /\ r.data.categories \subseteq Categories
      [] r.kind = "publication_manifest" ->
            /\ r.data.components # <<>>
            /\ \A c \in Components(r) : c.category \in Categories
            /\ \A i, j \in DOMAIN r.data.components :
                 r.data.components[i].artifact = r.data.components[j].artifact => i = j
      [] r.kind = "publication_activity" ->
            r.data.activity \in Acts /\ r.data.component.category \in Categories
      [] r.kind = "publication_disclosure" -> r.data.categories \subseteq Categories
      [] r.kind = "publication_declaration" -> r.data.activities \subseteq Acts
      [] r.kind \in {"publication_coverage", "publication_approval"} -> r.data.from < r.data.until
      [] r.kind \in {"publication_dispatch", "publication_receipt"} -> TRUE

\* _event_eligible, with the side of the operation that the event must be on.
Happened(r) == r.data.at <= r.recorded
HappenedBefore(r) == Happened(r) /\ r.data.at <= OperationAt
HappenedAfter(r) == Happened(r) /\ OperationAt <= r.data.at

\* In force at the operation, and already recorded then.
Available(r) == r.recorded <= OperationAt /\ Covers(r.data.from, r.data.until, OperationAt)

\* _policy: any eligible one, since the target pins its content.
StagePolicy(p) ==
    \E r \in BoundIn(p, "publication_policy", PolicyFields) : r.data = p.rules /\ Available(r)

\* Manifests that disagree on the components establish none.
Manifests(p) ==
    LET held == {r \in Bound(p, "publication_manifest") :
                    HappenedBefore(r) /\ Document \in Components(r)} IN
    IF \E r, q \in held : r.data.components # q.data.components THEN {} ELSE held
Activities(p) ==
    {r \in Bound(p, "publication_activity") :
        /\ HappenedBefore(r) /\ r.data.included /\ r.data.adopted
        /\ \E m \in Manifests(p) : r.data.component \in Components(m)}
Declarations(p) == {r \in Bound(p, "publication_declaration") : Happened(r)}
Disclosures(p) ==
    {r \in Bound(p, "publication_disclosure") : HappenedBefore(r) /\ r.data.exact}
CapturePartial(p) ==
    \E r \in Bound(p, "publication_coverage") :
        Covers(r.data.from, r.data.until, OperationAt) /\ r.data.from <= r.recorded

EvidenceBasis(p) ==
    CASE Declarations(p) = {} /\ Activities(p) = {} -> "UNKNOWN"
      [] Declarations(p) = {} /\ Activities(p) # {} -> "INSTRUMENTED_OBSERVATION"
      [] Declarations(p) # {} /\ Activities(p) = {} -> "SELF_DECLARED"
      [] OTHER -> "OBSERVED_AND_SELF_DECLARED"
Contradicted(p) ==
    \E d \in Declarations(p), a \in Activities(p) : a.data.activity \notin d.data.activities

Applicable(p) == StagePolicy(p) /\ p.rules.resolved
Prohibited(p) ==
    Applicable(p) /\ \E a \in Activities(p) : a.data.activity \in p.rules.prohibited
DisclosureAssessment(p) ==
    LET required == {a.data.component.category : a \in Activities(p)} \cap p.rules.categories
        omitted == \E d \in Disclosures(p) : ~ required \subseteq d.data.categories IN
    IF Applicable(p) /\ required # {} /\ (Disclosures(p) = {} \/ omitted) THEN "INCOMPLETE"
    ELSE IF Disclosures(p) # {} THEN "REQUIRES_CONTENT_REVIEW" ELSE "UNKNOWN"

\* An approval of an earlier revision is not one of this one.
Approved(p) ==
    LET available == {r \in Records(p, "publication_approval") : Available(r)} IN
    IF \E r \in available : r.diff = {} THEN "BOUND_APPROVAL_RECORDED"
    ELSE IF \E r \in available : r.diff \subseteq RevisionFields THEN "PRIOR_REVISION_ONLY"
    ELSE "NOT_ESTABLISHED"

Sent(p) == {r \in Bound(p, "publication_dispatch") : HappenedAfter(r)}
Received(p) ==
    {r \in Bound(p, "publication_receipt") :
        HappenedAfter(r) /\ (Sent(p) = {} \/ \E d \in Sent(p) : d.data.at <= r.data.at)}

\* publication_action is never a permission.
PublicationReport(p) ==
    [action |-> IF Prohibited(p) THEN "BLOCK" ELSE "REVIEW", applicable |-> Applicable(p),
     approval |-> Approved(p), involvement |-> Activities(p) # {}, basis |-> EvidenceBasis(p),
     coverage |-> CapturePartial(p), contradicted |-> Contradicted(p),
     disclosure |-> DisclosureAssessment(p), sent |-> Sent(p) # {},
     received |-> Received(p) # {}, accepted |-> \E r \in Received(p) : r.data.accepted]

=============================================================================
