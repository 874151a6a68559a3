------------------------------- MODULE Assessor -------------------------------
(***************************************************************************)
(* The incident evidence assessor: which signed records of a package count   *)
(* towards one target under the evaluator's trust configuration             *)
(* (experiments/incident-evidence-assessor/incident_assessor).             *)
(*                                                                         *)
(* A package is [records, asOf], asOf the observation cutoff.  A record is   *)
(* [id, kind, key, genuine, issuer, recorded, mine, diff, data]: genuine     *)
(* when its signature verifies, mine when it names this evaluation, diff the *)
(* fields of the target's subject that its binding differs in.  Digests are  *)
(* injective: a document stands for its digest.                            *)
(***************************************************************************)
EXTENDS Integers, FiniteSets

CONSTANTS
    Keys,             \* trust.keys: key -> [issuer, organization, roles, from, until]
    Authorities,      \* target.authorities: role -> issuer
    OperationAt,      \* target.operation_at
    Unknown           \* no organization

KindsOf == [policy |-> {"transfer.policy", "publication_policy"},
            gateway |-> {"transfer.decision", "transfer.dispatch", "transfer.collector_health",
                         "transfer.timeout", "publication_dispatch"},
            collector |-> {"transfer.egress", "transfer.coverage", "publication_manifest",
                           "publication_activity", "publication_coverage",
                           "containment_anchor_claim", "cross_anchor_claim"},
            responder |-> {"erasure.request", "containment_action"},
            provider |-> {"erasure.acknowledgement", "erasure.provider_attestation",
                          "cross_provider_receipt"},
            reviewer |-> {"erasure.review", "publication_approval", "info_request"},
            author |-> {"publication_disclosure", "publication_declaration"},
            recipient |-> {"publication_receipt", "info_receipt", "info_response"}]
RequiredRole(kind) == CHOOSE role \in DOMAIN KindsOf : kind \in KindsOf[role]
PolicyFields == {"policy_id", "policy_version", "policy_sha256", "stage"}

Covers(from, until, at) == from <= at /\ at < until

\* validate_package, but for the data of the records: identifiers are distinct.
Admissible(p) == \A r, q \in p.records : r.id = q.id => r = q

\* validate_trust: an issuer belongs to one organization, whichever key it signs with.
TrustFits ==
    /\ \A k \in DOMAIN Keys : Keys[k].from < Keys[k].until
    /\ \A k, l \in DOMAIN Keys :
          Keys[k].issuer = Keys[l].issuer => Keys[k].organization = Keys[l].organization

\* Context.__init__: every check of a record must pass for it to count.
Eligible(p, r) ==
    /\ r.key \in DOMAIN Keys
    /\ r.genuine
    /\ LET key == Keys[r.key]
           role == RequiredRole(r.kind) IN
       /\ role \in DOMAIN Authorities /\ role \in key.roles
       /\ r.issuer = key.issuer /\ key.issuer = Authorities[role]
       /\ Covers(key.from, key.until, r.recorded)
    /\ r.recorded <= p.asOf
    /\ r.mine

Records(p, kind) == {r \in p.records : r.kind = kind /\ Eligible(p, r)}
BoundIn(p, kind, fields) == {r \in Records(p, kind) : r.diff \cap fields = {}}
Bound(p, kind) == {r \in Records(p, kind) : r.diff = {}}

\* organization_for: the one organization the trusted keys give a role's issuer.
Organization(role) ==
    LET organizations == {Keys[k].organization : k \in {k \in DOMAIN Keys :
            /\ role \in DOMAIN Authorities /\ Keys[k].issuer = Authorities[role]
            /\ role \in Keys[k].roles}} IN
    IF Cardinality(organizations) = 1 THEN CHOOSE o \in organizations : TRUE ELSE Unknown

EvidenceIntegrity(p) ==
    IF p.records # {} /\ \A r \in p.records : Eligible(p, r) THEN "VERIFIED"
    ELSE IF \E r \in p.records : r.key \in DOMAIN Keys /\ ~ r.genuine THEN "FAILED"
    ELSE "INDETERMINATE"

-----------------------------------------------------------------------------
(* cross_party: an imported statement is attributed, never matched.         *)

CrossData(r) ==
    CASE r.kind = "cross_provider_receipt" -> r.data.scope # {}
      [] r.kind = "cross_anchor_claim" -> r.data.records # {} /\ r.data.parties # {}

Attribution(p) ==
    IF \E r \in Bound(p, "cross_provider_receipt") :
          OperationAt <= r.data.at /\ r.data.at <= r.recorded
    THEN "ESTABLISHED" ELSE "NOT_ESTABLISHED"

=============================================================================
