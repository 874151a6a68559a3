----------------------------- MODULE ScopeVerifier -----------------------------
(***************************************************************************)
(* The declared-scope verifier: what a package of events and the sidecars    *)
(* supplied with it establish about an approved evaluation scope at an       *)
(* evaluation time                                                         *)
(* (experiments/declared-scope-verifier/scope_verifier/verifier.py).        *)
(*                                                                         *)
(* A signed object is [digest, key, genuine, bound, body]: genuine when its  *)
(* signature verifies, bound when its kind, evaluation and policy are the    *)
(* evaluator's.  A package is [policy, anchor, index, events, proofs,        *)
(* delivery, x]: policy says that its policy has the pinned digest, delivery *)
(* is the digest of its events and proofs, x maps the sidecars supplied.     *)
(* Hashing is injective: a leaf or a root is the data it is the hash of.     *)
(***************************************************************************)
EXTENDS Integers, FiniteSets, Sequences

CONSTANTS
    ScopeKeys,        \* the evaluator's keys for each role
    EventSigners,     \* policy.event_signers
    PinnedScope,      \* trust.scope_digest
    RegisterId,       \* policy.timing_register_id
    Simulate          \* an explicit synthetic evaluation

Stages == {"attempted", "transport_accepted", "delivered_endpoint", "human_acknowledged"}
ViolationCodes ==
    {"late_first_acceptance", "required_evidence_withheld", "required_evidence_unavailable",
     "commitment_type_mismatch", "record_type_mismatch", "notification_receipt_mismatch",
     "duplicate_delivery", "missing_delivery", "source_disagreement"}
SettledCodes == {"advance_commitment", "satisfied", "agreement"}

-----------------------------------------------------------------------------
(* Signed objects and external receipts.                                   *)

\* authenticate: a key nobody authorised for the role decides nothing.
Authenticate(obj, role) ==
    IF obj.key \notin ScopeKeys[role] THEN "indeterminate"
    ELSE IF obj.genuine THEN "verified" ELSE "failed"
Signed(obj, role) == Authenticate(obj, role) = "verified" /\ obj.bound

Latest(receipt) == receipt.body.accepted + receipt.body.uncertainty
ReceiptOk(receipt, target, purpose, at) ==
    /\ Signed(receipt, "receipt")
    /\ receipt.body.target = target /\ receipt.body.purpose = purpose
    /\ Latest(receipt) <= at
    /\ Simulate

-----------------------------------------------------------------------------
(* core: the anchored batch, and which supplied events are of it.           *)

AnchorSigned(p) == p.policy /\ Signed(p.anchor, "anchor")
IndexGood(p) ==
    /\ p.index = p.anchor.body.index
    /\ \A i, j \in DOMAIN p.index : i # j => p.index[i].id # p.index[j].id
AnchorOk(p, at) ==
    /\ AnchorSigned(p)
    /\ "anchor_receipt" \in DOMAIN p.x
    /\ ReceiptOk(p.x["anchor_receipt"], p.anchor.digest, "anchor", at)

Entry(e) == [id |-> e.body.id, source |-> e.body.source, type |-> e.body.type, leaf |-> e.body]
Included(p, i, entry, path) == i \in DOMAIN p.index /\ p.index[i] = entry /\ path

\* The checks of one event, and whether its record is valid.
EventChecked(p, e) ==
    /\ Signed(e.signed, "event")
    /\ e.body.source \in DOMAIN EventSigners /\ e.signed.key \in EventSigners[e.body.source]
    /\ e.hash = e.body
    /\ Included(p, e.index, Entry(e), e.path)
EventValid(p, at, e) == EventChecked(p, e) /\ IndexGood(p) /\ AnchorOk(p, at)
ProofValid(p, at, q) == Included(p, q.index, q.entry, q.path) /\ IndexGood(p) /\ AnchorOk(p, at)

Records(p, id) == {i \in DOMAIN p.events : p.events[i].body.id = id}
RecordsValid(p, at, id) == \A i \in Records(p, id) : EventValid(p, at, p.events[i])
Single(p, at, id) == Cardinality(Records(p, id)) = 1 /\ RecordsValid(p, at, id)
Proofs(p, id) == {i \in DOMAIN p.proofs : p.proofs[i].entry.id = id}
Prerequisites(p, at) ==
    /\ IndexGood(p) /\ AnchorOk(p, at)
    /\ \A i \in DOMAIN p.events : EventChecked(p, p.events[i])
    /\ \A i \in DOMAIN p.proofs :
          Included(p, p.proofs[i].index, p.proofs[i].entry, p.proofs[i].path)

-----------------------------------------------------------------------------
(* experimental: the scope's authority and timing.                          *)

ScopeBody(p) == p.x["scope"].body
ScopeOk(p) ==
    Signed(p.x["scope"], "scope") /\ p.x["scope"].digest = PinnedScope /\ p.policy

\* A closed register whose first acceptance is this receipt's, after the cutoff.
FirstAcceptanceLate(p, at) ==
    LET r == p.x["timing_register"].body
        receipt == p.x["scope_receipt"] IN
    /\ r.scope = p.x["scope"].digest /\ r.receipt = receipt.digest /\ r.id = RegisterId
    /\ r.closed /\ r.first <= r.closedAt /\ r.closedAt <= at
    /\ r.first = receipt.body.accepted
    /\ r.first - receipt.body.uncertainty > ScopeBody(p).cutoff

\* MUTANT: a late receipt is taken for the first one.
TimingLateAlone(p, at) ==
    LET receipt == p.x["scope_receipt"] IN
    IF ~ ("scope_receipt" \in DOMAIN p.x /\ ScopeOk(p) /\ ScopeBody(p).timed
          /\ ReceiptOk(receipt, p.x["scope"].digest, "scope", at))
    THEN "advance_commitment_unknown"
    ELSE IF Latest(receipt) <= ScopeBody(p).cutoff THEN "advance_commitment"
    ELSE IF "timing_register" \in DOMAIN p.x /\ ~ FirstAcceptanceLate(p, at)
    THEN "timing_unresolved" ELSE "late_first_acceptance"

Timing(p, at) ==
    LET receipt == p.x["scope_receipt"] IN
    IF ~ ("scope_receipt" \in DOMAIN p.x /\ ScopeOk(p) /\ ScopeBody(p).timed
          /\ ReceiptOk(receipt, p.x["scope"].digest, "scope", at))
    THEN "advance_commitment_unknown"
    ELSE IF Latest(receipt) <= ScopeBody(p).cutoff THEN "advance_commitment"
    ELSE IF ~ ("timing_register" \in DOMAIN p.x /\ Signed(p.x["timing_register"], "register"))
    THEN "late_receipt_only"
    ELSE IF FirstAcceptanceLate(p, at) THEN "late_first_acceptance" ELSE "timing_unresolved"

-----------------------------------------------------------------------------
(* The sidecars: inventory, closure and manifest of exactly this scope.      *)

Sidecar(p, n) ==
    n \in DOMAIN p.x /\ Signed(p.x[n], n) /\ p.x[n].body.scope = p.x["scope"].digest

ManifestOk(p) ==
    /\ Sidecar(p, "manifest")
    /\ p.x["manifest"].body.anchor = p.anchor.digest
    /\ p.x["manifest"].body.delivery = p.delivery
Final(p, at) ==
    LET m == p.x["manifest"].body IN
    /\ ScopeBody(p).timed /\ ManifestOk(p)
    /\ m.final /\ ScopeBody(p).deadline <= m.finalizedAt /\ m.finalizedAt <= at

ClosureFits(p) ==
    LET c == p.x["closure"].body IN
    /\ Sidecar(p, "closure") /\ ScopeBody(p).closable
    /\ c.configuration = ScopeBody(p).configuration /\ c.source = ScopeBody(p).source
    /\ c.end = ScopeBody(p).end /\ c.end <= c.closedAt
Closed(p, at) ==
    ClosureFits(p) /\ ScopeBody(p).timed
    /\ p.x["closure"].body.closed /\ p.x["closure"].body.closedAt <= at

\* A fixed inventory is the one committed to; a derived one is reproduced from the
\* source records that the closure names.
InventoryOk(p, at) ==
    LET expected == p.x["inventory"].body.obligations
        c == p.x["closure"].body IN
    /\ Sidecar(p, "inventory") /\ ScopeBody(p).derivable
    /\ IF ScopeBody(p).mode = "fixed" THEN expected = ScopeBody(p).expected
       ELSE /\ Closed(p, at) /\ c.gaps = {}
            /\ "source_records" \in DOMAIN p.x
            /\ c.records = p.x["source_records"].digest
            /\ p.x["source_records"].body = expected /\ c.expected = expected
ClosureOk(p, at) ==
    /\ ClosureFits(p)
    /\ InventoryOk(p, at) =>
          p.x["closure"].body.expected = p.x["inventory"].body.obligations
SourceReady(p, at) == ClosureOk(p, at) /\ Closed(p, at) /\ p.x["closure"].body.gaps = {}

Expected(p, at) == IF InventoryOk(p, at) THEN p.x["inventory"].body.obligations ELSE {}
Conflicting(p, at) ==
    \E o \in ScopeBody(p).individuals, q \in Expected(p, at) : o.id = q.id /\ o # q

-----------------------------------------------------------------------------
(* What became of one obligation.                                          *)

IsNotification(o) == o.type = "notification_receipt"
State(p, o) ==
    IF ManifestOk(p) /\ o.id \in DOMAIN p.x["manifest"].body.entries
    THEN p.x["manifest"].body.entries[o.id] ELSE "unaccounted"

Matches(record, o) ==
    /\ record.payload.trigger = o.notification.trigger
    /\ record.payload.recipient = o.notification.recipient
    /\ record.payload.stage = o.notification.stage
    /\ record.payload.at <= o.notification.deadline

Missing(p, at, o) ==
    IF IsNotification(o) /\ ~ (SourceReady(p, at) /\ o.source \in p.x["closure"].body.sources)
    THEN "notification_evidence_unclosed" ELSE "missing_delivery"

OfDelivered(p, at, o) ==
    LET record == p.events[CHOOSE i \in Records(p, o.id) : TRUE].body IN
    IF record.source # o.source \/ record.type # o.type THEN "record_type_mismatch"
    ELSE IF IsNotification(o) /\ ~ Matches(record, o) THEN "notification_receipt_mismatch"
    ELSE "satisfied"

OfWithheld(p, at, o) ==
    LET proof == p.proofs[CHOOSE i \in Proofs(p, o.id) : TRUE] IN
    IF Cardinality(Proofs(p, o.id)) # 1 \/ ~ ProofValid(p, at, proof)
    THEN "commitment_unverified"
    ELSE IF proof.entry.source = o.source /\ proof.entry.type = o.type
    THEN "satisfied" ELSE "commitment_type_mismatch"

OfIncluded(p, at, o) ==
    LET held == Records(p, o.id) IN
    IF Single(p, at, o.id) THEN OfDelivered(p, at, o)
    ELSE IF Cardinality(held) > 1 /\ RecordsValid(p, at, o.id) /\ Final(p, at)
    THEN "duplicate_delivery"
    ELSE IF held = {} /\ Final(p, at) THEN Missing(p, at, o)
    ELSE "included_record_unverified"

Disposition(p, at, o) ==
    LET state == State(p, o)
        full == o.disclosure = "full" IN
    IF IsNotification(o) /\ o.notification.stage \notin Stages
    THEN "notification_stage_unsupported"
    ELSE IF IsNotification(o) /\ (~ ScopeBody(p).timed \/ o.notification.deadline > at)
    THEN "notification_pending"
    ELSE IF o.disclosure \notin {"full", "commitment"} THEN "disclosure_unsupported"
    ELSE IF state # "included" /\ Records(p, o.id) # {} THEN "manifest_disposition_conflict"
    ELSE IF state \in {"withheld", "unavailable"} /\ full /\ Final(p, at)
    THEN IF state = "withheld" THEN "required_evidence_withheld"
                               ELSE "required_evidence_unavailable"
    ELSE IF state = "withheld" /\ ~ full THEN OfWithheld(p, at, o)
    ELSE IF state = "included" THEN OfIncluded(p, at, o)
    ELSE IF state = "unaccounted" /\ Final(p, at) THEN Missing(p, at, o)
    ELSE "delivery_unresolved"

Relation(p, at, r) ==
    LET value(id) == p.events[CHOOSE i \in Records(p, id) : TRUE].body.payload.value IN
    IF ~ r.supported THEN "relationship_unsupported"
    ELSE IF ~ (Single(p, at, r.left) /\ Single(p, at, r.right)) THEN "relationship_unverified"
    ELSE IF value(r.left) = value(r.right) THEN "agreement" ELSE "source_disagreement"

-----------------------------------------------------------------------------
(* The findings and the verdict on the scope.                               *)

Sources(p, at) ==
    {code \in {"expected_set_unknown", "source_unclosed", "observation_gap",
               "manifest_unknown", "delivery_pending", "cryptographic_prerequisite"} :
        CASE code = "expected_set_unknown" -> ~ InventoryOk(p, at)
          [] code = "source_unclosed" -> ~ (ClosureOk(p, at) /\ Closed(p, at))
          [] code = "observation_gap" ->
                ClosureOk(p, at) /\ Closed(p, at) /\ p.x["closure"].body.gaps # {}
          [] code = "manifest_unknown" -> ~ ManifestOk(p)
          [] code = "delivery_pending" -> ~ Final(p, at)
          [] code = "cryptographic_prerequisite" -> ~ Prerequisites(p, at)}

Codes(p, at) ==
    {Timing(p, at)} \cup Sources(p, at)
    \cup (IF ScopeBody(p).amended THEN {"amendment_unsupported"} ELSE {})
    \cup {Disposition(p, at, o) : o \in Expected(p, at) \cup ScopeBody(p).individuals}
    \cup {Relation(p, at, r) : r \in ScopeBody(p).relationships}

\* The scope's result; a package the verifier refuses gives "error".
ScopeFulfillment(p, at) ==
    IF "scope" \notin DOMAIN p.x \/ ~ ScopeOk(p) THEN "indeterminate"
    ELSE IF Conflicting(p, at) THEN "error"
    ELSE IF Codes(p, at) \cap ViolationCodes # {} THEN "not_met"
    ELSE IF Codes(p, at) \subseteq SettledCodes THEN "met" ELSE "indeterminate"

=============================================================================
