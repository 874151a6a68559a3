--------------------------- MODULE PaymentEvidence ---------------------------
(***************************************************************************)
(* The payment evidence evaluator: what a bundle of signed statements about *)
(* one dispatched payment establishes at an evaluation time                *)
(* (experiments/payment-api-evidence/payment_evidence.py).                  *)
(*                                                                         *)
(* A bundle is [op, evidence]: evidence maps the slots that were supplied   *)
(* to envelopes [digest, key, genuine, bound, body]; an envelope is genuine *)
(* when its signature verifies, bound when its payload has the slot's shape *)
(* and the bundle's run.  The time a statement is dated with is body.at.    *)
(* An operation is [scope, order, policy, payload, from, until], with its    *)
(* identities, audience, configuration and recovery epoch in scope, and     *)
(* accounts, amount and currency in order; its digest is the operation.     *)
(***************************************************************************)
EXTENDS Integers, FiniteSets

CONSTANTS
    PaymentKeys,      \* the keys the caller trusts in each slot
    Identity,         \* the caller's person for an approver key
    PaymentAge,       \* max_snapshot_age
    Absent

Approvals == {"maker", "checker"}
PaymentSlots == Approvals \cup
                {"policy", "status", "dispatch", "receipt", "control", "collector"}
Routes == [payment_gate |-> "gated", test_to_production |-> "blocked",
           cloud_management |-> "blocked", deployment |-> "blocked"]

Verdict(contradicted, open) ==
    IF contradicted THEN "INVALID" ELSE IF open THEN "INDETERMINATE" ELSE "VALID"

Within(at, from, until) == from < until /\ from <= at /\ at < until
Fresh(observed, at, age) == observed <= at /\ at - observed <= age

-----------------------------------------------------------------------------
(* Which statements count.                                                 *)

Trusted(b, s) == b.evidence[s].key \in PaymentKeys[s]
Verified(b, s) == Trusted(b, s) /\ b.evidence[s].genuine /\ b.evidence[s].bound

\* _record: a broken envelope is a contradiction, an unknown key is not.
PaymentIntegrity(b) ==
    Verdict(\E s \in DOMAIN b.evidence :
                Trusted(b, s) /\ ~ (b.evidence[s].genuine /\ b.evidence[s].bound),
            \/ b.evidence = <<>>
            \/ \E s \in DOMAIN b.evidence : ~ Trusted(b, s))

\* verify_bundle: statements dated after the evaluation time are excluded.
Counting(b, at) ==
    {s \in DOMAIN b.evidence :
        Verified(b, s) /\ (s = "policy" \/ b.evidence[s].body.at <= at)}

\* MUTANT: a reference to what was not supplied contradicts.
BreaksMissing(b, S, ref, s) == s \notin S \/ ref # b.evidence[s].digest

\* _bind: only a verified statement with another digest contradicts a reference.
Breaks(b, S, ref, s) == s \in S /\ ref # b.evidence[s].digest

-----------------------------------------------------------------------------
(* The claims.                                                             *)

\* synthetic_request_bytes: the encoding of an operation, its payload left out.
Request(op) == [op EXCEPT !.payload = Absent]

\* _dispatch_payload.
DispatchMatches(d, op) ==
    /\ d.op = op /\ d.actual = op
    /\ d.request = d.actual.payload /\ d.request = op.payload
    /\ d.request = Request(d.actual)

PolicyAllows(p, d) ==
    /\ p.scope = d.actual.scope /\ d.actual.order \in p.orders
    /\ p.routes = DOMAIN Routes
    /\ Within(d.at, p.from, p.until)

ApprovalHolds(b, a, d) ==
    LET body == b.evidence[a].body
        key == b.evidence[a].key IN
    /\ body.op = b.op /\ body.policy = b.op.policy
    /\ Within(d.at, body.at, body.until)
    /\ key \in DOMAIN Identity =>
          LET i == Identity[key] IN
          /\ a \in i.roles /\ i.scope = d.actual.scope
          /\ Within(body.at, i.from, i.until) /\ Within(d.at, i.from, i.until)

ApproversDiffer(b) ==
    LET key(a) == b.evidence[a].key IN
    /\ {key("maker"), key("checker")} \subseteq DOMAIN Identity =>
          Identity[key("maker")].person # Identity[key("checker")].person
    /\ b.evidence["maker"].body.id # b.evidence["checker"].body.id

\* The last status before the dispatch: what contradicts, and what stays open.
StatusHolds(b, S, st, d) ==
    /\ st.op = b.op /\ st.policy = b.op.policy /\ st.scope = d.actual.scope
    /\ \A a \in Approvals : /\ ~ Breaks(b, S, st.refs[a], a)
                            /\ a \in S => b.evidence[a].body.at <= st.at
    /\ st.at < st.until
    /\ IF st.state = "revoked"
       THEN st.revoked # Absent /\ st.revoked <= st.at /\ d.at < st.revoked
       ELSE st.revoked = Absent
StatusOpen(st, d) ==
    \/ ~ Fresh(st.at, d.at, PaymentAge) \/ st.until <= d.at
    \/ (st.state = "revoked" /\ d.at < st.revoked) \/ st.state = "unknown"

Authorization(b, at) ==
    LET S == Counting(b, at)
        B(s) == b.evidence[s].body
        d == B("dispatch") IN
    IF "dispatch" \notin S THEN "INDETERMINATE" ELSE
    Verdict(
        \/ ~ DispatchMatches(d, b.op) \/ ~ Within(d.at, d.actual.from, d.actual.until)
        \/ Request(b.op) # b.op.payload
        \/ \E ref \in {b.op.policy, d.refs.policy} : Breaks(b, S, ref, "policy")
        \/ "policy" \in S /\ ~ PolicyAllows(B("policy"), d)
        \/ \E a \in Approvals :
              Breaks(b, S, d.refs[a], a) \/ (a \in S /\ ~ ApprovalHolds(b, a, d))
        \/ Approvals \subseteq S /\ ~ ApproversDiffer(b)
        \/ Breaks(b, S, d.refs.status, "status")
        \/ "status" \in S /\ ~ StatusHolds(b, S, B("status"), d),
        \/ ~ Approvals \cup {"policy", "status"} \subseteq S
        \/ \E a \in Approvals \cap S : b.evidence[a].key \notin DOMAIN Identity
        \/ StatusOpen(B("status"), d))

\* What the provider's receipt must agree with.
ReceiptHolds(b, S, r, d) ==
    /\ r.op = b.op /\ r.payload = b.op.payload /\ r.scope = b.op.scope
    /\ ~ Breaks(b, S, r.dispatch, "dispatch")
    /\ "policy" \in S => r.provider = b.evidence["policy"].body.provider
    /\ d.at <= r.at

\* _execution: the verdict, and the outcome that is taken from the receipt.
Execution(b, at) ==
    LET S == Counting(b, at)
        B(s) == b.evidence[s].body
        d == B("dispatch")
        r == B("receipt")
        needed == Approvals \cup {"policy", "status", "control"}
        contradicted ==
            \/ ~ DispatchMatches(d, b.op) \/ Breaks(b, S, b.op.policy, "policy")
            \/ \E s \in needed : Breaks(b, S, d.refs[s], s)
            \/ "receipt" \in S /\ ~ ReceiptHolds(b, S, r, d)
        open == "receipt" \notin S \/ ~ needed \subseteq S
        outcome == IF contradicted \/ open THEN "unknown" ELSE r.status IN
    IF "dispatch" \notin S
    THEN [verdict |-> "INDETERMINATE", outcome |-> "unknown", settled |-> FALSE]
    ELSE LET v == Verdict(contradicted,
                          open \/ r.status \notin {"settled", "failed", "reversed"}) IN
         [verdict |-> v, outcome |-> outcome,
          settled |-> v = "VALID" /\ outcome = "settled"]

\* _control: the named routes as observed, and the retained records of the collector.
Control(b, at) ==
    LET S == Counting(b, at)
        B(s) == b.evidence[s].body
        d == B("dispatch")
        c == B("control")
        k == B("collector")
        seen(route) == IF route \in DOMAIN c.routes THEN c.routes[route] ELSE "unobserved"
        others == PaymentSlots \ {"collector"} IN
    Verdict(
        \/ "dispatch" \in S /\ d.actual.scope # b.op.scope
        \/ "policy" \in S /\ (\/ Breaks(b, S, b.op.policy, "policy")
                              \/ B("policy").routes # DOMAIN Routes)
        \/ "control" \in S /\ (\/ c.op # b.op \/ c.scope # b.op.scope
                               \/ \E r \in DOMAIN Routes : seen(r) \notin {"unobserved", Routes[r]})
        \/ {"control", "dispatch"} \subseteq S /\ Breaks(b, S, d.refs.control, "control")
        \/ "collector" \in S /\
             \/ k.op # b.op \/ k.scope # b.op.scope
             \/ \E s \in (DOMAIN k.retained \cap S) \ {"collector"} :
                   \/ k.retained[s] # b.evidence[s].digest
                   \/ s # "policy" /\ k.at < B(s).at,
        \/ S # PaymentSlots
        \/ ~ Fresh(c.at, d.at, PaymentAge)
        \/ DOMAIN c.routes # DOMAIN Routes \/ \E r \in DOMAIN Routes : seen(r) = "unobserved"
        \/ k.gap \/ DOMAIN k.retained # others)

\* verify_bundle.
PaymentReport(b, at) ==
    [integrity |-> PaymentIntegrity(b), authorization |-> Authorization(b, at),
     execution |-> Execution(b, at), control |-> Control(b, at)]

=============================================================================
