---------------------------- MODULE WalletEvidence ----------------------------
(***************************************************************************)
(* The wallet evidence evaluator: a wallet operation, what approved it, and  *)
(* what was seen of it on the chain                                        *)
(* (experiments/wallet-authorization-evidence/wallet_evidence.py).          *)
(*                                                                         *)
(* Bundles and envelopes are those of PaymentEvidence; bound says that a     *)
(* body names its own kind and run.  An operation is [scope, terms, action,  *)
(* target, payload, policy]: actor, credential, workload and deployment in   *)
(* scope; chain, wallet, asset, amount and destination in terms.            *)
(***************************************************************************)
EXTENDS PaymentEvidence

CONSTANTS
    WalletKeys,       \* the keys the caller trusts in each slot
    WalletAge         \* max_snapshot_age

Before == {"policy", "approval", "revocation", "control"}
WalletSlots == Before \cup {"execution", "chain"}
WalletRoutes == [approved_gate |-> "recorded", direct_signer |-> "blocked",
                 deployment_signer |-> "blocked"]

\* validate_operation: what each action may say of a delegation; None is Absent.
OperationFits(op) ==
    CASE op.action = "transfer" -> op.target = Absent
      [] op.action = "delegate" -> op.target \notin {Absent, "zero"}
      [] op.action = "clear" -> op.target = "zero"

\* _record: here a body that names another kind or run is judged claim by claim.
WalletTrusted(b, s) == b.evidence[s].key \in WalletKeys[s]
Readable(b) == {s \in DOMAIN b.evidence : WalletTrusted(b, s) /\ b.evidence[s].genuine}
WalletIntegrity(b) ==
    Verdict(\E s \in DOMAIN b.evidence : WalletTrusted(b, s) /\ ~ b.evidence[s].genuine,
            \/ b.evidence = <<>>
            \/ \E s \in DOMAIN b.evidence : ~ WalletTrusted(b, s))

\* What a body is digested to, and _body.
Digest(b, s) == b.evidence[s].digest
Misplaced(b, S) == \E s \in S \cap Readable(b) : ~ b.evidence[s].bound

-----------------------------------------------------------------------------
(* The claims.                                                             *)

WalletPolicyAllows(b, p, at) ==
    /\ b.op.policy = Digest(b, "policy")
    /\ p.scope = b.op.scope /\ b.op.terms \in p.terms /\ b.op.action \in p.actions
    /\ b.op.target # Absent => b.op.target \in p.targets
    /\ p.finality \in {"observed", "finalized"} /\ p.routes = DOMAIN WalletRoutes
    /\ Within(at, p.from, p.until)

WalletApprovalHolds(b, a, at) ==
    a.scope = b.op.scope /\ a.op = b.op /\ a.policy = b.op.policy /\ Within(at, a.at, a.until)

NotRevoked(b, R, r) ==
    /\ r.op = b.op /\ r.policy = b.op.policy
    /\ "approval" \in R => /\ r.approval = Digest(b, "approval")
                           /\ b.evidence["approval"].body.at <= r.at
                           /\ b.evidence["approval"].body.id \notin r.approvals
    /\ r.at < r.until
    /\ b.op.scope \notin r.credentials

RoutesHeld(routes) ==
    DOMAIN routes = DOMAIN WalletRoutes =>
        \A x \in DOMAIN routes : routes[x] \in {"unobserved", WalletRoutes[x]}
RoutesSeen(routes) ==
    DOMAIN routes = DOMAIN WalletRoutes /\ \A x \in DOMAIN routes : routes[x] # "unobserved"

\* _authorization, at the caller's time.
WalletAuthorization(b, at) ==
    LET R == Readable(b)
        B(s) == b.evidence[s].body IN
    Verdict(
        \/ Misplaced(b, Before)
        \/ "policy" \in R /\ ~ WalletPolicyAllows(b, B("policy"), at)
        \/ "approval" \in R /\ ~ WalletApprovalHolds(b, B("approval"), at)
        \/ "revocation" \in R /\ ~ NotRevoked(b, R, B("revocation"))
        \/ "control" \in R /\ ~ (/\ B("control").op = b.op /\ B("control").scope = b.op.scope
                                 /\ RoutesHeld(B("control").routes)),
        \/ ~ Before \subseteq R
        \/ ~ Fresh(B("revocation").at, at, WalletAge) \/ B("revocation").until <= at
        \/ ~ Fresh(B("control").at, at, WalletAge) \/ ~ RoutesSeen(B("control").routes))

\* _execution: the windows are judged at the execution's own time, and the policy is
\* consulted when it was supplied.
WalletExecution(b, at) ==
    LET R == Readable(b)
        B(s) == b.evidence[s].body
        e == B("execution")
        t == e.at IN
    IF "execution" \notin R THEN "INDETERMINATE" ELSE
    Verdict(
        \/ Misplaced(b, {"execution"})
        \/ e.op # b.op \/ e.policy # b.op.policy \/ e.actual # b.op
        \/ e.payload # b.op.payload
        \/ \E s \in (Before \ {"policy"}) \cap R : e.refs[s] # Digest(b, s)
        \/ "revocation" \in R /\ ~ Within(t, B("revocation").at, B("revocation").until)
        \/ "control" \in R /\ t < B("control").at
        \/ \E s \in {"policy", "approval"} \cap R :
              ~ Within(t, IF s = "policy" THEN B(s).from ELSE B(s).at, B(s).until),
        \/ ~ (Before \ {"policy"}) \subseteq R
        \/ e.state \notin {"signed", "broadcast", "included"} \/ at < e.at
        \/ \E s \in {"revocation", "control"} : t - B(s).at > WalletAge)

\* _chain: what an observer with a key of its own saw at a block.
Expected(op) == IF op.action = "clear" THEN "empty" ELSE op.target
WalletChain(b, at) ==
    LET R == Readable(b)
        B(s) == b.evidence[s].body
        c == B("chain")
        p == B("policy")
        others == UNION {WalletKeys[s] : s \in WalletSlots \ {"chain"}} IN
    IF "chain" \notin R THEN "INDETERMINATE" ELSE
    Verdict(
        \/ Misplaced(b, {"chain"})
        \/ c.op # b.op \/ c.terms # b.op.terms
        \/ "execution" \in R /\ (c.at < B("execution").at \/ c.execution # Digest(b, "execution"))
        \/ c.included # Absent /\ (\/ c.block < c.included.block
                                   \/ c.block = c.included.block /\ c.hash # c.included.hash)
        \/ b.op.action # "transfer" /\ c.code # Expected(b.op),
        \/ b.evidence["chain"].key \in others \/ at < c.at
        \/ "execution" \notin R \/ B("execution").state \notin {"broadcast", "included"}
        \/ "policy" \notin R
        \/ ~ (c.finality = "finalized" \/ (c.finality = "observed" /\ p.finality = "observed"))
        \/ c.included = Absent \/ c.included.block < c.block
        \/ b.op.action = "transfer")

\* admission_decision.
Admission(b, at) ==
    IF {WalletIntegrity(b), WalletAuthorization(b, at), WalletExecution(b, at),
        WalletChain(b, at)} = {"VALID"} THEN "ALLOW" ELSE "DENY"

\* verify_bundle: a fixed operation that its own action contradicts is refused.
WalletReport(b, at) ==
    IF ~ OperationFits(b.op)
    THEN [integrity |-> "INVALID", authorization |-> "INDETERMINATE",
          execution |-> "INDETERMINATE", chain |-> "INDETERMINATE", admission |-> "DENY"]
    ELSE [integrity |-> WalletIntegrity(b), authorization |-> WalletAuthorization(b, at),
          execution |-> WalletExecution(b, at), chain |-> WalletChain(b, at),
          admission |-> Admission(b, at)]

=============================================================================
