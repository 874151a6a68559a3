--------------------------- MODULE AdmissionPolicy ---------------------------
(***************************************************************************)
(* The admission decision of the payment authorization gate                *)
(* (experiments/payment-authorization-pilot/authorization_gate.py, _assess)*)
(* as a predicate on a request, the evidence a caller supplied, the gate's  *)
(* configuration and the time the claim's transaction sampled.             *)
(*                                                                         *)
(* A digest is the thing digested; a key id is its public key; a principal *)
(* stands for principal and credential id.  Absent is an envelope that was *)
(* not supplied.                                                           *)
(***************************************************************************)
EXTENDS Integers

CONSTANT Absent

Approvals == {"maker", "checker"}

Within(from, at, until) == from <= at /\ at < until

\* _verified: an envelope counts only if it speaks for its slot, with a genuine
\* signature of a key trusted for the slot, and never before the time it was made.
VerifiedApproval(ev, cfg, at, s) ==
    /\ ev[s] # Absent
    /\ ev[s].genuine /\ ev[s].key \in cfg.approvers
    /\ ev[s].kind = s
    /\ ev[s].issued <= at

VerifiedStatus(ev, cfg, at) ==
    /\ ev.status # Absent
    /\ ev.status.genuine /\ ev.status.key \in cfg.authorities
    /\ ev.status.observed <= at

Known(ev, cfg, s) == ev[s].key \in DOMAIN cfg.identity
Person(ev, cfg, s) == cfg.identity[ev[s].key]

PolicyDenies(r, policy, at) ==
    \/ ~ Within(policy.from, at, policy.until)
    \/ r.scope # policy.scope \/ r.unit # policy.unit \/ r.gen # policy.gen
    \/ r.source \notin policy.sources \/ r.beneficiary \notin policy.beneficiaries
    \/ r.amount > policy.max

ApprovalDenies(r, ev, cfg, at, s) ==
    LET a == ev[s]
        p == Person(ev, cfg, s) IN
    /\ VerifiedApproval(ev, cfg, at, s)
    /\ \/ a.request # r \/ a.policy # cfg.policy
       \/ ~ Within(a.issued, at, a.expires)
       \/ /\ Known(ev, cfg, s)
          /\ \/ s \notin p.roles \/ p.scope # r.scope
             \/ ~ Within(p.from, a.issued, p.until)
             \/ ~ Within(p.from, at, p.until)

\* MUTANT: the two approvals are told apart by their id only.
PairSameId(ev, cfg, at) ==
    /\ \A s \in Approvals : VerifiedApproval(ev, cfg, at, s)
    /\ ev["maker"].id = ev["checker"].id

\* Two approvals of one person, or one approval used twice.
PairDenies(ev, cfg, at) ==
    /\ \A s \in Approvals : VerifiedApproval(ev, cfg, at, s)
    /\ \/ /\ \A s \in Approvals : Known(ev, cfg, s)
          /\ Person(ev, cfg, "maker").person = Person(ev, cfg, "checker").person
       \/ ev["maker"].id = ev["checker"].id

Fresh(ev, cfg, at) ==
    /\ Within(ev.status.observed, at, ev.status.validUntil)
    /\ at - ev.status.observed <= cfg.maxAge

StatusDenies(r, ev, cfg, at) ==
    LET st == ev.status IN
    /\ VerifiedStatus(ev, cfg, at)
    /\ \/ st.request # r \/ st.policy # cfg.policy
       \/ st.principal # cfg.policy.principal \/ st.gen # cfg.policy.gen
       \/ \E s \in Approvals :
            /\ VerifiedApproval(ev, cfg, at, s)
            /\ st.approval[s] # ev[s] \/ ev[s].issued > st.observed
       \/ st.observed >= st.validUntil
       \/ /\ Fresh(ev, cfg, at)
          /\ st.revokedAt # Absent
          /\ \/ st.state # "revoked"
             \/ st.revokedAt > st.observed
             \/ st.revokedAt <= at

Denied(r, ev, cfg, at) ==
    \/ PolicyDenies(r, cfg.policy, at)
    \/ \E s \in Approvals : ApprovalDenies(r, ev, cfg, at, s)
    \/ PairDenies(ev, cfg, at)
    \/ StatusDenies(r, ev, cfg, at)

Unestablished(ev, cfg, at) ==
    \/ \E s \in Approvals : ~ VerifiedApproval(ev, cfg, at, s) \/ ~ Known(ev, cfg, s)
    \/ ~ VerifiedStatus(ev, cfg, at)
    \/ ~ Fresh(ev, cfg, at)
    \/ ev.status.state # "active"

\* _assess: a contradiction denies, a gap leaves the decision unknown.
Assess(r, ev, cfg, at) ==
    IF Denied(r, ev, cfg, at) THEN "DENIED"
    ELSE IF Unestablished(ev, cfg, at) THEN "UNKNOWN"
    ELSE "AUTHORIZED"


-----------------------------------------------------------------------------
(* What an admission means, stated without the order of the checks.         *)

\* Two different people of this scope, each eligible for the role they signed in
\* when they signed and still at time at, approved this very request under this
\* very policy; and a status authority reported the credential active, after
\* both approvals, referring to both, recently enough.
Sound(r, ev, cfg, at) ==
    LET m == ev["maker"]
        c == ev["checker"]
        st == ev.status
        Approved(a, role) ==
            /\ a.genuine /\ a.key \in cfg.approvers \cap DOMAIN cfg.identity
            /\ a.kind = role /\ a.request = r /\ a.policy = cfg.policy
            /\ Within(a.issued, at, a.expires)
            /\ LET p == cfg.identity[a.key] IN
                 /\ role \in p.roles /\ p.scope = r.scope
                 /\ Within(p.from, a.issued, p.until) /\ Within(p.from, at, p.until)
    IN  /\ Approved(m, "maker") /\ Approved(c, "checker")
        /\ m.id # c.id
        /\ cfg.identity[m.key].person # cfg.identity[c.key].person
        /\ st.genuine /\ st.key \in cfg.authorities
        /\ st.state = "active" /\ st.request = r /\ st.policy = cfg.policy
        /\ st.approval["maker"] = m /\ st.approval["checker"] = c
        /\ st.observed >= m.issued /\ st.observed >= c.issued
        /\ Within(st.observed, at, st.validUntil) /\ at - st.observed <= cfg.maxAge
        /\ r.amount <= cfg.policy.max /\ r.gen = cfg.policy.gen
        /\ Within(cfg.policy.from, at, cfg.policy.until)

=============================================================================
