------------------------- MODULE PaymentAuthorization -------------------------
(***************************************************************************)
(* The payment authorization pilot on top of the runtime: an authorized    *)
(* adapter passes _claim a callback that assesses the caller's evidence and *)
(* retains the admission proof in the transaction of the claim             *)
(* (experiments/payment-authorization-pilot/authorization_gate.py).         *)
(* Authorized and plain adapters may share a journal.                      *)
(***************************************************************************)
EXTENDS PaymentRuntime, AdmissionPolicy

CONSTANTS
    Evidence,         \* what a caller of submit may supply
    Config,           \* gate configurations: policy, trusted keys, identities, age
    Time              \* what the wall clock may show

ASSUME TimeAssumption == Time \subseteq Nat
\* _policy: the amount limit is a decimal.
ASSUME ConfigAssumption ==
    None \notin Config /\ \A c \in Config : c.policy.max \in Nat
\* _approval_shape, _status_shape: times are integers.
ASSUME EvidenceAssumption ==
    \A e \in Evidence :
        /\ \A s \in Approvals : e[s] # Absent => e[s].issued \in Nat
        /\ e.status # Absent => e.status.observed \in Nat

VARIABLES
    gate,             \* per adapter: its gate's configuration; None: a plain adapter
    now,              \* the wall clock
    proofs,           \* authorization_proofs: per journal and request, None or a record
    claimedAt         \* claimed_at_ms of each claim

authVars == <<gate, now, proofs, claimedAt>>
allVars == <<vars, authVars>>

Proof == [evidence : Evidence, config : Config, at : Time]
ASSUME ProofAssumption == None \notin Proof /\ None \notin Time

AuthInit ==
    /\ Init
    /\ gate = [w \in Worker |-> None]
    /\ now \in Time
    /\ proofs = [j \in Journal |-> [r \in Request |-> None]]
    /\ claimedAt = [j \in Journal |-> [r \in Request |-> None]]

\* MUTANT: the decision is assessed again at the time of reading.
RecheckNow(proof, r) == Assess(r, proof.evidence, proof.config, now) = "AUTHORIZED"

\* recheck_record: the decision is reproduced from the record's own inputs.
Recheck(proof, r) == Assess(r, proof.evidence, proof.config, proof.at) = "AUTHORIZED"

\* read_authorization of request r on journal j.
Authorization(j, r) ==
    LET proof == proofs[j][r] IN
    IF Conflict(Claims(j), r) THEN "CONFLICT"
    ELSE IF Missing(Claims(j), r) \/ proof = None THEN "MISSING"
    ELSE IF Recheck(proof, r) /\ proof.at = claimedAt[j][r] THEN "FOUND"
    ELSE "UNAVAILABLE"

\* The wall clock moves, possibly backwards.
SetClock(t) ==
    /\ now' = t
    /\ UNCHANGED <<vars, gate, proofs, claimedAt>>

Start(w, g, c) ==
    /\ StartAdapter(w, g)
    /\ gate' = [gate EXCEPT ![w] = c]
    /\ UNCHANGED <<now, proofs, claimedAt>>

\* A plain adapter claims without a proof, as before.
PlainClaim(w, r) ==
    /\ gate[w] = None
    /\ ClaimNew(w, r)
    /\ claimedAt' = [claimedAt EXCEPT ![JournalOf[w]][r] = now]
    /\ UNCHANGED <<gate, now, proofs>>

\* The callback: the proof is inserted with the claim it admits, at one time.
AdmitClaim(w, r, e) ==
    /\ gate[w] # None
    /\ Assess(r, e, gate[w], now) = "AUTHORIZED"
    /\ ClaimNew(w, r)
    /\ claimedAt' = [claimedAt EXCEPT ![JournalOf[w]][r] = now]
    /\ proofs' = [proofs EXCEPT ![JournalOf[w]][r] =
                    [evidence |-> e, config |-> gate[w], at |-> now]]
    /\ UNCHANGED <<gate, now>>

\* AdmissionBlocked: neither claim nor proof; also what a failure after the proof
\* was inserted ends in.
BlockClaim(w, r) ==
    /\ gate[w] # None
    /\ AdmissionRefused(w, r)
    /\ UNCHANGED authVars

\* MUTANT: evidence given with a repeated submit completes a plain claim.
BackfillCall(w, r) ==
    \/ PlainClaim(w, r)
    \/ \E e \in Evidence : AdmitClaim(w, r, e)
    \/ BlockClaim(w, r)
    \/ \E e \in Evidence :
         /\ gate[w] # None /\ SubmitExisting(w, r)
         /\ Assess(r, e, gate[w], now) = "AUTHORIZED"
         /\ proofs' = [proofs EXCEPT ![JournalOf[w]][r] =
                         [evidence |-> e, config |-> gate[w], at |-> claimedAt[JournalOf[w]][r]]]
         /\ UNCHANGED <<gate, now, claimedAt>>

\* Every other step is the runtime's own.
AuthCall(w, r) ==
    \/ PlainClaim(w, r)
    \/ \E e \in Evidence : AdmitClaim(w, r, e)
    \/ BlockClaim(w, r)
    \/ /\ SubmitExisting(w, r) \/ SubmitRefused(w, r) \/ SubmitUnavailable(w, r)
             \/ ReadStatus(w, r) \/ Reconcile(w, r)
       /\ UNCHANGED authVars

AuthLifecycle ==
    \/ \E w \in Worker, g \in Generation, c \in Config \cup {None} : Start(w, g, c)
    \/ /\ \/ \E w \in Worker : CrashAdapter(w)
          \/ \E p \in Provider : CrashProvider(p)
          \/ \E p \in Provider, g \in Generation : StartProvider(p, g)
       /\ UNCHANGED authVars

AuthNext ==
    \/ \E w \in Worker, r \in Request : AuthCall(w, r)
    \/ \E w \in Worker : Continue(w) /\ UNCHANGED authVars
    \/ Network /\ UNCHANGED authVars
    \/ AuthLifecycle
    \/ \E t \in Time : SetClock(t)

AuthSpec == AuthInit /\ [][AuthNext]_allVars


-----------------------------------------------------------------------------
(* Properties.                                                             *)

\* Type invariant of the authorization layer.
AuthTypeOK ==
    /\ TypeOK
    /\ gate \in [Worker -> Config \cup {None}]
    /\ now \in Time
    /\ proofs \in [Journal -> [Request -> Proof \cup {None}]]
    /\ claimedAt \in [Journal -> [Request -> Time \cup {None}]]

\* A retained proof belongs to a claim made at the very time it was assessed, and
\* keeps reading as FOUND: neither the clock, nor expiry or revocation, nor a gate
\* configured differently after a restart turns a past admission into a missing or
\* unusable one (read_authorization, recheck_record).
AdmittedForGood ==
    \A j \in Journal, r \in Request :
        proofs[j][r] # None =>
            /\ dispatches[j][r] # None
            /\ claimedAt[j][r] = proofs[j][r].at
            /\ Authorization(j, r) = "FOUND"

\* Whatever evidence callers supply, and whichever order the checks run in, every
\* retained proof shows two eligible people and an active, recent status.
AdmissionWasSound ==
    \A j \in Journal, r \in Request :
        LET proof == proofs[j][r] IN
        proof # None => Sound(r, proof.evidence, proof.config, proof.at)

\* Evidence counts at the claim or never: an existing claim, admitted or not,
\* neither gains nor changes a proof, whatever a repeated submit brings.
NeverBackfilled ==
    [][\A j \in Journal, r \in Request :
          dispatches[j][r] # None => proofs'[j][r] = proofs[j][r]]_allVars

=============================================================================
