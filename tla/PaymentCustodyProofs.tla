------------------------ MODULE PaymentCustodyProofs ------------------------
(* The two layers above the payment runtime.  The authorization layer refines *)
(* the runtime, and its retained proofs show sound admissions; evidence       *)
(* custody refines the authorization layer, and what it records of evidence   *)
(* kept is and stays true.                                                    *)
EXTENDS PaymentCustody, PaymentRuntimeProofs

USE SentinelAssumption, JournalAssumption
USE DEF journalVars, adapterVars, storeVars, networkVars

-----------------------------------------------------------------------------
(* Authorization: what a decision shows.                                     *)

\* The decision procedure is sound: however its checks are ordered, "AUTHORIZED"
\* means two eligible people and an active, recent status.
LEMMA AuthorizedIsSound ==
    ASSUME NEW r \in Request, NEW e \in Evidence, NEW c \in Config, NEW at \in Nat,
           Assess(r, e, c, at) = "AUTHORIZED"
    PROVE  Sound(r, e, c, at)
<1> DEFINE st == e.status
<1>1. ~ Denied(r, e, c, at) /\ ~ Unestablished(e, c, at)
    BY DEF Assess
<1>2. \A s \in Approvals :
        /\ VerifiedApproval(e, c, at, s) /\ Known(e, c, s)
        /\ e[s] # Absent /\ e[s].issued \in Nat
    BY <1>1, EvidenceAssumption DEF Unestablished, VerifiedApproval
<1>3. /\ VerifiedStatus(e, c, at) /\ Fresh(e, c, at)
      /\ st.state = "active" /\ st.observed \in Nat
    BY <1>1, EvidenceAssumption DEF Unestablished, VerifiedStatus
<1>4. \A s \in Approvals :
        /\ e[s].genuine /\ e[s].key \in c.approvers \cap DOMAIN c.identity
        /\ e[s].kind = s /\ e[s].request = r /\ e[s].policy = c.policy
        /\ Within(e[s].issued, at, e[s].expires)
        /\ LET p == c.identity[e[s].key] IN
             /\ s \in p.roles /\ p.scope = r.scope
             /\ Within(p.from, e[s].issued, p.until) /\ Within(p.from, at, p.until)
    BY <1>1, <1>2 DEF Denied, ApprovalDenies, Person, Known, VerifiedApproval
<1>5. /\ e["maker"].id # e["checker"].id
      /\ c.identity[e["maker"].key].person # c.identity[e["checker"].key].person
    BY <1>1, <1>2 DEF Denied, PairDenies, Person
<1>6. /\ st.genuine /\ st.key \in c.authorities
      /\ st.request = r /\ st.policy = c.policy
      /\ \A s \in Approvals : st.approval[s] = e[s] /\ ~ (e[s].issued > st.observed)
    BY <1>1, <1>2, <1>3 DEF Denied, StatusDenies, VerifiedStatus
<1>7. \A s \in Approvals : st.observed >= e[s].issued
    BY <1>2, <1>3, <1>6
<1>8. /\ r.amount <= c.policy.max /\ r.gen = c.policy.gen
      /\ Within(c.policy.from, at, c.policy.until)
    BY <1>1, RequestAssumption, ConfigAssumption DEF Denied, PolicyDenies
<1> QED
    BY <1>3, <1>4, <1>5, <1>6, <1>7, <1>8 DEF Sound, Fresh, Approvals

-----------------------------------------------------------------------------
(* Every step of the authorization layer is a step of the runtime.          *)

\* The protected adapter only narrows what a plain one does.
LEMMA RuntimeStep == [AuthNext]_allVars => [Next]_vars
<1> SUFFICES ASSUME [AuthNext]_allVars PROVE [Next]_vars
    OBVIOUS
<1>1. ASSUME NEW w \in Worker, NEW r \in Request, AuthCall(w, r)
      PROVE  Next
    <2>1. Call(w, r)
        BY <1>1 DEF AuthCall, Call, PlainClaim, AdmitClaim, BlockClaim
    <2> QED
        BY <2>1 DEF Next
<1>2. ASSUME NEW w \in Worker, Continue(w)
      PROVE  Next
    BY <1>2 DEF Next
<1>3. CASE AuthLifecycle
    BY <1>3 DEF AuthLifecycle, Start, Lifecycle, Next
<1>4. CASE \E t \in Time : SetClock(t)
    BY <1>4 DEF SetClock
<1>5. CASE UNCHANGED allVars
    BY <1>5 DEF allVars
<1> QED
    BY <1>1, <1>2, <1>3, <1>4, <1>5 DEF AuthNext, Next

\* Whatever adapters with and without a gate do together is a behaviour of the
\* payment runtime, so everything proved of the runtime holds of them.
THEOREM AuthorizationRefines == AuthSpec => Spec
<1>1. AuthInit => Init
    BY DEF AuthInit
<1> QED
    BY <1>1, RuntimeStep, PTL DEF AuthSpec, Spec

-----------------------------------------------------------------------------
(* The retained proofs.                                                     *)

AuthInv ==
    /\ now \in Time
    /\ gate \in [Worker -> Config \cup {None}]
    /\ proofs \in [Journal -> [Request -> Proof \cup {None}]]
    /\ claimedAt \in [Journal -> [Request -> Time \cup {None}]]
    /\ \A j \in Journal, r \in Request :
         proofs[j][r] # None =>
            /\ dispatches[j][r] # None
            /\ claimedAt[j][r] = proofs[j][r].at
            /\ Recheck(proofs[j][r], r)

\* No proof is retained at first.
LEMMA AuthInvInit == AuthInit => AuthInv
BY DEF AuthInit, AuthInv

\* The runtime's steps keep every claim.
LEMMA ClaimsKept ==
    ASSUME TypeInv, SafetyInv, [Next]_vars
    PROVE  \A j \in Journal, r \in Request : dispatches[j][r] # None => dispatches'[j][r] # None
<1> DEFINE Kept == \A j \in Journal, r \in Request :
                     dispatches[j][r] # None => dispatches'[j][r] # None
<1>1. dispatches \in [Journal -> [Request -> {None, Claimed} \cup Receipt]]
    BY DEF TypeInv, TypeOK
<1>2. ASSUME NEW w \in Worker, NEW r \in Request, ClaimNew(w, r)
      PROVE  Kept
    <2>1. dispatches' = [dispatches EXCEPT ![JournalOf[w]][r] = Claimed]
        BY <1>2 DEF ClaimNew
    <2> QED
        BY <1>1, <2>1
<1>3. ASSUME NEW w \in Worker, Post(w) \/ StoreReceipt(w)
      PROVE  Kept
    <2>1. \/ dispatches' = dispatches
          \/ /\ dispatches' = [dispatches EXCEPT ![JournalOf[w]][req[w]] = reply[w]]
             /\ reply[w] \in Receipt
        BY <1>3 DEF Post, StoreReceipt, TypeInv, CallOK
    <2> QED
        BY <1>1, <2>1
<1>4. ASSUME NEW h \in handling, ApplyPayment(h)
      PROVE  Kept
    BY <1>4 DEF ApplyPayment
<1> QED
    BY <1>2, <1>3, <1>4, InvisibleSteps

\* And every receipt: what a step makes of a row is another receipt for an open claim only.
LEMMA ReceiptsKept ==
    ASSUME TypeInv, SafetyInv, [Next]_vars
    PROVE  \A j \in Journal, r \in Request :
             dispatches[j][r] \in Receipt => dispatches'[j][r] = dispatches[j][r]
<1> DEFINE Kept == \A j \in Journal, r \in Request :
                     dispatches[j][r] \in Receipt => dispatches'[j][r] = dispatches[j][r]
<1>1. dispatches \in [Journal -> [Request -> {None, Claimed} \cup Receipt]]
    BY DEF TypeInv, TypeOK
<1>2. ASSUME NEW w \in Worker, NEW r \in Request, ClaimNew(w, r)
      PROVE  Kept
    <2>1. dispatches' = [dispatches EXCEPT ![JournalOf[w]][r] = Claimed]
        BY <1>2 DEF ClaimNew
    <2>2. dispatches[JournalOf[w]][r] = None
        BY <1>2 DEF ClaimNew, Missing, Matching, Claims
    <2> QED
        BY <1>1, <2>1, <2>2
<1>3. ASSUME NEW w \in Worker, Post(w) \/ StoreReceipt(w)
      PROVE  Kept
    <2>1. CASE dispatches' = dispatches
        BY <2>1
    <2>2. CASE /\ dispatches[JournalOf[w]][req[w]] \in {Claimed, reply[w]}
               /\ dispatches' = [dispatches EXCEPT ![JournalOf[w]][req[w]] = reply[w]]
        BY <1>1, <2>2
    <2> QED
        BY <1>3, <2>1, <2>2 DEF Post, StoreReceipt
<1>4. ASSUME NEW h \in handling, ApplyPayment(h)
      PROVE  Kept
    BY <1>4 DEF ApplyPayment
<1> QED
    BY <1>2, <1>3, <1>4, InvisibleSteps

\* A proof enters with the claim it admits and with no other step.
LEMMA ProofsKept ==
    ASSUME AuthInv, [AuthNext]_allVars
    PROVE  \A j \in Journal, r \in Request :
             dispatches[j][r] # None => proofs'[j][r] = proofs[j][r]
<1>1. ASSUME NEW w \in Worker, NEW r \in Request, NEW e \in Evidence, AdmitClaim(w, r, e)
      PROVE  \A j \in Journal, q \in Request :
               dispatches[j][q] # None => proofs'[j][q] = proofs[j][q]
    <2>1. dispatches[JournalOf[w]][r] = None
        BY <1>1 DEF AdmitClaim, ClaimNew, Missing, Matching, Claims
    <2>2. PICK proof : proofs' = [proofs EXCEPT ![JournalOf[w]][r] = proof]
        BY <1>1 DEF AdmitClaim
    <2>3. proofs \in [Journal -> [Request -> Proof \cup {None}]]
        BY DEF AuthInv
    <2> QED
        BY <2>1, <2>2, <2>3
<1>2. (\E w \in Worker, r \in Request, e \in Evidence : AdmitClaim(w, r, e)) \/ proofs' = proofs
    <2>1. ASSUME NEW w \in Worker, NEW r \in Request, AuthCall(w, r)
          PROVE  (\E e \in Evidence : AdmitClaim(w, r, e)) \/ proofs' = proofs
        BY <2>1 DEF AuthCall, PlainClaim, BlockClaim, authVars
    <2>2. ASSUME AuthLifecycle \/ (\E t \in Time : SetClock(t)) \/ UNCHANGED authVars
                    \/ UNCHANGED allVars
          PROVE  proofs' = proofs
        BY <2>2 DEF AuthLifecycle, Start, SetClock, authVars, allVars
    <2> QED
        BY <2>1, <2>2 DEF AuthNext
<1> QED
    BY <1>1, <1>2

\* Proofs and claim times stay bound to the claims they came with.
LEMMA AuthInvStep == TypeInv /\ SafetyInv /\ AuthInv /\ [AuthNext]_allVars => AuthInv'
<1> SUFFICES ASSUME TypeInv, SafetyInv, AuthInv, [AuthNext]_allVars
             PROVE  AuthInv'
    OBVIOUS
<1>1. \A j \in Journal, r \in Request : dispatches[j][r] # None => dispatches'[j][r] # None
    BY RuntimeStep, ClaimsKept
<1>2. ASSUME NEW w \in Worker, NEW r \in Request, NEW e \in Evidence, AdmitClaim(w, r, e)
      PROVE  AuthInv'
    <2> DEFINE j == JournalOf[w]
               proof == [evidence |-> e, config |-> gate[w], at |-> now]
    <2>1. /\ proof \in Proof /\ proof # None /\ Recheck(proof, r)
          /\ j \in Journal
        BY <1>2, ProofAssumption DEF AdmitClaim, AuthInv, Proof, Recheck
    <2>2. dispatches'[j][r] # None
        BY <1>2, <2>1 DEF AdmitClaim, ClaimNew, TypeInv, TypeOK
    <2>3. /\ proofs' = [proofs EXCEPT ![j][r] = proof]
          /\ claimedAt' = [claimedAt EXCEPT ![j][r] = now]
          /\ UNCHANGED <<gate, now>>
        BY <1>2 DEF AdmitClaim
    <2>4. \A k \in Journal, q \in Request :
            /\ proofs'[k][q] = IF k = j /\ q = r THEN proof ELSE proofs[k][q]
            /\ claimedAt'[k][q] = IF k = j /\ q = r THEN now ELSE claimedAt[k][q]
        BY <2>1, <2>3 DEF AuthInv
    <2>5. \A k \in Journal, q \in Request :
            proofs'[k][q] # None =>
                /\ dispatches'[k][q] # None
                /\ claimedAt'[k][q] = proofs'[k][q].at
                /\ Recheck(proofs'[k][q], q)
        BY <1>1, <2>1, <2>2, <2>4 DEF AuthInv, Recheck
    <2>6. /\ proofs' \in [Journal -> [Request -> Proof \cup {None}]]
          /\ claimedAt' \in [Journal -> [Request -> Time \cup {None}]]
        BY <2>1, <2>3 DEF AuthInv
    <2> QED
        BY <2>3, <2>5, <2>6 DEF AuthInv, Recheck
<1>3. ASSUME NEW w \in Worker, NEW r \in Request, PlainClaim(w, r)
      PROVE  AuthInv'
    <2> DEFINE j == JournalOf[w]
    <2>1. proofs[j][r] = None /\ j \in Journal
        BY <1>3 DEF PlainClaim, ClaimNew, Missing, Matching, Claims, AuthInv
    <2>2. /\ claimedAt' = [claimedAt EXCEPT ![j][r] = now]
          /\ UNCHANGED <<gate, now, proofs>>
        BY <1>3 DEF PlainClaim
    <2>3. \A k \in Journal, q \in Request :
            proofs[k][q] # None => claimedAt'[k][q] = claimedAt[k][q]
        BY <2>1, <2>2 DEF AuthInv
    <2>4. claimedAt' \in [Journal -> [Request -> Time \cup {None}]]
        BY <2>1, <2>2 DEF AuthInv
    <2> QED
        BY <1>1, <2>2, <2>3, <2>4 DEF AuthInv, Recheck
<1>4. CASE UNCHANGED <<proofs, claimedAt>>
    <2>1. now' \in Time /\ gate' \in [Worker -> Config \cup {None}]
        BY DEF AuthNext, AuthCall, AuthLifecycle, PlainClaim, AdmitClaim, BlockClaim, Start,
               SetClock, authVars, allVars, AuthInv
    <2> QED
        BY <1>1, <1>4, <2>1 DEF AuthInv, Recheck
<1> QED
    BY <1>2, <1>3, <1>4
       DEF AuthNext, AuthCall, AuthLifecycle, BlockClaim, Start, SetClock, authVars, allVars

\* The invariants of the runtime and of the authorization layer hold together.
LEMMA AuthInvariance == AuthSpec => [](TypeInv /\ SafetyInv /\ AuthInv)
BY AuthorizationRefines, Safety, AuthInvInit, AuthInvStep, PTL DEF AuthSpec

\* A claim, admitted or not, gains no proof and changes none, whatever evidence comes later.
THEOREM NoBackfill == AuthSpec => NeverBackfilled
<1>1. AuthInv /\ [AuthNext]_allVars =>
        [\A j \in Journal, r \in Request :
            dispatches[j][r] # None => proofs'[j][r] = proofs[j][r]]_allVars
    BY ProofsKept
<1> QED
    BY <1>1, AuthInvariance, PTL DEF AuthSpec, NeverBackfilled

\* The record of an admission reads back as found.
LEMMA AdmissionsRead ==
    ASSUME TypeInv, SafetyInv, AuthInv
    PROVE  AdmittedForGood
<1> SUFFICES ASSUME NEW j \in Journal, NEW r \in Request, proofs[j][r] # None
             PROVE  /\ dispatches[j][r] # None
                    /\ claimedAt[j][r] = proofs[j][r].at
                    /\ Authorization(j, r) = "FOUND"
    BY DEF AdmittedForGood
<1>1. /\ dispatches[j][r] # None /\ claimedAt[j][r] = proofs[j][r].at
      /\ Recheck(proofs[j][r], r)
    BY DEF AuthInv
<1>2. Found(Claims(j), r)
    BY <1>1 DEF SafetyInv, IdentityNamesOne, Claims, Found, Matching
<1> QED
    BY <1>1, <1>2 DEF Authorization, Conflict, Missing, Found

\* Past admissions stay readable, whatever the clock and the configuration do.
THEOREM AdmissionsKept == AuthSpec => []AdmittedForGood
BY AdmissionsRead, AuthInvariance, PTL

\* Every retained proof shows a sound admission.
THEOREM AdmissionsSound == AuthSpec => []AdmissionWasSound
<1>1. ASSUME AuthInv
      PROVE  AdmissionWasSound
    <2> SUFFICES ASSUME NEW j \in Journal, NEW r \in Request, proofs[j][r] # None
                 PROVE  Sound(r, proofs[j][r].evidence, proofs[j][r].config, proofs[j][r].at)
        BY DEF AdmissionWasSound
    <2>1. proofs[j][r] \in Proof /\ Recheck(proofs[j][r], r)
        BY <1>1 DEF AuthInv
    <2>2. /\ proofs[j][r].evidence \in Evidence /\ proofs[j][r].config \in Config
          /\ proofs[j][r].at \in Nat
        BY <2>1, TimeAssumption DEF Proof
    <2> QED
        BY <2>1, <2>2, AuthorizedIsSound DEF Recheck
<1> QED
    BY <1>1, AuthInvariance, PTL

-----------------------------------------------------------------------------
(* Custody: every step of a wrapped adapter is a step of an authorized one,  *)
(* or none.                                                                  *)

USE ProofAssumption, EpochAssumption, CustodyAssumption
USE DEF authVars, collectorVars, localVars, custodyVars

\* What a collecting call does next is what an authorized call does.
LEMMA ContinueAuthorized ==
    ASSUME NEW w \in Worker, CustodyContinue(w)
    PROVE  AuthNext
<1>1. Continue(w) /\ UNCHANGED authVars
    BY DEF CustodyContinue, StoreAndCollect, Continue
<1> QED
    BY <1>1 DEF AuthNext

\* A collection that fails interrupts its call or changes nothing below.
LEMMA FailureAuthorized ==
    ASSUME NEW w \in Worker, CustodyFails(w)
    PROVE  AuthNext \/ UNCHANGED allVars
<1>1. CASE Interrupted(w)
    BY <1>1 DEF CustodyFails, AuthNext, Continue
<1>2. CASE UNCHANGED vars
    BY <1>2 DEF CustodyFails, allVars
<1> QED
    BY <1>1, <1>2 DEF CustodyFails

\* Crashes and starts are those of the layer below.
LEMMA LifecycleAuthorized == CustodyLifecycle => AuthNext
<1> SUFFICES ASSUME CustodyLifecycle PROVE AuthLifecycle
    BY DEF AuthNext
<1>1. CASE \E w \in Worker : CrashAdapter(w) /\ UNCHANGED authVars
    BY <1>1 DEF AuthLifecycle
<1>2. CASE \E w \in Worker, g \in Generation, c \in Config \cup {None} : Start(w, g, c)
    BY <1>2 DEF AuthLifecycle
<1>3. CASE \E p \in Provider : CrashProvider(p) /\ UNCHANGED authVars
    BY <1>3 DEF AuthLifecycle
<1>4. CASE \E p \in Provider, g \in Generation : StartProvider(p, g) /\ UNCHANGED authVars
    BY <1>4 DEF AuthLifecycle
<1> QED
    BY <1>1, <1>2, <1>3, <1>4 DEF CustodyLifecycle

\* A step of a wrapped adapter is one of an authorized adapter or a stutter.
LEMMA CustodyStep == [CustodyNext]_fullVars => [AuthNext]_allVars
<1> SUFFICES ASSUME [CustodyNext]_fullVars PROVE AuthNext \/ UNCHANGED allVars
    OBVIOUS
<1>1. ASSUME NEW w \in Worker, NEW r \in Request, AuthCall(w, r)
      PROVE  AuthNext
    BY <1>1 DEF AuthNext
<1>2. CASE Network /\ UNCHANGED authVars
    BY <1>2 DEF AuthNext
<1>3. ASSUME NEW t \in Time, SetClock(t)
      PROVE  AuthNext
    BY <1>3 DEF AuthNext
<1>4. ASSUME NEW w \in Worker,
             \/ \E e \in Epoch : Wrap(w, e)
             \/ \E r \in Request : Recover(w, r)
             \/ \E p \in Collector : Collect(w, p) \/ ReadBack(w, p)
             \/ Before(w) \/ Persist(w)
      PROVE  UNCHANGED allVars
    BY <1>4 DEF Wrap, Recover, Collect, ReadBack, Before, Persist
<1>5. ASSUME NEW p \in Collector,
             \/ \E e \in Epoch : StartCollector(p, e)
             \/ CrashCollector(p)
             \/ \E pkg \in late : LateCollect(p, pkg)
      PROVE  UNCHANGED allVars
    BY <1>5 DEF StartCollector, CrashCollector, LateCollect
<1>6. CASE UNCHANGED fullVars
    BY <1>6 DEF fullVars
<1> QED
    BY <1>1, <1>2, <1>3, <1>4, <1>5, <1>6, ContinueAuthorized, FailureAuthorized,
       LifecycleAuthorized DEF CustodyNext

\* The collector, its epochs and its failures add no behaviour to payments: what is
\* proved of authorized adapters and of the runtime holds of wrapped ones.
THEOREM CustodyRefines == CustodySpec => RefinesAuth
<1>1. CustodyInit => AuthInit
    BY DEF CustodyInit
<1> QED
    BY <1>1, CustodyStep, PTL DEF CustodySpec, RefinesAuth, AuthSpec

-----------------------------------------------------------------------------
(* The inductive invariant of the custody layer.                            *)

Works == [stage : Stage, req : Request, todo : SUBSET Sendable,
          step : {"collect", "readback", "persist", "done"},
          ack : Acknowledgement \cup {None}]

\* The values the custody layer can hold.
CustodyType ==
    /\ client \in [Worker -> Epoch \cup {None}]
    /\ collector \in [Collector -> Epoch \cup {None}]
    /\ cepoch \in Epoch \cup {None}
    /\ held \in [Request -> [Kind -> Acknowledgement \cup {None}]]
    /\ late \subseteq Sendable
    /\ cusEpoch \in [Journal -> Epoch \cup {None}]
    /\ observations \in [Journal -> SUBSET Observable]
    /\ marker \in [Journal -> [Request -> Observable \cup {None}]]
    /\ work \in [Worker -> Works \cup {None}]

\* Where the call of a collecting adapter is: the prerequisite belongs to an open call,
\* and the call goes no further before it is done; every other collection runs alone.
Phase(w) ==
    /\ work[w].stage = "PRE_DISPATCH" =>
         /\ pc[w] # "idle" /\ req[w] = work[w].req
         /\ work[w].step # "done" => pc[w] = "claimed"
    /\ work[w].stage # "PRE_DISPATCH" => pc[w] = "idle" /\ work[w].step # "done"

\* What a collecting adapter has in hand: originals of its journal, the acknowledgement
\* that the collector's store holds of the current one, and, once done, its marker.
InHand(w) ==
    LET j == JournalOf[w]
        c == work[w] IN
    /\ client[w] # None
    /\ c.todo # {}
    /\ \A p \in c.todo :
         /\ p.req = c.req /\ p \in Originals(j, c.req)
         /\ c.stage = "PRE_DISPATCH" => p.kind = "admission_record"
    /\ c.step \in {"readback", "persist"} =>
         /\ c.ack \in Acknowledgement /\ c.ack.package = Current(w)
         /\ held[c.req][Current(w).kind] = c.ack
         /\ c.ack.epoch <= client[w]
    /\ c.step = "done" => marker[j][c.req] # None

Collections == \A w \in Worker : Busy(w) => Phase(w) /\ InHand(w)

\* What a journal has observed is held, is its own, and is not ahead of its epoch.
Observed(j, obs) ==
    /\ held[obs.package.req][obs.package.kind] = obs.ack
    /\ obs.package \in Originals(j, obs.package.req)
    /\ obs.ack.package = obs.package
    /\ cusEpoch[j] # None /\ obs.epoch <= cusEpoch[j] /\ obs.ack.epoch <= obs.epoch
Observations == \A j \in Journal : \A obs \in observations[j] : Observed(j, obs)

Markers ==
    \A j \in Journal, r \in Request :
        marker[j][r] # None =>
            /\ marker[j][r] \in observations[j]
            /\ marker[j][r].package.req = r
            /\ marker[j][r].package.kind = "admission_record"

CustodyInv == CustodyType /\ Collections /\ Observations /\ Markers

\* The invariants of the layers below.
Below == TypeInv /\ SafetyInv /\ AuthInv

\* Epochs are numbers.
LEMMA EpochOrder ==
    /\ \A e \in Epoch : e <= e
    /\ \A e, f, g \in Epoch : e <= f /\ f <= g => e <= g
<1>1. \A e \in Epoch : e \in Nat
    OBVIOUS
<1> QED
    BY <1>1

\* Nothing is wrapped, held or observed at first.
LEMMA CustodyInvInit == CustodyInit => CustodyInv
BY DEF CustodyInit, CustodyInv, CustodyType, Collections, Busy, Observations, Markers

-----------------------------------------------------------------------------
(* Originals, packages and collections.                                     *)

\* A journal shows an admission record that reads as found and a receipt it holds.
LEMMA OriginalsAre ==
    ASSUME NEW j \in Journal, NEW r \in Request, NEW p
    PROVE  p \in Originals(j, r) <=>
             \/ /\ Authorization(j, r) = "FOUND"
                /\ p = Package(r, "admission_record", proofs[j][r])
             \/ /\ dispatches[j][r] \in Receipt
                /\ p = Package(r, "provider_receipt", dispatches[j][r])
BY DEF Originals

\* An original is a package of its request that can be sent.
LEMMA OriginalsSendable ==
    ASSUME Below, NEW j \in Journal, NEW r \in Request, NEW p \in Originals(j, r)
    PROVE  /\ p \in Sendable /\ p.req = r /\ p.kind \in Kind
           /\ p.kind = "admission_record" => p.original = proofs[j][r]
<1>1. CASE /\ Authorization(j, r) = "FOUND"
           /\ p = Package(r, "admission_record", proofs[j][r])
    <2>1. proofs[j][r] \in Proof
        BY <1>1 DEF Authorization, Below, AuthInv
    <2> QED
        BY <1>1, <2>1 DEF Package, Sendable, Kind
<1>2. CASE /\ dispatches[j][r] \in Receipt
           /\ p = Package(r, "provider_receipt", dispatches[j][r])
    BY <1>2 DEF Package, Sendable, Kind
<1> QED
    BY <1>1, <1>2, OriginalsAre

\* What a journal can show of a request it can show for good.
LEMMA OriginalsKept ==
    ASSUME Below, Below', [AuthNext]_allVars
    PROVE  \A j \in Journal, r \in Request : \A p : p \in Originals(j, r) => (p \in Originals(j, r))'
<1> SUFFICES ASSUME NEW j \in Journal, NEW r \in Request, NEW p, p \in Originals(j, r)
             PROVE  (p \in Originals(j, r))'
    OBVIOUS
<1>1. CASE /\ Authorization(j, r) = "FOUND"
           /\ p = Package(r, "admission_record", proofs[j][r])
    <2>1. proofs[j][r] # None /\ dispatches[j][r] # None
        BY <1>1 DEF Authorization, Below, AuthInv
    <2>2. proofs'[j][r] = proofs[j][r]
        BY <2>1, ProofsKept DEF Below
    <2>3. AdmittedForGood'
        BY AdmissionsRead, PTL DEF Below
    <2>4. Authorization(j, r)' = "FOUND"
        BY <2>1, <2>2, <2>3 DEF AdmittedForGood
    <2> QED
        BY <1>1, <2>2, <2>4 DEF Originals, Package
<1>2. CASE /\ dispatches[j][r] \in Receipt
           /\ p = Package(r, "provider_receipt", dispatches[j][r])
    <2>1. dispatches'[j][r] = dispatches[j][r]
        BY <1>2, RuntimeStep, ReceiptsKept DEF Below
    <2> QED
        BY <1>2, <2>1 DEF Originals, Package
<1> QED
    BY <1>1, <1>2, OriginalsAre

\* The current package is one of those still to do.
LEMMA CurrentIsOne ==
    ASSUME NEW w \in Worker, work[w].todo # {}
    PROVE  Current(w) \in work[w].todo
<1>1. CASE \E p \in work[w].todo : p.kind = "admission_record"
    BY <1>1 DEF Current
<1>2. CASE \A p \in work[w].todo : p.kind # "admission_record"
    BY <1>2 DEF Current
<1> QED
    BY <1>1, <1>2

\* What a collecting adapter turns to next, and what is known of it.
LEMMA CurrentHeld ==
    ASSUME Below, CustodyInv, NEW w \in Worker, Busy(w)
    PROVE  /\ work[w] \in Works /\ work[w].req \in Request
           /\ JournalOf[w] \in Journal /\ client[w] \in Epoch
           /\ Current(w) \in work[w].todo
           /\ Current(w) \in Sendable /\ Current(w).kind \in Kind
           /\ Current(w).req = work[w].req
           /\ Current(w) \in Originals(JournalOf[w], work[w].req)
<1>1. work[w] \in Works /\ client[w] \in Epoch /\ work[w].todo # {}
    BY DEF CustodyInv, CustodyType, Collections, InHand, Busy
<1>2. Current(w) \in work[w].todo
    BY <1>1, CurrentIsOne
<1>3. work[w].req \in Request /\ JournalOf[w] \in Journal
    BY <1>1 DEF Works
<1>4. Current(w) \in Originals(JournalOf[w], work[w].req)
    BY <1>2 DEF CustodyInv, Collections, InHand
<1> QED
    BY <1>1, <1>2, <1>3, <1>4, OriginalsSendable

\* The collector's transaction: the acknowledgement of a package is of that package, and
\* none is ever replaced.
LEMMA StoredHeld ==
    ASSUME CustodyType, NEW p \in Collector, NEW pkg \in Sendable, Stored(p, pkg)
    PROVE  /\ held' \in [Request -> [Kind -> Acknowledgement \cup {None}]]
           /\ \A r \in Request, k \in Kind : held[r][k] # None => held'[r][k] = held[r][k]
           /\ held'[pkg.req][pkg.kind] \in Acknowledgement
           /\ held'[pkg.req][pkg.kind].package = pkg
<1>1. pkg.req \in Request /\ pkg.kind \in Kind
    BY DEF Sendable
<1>2. held \in [Request -> [Kind -> Acknowledgement \cup {None}]]
    BY DEF CustodyType
<1>3. CASE UNCHANGED held /\ held[pkg.req][pkg.kind] # None /\ held[pkg.req][pkg.kind].package = pkg
    BY <1>1, <1>2, <1>3
<1>4. CASE /\ held[pkg.req][pkg.kind] = None /\ collector[p] = cepoch /\ collector[p] # None
           /\ held' = [held EXCEPT ![pkg.req][pkg.kind] = [package |-> pkg, epoch |-> cepoch]]
    <2>1. PICK ack : ack = [package |-> pkg, epoch |-> cepoch]
        OBVIOUS
    <2>2. cepoch \in Epoch
        BY <1>4 DEF CustodyType
    <2>3. ack \in Acknowledgement /\ ack.package = pkg
        BY <2>1, <2>2 DEF Acknowledgement
    <2>4. held' = [held EXCEPT ![pkg.req][pkg.kind] = ack]
        BY <1>4, <2>1
    <2> QED
        BY <1>1, <1>2, <1>4, <2>3, <2>4
<1> QED
    BY <1>3, <1>4 DEF Stored

-----------------------------------------------------------------------------
(* What a step leaves of a collection.                                      *)

\* What a collecting adapter has in hand stays, as long as nothing held or marked is lost.
LEMMA InHandKept ==
    ASSUME Below, CustodyInv, NEW w \in Worker, Busy(w), work'[w] = work[w],
           client'[w] = client[w],
           \A j \in Journal, r \in Request : \A p :
              p \in Originals(j, r) => (p \in Originals(j, r))',
           \A r \in Request, k \in Kind : held[r][k] # None => held'[r][k] = held[r][k],
           \A j \in Journal, r \in Request : marker[j][r] # None => marker'[j][r] = marker[j][r]
    PROVE  InHand(w)'
<1>1. PICK c, j, q : c = work[w] /\ j = JournalOf[w] /\ q = Current(w)
    OBVIOUS
<1>2. InHand(w) /\ c \in Works /\ c.req \in Request /\ j \in Journal /\ q.kind \in Kind
    BY <1>1, CurrentHeld DEF CustodyInv, Collections
<1>3. work'[w] = c /\ Current(w)' = q
    BY <1>1 DEF Current
<1>4. \A p \in c.todo : (p \in Originals(j, c.req))'
    BY <1>1, <1>2 DEF InHand
<1>5. c.step \in {"readback", "persist"} => held'[c.req][q.kind] = c.ack
    BY <1>1, <1>2 DEF InHand
<1>6. c.step = "done" => marker'[j][c.req] # None
    BY <1>1, <1>2 DEF InHand
<1> QED
    BY <1>1, <1>2, <1>3, <1>4, <1>5, <1>6 DEF InHand

\* What a journal has observed stays so.
LEMMA ObservedKept ==
    ASSUME Below, CustodyInv, NEW j \in Journal, NEW obs \in observations[j],
           \A i \in Journal, r \in Request : \A p :
              p \in Originals(i, r) => (p \in Originals(i, r))',
           \A r \in Request, k \in Kind : held[r][k] # None => held'[r][k] = held[r][k],
           cusEpoch[j] # None => cusEpoch'[j] # None /\ cusEpoch[j] <= cusEpoch'[j],
           cusEpoch'[j] \in Epoch \cup {None}
    PROVE  Observed(j, obs)'
<1>1. obs \in Observable /\ Observed(j, obs)
    BY DEF CustodyInv, CustodyType, Observations
<1>2. /\ obs.package.req \in Request /\ obs.package.kind \in Kind
      /\ obs.ack \in Acknowledgement /\ obs.epoch \in Epoch
    BY <1>1 DEF Observable, Sendable
<1>3. held'[obs.package.req][obs.package.kind] = obs.ack
    BY <1>1, <1>2 DEF Observed
<1>4. (obs.package \in Originals(j, obs.package.req))'
    BY <1>1, <1>2 DEF Observed
<1>5. cusEpoch'[j] # None /\ obs.epoch <= cusEpoch'[j]
    <2>1. cusEpoch[j] \in Epoch /\ obs.epoch <= cusEpoch[j]
        BY <1>1 DEF Observed, CustodyInv, CustodyType
    <2>2. cusEpoch'[j] \in Epoch /\ cusEpoch[j] <= cusEpoch'[j]
        BY <2>1
    <2> QED
        BY <1>2, <2>1, <2>2, EpochOrder
<1> QED
    BY <1>1, <1>3, <1>4, <1>5 DEF Observed

\* A step that loses nothing held, changes no record of a journal, and keeps the order of
\* the calls and of their collections.
LEMMA CustodyFrame ==
    ASSUME Below, Below', CustodyInv, [AuthNext]_allVars, CustodyType',
           \A r \in Request, k \in Kind : held[r][k] # None => held'[r][k] = held[r][k],
           UNCHANGED <<observations, marker>>,
           \A j \in Journal :
              cusEpoch[j] # None => cusEpoch'[j] # None /\ cusEpoch[j] <= cusEpoch'[j],
           \A w \in Worker : Busy(w)' =>
              /\ Phase(w)'
              /\ (work'[w] = work[w] /\ client'[w] = client[w]) \/ InHand(w)'
    PROVE  CustodyInv'
<1>1. \A j \in Journal, r \in Request : \A p :
          p \in Originals(j, r) => (p \in Originals(j, r))'
    BY OriginalsKept
<1>2. Collections'
    <2> SUFFICES ASSUME NEW w \in Worker, Busy(w)'
                 PROVE  Phase(w)' /\ InHand(w)'
        BY DEF Collections
    <2>1. CASE work'[w] = work[w] /\ client'[w] = client[w]
        <3>1. Busy(w)
            BY <2>1 DEF Busy
        <3> QED
            BY <1>1, <2>1, <3>1, InHandKept
    <2> QED
        BY <2>1
<1>3. Observations'
    <2> SUFFICES ASSUME NEW j \in Journal, NEW obs \in observations[j]
                 PROVE  Observed(j, obs)'
        BY DEF Observations
    <2>1. cusEpoch'[j] \in Epoch \cup {None}
        BY DEF CustodyType
    <2> QED
        BY <1>1, <2>1, ObservedKept
<1>4. Markers'
    BY DEF CustodyInv, Markers
<1> QED
    BY <1>2, <1>3, <1>4 DEF CustodyInv

\* A phase is one of the call and of the collection.
LEMMA PhaseKept ==
    ASSUME CustodyInv, NEW w \in Worker, Busy(w)', work'[w] = work[w], pc'[w] = pc[w],
           req'[w] = req[w]
    PROVE  Phase(w)'
<1>1. Phase(w)
    BY DEF CustodyInv, Collections, Busy
<1> QED
    BY <1>1 DEF Phase

\* A step of the layers below that no collection waits on: the custody layer stays as it
\* is, and a call moves on only where no collection holds it.
LEMMA BelowOnly ==
    ASSUME Below, Below', CustodyInv, [AuthNext]_allVars, UNCHANGED custodyVars,
           \A w \in Worker : Busy(w) => Phase(w)'
    PROVE  CustodyInv'
<1>1. UNCHANGED <<client, work, collector, cepoch, held, late, cusEpoch, observations, marker>>
    OBVIOUS
<1>2. CustodyType'
    BY <1>1 DEF CustodyInv, CustodyType
<1>3. \A j \in Journal : cusEpoch[j] # None => cusEpoch[j] <= cusEpoch[j]
    BY EpochOrder DEF CustodyInv, CustodyType
<1>4. \A w \in Worker : Busy(w)' =>
          Phase(w)' /\ work'[w] = work[w] /\ client'[w] = client[w]
    BY <1>1 DEF Busy
<1> QED
    BY <1>1, <1>2, <1>3, <1>4, CustodyFrame

-----------------------------------------------------------------------------
(* The steps of the layers below.                                           *)

\* A new call is of an idle adapter, and no other adapter notices.
LEMMA CallLocal ==
    ASSUME TypeInv, NEW w \in Worker, NEW r \in Request, AuthCall(w, r)
    PROVE  pc[w] = "idle" /\ \A v \in Worker \ {w} : pc'[v] = pc[v] /\ req'[v] = req[v]
<1>1. Call(w, r)
    BY DEF AuthCall, Call, PlainClaim, AdmitClaim, BlockClaim
<1>2. pc[w] = "idle"
    BY <1>1 DEF Call, ClaimNew, SubmitExisting, SubmitRefused, AdmissionRefused,
       SubmitUnavailable, ReadStatus, Reconcile, Ready
<1>3. (\E v : Return(w, v)) \/ (\E l : Begin(w, r, l))
    BY <1>1 DEF Call, ClaimNew, SubmitExisting, SubmitRefused, AdmissionRefused,
       SubmitUnavailable, ReadStatus, Reconcile
<1>4. \A v \in Worker \ {w} : pc'[v] = pc[v] /\ req'[v] = req[v]
    BY <1>3 DEF Return, Begin, TypeInv, TypeOK
<1> QED
    BY <1>2, <1>4

\* Only a call that has sent its payment is answered.
LEMMA NetworkLocal ==
    ASSUME TypeInv, Network, NEW w \in Worker
    PROVE  /\ req'[w] = req[w]
           /\ pc'[w] = pc[w] \/ (pc[w] = "posted" /\ pc'[w] \in {"verified", "retain"})
<1>1. CASE UNCHANGED adapterVars
    BY <1>1
<1>2. ASSUME NEW h \in handling, pc[h.from] = "posted", Answer(h.from, h.answer)
      PROVE  /\ req'[w] = req[w]
             /\ pc'[w] = pc[w] \/ (pc[w] = "posted" /\ pc'[w] \in {"verified", "retain"})
    BY <1>2 DEF Answer, TypeInv, TypeOK
<1> QED
    BY <1>1, <1>2 DEF Network, ReceivePost, LosePost, AnswerRecorded, ApplyPayment, Respond,
       DropHandling

\* An adapter that collects begins no call.
LEMMA CallInv ==
    ASSUME Below, Below', CustodyInv, [AuthNext]_allVars,
           NEW w \in Worker, NEW r \in Request, AuthCall(w, r), ~ Busy(w), UNCHANGED custodyVars
    PROVE  CustodyInv'
<1> SUFFICES ASSUME NEW v \in Worker, Busy(v) PROVE Phase(v)'
    BY BelowOnly
<1>1. v # w /\ work'[v] = work[v] /\ Busy(v)'
    BY DEF Busy
<1> QED
    BY <1>1, CallLocal, PhaseKept DEF Below

\* An answer moves a call on whose prerequisite is done.
LEMMA NetworkInv ==
    ASSUME Below, Below', CustodyInv, [AuthNext]_allVars, Network, UNCHANGED custodyVars
    PROVE  CustodyInv'
<1> SUFFICES ASSUME NEW w \in Worker, Busy(w) PROVE Phase(w)'
    BY BelowOnly
<1>1. Phase(w) /\ work'[w] = work[w]
    BY DEF CustodyInv, Collections
<1>2. /\ req'[w] = req[w]
      /\ pc'[w] = pc[w] \/ (pc[w] = "posted" /\ pc'[w] \in {"verified", "retain"})
    BY NetworkLocal DEF Below
<1> QED
    BY <1>1, <1>2 DEF Phase

\* A step that touches neither calls nor custody.
LEMMA CallsApart ==
    ASSUME Below, Below', CustodyInv, [AuthNext]_allVars, UNCHANGED <<custodyVars, pc, req>>
    PROVE  CustodyInv'
<1> SUFFICES ASSUME NEW w \in Worker, Busy(w) PROVE Phase(w)'
    BY BelowOnly
<1>1. Busy(w)' /\ work'[w] = work[w] /\ pc'[w] = pc[w] /\ req'[w] = req[w]
    BY DEF Busy
<1> QED
    BY <1>1, PhaseKept

\* What is left on the wire is a package.
LEMMA LeftSendable ==
    ASSUME Below, CustodyInv, NEW w \in Worker, LeaveBehind(w)
    PROVE  late' \subseteq Sendable
<1>1. late \subseteq Sendable
    BY DEF CustodyInv, CustodyType
<1> QED
    BY <1>1, CurrentHeld DEF LeaveBehind

\* Crashes and starts: an adapter that dies drops its collection.
LEMMA LifecycleInv ==
    ASSUME Below, Below', CustodyInv, [AuthNext]_allVars, CustodyLifecycle
    PROVE  CustodyInv'
<1>1. ASSUME NEW w \in Worker, CrashAdapter(w), LeaveBehind(w), Set(w, None),
             client' = [client EXCEPT ![w] = None],
             UNCHANGED <<collector, cepoch, held, localVars>>
      PROVE  CustodyInv'
    <2>1. work' = [work EXCEPT ![w] = None] /\ late' \subseteq Sendable
        BY <1>1, LeftSendable DEF Set
    <2>2. CustodyType'
        BY <1>1, <2>1 DEF CustodyInv, CustodyType
    <2>3. \A v \in Worker \ {w} : pc'[v] = pc[v] /\ req'[v] = req[v]
        BY <1>1 DEF CrashAdapter, Below, TypeInv, TypeOK
    <2>4. \A v \in Worker \ {w} : work'[v] = work[v] /\ client'[v] = client[v]
        BY <1>1, <2>1 DEF CustodyInv, CustodyType
    <2>5. ~ Busy(w)'
        BY <2>1 DEF CustodyInv, CustodyType, Busy
    <2>6. \A v \in Worker : Busy(v)' =>
              Phase(v)' /\ work'[v] = work[v] /\ client'[v] = client[v]
        BY <2>3, <2>4, <2>5, PhaseKept
    <2>7. \A j \in Journal : cusEpoch[j] # None => cusEpoch'[j] # None /\ cusEpoch[j] <= cusEpoch'[j]
        BY <1>1, EpochOrder DEF CustodyInv, CustodyType
    <2>8. \A r \in Request, k \in Kind : held'[r][k] = held[r][k]
        BY <1>1
    <2> QED
        BY <1>1, <2>2, <2>6, <2>7, <2>8, CustodyFrame
<1>2. CASE \E w \in Worker, g \in Generation, c \in Config \cup {None} :
              Start(w, g, c) /\ UNCHANGED custodyVars
    BY <1>2, CallsApart DEF Start, StartAdapter
<1>3. CASE \E p \in Provider : CrashProvider(p) /\ UNCHANGED custodyVars
    BY <1>3, CallsApart DEF CrashProvider
<1>4. CASE \E p \in Provider, g \in Generation : StartProvider(p, g) /\ UNCHANGED custodyVars
    BY <1>4, CallsApart DEF StartProvider
<1> QED
    BY <1>1, <1>2, <1>3, <1>4 DEF CustodyLifecycle

-----------------------------------------------------------------------------
(* The collector's own steps.                                               *)

\* The collector's processes come and go, and take up what is late.
LEMMA CollectorInv ==
    ASSUME Below, Below', CustodyInv, [AuthNext]_allVars, NEW p \in Collector,
           \/ \E e \in Epoch : StartCollector(p, e)
           \/ CrashCollector(p)
           \/ \E pkg \in late : LateCollect(p, pkg)
    PROVE  CustodyInv'
<1>1. UNCHANGED <<pc, req, client, work, cusEpoch, observations, marker>>
    BY DEF StartCollector, CrashCollector, LateCollect, allVars, vars
<1>2. /\ held' \in [Request -> [Kind -> Acknowledgement \cup {None}]]
      /\ \A r \in Request, k \in Kind : held[r][k] # None => held'[r][k] = held[r][k]
    <2>1. CASE UNCHANGED held
        BY <2>1 DEF CustodyInv, CustodyType
    <2>2. ASSUME NEW pkg \in late, Stored(p, pkg)
          PROVE  /\ held' \in [Request -> [Kind -> Acknowledgement \cup {None}]]
                 /\ \A r \in Request, k \in Kind : held[r][k] # None => held'[r][k] = held[r][k]
        <3>1. CustodyType /\ pkg \in Sendable
            BY DEF CustodyInv, CustodyType
        <3> QED
            BY <2>2, <3>1, StoredHeld
    <2> QED
        BY <2>1, <2>2 DEF StartCollector, CrashCollector, LateCollect
<1>3. /\ collector' \in [Collector -> Epoch \cup {None}] /\ cepoch' \in Epoch \cup {None}
      /\ late' \subseteq Sendable
    <2>1. ASSUME NEW e \in Epoch, StartCollector(p, e)
          PROVE  /\ collector' \in [Collector -> Epoch \cup {None}]
                 /\ cepoch' \in Epoch \cup {None} /\ late' = late
        BY <2>1 DEF StartCollector, CustodyInv, CustodyType
    <2>2. CASE CrashCollector(p)
        BY <2>2 DEF CrashCollector, CustodyInv, CustodyType
    <2>3. ASSUME NEW pkg \in late, LateCollect(p, pkg)
          PROVE  UNCHANGED <<collector, cepoch>> /\ late' \subseteq late
        BY <2>3 DEF LateCollect
    <2>4. /\ collector \in [Collector -> Epoch \cup {None}] /\ cepoch \in Epoch \cup {None}
          /\ late \subseteq Sendable
        BY DEF CustodyInv, CustodyType
    <2> QED
        BY <2>1, <2>2, <2>3, <2>4
<1>4. CustodyType'
    BY <1>1, <1>2, <1>3 DEF CustodyInv, CustodyType
<1>5. \A j \in Journal : cusEpoch[j] # None => cusEpoch'[j] # None /\ cusEpoch[j] <= cusEpoch'[j]
    BY <1>1, EpochOrder DEF CustodyInv, CustodyType
<1>6. \A w \in Worker : Busy(w)' =>
          Phase(w)' /\ work'[w] = work[w] /\ client'[w] = client[w]
    BY <1>1, PhaseKept
<1> QED
    BY <1>1, <1>2, <1>4, <1>5, <1>6, CustodyFrame

\* A wrapper takes its journal's epoch on, never back.
LEMMA WrapInv ==
    ASSUME Below, Below', CustodyInv, [AuthNext]_allVars,
           NEW w \in Worker, NEW e \in Epoch, Wrap(w, e)
    PROVE  CustodyInv'
<1>1. /\ UNCHANGED <<pc, req, work, collector, cepoch, held, late, observations, marker>>
      /\ client' = [client EXCEPT ![w] = e] /\ client[w] = None
      /\ cusEpoch' = [cusEpoch EXCEPT ![JournalOf[w]] = e]
      /\ cusEpoch[JournalOf[w]] # None => e >= cusEpoch[JournalOf[w]]
    BY DEF Wrap, NotBehind, allVars, vars
<1>2. CustodyType'
    BY <1>1 DEF CustodyInv, CustodyType
<1>3. \A j \in Journal : cusEpoch[j] # None => cusEpoch'[j] # None /\ cusEpoch[j] <= cusEpoch'[j]
    <2> SUFFICES ASSUME NEW j \in Journal, cusEpoch[j] # None
                 PROVE  cusEpoch'[j] # None /\ cusEpoch[j] <= cusEpoch'[j]
        OBVIOUS
    <2>1. cusEpoch[j] \in Epoch /\ cusEpoch[j] \in Nat /\ e \in Nat
        BY DEF CustodyInv, CustodyType
    <2>2. cusEpoch'[j] = IF j = JournalOf[w] THEN e ELSE cusEpoch[j]
        BY <1>1 DEF CustodyInv, CustodyType
    <2> QED
        BY <1>1, <2>1, <2>2
<1>4. ~ Busy(w)
    BY <1>1 DEF CustodyInv, Collections, InHand
<1>5. \A v \in Worker : Busy(v)' =>
          Phase(v)' /\ work'[v] = work[v] /\ client'[v] = client[v]
    <2> SUFFICES ASSUME NEW v \in Worker, Busy(v)'
                 PROVE  Phase(v)' /\ work'[v] = work[v] /\ client'[v] = client[v]
        OBVIOUS
    <2>1. v # w
        BY <1>1, <1>4 DEF Busy
    <2> QED
        BY <1>1, <2>1, PhaseKept DEF CustodyInv, CustodyType
<1>6. \A r \in Request, k \in Kind : held'[r][k] = held[r][k]
    BY <1>1
<1> QED
    BY <1>1, <1>2, <1>3, <1>5, <1>6, CustodyFrame

-----------------------------------------------------------------------------
(* The steps of a collecting adapter.                                       *)

\* A step that takes one adapter's collection on and records nothing.
LEMMA CollectionStep ==
    ASSUME Below, Below', CustodyInv, [AuthNext]_allVars,
           NEW w \in Worker, NEW c \in Works \cup {None}, Set(w, c),
           UNCHANGED <<client, collector, cepoch, cusEpoch, observations, marker>>,
           late' \subseteq Sendable,
           held' \in [Request -> [Kind -> Acknowledgement \cup {None}]],
           \A r \in Request, k \in Kind : held[r][k] # None => held'[r][k] = held[r][k],
           \A v \in Worker \ {w} : pc'[v] = pc[v] /\ req'[v] = req[v],
           c # None => Phase(w)' /\ InHand(w)'
    PROVE  CustodyInv'
<1>1. work' = [work EXCEPT ![w] = c] /\ work \in [Worker -> Works \cup {None}]
    BY DEF Set, CustodyInv, CustodyType
<1>2. CustodyType'
    BY <1>1 DEF CustodyInv, CustodyType
<1>3. \A j \in Journal : cusEpoch[j] # None => cusEpoch'[j] # None /\ cusEpoch[j] <= cusEpoch'[j]
    <2>1. cusEpoch' = cusEpoch /\ cusEpoch \in [Journal -> Epoch \cup {None}]
        BY DEF CustodyInv, CustodyType
    <2> QED
        BY <2>1, EpochOrder
<1>4. \A v \in Worker : Busy(v)' =>
          Phase(v)' /\ ((work'[v] = work[v] /\ client'[v] = client[v]) \/ InHand(v)')
    <2> SUFFICES ASSUME NEW v \in Worker, Busy(v)'
                 PROVE  Phase(v)' /\ ((work'[v] = work[v] /\ client'[v] = client[v]) \/ InHand(v)')
        OBVIOUS
    <2>1. CASE v = w
        <3>1. c # None
            BY <1>1, <2>1 DEF Busy
        <3> QED
            BY <2>1, <3>1
    <2>2. CASE v # w
        <3>1. work'[v] = work[v] /\ client'[v] = client[v] /\ pc'[v] = pc[v] /\ req'[v] = req[v]
            BY <1>1, <2>2
        <3> QED
            BY <3>1, PhaseKept
    <2> QED
        BY <2>1, <2>2
<1> QED
    BY <1>2, <1>3, <1>4, CustodyFrame

\* A collection begins with originals of its request.
LEMMA NewCollection ==
    ASSUME NEW w \in Worker, NEW s \in Stage, NEW r \in Request, NEW todo,
           todo # {}, todo \subseteq Sendable,
           work'[w] = Collection(s, r, todo), client'[w] # None,
           \A p \in todo : /\ p.req = r /\ (p \in Originals(JournalOf[w], r))'
                           /\ s = "PRE_DISPATCH" => p.kind = "admission_record"
    PROVE  Collection(s, r, todo) \in Works /\ InHand(w)'
<1>1. PICK c : c = Collection(s, r, todo)
    OBVIOUS
<1>2. c.stage = s /\ c.req = r /\ c.todo = todo /\ c.step = "collect" /\ c \in Works
    BY <1>1 DEF Collection, Works
<1>3. work'[w] = c
    BY <1>1
<1> QED
    BY <1>1, <1>2, <1>3 DEF InHand

\* What is left of a collection that no payment waits on is one again, or nothing.
LEMMA RestInHand ==
    ASSUME Below, Below', CustodyInv, [AuthNext]_allVars, NEW w \in Worker, Busy(w),
           work[w].stage # "PRE_DISPATCH", work'[w] = Rest(w), client'[w] = client[w],
           pc'[w] = pc[w]
    PROVE  Rest(w) \in Works \cup {None} /\ (Busy(w)' => Phase(w)' /\ InHand(w)')
<1>1. CASE Rest(w) = None
    BY <1>1 DEF Busy
<1>2. CASE Rest(w) # None
    <2>1. PICK c, todo : c = work[w] /\ todo = c.todo \ {Current(w)}
        OBVIOUS
    <2>2. c \in Works /\ Phase(w) /\ InHand(w)
        BY <2>1, CurrentHeld DEF CustodyInv, Collections
    <2>3. todo # {} /\ Rest(w) = Collection(c.stage, c.req, todo)
        BY <1>2, <2>1 DEF Rest
    <2>4. /\ c.stage \in Stage /\ c.req \in Request /\ todo \subseteq Sendable
          /\ c.stage # "PRE_DISPATCH" /\ client'[w] # None
        BY <2>1, <2>2 DEF Works, InHand
    <2>5. \A p \in todo : p.req = c.req /\ (p \in Originals(JournalOf[w], c.req))'
        <3>1. \A p \in todo : p.req = c.req /\ p \in Originals(JournalOf[w], c.req)
            BY <2>1, <2>2 DEF InHand
        <3> QED
            BY <2>4, <3>1, OriginalsKept
    <2>6. Rest(w) \in Works /\ InHand(w)'
        BY <2>3, <2>4, <2>5, NewCollection
    <2>7. work'[w].stage = c.stage /\ work'[w].step = "collect"
        BY <2>3 DEF Collection
    <2>8. Phase(w)'
        BY <2>1, <2>2, <2>4, <2>7 DEF Phase
    <2> QED
        BY <2>6, <2>8
<1> QED
    BY <1>1, <1>2

\* The owner of a claim turns to the collector with its admission record.
LEMMA BeforeInv ==
    ASSUME Below, Below', CustodyInv, [AuthNext]_allVars, NEW w \in Worker, Before(w)
    PROVE  CustodyInv'
<1>1. PICK j, r, pkg : /\ j = JournalOf[w] /\ r = req[w]
                       /\ pkg = Package(r, "admission_record", proofs[j][r])
    OBVIOUS
<1>2. /\ client[w] # None /\ pc[w] = "claimed" /\ Authorization(j, r) = "FOUND"
      /\ Set(w, Collection("PRE_DISPATCH", r, {pkg}))
      /\ UNCHANGED <<allVars, client, collectorVars, localVars>>
    BY <1>1 DEF Before
<1>3. r \in Request /\ j \in Journal
    BY <1>1, <1>2 DEF Below, TypeInv, CallOK
<1>4. pkg \in Originals(j, r)
    BY <1>1, <1>2, <1>3, OriginalsAre
<1>5. pkg \in Sendable /\ pkg.req = r /\ pkg.kind = "admission_record"
    BY <1>1, <1>3, <1>4, OriginalsSendable DEF Package
<1>6. (pkg \in Originals(j, r))'
    BY <1>3, <1>4, OriginalsKept
<1>7. work'[w] = Collection("PRE_DISPATCH", r, {pkg})
    BY <1>2 DEF Set, CustodyInv, CustodyType
<1>8. Collection("PRE_DISPATCH", r, {pkg}) \in Works /\ InHand(w)'
    BY <1>1, <1>2, <1>3, <1>5, <1>6, <1>7, NewCollection DEF Stage
<1>9. UNCHANGED <<pc, req>>
    BY <1>2 DEF allVars, vars
<1>10. Phase(w)'
    BY <1>1, <1>2, <1>7, <1>9 DEF Phase, Collection
<1>11. /\ late' \subseteq Sendable /\ UNCHANGED held
       /\ held' \in [Request -> [Kind -> Acknowledgement \cup {None}]]
    BY <1>2 DEF CustodyInv, CustodyType
<1> QED
    BY <1>2, <1>8, <1>9, <1>10, <1>11, CollectionStep

\* Evidence is collected again, whatever the journal holds of it.
LEMMA RecoverInv ==
    ASSUME Below, Below', CustodyInv, [AuthNext]_allVars,
           NEW w \in Worker, NEW r \in Request, Recover(w, r)
    PROVE  CustodyInv'
<1>1. PICK j, todo : j = JournalOf[w] /\ todo = Originals(j, r)
    OBVIOUS
<1>2. /\ client[w] # None /\ pc[w] = "idle" /\ todo # {}
      /\ Set(w, Collection("HISTORICAL_RECOVERY", r, todo))
      /\ UNCHANGED <<allVars, client, collectorVars, localVars>>
    BY <1>1 DEF Recover, Ready
<1>3. \A p \in todo : p \in Sendable /\ p.req = r
    BY <1>1, OriginalsSendable
<1>4. \A p \in todo : (p \in Originals(j, r))'
    BY <1>1, OriginalsKept
<1>5. work'[w] = Collection("HISTORICAL_RECOVERY", r, todo)
    BY <1>2 DEF Set, CustodyInv, CustodyType
<1>6. Collection("HISTORICAL_RECOVERY", r, todo) \in Works /\ InHand(w)'
    BY <1>1, <1>2, <1>3, <1>4, <1>5, NewCollection DEF Stage
<1>7. UNCHANGED <<pc, req>>
    BY <1>2 DEF allVars, vars
<1>8. Phase(w)'
    BY <1>2, <1>5, <1>7 DEF Phase, Collection
<1>9. /\ late' \subseteq Sendable /\ UNCHANGED held
      /\ held' \in [Request -> [Kind -> Acknowledgement \cup {None}]]
    BY <1>2 DEF CustodyInv, CustodyType
<1> QED
    BY <1>2, <1>6, <1>7, <1>8, <1>9, CollectionStep

\* The acknowledgement the collector's store holds is the one in hand from then on.
LEMMA CollectInv ==
    ASSUME Below, Below', CustodyInv, [AuthNext]_allVars,
           NEW w \in Worker, NEW p \in Collector, Collect(w, p)
    PROVE  CustodyInv'
<1>1. PICK c, q, ack, d : /\ c = work[w] /\ q = Current(w) /\ ack = held'[q.req][q.kind]
                          /\ d = [c EXCEPT !.step = "readback", !.ack = ack]
    OBVIOUS
<1>2. /\ Busy(w) /\ c.step = "collect" /\ Stored(p, q) /\ ack.epoch <= client[w]
      /\ Set(w, d)
      /\ UNCHANGED <<allVars, client, collector, cepoch, late, localVars>>
    BY <1>1 DEF Collect
<1>3. /\ c \in Works /\ q \in Sendable /\ q.req = c.req /\ Phase(w) /\ InHand(w)
      /\ JournalOf[w] \in Journal /\ c.req \in Request
    BY <1>1, <1>2, CurrentHeld DEF CustodyInv, Collections
<1>4. /\ held' \in [Request -> [Kind -> Acknowledgement \cup {None}]]
      /\ \A r \in Request, k \in Kind : held[r][k] # None => held'[r][k] = held[r][k]
      /\ ack \in Acknowledgement /\ ack.package = q
    BY <1>1, <1>2, <1>3, StoredHeld DEF CustodyInv
<1>5. /\ d \in Works /\ d.stage = c.stage /\ d.req = c.req /\ d.todo = c.todo
      /\ d.step = "readback" /\ d.ack = ack
    BY <1>1, <1>3, <1>4 DEF Works
<1>6. work'[w] = d
    BY <1>2 DEF Set, CustodyInv, CustodyType
<1>7. Current(w)' = q
    BY <1>1, <1>5, <1>6 DEF Current
<1>8. \A x \in c.todo : (x \in Originals(JournalOf[w], c.req))'
    BY <1>1, <1>3, OriginalsKept DEF InHand
<1>9. InHand(w)'
    <2>1. held'[c.req][q.kind] = ack /\ ack.epoch <= client'[w]
        BY <1>1, <1>2, <1>3
    <2>2. /\ client'[w] # None /\ c.todo # {}
          /\ \A x \in c.todo : x.req = c.req /\ (c.stage = "PRE_DISPATCH" => x.kind = "admission_record")
        BY <1>1, <1>2, <1>3 DEF InHand
    <2> QED
        BY <1>4, <1>5, <1>6, <1>7, <1>8, <2>1, <2>2 DEF InHand
<1>10. UNCHANGED <<pc, req>>
    BY <1>2 DEF allVars, vars
<1>11. Phase(w)'
    BY <1>1, <1>2, <1>3, <1>5, <1>6, <1>10 DEF Phase
<1>12. late' \subseteq Sendable
    BY <1>2 DEF CustodyInv, CustodyType
<1> QED
    BY <1>2, <1>4, <1>5, <1>9, <1>10, <1>11, <1>12, CollectionStep

\* The readback changes nothing in hand.
LEMMA ReadBackInv ==
    ASSUME Below, Below', CustodyInv, [AuthNext]_allVars,
           NEW w \in Worker, NEW p \in Collector, ReadBack(w, p)
    PROVE  CustodyInv'
<1>1. PICK c, d : c = work[w] /\ d = [c EXCEPT !.step = "persist"]
    OBVIOUS
<1>2. /\ Busy(w) /\ c.step = "readback" /\ Set(w, d)
      /\ UNCHANGED <<allVars, client, collectorVars, localVars>>
    BY <1>1 DEF ReadBack, Step
<1>3. /\ c \in Works /\ Phase(w) /\ InHand(w) /\ JournalOf[w] \in Journal /\ c.req \in Request
    BY <1>1, <1>2, CurrentHeld DEF CustodyInv, Collections
<1>4. /\ d \in Works /\ d.stage = c.stage /\ d.req = c.req /\ d.todo = c.todo
      /\ d.step = "persist" /\ d.ack = c.ack
    BY <1>1, <1>3 DEF Works
<1>5. work'[w] = d
    BY <1>2 DEF Set, CustodyInv, CustodyType
<1>6. Current(w)' = Current(w)
    BY <1>1, <1>4, <1>5 DEF Current
<1>7. \A x \in c.todo : (x \in Originals(JournalOf[w], c.req))'
    BY <1>1, <1>3, OriginalsKept DEF InHand
<1>8. InHand(w)'
    BY <1>1, <1>2, <1>3, <1>4, <1>5, <1>6, <1>7 DEF InHand
<1>9. UNCHANGED <<pc, req>>
    BY <1>2 DEF allVars, vars
<1>10. Phase(w)'
    BY <1>1, <1>2, <1>3, <1>4, <1>5, <1>9 DEF Phase
<1>11. /\ late' \subseteq Sendable /\ UNCHANGED held
       /\ held' \in [Request -> [Kind -> Acknowledgement \cup {None}]]
    BY <1>2 DEF CustodyInv, CustodyType
<1> QED
    BY <1>2, <1>4, <1>8, <1>9, <1>10, <1>11, CollectionStep

\* What is recorded as kept is what the collector's store holds and the journal shows, and
\* the marker of a prerequisite is one of those records.
LEMMA PersistInv ==
    ASSUME Below, Below', CustodyInv, [AuthNext]_allVars, NEW w \in Worker, Persist(w)
    PROVE  CustodyInv'
<1>1. PICK j, r, c, q, obs : /\ j = JournalOf[w] /\ c = work[w] /\ r = c.req /\ q = Current(w)
                             /\ obs = Observation(w)
    OBVIOUS
<1>2. /\ Busy(w) /\ c.step = "persist" /\ cusEpoch[j] = client[w]
      /\ observations' = [observations EXCEPT ![j] = @ \cup {obs}]
      /\ UNCHANGED <<allVars, client, collector, cepoch, held, late, cusEpoch>>
    BY <1>1 DEF Persist, Record
<1>3. /\ c \in Works /\ r \in Request /\ j \in Journal /\ client[w] \in Epoch
      /\ q \in Sendable /\ q.req = r /\ q.kind \in Kind /\ q \in c.todo /\ q \in Originals(j, r)
      /\ Phase(w) /\ InHand(w)
    BY <1>1, <1>2, CurrentHeld DEF CustodyInv, Collections
<1>4. /\ c.ack \in Acknowledgement /\ c.ack.package = q /\ held[r][q.kind] = c.ack
      /\ c.ack.epoch <= client[w]
    BY <1>1, <1>2, <1>3 DEF InHand
<1>5. /\ obs \in Observable /\ obs.package = q /\ obs.ack = c.ack /\ obs.epoch = client[w]
    <2>1. c.stage \in Stage
        BY <1>3 DEF Works
    <2> QED
        BY <1>1, <1>3, <1>4, <2>1 DEF Observation, Observable
<1>6. obs # None
    BY <1>5
<1>7. \A i \in Journal, x \in Request : \A p :
          p \in Originals(i, x) => (p \in Originals(i, x))'
    BY OriginalsKept
<1>8. /\ UNCHANGED <<pc, req>>
      /\ \A x \in Request, k \in Kind : held[x][k] # None => held'[x][k] = held[x][k]
    BY <1>2 DEF allVars, vars
<1>9. /\ observations \in [Journal -> SUBSET Observable]
      /\ marker \in [Journal -> [Request -> Observable \cup {None}]]
      /\ work \in [Worker -> Works \cup {None}]
      /\ cusEpoch \in [Journal -> Epoch \cup {None}]
    BY DEF CustodyInv, CustodyType
<1>10. \A v \in Worker \ {w} : work'[v] = work[v]
    BY <1>9 DEF Persist, Set, Step
<1>11. /\ marker' \in [Journal -> [Request -> Observable \cup {None}]]
       /\ \A i \in Journal, x \in Request :
            /\ marker[i][x] # None => marker'[i][x] = marker[i][x]
            /\ marker'[i][x] # marker[i][x] =>
                 i = j /\ x = r /\ marker'[i][x] = obs /\ c.stage = "PRE_DISPATCH"
       /\ c.stage = "PRE_DISPATCH" => marker'[j][r] = obs
    <2>1. CASE c.stage = "PRE_DISPATCH"
        <3>1. marker' = [marker EXCEPT ![j][r] = obs] /\ marker[j][r] = None
            BY <1>1, <2>1 DEF Persist
        <3> QED
            BY <1>3, <1>5, <1>9, <2>1, <3>1
    <2>2. CASE c.stage # "PRE_DISPATCH"
        <3>1. marker' = marker
            BY <1>1, <2>2 DEF Persist
        <3> QED
            BY <1>9, <2>2, <3>1
    <2> QED
        BY <2>1, <2>2
<1>12. (work'[w] \in Works \cup {None}) /\ (Busy(w)' => Phase(w)' /\ InHand(w)')
    <2>1. CASE c.stage = "PRE_DISPATCH"
        <3>1. PICK d : d = [c EXCEPT !.step = "done"]
            OBVIOUS
        <3>2. /\ d \in Works /\ d.stage = c.stage /\ d.req = r /\ d.todo = c.todo
              /\ d.step = "done"
            BY <1>1, <1>3, <3>1 DEF Works
        <3>3. work'[w] = d
            BY <1>1, <1>9, <2>1, <3>1 DEF Persist, Set, Step
        <3>4. \A x \in c.todo : (x \in Originals(j, r))'
            BY <1>1, <1>3, <1>7 DEF InHand
        <3>5. marker'[j][r] # None
            BY <1>6, <1>11, <2>1
        <3>6. InHand(w)'
            BY <1>1, <1>2, <1>3, <3>2, <3>3, <3>4, <3>5 DEF InHand
        <3>7. Phase(w)'
            BY <1>1, <1>3, <1>8, <2>1, <3>2, <3>3 DEF Phase
        <3> QED
            BY <3>2, <3>3, <3>6, <3>7
    <2>2. CASE c.stage # "PRE_DISPATCH"
        <3>1. work'[w] = Rest(w)
            BY <1>1, <1>9, <2>2 DEF Persist, Set
        <3>2. client'[w] = client[w] /\ pc'[w] = pc[w]
            BY <1>2, <1>8
        <3> QED
            BY <1>1, <1>2, <2>2, <3>1, <3>2, RestInHand
    <2> QED
        BY <2>1, <2>2
<1>13. CustodyType'
    <2>1. observations' \in [Journal -> SUBSET Observable]
        BY <1>2, <1>5, <1>9
    <2>2. work' \in [Worker -> Works \cup {None}]
        <3>1. \E x : work' = [work EXCEPT ![w] = x]
            BY DEF Persist, Set, Step
        <3> QED
            BY <1>9, <1>12, <3>1
    <2> QED
        BY <1>2, <1>11, <2>1, <2>2 DEF CustodyInv, CustodyType
<1>14. Collections'
    <2> SUFFICES ASSUME NEW v \in Worker, Busy(v)'
                 PROVE  Phase(v)' /\ InHand(v)'
        BY DEF Collections
    <2>1. CASE v = w
        BY <1>12, <2>1
    <2>2. CASE v # w
        <3>1. /\ work'[v] = work[v] /\ client'[v] = client[v]
              /\ pc'[v] = pc[v] /\ req'[v] = req[v] /\ Busy(v)
            BY <1>2, <1>8, <1>10, <2>2 DEF Busy
        <3>2. Phase(v)'
            BY <3>1, PhaseKept
        <3>3. InHand(v)'
            BY <1>7, <1>8, <1>11, <3>1, InHandKept
        <3> QED
            BY <3>2, <3>3
    <2> QED
        BY <2>1, <2>2
<1>15. Observations'
    <2> SUFFICES ASSUME NEW i \in Journal, NEW o \in observations'[i]
                 PROVE  Observed(i, o)'
        BY DEF Observations
    <2>1. CASE o \in observations[i]
        <3>1. cusEpoch' = cusEpoch /\ cusEpoch'[i] \in Epoch \cup {None}
            BY <1>2, <1>9
        <3>2. cusEpoch[i] # None => cusEpoch'[i] # None /\ cusEpoch[i] <= cusEpoch'[i]
            BY <3>1, EpochOrder
        <3> QED
            BY <1>7, <1>8, <2>1, <3>1, <3>2, ObservedKept
    <2>2. CASE o \notin observations[i]
        <3>1. i = j /\ o = obs
            BY <1>2, <1>3, <1>9, <2>2
        <3>2. held'[r][q.kind] = obs.ack /\ (q \in Originals(j, r))'
            BY <1>2, <1>3, <1>4, <1>5, <1>7
        <3>3. cusEpoch'[j] = client[w] /\ client[w] # None /\ client[w] <= client[w]
            BY <1>2, <1>3, EpochOrder
        <3> QED
            BY <1>3, <1>4, <1>5, <3>1, <3>2, <3>3 DEF Observed
    <2> QED
        BY <2>1, <2>2
<1>16. Markers'
    <2> SUFFICES ASSUME NEW i \in Journal, NEW x \in Request, marker'[i][x] # None
                 PROVE  /\ marker'[i][x] \in observations'[i]
                        /\ marker'[i][x].package.req = x
                        /\ marker'[i][x].package.kind = "admission_record"
        BY DEF Markers
    <2>1. CASE marker'[i][x] = marker[i][x]
        <3>1. /\ marker[i][x] \in observations[i] /\ marker[i][x].package.req = x
              /\ marker[i][x].package.kind = "admission_record"
            BY <2>1 DEF CustodyInv, Markers
        <3>2. observations[i] \subseteq observations'[i]
            BY <1>2, <1>9
        <3> QED
            BY <2>1, <3>1, <3>2
    <2>2. CASE marker'[i][x] # marker[i][x]
        <3>1. i = j /\ x = r /\ marker'[i][x] = obs /\ c.stage = "PRE_DISPATCH"
            BY <1>11, <2>2
        <3>2. q.kind = "admission_record"
            BY <1>1, <1>3, <3>1 DEF InHand
        <3>3. obs \in observations'[j]
            BY <1>2, <1>3, <1>9
        <3> QED
            BY <1>3, <1>5, <3>1, <3>2, <3>3
    <2> QED
        BY <2>1, <2>2
<1> QED
    BY <1>13, <1>14, <1>15, <1>16 DEF CustodyInv

\* A step of the layers below ends a collection, or leaves every collection as it is.
LEMMA CollectionEnds ==
    ASSUME Below, Below', CustodyInv, [AuthNext]_allVars, NEW w \in Worker, Set(w, None),
           UNCHANGED <<client, collector, cepoch, held, cusEpoch, observations, marker>>,
           late' \subseteq Sendable,
           \A v \in Worker \ {w} : pc'[v] = pc[v] /\ req'[v] = req[v]
    PROVE  CustodyInv'
<1>1. /\ held' \in [Request -> [Kind -> Acknowledgement \cup {None}]]
      /\ \A r \in Request, k \in Kind : held[r][k] # None => held'[r][k] = held[r][k]
    BY DEF CustodyInv, CustodyType
<1> QED
    BY <1>1, CollectionStep

\* A call that goes on is no other adapter's.
LEMMA ContinueLocal ==
    ASSUME TypeInv, NEW w \in Worker, Continue(w)
    PROVE  \A v \in Worker \ {w} : pc'[v] = pc[v] /\ req'[v] = req[v]
<1>1. pc \in [Worker -> {"idle", "claimed", "posted", "lookup", "verified", "retain"}]
      /\ req \in [Worker -> Request \cup {None}]
    BY DEF TypeInv, TypeOK
<1>2. (\E v : Return(w, v)) \/ (\E l : Goto(w, l)) \/ (\E v : Answer(w, v))
    BY DEF Continue, Post, Interrupted, StoreReceipt, RetainUnknown, Lookup
<1> QED
    BY <1>1, <1>2 DEF Return, Goto, Answer

\* A collection that fails ends, or goes on to its next package.
LEMMA FailsInv ==
    ASSUME Below, Below', CustodyInv, [AuthNext]_allVars, NEW w \in Worker, CustodyFails(w)
    PROVE  CustodyInv'
<1>1. /\ Busy(w) /\ late' \subseteq Sendable
      /\ UNCHANGED <<client, collector, cepoch, held, cusEpoch, observations, marker>>
    BY LeftSendable DEF CustodyFails
<1>2. CASE work[w].stage = "PRE_DISPATCH"
    <2>1. Interrupted(w) /\ Set(w, None)
        BY <1>2 DEF CustodyFails
    <2>2. \A v \in Worker \ {w} : pc'[v] = pc[v] /\ req'[v] = req[v]
        BY <2>1, ContinueLocal DEF Continue, Below
    <2> QED
        BY <1>1, <2>1, <2>2, CollectionEnds
<1>3. CASE work[w].stage # "PRE_DISPATCH"
    <2>1. UNCHANGED <<pc, req>> /\ Set(w, Rest(w))
        BY <1>3 DEF CustodyFails, vars
    <2>2. work'[w] = Rest(w)
        BY <2>1 DEF Set, CustodyInv, CustodyType
    <2>3. Rest(w) \in Works \cup {None} /\ (Rest(w) # None => Phase(w)' /\ InHand(w)')
        BY <1>1, <1>3, <2>1, <2>2, RestInHand DEF Busy
    <2>4. /\ held' \in [Request -> [Kind -> Acknowledgement \cup {None}]]
          /\ \A r \in Request, k \in Kind : held[r][k] # None => held'[r][k] = held[r][k]
        BY <1>1 DEF CustodyInv, CustodyType
    <2> QED
        BY <1>1, <2>1, <2>3, <2>4, CollectionStep
<1> QED
    BY <1>2, <1>3

\* A collecting adapter whose call is past its claim has its prerequisite done.
LEMMA PastTheClaim ==
    ASSUME CustodyInv, NEW w \in Worker, Busy(w), pc[w] # "idle"
    PROVE  /\ work[w].stage = "PRE_DISPATCH" /\ req[w] = work[w].req
           /\ pc[w] # "claimed" => work[w].step = "done"
<1>1. Phase(w)
    BY DEF CustodyInv, Collections
<1> QED
    BY <1>1 DEF Phase

\* A call goes on, and nobody collects anything in that step.
LEMMA CallGoesOn ==
    ASSUME Below, Below', CustodyInv, [AuthNext]_allVars, NEW w \in Worker,
           UNCHANGED custodyVars, pc[w] # "idle", pc'[w] # "idle", req'[w] = req[w],
           Busy(w) => pc[w] # "claimed" \/ work[w].step = "done",
           \A v \in Worker \ {w} : pc'[v] = pc[v] /\ req'[v] = req[v]
    PROVE  CustodyInv'
<1> SUFFICES ASSUME NEW v \in Worker, Busy(v) PROVE Phase(v)'
    BY BelowOnly
<1>1. Busy(v)' /\ work'[v] = work[v]
    BY DEF Busy
<1>2. CASE v = w
    <2>1. work[w].stage = "PRE_DISPATCH" /\ req[w] = work[w].req /\ work[w].step = "done"
        BY <1>2, PastTheClaim
    <2> QED
        BY <1>1, <1>2, <2>1 DEF Phase
<1>3. CASE v # w
    BY <1>1, <1>3, PhaseKept
<1> QED
    BY <1>2, <1>3

\* A receipt that was stored is collected next.
LEMMA ReceiptInv ==
    ASSUME Below, Below', CustodyInv, [AuthNext]_allVars, NEW w \in Worker, StoreAndCollect(w),
           UNCHANGED <<client, collectorVars, localVars>>
    PROVE  CustodyInv'
<1>1. StoreReceipt(w) /\ pc[w] = "verified"
    BY DEF StoreAndCollect, StoreReceipt
<1>2. \A v \in Worker \ {w} : pc'[v] = pc[v] /\ req'[v] = req[v]
    BY <1>1, ContinueLocal DEF Continue, Below
<1>3. /\ late' \subseteq Sendable
      /\ held' \in [Request -> [Kind -> Acknowledgement \cup {None}]]
      /\ \A r \in Request, k \in Kind : held[r][k] # None => held'[r][k] = held[r][k]
    BY DEF CustodyInv, CustodyType
<1>4. CASE Busy(w) /\ pc'[w] = "idle"
    <2>1. PICK j, r, rc, pkg : /\ j = JournalOf[w] /\ r = req[w] /\ rc = reply[w]
                               /\ pkg = Package(r, "provider_receipt", rc)
        OBVIOUS
    <2>2. j \in Journal /\ r \in Request /\ rc \in Receipt
        BY <1>1, <2>1 DEF Below, TypeInv, CallOK
    <2>3. dispatches'[j][r] = rc
        <3>1. ~ Goto(w, "retain")
            BY <1>4 DEF Goto, Below, TypeInv, TypeOK
        <3>2. dispatches' = [dispatches EXCEPT ![j][r] = rc]
            BY <1>1, <2>1, <3>1 DEF StoreReceipt
        <3> QED
            BY <2>2, <3>2 DEF Below, TypeInv, TypeOK
    <2>4. (pkg \in Originals(j, r))'
        BY <2>1, <2>2, <2>3 DEF Originals
    <2>5. pkg \in Sendable /\ pkg.req = r
        BY <2>1, <2>2 DEF Package, Sendable, Kind
    <2>6. Set(w, Collection("POST_EFFECT", r, {pkg}))
        BY <1>4, <2>1 DEF StoreAndCollect
    <2>7. work'[w] = Collection("POST_EFFECT", r, {pkg})
        BY <2>6 DEF Set, CustodyInv, CustodyType
    <2>8. client'[w] # None
        BY <1>4 DEF CustodyInv, Collections, InHand
    <2>9. Collection("POST_EFFECT", r, {pkg}) \in Works /\ InHand(w)'
        BY <2>1, <2>2, <2>4, <2>5, <2>7, <2>8, NewCollection DEF Stage
    <2>10. Phase(w)'
        BY <1>4, <2>7 DEF Phase, Collection
    <2> QED
        BY <1>2, <1>3, <2>6, <2>9, <2>10, CollectionStep
<1>5. CASE ~ (Busy(w) /\ pc'[w] = "idle")
    <2>1. UNCHANGED custodyVars
        BY <1>5 DEF StoreAndCollect
    <2>2. CASE ~ Busy(w)
        <3> SUFFICES ASSUME NEW v \in Worker, Busy(v) PROVE Phase(v)'
            BY <2>1, BelowOnly
        <3>1. v # w /\ Busy(v)' /\ work'[v] = work[v]
            BY <2>1, <2>2 DEF Busy
        <3> QED
            BY <1>2, <3>1, PhaseKept
    <2>3. CASE Busy(w)
        <3>1. pc'[w] # "idle"
            BY <1>5, <2>3
        <3>2. ~ (\E v : Return(w, v))
            BY <3>1 DEF Return, Below, TypeInv, TypeOK
        <3>3. req'[w] = req[w]
            BY <1>1, <3>2 DEF StoreReceipt, Goto
        <3> QED
            BY <1>1, <1>2, <2>1, <3>1, <3>3, CallGoesOn
    <2> QED
        BY <2>2, <2>3
<1> QED
    BY <1>4, <1>5

\* A call goes on only past its own prerequisite.
LEMMA ContinueInv ==
    ASSUME Below, Below', CustodyInv, [AuthNext]_allVars, NEW w \in Worker, CustodyContinue(w)
    PROVE  CustodyInv'
<1>1. UNCHANGED <<client, collectorVars, localVars>> /\ late' \subseteq Sendable
    BY DEF CustodyContinue, CustodyInv, CustodyType
<1>2. ASSUME Continue(w)
      PROVE  \A v \in Worker \ {w} : pc'[v] = pc[v] /\ req'[v] = req[v]
    BY <1>2, ContinueLocal DEF Below
<1>3. CASE Post(w) /\ (client[w] # None => Busy(w) /\ work[w].step = "done") /\ UNCHANGED work
    <2>1. pc[w] = "claimed" /\ pc'[w] = "posted" /\ req'[w] = req[w]
        BY <1>3 DEF Post, Goto, Below, TypeInv, TypeOK
    <2>2. Busy(w) => work[w].step = "done"
        BY <1>3 DEF CustodyInv, Collections, InHand
    <2>3. Continue(w)
        BY <1>3 DEF Continue
    <2>4. UNCHANGED custodyVars
        BY <1>1, <1>3
    <2> QED
        BY <1>2, <2>1, <2>2, <2>3, <2>4, CallGoesOn
<1>4. CASE (Interrupted(w) \/ RetainUnknown(w)) /\ Set(w, None)
    <2>1. Continue(w)
        BY <1>4 DEF Continue
    <2> QED
        BY <1>1, <1>2, <1>4, <2>1, CollectionEnds
<1>5. CASE StoreAndCollect(w)
    BY <1>1, <1>5, ReceiptInv
<1>6. CASE (\E p \in Provider : Lookup(w, p)) /\ UNCHANGED work
    <2>1. pc[w] = "lookup" /\ pc'[w] \in {"verified", "retain"} /\ req'[w] = req[w]
        BY <1>6 DEF Lookup, Answer, Below, TypeInv, TypeOK
    <2>2. Continue(w)
        BY <1>6 DEF Continue
    <2>3. UNCHANGED custodyVars
        BY <1>1, <1>6
    <2> QED
        BY <1>2, <2>1, <2>2, <2>3, CallGoesOn
<1> QED
    BY <1>3, <1>4, <1>5, <1>6 DEF CustodyContinue

\* Every step of the custody layer keeps its invariant.
LEMMA CustodyInvStep ==
    ASSUME Below, Below', CustodyInv, [CustodyNext]_fullVars
    PROVE  CustodyInv'
<1>0. [AuthNext]_allVars
    BY CustodyStep
<1>1. ASSUME NEW w \in Worker, NEW r \in Request, AuthCall(w, r), ~ Busy(w), UNCHANGED custodyVars
      PROVE  CustodyInv'
    BY <1>0, <1>1, CallInv
<1>2. CASE Network /\ UNCHANGED custodyVars
    BY <1>0, <1>2, NetworkInv
<1>3. ASSUME NEW t \in Time, SetClock(t), UNCHANGED custodyVars
      PROVE  CustodyInv'
    <2>1. UNCHANGED <<custodyVars, pc, req>>
        BY <1>3 DEF SetClock, vars
    <2> QED
        BY <1>0, <2>1, CallsApart
<1>4. CASE CustodyLifecycle
    BY <1>0, <1>4, LifecycleInv
<1>5. ASSUME NEW w \in Worker,
             \/ \E e \in Epoch : Wrap(w, e)
             \/ \E r \in Request : Recover(w, r)
             \/ \E p \in Collector : Collect(w, p) \/ ReadBack(w, p)
             \/ Before(w) \/ Persist(w) \/ CustodyFails(w) \/ CustodyContinue(w)
      PROVE  CustodyInv'
    BY <1>0, <1>5, WrapInv, RecoverInv, CollectInv, ReadBackInv, BeforeInv, PersistInv, FailsInv,
       ContinueInv
<1>6. ASSUME NEW p \in Collector,
             \/ \E e \in Epoch : StartCollector(p, e)
             \/ CrashCollector(p)
             \/ \E pkg \in late : LateCollect(p, pkg)
      PROVE  CustodyInv'
    BY <1>0, <1>6, CollectorInv
<1>7. CASE UNCHANGED fullVars
    <2>1. UNCHANGED <<custodyVars, pc, req>>
        BY <1>7 DEF fullVars, allVars, vars
    <2> QED
        BY <1>0, <2>1, CallsApart
<1> QED
    BY <1>1, <1>2, <1>3, <1>4, <1>5, <1>6, <1>7 DEF CustodyNext

\* The invariant of the custody layer holds, with those of the layers it refines.
LEMMA CustodyInvariance == CustodySpec => [](Below /\ CustodyInv)
<1>1. CustodySpec => []Below
    BY CustodyRefines, AuthInvariance, PTL DEF Below, RefinesAuth
<1> QED
    BY <1>1, CustodyInvInit, CustodyInvStep, PTL DEF CustodySpec

-----------------------------------------------------------------------------
(* What custody promises.                                                   *)

\* Whatever a journal has recorded as kept, the collector's store still holds, with the
\* same acknowledgement, and it is the journal's own original.
THEOREM ObservationsStay == CustodySpec => []ObservationsHeld
<1>1. CustodyInv => ObservationsHeld
    BY DEF CustodyInv, Observations, Observed, ObservationsHeld
<1> QED
    BY <1>1, CustodyInvariance, PTL

\* A marker once written verifies for every wrapper at the journal's epoch.
LEMMA MarkersVerify ==
    ASSUME CustodyInv
    PROVE  VerifiedForGood
<1> SUFFICES ASSUME NEW w \in Worker, NEW r \in Request,
                    client[w] # None, client[w] = cusEpoch[JournalOf[w]],
                    marker[JournalOf[w]][r] # None
             PROVE  PreDispatch(w, r) = "VERIFIED_PREREQUISITE"
    BY DEF VerifiedForGood
<1>1. PICK j, m : j = JournalOf[w] /\ m = marker[j][r]
    OBVIOUS
<1>2. j \in Journal /\ m \in observations[j]
    BY <1>1 DEF CustodyInv, Markers
<1>3. Observed(j, m)
    BY <1>2 DEF CustodyInv, Observations
<1>4. VerifiedLocal(w, m)
    BY <1>1, <1>3 DEF Observed, VerifiedLocal
<1> QED
    BY <1>1, <1>4 DEF PreDispatch

\* A recorded prerequisite is reported as verified for good: no crash, restart, epoch
\* change or later collection makes it unknown again.
THEOREM PrerequisitesVerify == CustodySpec => []VerifiedForGood
BY MarkersVerify, CustodyInvariance, PTL

\* Only the transaction of an open call's prerequisite writes a marker.
LEMMA MarkerWritten ==
    ASSUME CustodyInv, CustodyNext, NEW j \in Journal, NEW r \in Request,
           marker[j][r] = None, marker'[j][r] # None
    PROVE  \E w \in Worker : /\ JournalOf[w] = j /\ Busy(w) /\ work[w].step = "persist"
                             /\ work[w].stage = "PRE_DISPATCH" /\ work[w].req = r
                             /\ dispatches[j][r] = Claimed
<1>1. marker \in [Journal -> [Request -> Observable \cup {None}]]
    BY DEF CustodyInv, CustodyType
<1>2. ASSUME NEW w \in Worker, Persist(w)
      PROVE  /\ JournalOf[w] = j /\ Busy(w) /\ work[w].step = "persist"
             /\ work[w].stage = "PRE_DISPATCH" /\ work[w].req = r
             /\ dispatches[j][r] = Claimed
    <2>1. work[w].stage = "PRE_DISPATCH"
        BY <1>2 DEF Persist
    <2>2. PICK i, q : i = JournalOf[w] /\ q = work[w].req
        OBVIOUS
    <2>3. dispatches[i][q] = Claimed /\ marker' = [marker EXCEPT ![i][q] = Observation(w)]
        BY <1>2, <2>1, <2>2 DEF Persist
    <2>4. i = j /\ q = r
        BY <1>1, <2>3
    <2> QED
        BY <1>2, <2>1, <2>2, <2>3, <2>4 DEF Persist
<1>3. \A w \in Worker : CustodyFails(w) \/ CustodyContinue(w) => UNCHANGED marker
    BY DEF CustodyFails, CustodyContinue
<1>4. CustodyLifecycle => UNCHANGED marker
    BY DEF CustodyLifecycle
<1>5. \A w \in Worker :
        \/ \E e \in Epoch : Wrap(w, e)
        \/ \E q \in Request : Recover(w, q)
        \/ \E p \in Collector : Collect(w, p) \/ ReadBack(w, p)
        \/ Before(w)
        => UNCHANGED marker
    BY DEF Wrap, Recover, Collect, ReadBack, Before
<1>6. \A p \in Collector :
        \/ \E e \in Epoch : StartCollector(p, e)
        \/ CrashCollector(p)
        \/ \E pkg \in late : LateCollect(p, pkg)
        => UNCHANGED marker
    BY DEF StartCollector, CrashCollector, LateCollect
<1>7. CustodyNext => (\E w \in Worker : Persist(w)) \/ UNCHANGED marker
    BY <1>3, <1>4, <1>5, <1>6 DEF CustodyNext
<1> QED
    BY <1>2, <1>7

\* The marker says "before the POST" and never lies: it enters while its claim is open
\* and unspent, by the owner of the claim.
THEOREM MarkersPrecedePosts == CustodySpec => MarkedBeforeSend
<1>1. ASSUME Below, CustodyInv, CustodyNext, NEW j \in Journal, NEW r \in Request,
             marker[j][r] = None, marker'[j][r] # None
      PROVE  /\ dispatches[j][r] = Claimed /\ sent[j][r] = 0
             /\ \E w \in Worker : JournalOf[w] = j /\ pc[w] = "claimed" /\ req[w] = r
    <2>1. PICK w \in Worker : /\ JournalOf[w] = j /\ Busy(w) /\ work[w].step = "persist"
                              /\ work[w].stage = "PRE_DISPATCH" /\ work[w].req = r
                              /\ dispatches[j][r] = Claimed
        BY <1>1, MarkerWritten
    <2>2. pc[w] = "claimed" /\ req[w] = r
        BY <1>1, <2>1 DEF CustodyInv, Collections, Phase
    <2>3. sent[j][r] = 0
        BY <1>1, <2>1, <2>2 DEF Below, SafetyInv, ClaimUnspent
    <2> QED
        BY <2>1, <2>2, <2>3
<1>2. Below /\ CustodyInv /\ [CustodyNext]_fullVars =>
        [\A j \in Journal, r \in Request :
            marker[j][r] = None /\ marker'[j][r] # None =>
                /\ dispatches[j][r] = Claimed /\ sent[j][r] = 0
                /\ \E w \in Worker : JournalOf[w] = j /\ pc[w] = "claimed" /\ req[w] = r]_fullVars
    BY <1>1
<1> QED
    BY <1>2, CustodyInvariance, PTL DEF CustodySpec, MarkedBeforeSend

\* Only a transaction of the collection in hand adds to what a journal has observed.
LEMMA ObservationRecorded ==
    ASSUME CustodyInv, CustodyNext, NEW j \in Journal, NEW obs \in observations'[j],
           obs \notin observations[j]
    PROVE  \E w \in Worker : JournalOf[w] = j /\ Persist(w) /\ obs = Observation(w)
<1>1. observations \in [Journal -> SUBSET Observable]
    BY DEF CustodyInv, CustodyType
<1>2. ASSUME NEW w \in Worker, Persist(w)
      PROVE  JournalOf[w] = j /\ obs = Observation(w)
    <2>1. observations' = [observations EXCEPT ![JournalOf[w]] = @ \cup {Observation(w)}]
        BY <1>2 DEF Persist, Record
    <2> QED
        BY <1>1, <2>1
<1>3. \A w \in Worker : CustodyFails(w) \/ CustodyContinue(w) => UNCHANGED observations
    BY DEF CustodyFails, CustodyContinue, localVars
<1>4. CustodyLifecycle => UNCHANGED observations
    BY DEF CustodyLifecycle, custodyVars, localVars
<1>5. \A w \in Worker :
        \/ \E e \in Epoch : Wrap(w, e)
        \/ \E q \in Request : Recover(w, q)
        \/ \E p \in Collector : Collect(w, p) \/ ReadBack(w, p)
        \/ Before(w)
        => UNCHANGED observations
    BY DEF Wrap, Recover, Collect, ReadBack, Before, localVars
<1>6. \A p \in Collector :
        \/ \E e \in Epoch : StartCollector(p, e)
        \/ CrashCollector(p)
        \/ \E pkg \in late : LateCollect(p, pkg)
        => UNCHANGED observations
    BY DEF StartCollector, CrashCollector, LateCollect, localVars
<1>7. CustodyNext => (\E w \in Worker : Persist(w)) \/ UNCHANGED observations
    BY <1>3, <1>4, <1>5, <1>6 DEF CustodyNext, custodyVars, localVars
<1> QED
    BY <1>2, <1>7

\* A wrapper only ever moves the epoch of its journal on.
LEMMA EpochMovesOn ==
    ASSUME CustodyInv, CustodyNext, NEW j \in Journal, cusEpoch[j] # None
    PROVE  cusEpoch[j] \in Nat /\ cusEpoch'[j] >= cusEpoch[j]
<1>1. cusEpoch \in [Journal -> Epoch \cup {None}] /\ cusEpoch[j] \in Nat
    BY DEF CustodyInv, CustodyType
<1>2. CASE UNCHANGED cusEpoch
    BY <1>1, <1>2
<1>3. ASSUME NEW w \in Worker, NEW e \in Epoch, Wrap(w, e)
      PROVE  cusEpoch'[j] >= cusEpoch[j]
    <2>1. NotBehind(cusEpoch[JournalOf[w]], e)
          /\ cusEpoch' = [cusEpoch EXCEPT ![JournalOf[w]] = e]
        BY <1>3 DEF Wrap
    <2>2. CASE JournalOf[w] = j
        BY <1>1, <2>1, <2>2 DEF NotBehind
    <2>3. CASE JournalOf[w] # j
        BY <1>1, <2>1, <2>3
    <2> QED
        BY <2>2, <2>3
<1>4. \A w \in Worker : CustodyFails(w) \/ CustodyContinue(w) \/ Persist(w) => UNCHANGED cusEpoch
    BY DEF CustodyFails, CustodyContinue, Persist, localVars
<1>5. CustodyLifecycle => UNCHANGED cusEpoch
    BY DEF CustodyLifecycle, custodyVars, localVars
<1>6. \A w \in Worker :
        \/ \E q \in Request : Recover(w, q)
        \/ \E p \in Collector : Collect(w, p) \/ ReadBack(w, p)
        \/ Before(w)
        => UNCHANGED cusEpoch
    BY DEF Recover, Collect, ReadBack, Before, localVars
<1>7. \A p \in Collector :
        \/ \E e \in Epoch : StartCollector(p, e)
        \/ CrashCollector(p)
        \/ \E pkg \in late : LateCollect(p, pkg)
        => UNCHANGED cusEpoch
    BY DEF StartCollector, CrashCollector, LateCollect, localVars
<1>8. (\E w \in Worker, e \in Epoch : Wrap(w, e)) \/ UNCHANGED cusEpoch
    BY <1>4, <1>5, <1>6, <1>7 DEF CustodyNext, custodyVars, localVars
<1> QED
    BY <1>1, <1>2, <1>3, <1>8

\* No older wrapper takes a journal back, and what one began is fenced out of the journal,
\* so what a journal has under an epoch is complete once a newer one took over.
THEOREM PastEpochsAreClosed == CustodySpec => PastEpochsClosed
<1>1. ASSUME CustodyInv, CustodyNext, NEW j \in Journal, cusEpoch[j] # None,
             NEW obs \in observations'[j], obs.epoch < cusEpoch[j], obs \notin observations[j]
      PROVE  FALSE
    <2>1. PICK w \in Worker : JournalOf[w] = j /\ Persist(w) /\ obs = Observation(w)
        BY <1>1, ObservationRecorded
    <2>2. obs.epoch = cusEpoch[j]
        BY <2>1 DEF Persist, Observation
    <2>3. cusEpoch[j] \in Nat
        BY <1>1, EpochMovesOn
    <2> QED
        BY <1>1, <2>2, <2>3
<1>2. CustodyInv /\ [CustodyNext]_fullVars =>
        [\A j \in Journal :
            cusEpoch[j] # None =>
                /\ cusEpoch'[j] >= cusEpoch[j]
                /\ \A obs \in observations'[j] :
                     obs.epoch < cusEpoch[j] => obs \in observations[j]]_fullVars
    BY <1>1, EpochMovesOn
<1> QED
    BY <1>2, CustodyInvariance, PTL DEF CustodySpec, PastEpochsClosed

\* A call moves from its claim to the POST in one step of its own.
LEMMA PostsAlone ==
    ASSUME TypeInv, CustodyNext, NEW w \in Worker, pc[w] = "claimed", pc'[w] = "posted"
    PROVE  CustodyContinue(w) /\ Post(w)
<1>1. pc \in [Worker -> {"idle", "claimed", "posted", "lookup", "verified", "retain"}]
    BY DEF TypeInv, TypeOK
<1>2. ASSUME NEW v \in Worker, NEW r \in Request, AuthCall(v, r)
      PROVE  FALSE
    BY <1>2, CallLocal
<1>3. ~ Network
    BY NetworkLocal
<1>4. ~ \E t \in Time : SetClock(t)
    BY DEF SetClock, vars
<1>5. ~ CustodyLifecycle
    BY <1>1 DEF CustodyLifecycle, CrashAdapter, Start, StartAdapter, CrashProvider, StartProvider
<1>6. ASSUME NEW v \in Worker,
             \/ \E e \in Epoch : Wrap(v, e)
             \/ \E r \in Request : Recover(v, r)
             \/ \E p \in Collector : Collect(v, p) \/ ReadBack(v, p)
             \/ Before(v) \/ Persist(v)
      PROVE  FALSE
    BY <1>6 DEF Wrap, Recover, Collect, ReadBack, Before, Persist, allVars, vars
<1>7. ASSUME NEW p \in Collector,
             \/ \E e \in Epoch : StartCollector(p, e)
             \/ CrashCollector(p)
             \/ \E pkg \in late : LateCollect(p, pkg)
      PROVE  FALSE
    BY <1>7 DEF StartCollector, CrashCollector, LateCollect, allVars, vars
<1>8. ASSUME NEW v \in Worker, CustodyFails(v)
      PROVE  FALSE
    <2>1. CASE Interrupted(v)
        BY <1>1, <2>1 DEF Interrupted, Goto
    <2>2. CASE UNCHANGED vars
        BY <2>2 DEF vars
    <2> QED
        BY <1>8, <2>1, <2>2 DEF CustodyFails
<1>9. ASSUME NEW v \in Worker, CustodyContinue(v)
      PROVE  v = w /\ Post(v)
    <2>1. Continue(v)
        BY <1>9 DEF CustodyContinue, StoreAndCollect, Continue
    <2>2. v = w
        BY <2>1, ContinueLocal
    <2>3. ~ Interrupted(v) /\ ~ StoreReceipt(v) /\ ~ RetainUnknown(v)
          /\ ~ \E p \in Provider : Lookup(v, p)
        BY <1>1, <2>2 DEF Interrupted, Goto, StoreReceipt, RetainUnknown, Lookup
    <2> QED
        BY <2>1, <2>2, <2>3 DEF Continue
<1> QED
    BY <1>2, <1>3, <1>4, <1>5, <1>6, <1>7, <1>8, <1>9 DEF CustodyNext

\* A wrapped adapter's payment leaves only with its admission record in the collector's
\* store and its marker in the journal, whatever happened in between.
THEOREM PostsAreCustodied == CustodySpec => PostsCustodied
<1>1. ASSUME Below, CustodyInv, CustodyNext, NEW w \in Worker,
             client[w] # None, pc[w] = "claimed", pc'[w] = "posted"
      PROVE  LET j == JournalOf[w]
                 ack == held[req[w]]["admission_record"]
             IN  /\ marker[j][req[w]] # None
                 /\ ack # None /\ ack.package.original = proofs[j][req[w]]
    <2>1. PICK j, r, m : j = JournalOf[w] /\ r = req[w] /\ m = marker[j][r]
        OBVIOUS
    <2>2. Busy(w) /\ work[w].step = "done"
        <3>1. CustodyContinue(w)
            BY <1>1, PostsAlone DEF Below
        <3>2. ~ Interrupted(w)
            BY <1>1 DEF Interrupted, Goto, Below, TypeInv, TypeOK
        <3>3. ~ StoreAndCollect(w) /\ ~ RetainUnknown(w) /\ ~ \E p \in Provider : Lookup(w, p)
            BY <1>1 DEF StoreAndCollect, StoreReceipt, RetainUnknown, Lookup
        <3> QED
            BY <1>1, <3>1, <3>2, <3>3 DEF CustodyContinue
    <2>3. work[w].req = r /\ m # None
        BY <1>1, <2>1, <2>2, PastTheClaim DEF CustodyInv, Collections, InHand
    <2>4. j \in Journal /\ r \in Request
        BY <1>1, <2>1 DEF Below, TypeInv, CallOK
    <2>5. /\ m \in observations[j] /\ m \in Observable
          /\ m.package.req = r /\ m.package.kind = "admission_record"
        BY <1>1, <2>1, <2>3, <2>4 DEF CustodyInv, CustodyType, Markers
    <2>6. /\ held[r]["admission_record"] = m.ack /\ m.ack.package = m.package
          /\ m.package \in Originals(j, r)
        BY <1>1, <2>4, <2>5 DEF CustodyInv, Observations, Observed
    <2>7. m.ack # None
        BY <2>5 DEF Observable
    <2>8. m.package.original = proofs[j][r]
        BY <1>1, <2>4, <2>5, <2>6, OriginalsSendable
    <2> QED
        BY <2>1, <2>3, <2>6, <2>7, <2>8
<1>2. Below /\ CustodyInv /\ [CustodyNext]_fullVars =>
        [\A w \in Worker :
            client[w] # None /\ pc[w] = "claimed" /\ pc'[w] = "posted" =>
                LET j == JournalOf[w]
                    ack == held[req[w]]["admission_record"]
                IN  /\ marker[j][req[w]] # None
                    /\ ack # None /\ ack.package.original = proofs[j][req[w]]]_fullVars
    BY <1>1
<1> QED
    BY <1>2, CustodyInvariance, PTL DEF CustodySpec, PostsCustodied

=============================================================================
