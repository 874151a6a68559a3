---------------------------- MODULE PaymentCustody ----------------------------
(***************************************************************************)
(* The payment collector pilot on top of the authorization layer: a wrapped *)
(* adapter has its admission record kept by an independent collector before *)
(* the POST, its receipt afterwards, and can have both kept later           *)
(* (experiments/payment-collector-pilot/payment_collector.py).              *)
(*                                                                         *)
(* An exchange with the collector is the collector's one transaction; what  *)
(* a caller that has given up left on the wire is in late.  Statements are   *)
(* signed and carry digests of what they are about: here they hold it.      *)
(***************************************************************************)
EXTENDS PaymentAuthorization

CONSTANTS
    Collector,        \* collector processes on the one collector store
    Epoch             \* recovery epochs of collector and clients

ASSUME EpochAssumption == Epoch \subseteq Nat /\ None \notin Epoch

VARIABLES
    client,           \* per adapter: the epoch its collector client pins; None: not wrapped
    work,             \* per adapter: the collection it is at; None: none
    collector,        \* per process: the epoch it serves; None: down
    cepoch,           \* the collector store's epoch
    held,             \* collection_records: per request and kind, None or the acknowledgement
    late,             \* packages on the wire nobody waits for any more
    cusEpoch,         \* custody_metadata: per journal, the epoch of its current wrapper
    observations,     \* custody_observations: per journal
    marker            \* custody_prerequisites: per journal and request, None or an observation

collectorVars == <<collector, cepoch, held, late>>
localVars == <<cusEpoch, observations, marker>>
custodyVars == <<client, work, collectorVars, localVars>>
fullVars == <<allVars, custodyVars>>

Kind == {"admission_record", "provider_receipt"}
Stage == {"PRE_DISPATCH", "POST_EFFECT", "HISTORICAL_RECOVERY"}

\* make_package: the original evidence bytes, bound to their request.
Package(r, k, original) == [req |-> r, kind |-> k, original |-> original]

\* What is sent, what the collector signs for it and what a journal records of that.
Sendable == [req : Request, kind : Kind, original : Proof \cup Receipt]
Acknowledgement == [package : Sendable, epoch : Epoch]
Observable == [package : Sendable, ack : Acknowledgement, stage : Stage, epoch : Epoch]
ASSUME CustodyAssumption == None \notin Acknowledgement \cup Observable

\* _originals: what journal j holds of request r.
Originals(j, r) ==
    {Package(r, "admission_record", proofs[j][x]) :
        x \in {q \in {r} : Authorization(j, q) = "FOUND"}}
    \cup {Package(r, "provider_receipt", dispatches[j][x]) :
        x \in {q \in {r} : dispatches[j][q] \in Receipt}}

Collection(stage, r, todo) ==
    [stage |-> stage, req |-> r, todo |-> todo, step |-> "collect", ack |-> None]

Busy(w) == work[w] # None
\* Packages are taken in the order of _originals: the admission record first.
Current(w) ==
    CHOOSE p \in work[w].todo :
        p.kind = "admission_record" \/ \A q \in work[w].todo : q.kind # "admission_record"

Set(w, v) == work' = [work EXCEPT ![w] = v]
Step(w, s) == Set(w, [work[w] EXCEPT !.step = s])

\* What follows a package that was kept or could not be: the next one, if any.
Rest(w) ==
    LET todo == work[w].todo \ {Current(w)} IN
    IF todo = {} THEN None ELSE Collection(work[w].stage, work[w].req, todo)

CustodyInit ==
    /\ AuthInit
    /\ client = [w \in Worker |-> None]
    /\ work = [w \in Worker |-> None]
    /\ collector = [p \in Collector |-> None]
    /\ cepoch = None
    /\ held = [r \in Request |-> [k \in Kind |-> None]]
    /\ late = {}
    /\ cusEpoch = [j \in Journal |-> None]
    /\ observations = [j \in Journal |-> {}]
    /\ marker = [j \in Journal |-> [r \in Request |-> None]]

-----------------------------------------------------------------------------
(* The collector.                                                          *)

NotBehind(stored, e) == stored # None => e >= stored

StartCollector(p, e) ==
    /\ collector[p] = None
    /\ NotBehind(cepoch, e)
    /\ collector' = [collector EXCEPT ![p] = e]
    /\ cepoch' = e
    /\ UNCHANGED <<allVars, client, work, held, late, localVars>>

CrashCollector(p) ==
    /\ collector[p] # None
    /\ collector' = [collector EXCEPT ![p] = None]
    /\ UNCHANGED <<allVars, client, work, cepoch, held, late, localVars>>

\* MUTANT: a package collected before is acknowledged anew.
ResignStored(p, pkg) ==
    LET old == held[pkg.req][pkg.kind] IN
    /\ collector[p] # None
    /\ old # None => old.package = pkg
    /\ collector[p] = cepoch
    /\ held' = [held EXCEPT ![pkg.req][pkg.kind] = [package |-> pkg, epoch |-> cepoch]]

\* _collect: the original package keeps its original acknowledgement, another one
\* for the same request and kind is refused, and a process that is not at the
\* store's epoch collects nothing new.
Stored(p, pkg) ==
    LET old == held[pkg.req][pkg.kind] IN
    /\ collector[p] # None
    /\ \/ old # None /\ old.package = pkg /\ UNCHANGED held
       \/ /\ old = None /\ collector[p] = cepoch
          /\ held' = [held EXCEPT ![pkg.req][pkg.kind] =
                        [package |-> pkg, epoch |-> cepoch]]

\* A package whose sender timed out, lost its acknowledgement or died.
LateCollect(p, pkg) ==
    /\ Stored(p, pkg)
    /\ late' = late \ {pkg}
    /\ UNCHANGED <<allVars, client, work, collector, cepoch, localVars>>

-----------------------------------------------------------------------------
(* The wrapped adapter.                                                    *)

\* _initialize_local.
Wrap(w, e) ==
    LET j == JournalOf[w] IN
    /\ Ready(w) /\ gate[w] # None /\ client[w] = None
    /\ NotBehind(cusEpoch[j], e)
    /\ client' = [client EXCEPT ![w] = e]
    /\ cusEpoch' = [cusEpoch EXCEPT ![j] = e]
    /\ UNCHANGED <<allVars, work, collectorVars, observations, marker>>

\* before: the owner of a new claim turns to the collector first.
Before(w) ==
    LET j == JournalOf[w]
        r == req[w] IN
    /\ client[w] # None /\ pc[w] = "claimed" /\ ~ Busy(w)
    /\ Authorization(j, r) = "FOUND"
    /\ Set(w, Collection("PRE_DISPATCH", r, {Package(r, "admission_record", proofs[j][r])}))
    /\ UNCHANGED <<allVars, client, collectorVars, localVars>>

\* MUTANT: recovery takes an open claim up again.
RecoverRearms(w, r) ==
    LET j == JournalOf[w] IN
    /\ client[w] # None /\ Ready(w) /\ Prepared(r) /\ ~ Busy(w)
    /\ Authorization(j, r) = "FOUND" /\ dispatches[j][r] = Claimed
    /\ Begin(w, r, "claimed")
    /\ Set(w, Collection("PRE_DISPATCH", r, {Package(r, "admission_record", proofs[j][r])}))
    /\ UNCHANGED <<journalVars, provider, storeVars, networkVars, sent, authVars, client,
                   collectorVars, localVars>>

\* recover_evidence: whatever originals the journal holds are collected.
Recover(w, r) ==
    /\ client[w] # None /\ Ready(w) /\ Prepared(r) /\ ~ Busy(w)
    /\ Originals(JournalOf[w], r) # {}
    /\ Set(w, Collection("HISTORICAL_RECOVERY", r, Originals(JournalOf[w], r)))
    /\ UNCHANGED <<allVars, client, collectorVars, localVars>>

\* The POST of collect_and_check, answered with an acknowledgement that verifies.
Collect(w, p) ==
    LET pkg == Current(w) IN
    /\ Busy(w) /\ work[w].step = "collect"
    /\ Stored(p, pkg)
    /\ held'[pkg.req][pkg.kind].epoch <= client[w]
    /\ Set(w, [work[w] EXCEPT !.step = "readback", !.ack = held'[pkg.req][pkg.kind]])
    /\ UNCHANGED <<allVars, client, collector, cepoch, late, localVars>>

\* The challenged GET: only a collector at the store's epoch answers, the epoch is
\* the client's, and package and acknowledgement are the original ones.
ReadBack(w, p) ==
    LET pkg == Current(w) IN
    /\ Busy(w) /\ work[w].step = "readback"
    /\ collector[p] # None /\ collector[p] = cepoch /\ cepoch = client[w]
    /\ held[pkg.req][pkg.kind] = work[w].ack
    /\ Step(w, "persist")
    /\ UNCHANGED <<allVars, client, collectorVars, localVars>>

Observation(w) ==
    [package |-> Current(w), ack |-> work[w].ack, stage |-> work[w].stage, epoch |-> client[w]]

Record(j, obs) == observations' = [observations EXCEPT ![j] = @ \cup {obs}]

\* MUTANT: any observation of an admission record marks the prerequisite.
PersistMarks(w) ==
    LET j == JournalOf[w]
        r == work[w].req IN
    /\ Busy(w) /\ work[w].step = "persist"
    /\ cusEpoch[j] = client[w]
    /\ Found(Claims(j), r)
    /\ Record(j, Observation(w))
    /\ IF Current(w).kind = "admission_record" /\ marker[j][r] = None
       THEN marker' = [marker EXCEPT ![j][r] = Observation(w)]
       ELSE UNCHANGED marker
    /\ IF work[w].stage = "PRE_DISPATCH" THEN Step(w, "done") ELSE Set(w, Rest(w))
    /\ UNCHANGED <<allVars, client, collectorVars, cusEpoch>>

\* MUTANT: an observation is recorded under the epoch it was made at, whatever came since.
PersistUnfenced(w) ==
    LET j == JournalOf[w]
        r == work[w].req IN
    /\ Busy(w) /\ work[w].step = "persist"
    /\ Found(Claims(j), r)
    /\ Record(j, Observation(w))
    /\ IF work[w].stage = "PRE_DISPATCH"
       THEN /\ dispatches[j][r] = Claimed /\ marker[j][r] = None
            /\ marker' = [marker EXCEPT ![j][r] = Observation(w)]
            /\ Step(w, "done")
       ELSE UNCHANGED marker /\ Set(w, Rest(w))
    /\ UNCHANGED <<allVars, client, collectorVars, cusEpoch>>

\* _persist: one transaction, fenced by the journal's custody epoch; the marker
\* needs a claim that is still open.
Persist(w) ==
    LET j == JournalOf[w]
        r == work[w].req IN
    /\ Busy(w) /\ work[w].step = "persist"
    /\ cusEpoch[j] = client[w]
    /\ Found(Claims(j), r)
    /\ Record(j, Observation(w))
    /\ IF work[w].stage = "PRE_DISPATCH"
       THEN /\ dispatches[j][r] = Claimed /\ marker[j][r] = None
            /\ marker' = [marker EXCEPT ![j][r] = Observation(w)]
            /\ Step(w, "done")
       ELSE UNCHANGED marker /\ Set(w, Rest(w))
    /\ UNCHANGED <<allVars, client, collectorVars, cusEpoch>>

\* The request a caller gives up on may still arrive, or not.
LeaveBehind(w) ==
    \/ UNCHANGED late
    \/ Busy(w) /\ work[w].step = "collect" /\ late' = late \cup {Current(w)}

\* MUTANT: a collector that does not answer does not hold a payment up.
BestEffort(w) ==
    /\ Busy(w) /\ work[w].step # "done"
    /\ LeaveBehind(w)
    /\ IF work[w].stage = "PRE_DISPATCH" THEN Step(w, "done") ELSE Set(w, Rest(w))
    /\ UNCHANGED <<allVars, client, collector, cepoch, held, localVars>>

\* Whatever goes wrong on the way (a timeout, a refusal, a statement that does not
\* verify, a failed transaction): before the POST it ends the attempt, after it
\* and in recovery it is only reported.
CustodyFails(w) ==
    /\ Busy(w) /\ work[w].step # "done"
    /\ LeaveBehind(w)
    /\ IF work[w].stage = "PRE_DISPATCH"
       THEN Interrupted(w) /\ Set(w, None)
       ELSE UNCHANGED vars /\ Set(w, Rest(w))
    /\ UNCHANGED <<authVars, client, collector, cepoch, held, localVars>>

\* after: a receipt stored by the owner of the claim is collected in turn.
StoreAndCollect(w) ==
    /\ StoreReceipt(w)
    /\ IF Busy(w) /\ pc'[w] = "idle"
       THEN Set(w, Collection("POST_EFFECT", req[w],
                              {Package(req[w], "provider_receipt", reply[w])}))
       ELSE UNCHANGED work

\* A wrapped adapter POSTs and goes on only once its prerequisite is done.
CustodyContinue(w) ==
    /\ \/ Post(w) /\ (client[w] # None => Busy(w) /\ work[w].step = "done") /\ UNCHANGED work
       \/ Interrupted(w) /\ (Busy(w) => work[w].step = "done") /\ Set(w, None)
       \/ StoreAndCollect(w)
       \/ RetainUnknown(w) /\ Set(w, None)
       \/ (\E p \in Provider : Lookup(w, p)) /\ UNCHANGED work
    /\ UNCHANGED <<authVars, client, collectorVars, localVars>>

\* A crash or a restart leaves an adapter unwrapped and at no collection.
CustodyLifecycle ==
    \/ /\ \E w \in Worker :
            /\ CrashAdapter(w)
            /\ LeaveBehind(w)
            /\ Set(w, None)
            /\ client' = [client EXCEPT ![w] = None]
       /\ UNCHANGED <<authVars, collector, cepoch, held, localVars>>
    \/ /\ \/ \E w \in Worker, g \in Generation, c \in Config \cup {None} : Start(w, g, c)
          \/ \E p \in Provider : CrashProvider(p) /\ UNCHANGED authVars
          \/ \E p \in Provider, g \in Generation : StartProvider(p, g) /\ UNCHANGED authVars
       /\ UNCHANGED custodyVars

CustodyNext ==
    \/ \E w \in Worker, r \in Request : AuthCall(w, r) /\ ~ Busy(w) /\ UNCHANGED custodyVars
    \/ Network /\ UNCHANGED <<authVars, custodyVars>>
    \/ \E t \in Time : SetClock(t) /\ UNCHANGED custodyVars
    \/ CustodyLifecycle
    \/ \E w \in Worker :
         \/ \E e \in Epoch : Wrap(w, e)
         \/ \E r \in Request : Recover(w, r)
         \/ \E p \in Collector : Collect(w, p) \/ ReadBack(w, p)
         \/ Before(w) \/ Persist(w) \/ CustodyFails(w) \/ CustodyContinue(w)
    \/ \E p \in Collector :
         \/ \E e \in Epoch : StartCollector(p, e)
         \/ CrashCollector(p)
         \/ \E pkg \in late : LateCollect(p, pkg)

CustodySpec == CustodyInit /\ [][CustodyNext]_fullVars

-----------------------------------------------------------------------------
(* What a caller is told: read_custody.                                    *)

\* _verified_local: a stored observation counts only for a reader that is not
\* behind it, and only for the originals the journal still shows.
VerifiedLocal(w, obs) ==
    /\ obs.epoch <= client[w] /\ obs.ack.epoch <= obs.epoch
    /\ obs.ack.package = obs.package
    /\ obs.package \in Originals(JournalOf[w], obs.package.req)

PreDispatch(w, r) ==
    LET m == marker[JournalOf[w]][r] IN
    IF m = None THEN "NOT_RECORDED"
    ELSE IF VerifiedLocal(w, m) THEN "VERIFIED_PREREQUISITE" ELSE "UNKNOWN"

-----------------------------------------------------------------------------
(* Properties.                                                             *)

\* No wrapped adapter sends a payment before the collector durably holds the very
\* admission record its journal admitted the claim with, and the journal its
\* marker, whatever timeouts, restarts and epoch changes come in between.
PostsCustodied ==
    [][\A w \in Worker :
          client[w] # None /\ pc[w] = "claimed" /\ pc'[w] = "posted" =>
              LET j == JournalOf[w]
                  ack == held[req[w]]["admission_record"]
              IN  /\ marker[j][req[w]] # None
                  /\ ack # None /\ ack.package.original = proofs[j][req[w]]]_fullVars

\* The marker says "before the POST": it is only ever written while the claim is
\* open and unspent, by its owner; recovering evidence later never back-dates it.
MarkedBeforeSend ==
    [][\A j \in Journal, r \in Request :
          marker[j][r] = None /\ marker'[j][r] # None =>
              /\ dispatches[j][r] = Claimed /\ sent[j][r] = 0
              /\ \E w \in Worker : JournalOf[w] = j /\ pc[w] = "claimed" /\ req[w] = r]_fullVars

\* Whatever a journal has recorded as kept, the collector's store still holds, with
\* the same acknowledgement, and it is the journal's own original.
ObservationsHeld ==
    \A j \in Journal : \A obs \in observations[j] :
        /\ held[obs.package.req][obs.package.kind] = obs.ack
        /\ obs.package \in Originals(j, obs.package.req)

\* A prerequisite once recorded is reported as verified by every wrapper that is
\* at the journal's custody epoch, for good.
VerifiedForGood ==
    \A w \in Worker, r \in Request :
        client[w] # None /\ client[w] = cusEpoch[JournalOf[w]]
                /\ marker[JournalOf[w]][r] # None
            => PreDispatch(w, r) = "VERIFIED_PREREQUISITE"

\* What a journal has under an epoch is complete once a wrapper of a newer one took over:
\* no older wrapper takes the journal back, and a collection that one began is not recorded
\* any more, however far it got.
PastEpochsClosed ==
    [][\A j \in Journal :
          cusEpoch[j] # None =>
              /\ cusEpoch'[j] >= cusEpoch[j]
              /\ \A obs \in observations'[j] :
                   obs.epoch < cusEpoch[j] => obs \in observations[j]]_fullVars

\* Custody adds prerequisites and never a payment of its own: seen without the
\* collector, a wrapped adapter is an authorized one.
RefinesAuth == AuthSpec

=============================================================================
