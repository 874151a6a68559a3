# A verification development for the VAP experiments

The repository specifies evidence ("VAP") for AI systems and carries, under
`experiments/`, small programs that put its claims to the test. They are of two
kinds. *Gates* may each cause one effect in another process (a payment, a record, an
upload, a publication, a deletion), only after something durable was recorded first,
and must say honestly afterwards what they know of the outcome. *Evaluators* read
signed statements and say what these establish, and what they do not.

What makes the gates hard is the same everywhere: processes die between two steps,
answers are lost or late, several instances share a journal, clocks and epochs move,
and a store may refuse a write at any time. What makes the evaluators hard is that
evidence comes in piece by piece, in any order, some of it forged, late or
contradicting, and a verdict once given should not turn over for the wrong reason.

This directory holds TLA+ modules of these programs, TLC configurations that check
them on small instances, and theorems with proofs checked by TLAPS.

## Components

| Component (`experiments/...`) | State | Operations | Correct when |
|---|---|---|---|
| `payment-runtime-pilot` | dispatch journal and provider store (SQLite), generation of each (recovery epoch, configuration) | submit, read_status, reconcile; POST and GET handlers; construction and restart | one POST per claim, one payment per identity, journal = provider, money conserved, generations fence |
| `payment-authorization-pilot` | admission proofs, in the journal's file | submit with evidence, read_authorization | only sound evidence admits, proof and claim are one, history never changes |
| `payment-collector-pilot` | collector store; custody observations, prerequisites and epoch in the journal's file | collect, readback, submit, recover_evidence, read_custody | no POST without custody, markers never back-dated, observations true |
| `pre-record-gate` | audit's operations and events, backend's effects | execute, reconcile; prepare, claim, outcome, get; write, lookup | one write per recorded intent, success is real, logs validate |
| `incident-upload-pilot` | request journal, receiver's uploads, wall clock | execute; claim, finish; receive | one send per intent, results true of the receiver, reports durable |
| `incident-collector-pilot` | the above; a restartable collector's rows | execute, reconcile; collect, status | as above, nothing sent before it was collected and read back under a permit in force, reconciliation true |
| `incident-publication-pilot` | publication journal, private and visible directory; an editing session | release, publish, verify_report; set_block, snapshot, verify_snapshot | one link per intent, visible = approved, reports recomputable, histories not spliced |
| `incident-erasure-pilot` | deletion journal, namespace directory; an observer's signatures | delete, create, observe, verify_bundle | one unlink per intent, what is removed was authorized and measured, "observed" was observed |
| `incident-evidence-assessor` | none: a function of a package, trust and target | transfer, erasure, publication, incident response and cross-party workflows | verdicts no stronger than the evidence, not back-dated, violations stand |
| `declared-scope-verifier` | none | verification of a package and its sidecars | "met" stays met, "not met" is not excused later, late is shown only by a closed register |
| `payment-api-evidence`, `wallet-authorization-evidence` | none | verify_bundle | known contradictions stay, established verdicts settle |
| retention adapter, recheck kit, review report, control-state evaluator, suites, OS isolation lab | none, or output files | packaging, archive checks, rendering, drivers | see "Not modelled" |

How they interact. The payment layers are one call stack: `CollectedAdapter` passes
`before`/`after` callbacks through `AuthorizedAdapter`, which passes its admission
callback into the runtime's `Adapter._claim`; all three keep their tables in one journal
file. The runtime talks to the provider, and custody to the collector, over HTTP. A
pre-record gate talks to an audit process and a backend over HTTP. The collector
pilot's gateway uses the upload pilot's journal, transport and receiver, and asks a
separate collector process in between. Publisher, eraser, editor and observer are
objects on a local directory that several processes may share. The evaluators are
called with what other programs signed; their composition is the file of statements
that grows between two calls.

## Modules

### The payment stack

`PaymentRuntime` – adapters, journals, provider. A journal row is `None`, `Claimed`
or the receipt; what one `BEGIN IMMEDIATE` transaction does is one action
(`ClaimNew`, `StoreReceipt`, `ApplyPayment`, ...), and between two of them, and
between a transaction and an HTTP exchange, everything else may happen. A POST is
a message in `posts`, a handler thread an element of `handling`; both live on when
the sender dies. `Interrupted` is the `except Exception` after the claim,
`CrashAdapter`/`CrashProvider` are process deaths. The GET of a lookup reads one
snapshot and writes nothing, so it is one step.

`AtMostOncePayment` – the abstract promise: a claim is worth one send, a sent
request is decided once, money moves exactly when it is decided "settled", and a
journal learns the decision. `PaymentRuntime` implements it with
`view <- dispatches, ledger <- payments, moved <- effects`.

`AdmissionPolicy` – `_assess` as a predicate (`Denied`, `Unestablished`, `Assess`), and
`Sound`, which says without order or cases what an admission must mean.
`PaymentAuthorization` extends the runtime: the claim is made by `PlainClaim` or
`AdmitClaim`, every other step is the runtime's own. The wall clock may be set back.

`PaymentCustody` extends that: between claim and `Post` a wrapped adapter collects
(`Collect`), reads back (`ReadBack`) and records (`Persist`) its admission record; the
same three steps follow a stored receipt and make up a recovery. An exchange with
the collector is the collector's one transaction; a request whose sender has given
up stays in `late` and may arrive at any time (`LateCollect`). This is exact: what the
collector does is seen by a sender only through the answer.

### The other gates

`RecordGate` – gates, audit process and backend in the same style: an exchange is the
service's transaction and its answer, `Fails` leaves the message on the wire,
`Arrive` delivers it later. Crashes of the services are exchanges that fail: they
keep nothing but their databases.

`UploadGate` – gateways, journals, the receiver and the clock. A call of `execute` is a
frame (`call`) with the times of admission, final check and send, the receipt and the
result to be recorded; `Execute`, `Claim`, `Final`, `Send`, `Observe`, `Persist` are its
steps, each one look at or one write of the journal, or one reading of the clock.
`Receive` is the receiver's transaction, whose answer may be lost.

`CollectorPilot` extends `UploadGate`: a call that has claimed asks the collector
(`Collect`), checks the acknowledgement (`Acknowledge`), queries the status afresh
(`ReadBack`) and only then comes to the final check (`CollectedFinal`). The collector's
handler is `Accept`, the status query an exchange (`Lookup`, `StatusBinds`); a request
may arrive after its sender gave up, the collector may be stopped and restarted.
`Reconcile` asks later what became of a journalled intent. All other steps are the upload
gate's own, so that the pilot is, hiding the collector, an upload gate.

`EditorHistory` – the signed history and `verify_snapshot`; `PublicationEditor` – editing
sessions that sign (`SetBlock`, `Snapshot`) and are reopened after a restart under the
same key; `Publication` – the gate and publisher: `Release` is the preflight, the look at
the journal and the stage, then `Claim`, `FinalGate` (the check repeated after the
commit), `Link`, `ReadBack`, `Persist`. Others may put files at a visible name (`Put`).
`VerifyReport` is what a reader of a report recomputes.

`Erasure` – the steps of a deletion are `Delete` (the first look at the journal), `Authorize`
(the clock and the authorization), `Measure` (the object), `Resolve` (the journal again, when
the object is not as bound), `Claim`, `Acknowledge`, `FinalCheck`, `Unlink`, `Confirm` (the flush
and the empty name), `Attest` (the clock and the signatures) and `Persist`; others may act
between any two of them. `Create` puts another object under the name, `Observe` signs what
the namespace shows; `VerifyBundle` and `Local` are the verifier's conclusion from a result
and two observations put together by anybody. Two things take one step though the code
takes several: the final check, since a file is never used twice and what its last look
finds was also there at its last reading of the clock, and an observation's window.

`OneEffect` – what these pilots' journals promise of an action outside the program: one
action per request id, carried out at most once and only before an outcome is
recorded, and an outcome that is final and true, "blocked" also of the future.
`Publication` and `Erasure` implement it, with the journal's rows as `intent` and
`outcome` and the history of links or unlinks as `effects`.

### The evaluators

`Assessor` – which records of a package count (`Eligible`), and the validation of trust
and records; `AssessTransfer`, `AssessErasure`, `AssessPublication`, `AssessResponse` – the
workflows' verdicts as operators of a package (cross-party attribution with the
transfers). `ScopeVerifier` – anchor, inclusion, receipts and timing, sidecars, the
disposition of every obligation, and the verdict. `PaymentEvidence`, `WalletEvidence` –
the two `verify_bundle`s.

`EvidenceReview` composes them with what calls them again and again: statements arrive
in any order (`Supply`), time passes (`ReviewLater`), and every report is computed anew
from the file. The evaluators being pure, all that matters is how two reports of one
growing file compare, and this is what the properties are about.

### Conventions

`*Proofs` – theorems and proofs of the module of that name (`PaymentCustodyProofs` also those
of `PaymentAuthorization`, `CollectorPilotProofs` also those of `UploadGate`). `MC*` – the small instances.
Variables called observation only (`sent`, `sends`, `links`, `unlinks`) record history for
the properties and are read by no guard. A definition marked MUTANT is a plausible
mistake in the code, which the named property excludes.

What is abstracted: bytes, digests and signatures. A digest is the thing digested, a
signed statement holds what it is about, and a forged or unreadable one is an answer
that does not count. Wording of reasons, metrics and harness hooks are left out; a
hook that raises is one of the failures a step may have. The document of an editing session
is a function from blocks to texts: the code digests its blocks in the order they were first
written, which the chain of operations fixes.

## Runs

| Run | Instance | Shows |
|---|---|---|
| `MCPaymentRuntime` | 2 workers, 1 journal, 3 requests of both directions, 2 generations, a limit an account reaches | one POST per claim, journal and provider agree, books balance, reports durable, identities and generations fence; implements `AtMostOncePayment` |
| `MCPaymentLive` | 1 worker, 2 requests | a recorded payment is learned |
| `MCPaymentAuthorization` | authorized and plain adapter, good and bad evidence, moving clock | admissions sound, kept, never backfilled |
| `MCPaymentCustody` | 1 wrapped adapter, 2 collector processes, 2 epochs | no POST without custody, observations true, implements the authorization layer |
| `MCPaymentCustodyTwo` | 2 wrapped adapters, 1 collector, 2 epochs | markers are never back-dated, what is under an epoch is complete once a newer one took over |
| `MCRecordGate` | 2 gates, 1 operation id, 3 requests | one write per intent, success is real, logs validate |
| `MCRecordGateLive` | 1 gate, 2 requests | a committed effect is confirmed |
| `MCCollectorPilot` | 2 gateways, 1 or 2 journals, 1 collector, 1 receiver, 2 uploads of one id, 2 times | one send per intent, results and reports true, nothing sent uncollected or under an expired permit, reconciliation true |
| `MCPublication` | 2 callers, 4 candidates, 2 times | what is visible was approved at the last check, reports recomputable, implements `OneEffect` |
| `MCPublicationEditor` | 2 sessions, 2 blocks, 2 texts, 2 times | no snapshot put together from two sessions' histories verifies, unless it is one session's |
| `MCErasure` | 2 callers, 3 tasks of which 2 have one id, 2 files in turn, 2 times | what was unlinked was authorized and measured, an observed removal happened, who is overtaken is told so (but by the clock's refusal), an outcome told is kept, implements `OneEffect` |
| `MCEvidenceReview` | 19 cases of 8 workflows, times 3 to 6 | established verdicts and contradictions stay, a scope found met stays met and one not met is not excused, what is recorded late changes no earlier authorization, violations stand, evidence of a deletion only builds |

All expect no violation.

Bounds. Requests are chosen for the ways two can interfere: the same identity, the
same key with another operation id, the same money, another generation; three
suffice for each pair. Two instances show every race between an owner and somebody
else, and a third adds none of another kind. Nothing is counted without a limit: a
journal row limits sends, a sent request limits messages, and crashes and restarts
add no state. In `MCPaymentRuntime` balances are 3 and 1 under a limit of 3: of two payments
of 2 the second fails, each fills the other account to the limit exactly, and the payment
of 1 back, all that account has, fits under the limit only after one of them. The run has one
journal, so that the order of requests on two journals is covered by the theorems only:
`IdentityUnique`, `FencedByGeneration` and `Refinement` are for any number. Likewise the keys of the
collector pilot's gateways do not expire in its run; `OneSendCollected`, `SentOnceCollected`
and the others are for any validity. Its two uploads differ in content; that the receiver
does not tell evaluations apart (`SamePayload`) is a matter of the theorems too. Two times are
before and after an expiry, and the clock may go back. `MaxOperations = 2` is a text and
what replaced it; `MaxBlocks = 2` in the editor's run gives it two histories that agree on
one block and differ on the other. `MaxFile = 2` is an object and the one that took its
place, `MaxObservations = 2` the pair a bundle needs.

Constraints. `MCFocus` bounds `MCPaymentCustodyTwo`: the second adapter recovers and moves
epochs but claims nothing and does not crash, the provider does not crash, and what is
left on the wire is lost; the other custody run has all of these. `Bounds` bounds `MCErasure`:
the second task under one id is not combined with the task under the other id, and comes with
one file; one task is observed, before and then after, and while observations are kept, one
caller at a time runs. The races of two callers are explored without observations, and the
theorems know none of these bounds. `FewStatements`
(`MCEvidenceReview`): any of the sound statements of a case and at most two of its odd ones,
or `MaxRecords = 5` of a case of the assessor; an odd one against a sound one, or two odd
ones that excuse each other, are what a verdict can stumble over.

The `VIEW` of the custody runs drops `outcome`, which no step and none of their
properties reads. Symmetric are gates, gateways, journals, callers, sessions, blocks and
texts, and collector processes; no property with fairness is checked under symmetry.

Deadlock is checked in every run but `MCEvidenceReview`, whose review ends when all
statements are in and time is at `LastAt`: elsewhere a process can always be started,
asked or crash.

Fairness. `CallFairness` and `WF(Continue)`: a call runs on, because sockets
(`timeout`, `rpc`'s two seconds) and SQLite (`sqlite_timeout`) give up. The rest is the
operator's side, not the code's: crashes stop at some time, processes are restarted,
reconcile is called again until it has answered, and a lookup or a write of the journal
that is tried for ever succeeds at some time. Nothing is assumed of the provider's
handlers, of POSTs or of their answers. The upload, publication and erasure pilots never
retry, so there is nothing they promise to reach.

## Theorems

All are for every set of requests, workers, journals, processes, generations,
evidence, configurations, collectors, epochs, gates, gateways, uploads and times that
satisfies the named assumptions of the modules (`JournalOf` is a function, sentinels are
no values, amounts are positive and accounts different, balances start in range, times
are integers).

`PaymentRuntimeProofs`: `TypeCorrect` first. `SafetyInv` is the inductive invariant. None of
the properties is inductive alone: that no claim is spent twice needs that a worker
between claim and POST is the only one there (`ClaimUnspent`); that a journal agrees with
the provider needs that every receipt in a reply or in a handler is the recorded one
(`ReceiptsRecorded`), since a late answer may settle a row at any time; and a payment
recorded without a send is excluded by what is on the wire (`WireWasSent`). There is one
step per action. `OnePostPerClaim`, `JournalTruth`, `ReportsDurable` and `IdentityUnique`
follow; `Refinement` maps each step to a step or a stutter of `AtMostOncePayment` under
`SafetyInv`; `FencedByGeneration` is an action property of the types alone.
`BooksAlwaysBalance` needs `Books` besides: the payments that moved money are finitely many,
so that their sum is one, and their accounts are open, so that a provider which starts again
seeds no account a payment has touched. Its sums are folds over sets, in whatever order the
fold chooses; that the sum of a set grows by the amount of a new member (`TotalAdds`) is
induction over finite sets, which the library's well-foundedness of strict inclusion gives
as "there is a smallest set where it fails" (`SmallestSubset`).

`PaymentCustodyProofs`, of both layers: `AuthorizationRefines` (each step is the runtime's or
leaves it alone), so that everything above holds of authorized adapters; `AdmissionsKept` and
`AdmissionsSound` by an invariant on proofs and claims (`AuthInv`: a retained proof has its
row, was made when the row was claimed and passes the recheck). `NoBackfill` needs that each
step keeps the proof of every row that exists: a proof is written by the transaction that
makes the row, and by no other.

`CustodyRefines` likewise, so that all this holds of wrapped adapters too. `CustodyInv` is
inductive for the rest. `Phase` says where the runtime is during a collection (a collection before dispatch runs inside the call that made the claim, which is
still open until the collection is done); `InHand` what the collection has in hand: packages
that are originals of its journal, an acknowledgement that is the one the store holds and is
no newer than the client's epoch, and, when it is done, a marker. `Observations` is
`ObservationsHeld` with the epochs in order, which a read-back needs since the journal's
epoch may move on meanwhile; `Markers` says that a marker is an observation of its request's
admission record. From these follow `ObservationsStay`, `PrerequisitesVerify`,
`MarkersPrecedePosts`, `PostsAreCustodied` and `PastEpochsAreClosed` (only the transaction of
a collection records, and it is fenced; a wrapper moves the epoch on or leaves it,
`EpochMovesOn`). `VerifiedForGood`, which `PrerequisitesVerify` proves, has no run of its
own: the runs watch markers, observations and epochs by `MarkedBeforeSend`,
`ObservationsHeld` and `PastEpochsClosed`. The one assumption is that the sentinel is no
acknowledgement and no observation (`CustodyAssumption`).

`RecordGateProofs`: `Invariance` of `IInv`, which strengthens the properties by what a permit
means (a gate at `write` is the only one, nothing of its id is on the wire, the record is
dispatched, no attempt was made) and by what each record state says of the log; then
`TypeCorrect`, `OneWritePerIntent`, `SuccessIsReal`, `LogsValidate` and `RecordsMoveOn`. The last says of single
steps what the runs see of whole logs, and is proved only.

`CollectorPilotProofs`, of both layers: `UploadGateSafe` by an invariant `IInv` that adds to the three properties
who owns a row: a gateway past its claim finds its own intent without a result in the
journal, no other gateway of that journal is past a claim of the same id, and the row was
sent as often as its frame says (`Owners`); what is on the wire was committed to
(`WireNamed`); the receipt a call holds is the receiver's (`Receipts`); and the result it is
about to record is justified by what it did (`Results`). Each action is a lemma.

`CollectorImplements` maps each step of the collector pilot to one of
the upload gate or to a stutter: a collection that blocks is a final check that refuses, and
everything else the collector does is invisible. The upload gate's theorem therefore
carries over (`OneSendCollected`, `ResultsCollected`, `ReportsCollected`). What is the
pilot's own, `ReconciliationTrue` and `SentOnceCollected`, follows from `CInv`: a gateway
that waits for the collector, is permitted or ready has what its place says, and what a
reconciliation has found is in the collector.

`ErasureProofs`: the inductive invariant says that a caller past its claim owns the row of its
request (`Owners`); that the file it measured is still under the name or was removed by
another request (`Measured`), since only an unlink frees a name; and that what a completion
attests did happen (`Happened`). `RemovedAsAuthorized` and `ObservedRemovals` follow, and
`OneUnlink`: the claim, the unlink and the recording of a result are the steps that `OneEffect`
sees, all others are stutters. `ToldKept` needs that a recorded outcome is not written over
(`OutcomeStays`).

`ClaimedTold` has an exception that the code requires. A caller that has found no row reads the
clock next, and if its task is refused there (`provider.py:415-420`) it returns "NOT_CLAIMED"
from that first look, although another caller of the same request may have claimed it in
between, and even removed the object. Every other way out of a deletion before a claim asks
the journal again (lines 427-434, 450, 519). So "NOT_CLAIMED" beside
"AUTHORIZATION_NOT_CURRENT" says only what the journal said when the call began; everywhere
else it is true when it is told.

`PublicationProofs`: the same ownership (`Owners`); a frame holds what its two checks found
(`FrameTrue`), and the link is made from a frame that was permitted, so that `CheckSound`
gives the approval, the policy and the notice at that time; an id without a row has no link
(`Rows`), and a name with a link of ours is never free for others. `ApprovedOutput`,
`VerifiedReports` (the publisher's `Return` and the reader's `VerifyReport` agree whenever the
clock did not go back) and `OnePublication` follow, whatever the candidates contain.

`PublicationEditorProofs`: `HistoriesWhole`, for snapshots of any length. A session's history is
a chain (`Chained`: each operation names its predecessor) and a checkpoint names the
operation that once ended one (`Anchored`; a snapshot needs a block, hence an operation).
What verifies is a chain too, and ends in the operation its checkpoint names; two chains
that agree at one place agree everywhere before it (`SamePast`, by induction from the first
place that differs), so the snapshot is that session's past and no other.

`EvidenceReviewProofs`: what is on record is a report of the file as it is (`ReviewInv`), and
every step leads to a report of a file that has grown or of a later time (`Continued`), so
that each property is one of two inputs of which one extends the other: `Grows` for the
assessor's packages, `BundleGrows` for payments and wallets, `ScopeGrows` for scopes. The
rest are lemmas about the operators alone. A record that counts goes on to count
(`EligibleStays`), and of a kind of which only later records arrive, what was recorded by a
time stays the same (`RecordedByThen`): from these `NothingBackdated`, `ViolationsStand` and
`DeletionEvidenceBuilds`. A statement that counts goes on to count in its slot
(`CountingGrows`, `ReadableGrows`), a contradiction needs no more than the statements it was
found in, and a "VALID" has every statement it is judged by: `VerdictsAreFinal`. Of a scope,
anchor, manifest, closure and inventory stay in order once they are (`SidecarsStay`), so
that every finding which decides an obligation stays (`DispositionStays`): `ScopeIsSettled`.
They rest on `TimeAssumption` (the times in a well-formed statement are integers) and
`ShapeAssumption` (an input with other slots or parts is refused beforehand), both as the
parsers of the code enforce.

The attempt to prove the last one showed an exception that had to be stated. A missing
notification is a violation only under a closure of its source, and a closure is checked
against the inventory only once there is one (`verifier.py:348`). If the inventory comes in
after the closure and lists other obligations, the closure fails, and "not_met" becomes
"indeterminate" again (`ClosureContradicted`; the case `silent` of `MCEvidenceReview` reaches
it). No other finding depends on it, and "met" never does.

Only model-checked: liveness (`RecordedIsLearned`, `EffectIsConfirmed`), whose fairness is
about `ENABLED` and out of the prover's reach.

## What is not modelled

Not modelled, and why:

- `control-state-evidence`: a list of the same comparisons of fields as in the payment and
  wallet evaluators, over another bundle.
- The retention adapter, the recheck kit and the review report: packaging, archive layout,
  rendering and the copying of files; they keep no state beyond one staged rename.
- The OS isolation lab and the suites: drivers and settings whose claims the kernel
  enforces.
- `check_custody` and `export_package` (they change nothing), negative controls that switch
  a check off on purpose, header and JSON parsing, the wording of findings.
