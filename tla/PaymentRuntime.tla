--------------------------- MODULE PaymentRuntime ---------------------------
(***************************************************************************)
(* The payment runtime pilot: adapters with a durable dispatch journal and *)
(* a provider with a durable ledger, talking over HTTP                      *)
(* (experiments/payment-runtime-pilot/payment_runtime.py).                  *)
(*                                                                         *)
(* A journal and the provider's store are SQLite files; what one           *)
(* BEGIN IMMEDIATE transaction does is one action.  Between two            *)
(* transactions of a call, or between a transaction and an HTTP exchange,  *)
(* every other process may take a step, and the process may die.  An       *)
(* adapter instance runs one call at a time; two threads of one process    *)
(* are two workers on one journal.  The counters of the metrics tables are *)
(* written for the test harness and read by nothing here; they are left out.*)
(***************************************************************************)
EXTENDS Integers, FiniteSets, FiniteSetsExt

CONSTANTS
    Request,          \* the requests that may be submitted
    Journal,          \* journal files
    Worker,           \* adapter instances
    JournalOf,        \* the journal an adapter instance was constructed with
    Provider,         \* provider processes on the one provider store
    Generation,       \* [epoch, config]: recovery epoch, configuration digest
    Scope, Unit,      \* the context of store and journals: scope, currency unit
    Account, InitialBalance, MaxBalance,
    Claimed,          \* a journal row without a receipt
    NoReceipt,        \* a response whose status is not 200
    None              \* no row, no value, not running

ASSUME JournalAssumption == JournalOf \in [Worker -> Journal]
ASSUME GenerationAssumption == \A g \in Generation : g.epoch \in Nat
ASSUME RequestAssumption ==
    \A r \in Request :
        /\ r.source \in Account /\ r.beneficiary \in Account
        /\ r.source # r.beneficiary
        /\ r.amount \in Nat \ {0}
ASSUME BalanceAssumption ==
    /\ DOMAIN InitialBalance \subseteq Account
    /\ \A a \in DOMAIN InitialBalance : InitialBalance[a] \in 0..MaxBalance
    /\ MaxBalance \in Nat

\* A native receipt.  Its signature and time add nothing the properties tell
\* apart: one store records at most one receipt for a request.
FailureReason == {"unknown_account", "insufficient_funds", "balance_limit"}
Receipt == [request : Request, status : {"settled"}, reason : {"none"}]
             \cup [request : Request, status : {"failed"}, reason : FailureReason]

ASSUME SentinelAssumption ==
    /\ None \notin Request \cup Generation \cup Receipt \cup {Claimed, NoReceipt}
    /\ Claimed \notin Receipt
    /\ NoReceipt \notin Receipt

\* What a call reports: a terminal state with its receipt, or a verdict.
Terminal(rc) == [state |-> "TERMINAL", receipt |-> rc]
Plain(v) == [state |-> v, receipt |-> None]
Verdict == {"REJECTED", "CONFLICT", "JOURNAL_UNAVAILABLE", "UNKNOWN"}
Result == [state : {"TERMINAL"}, receipt : Receipt] \cup [state : Verdict, receipt : {None}]

VARIABLES
    \* journals
    dispatches,       \* per journal and request: None, Claimed, or the receipt
    jgen,             \* the generation each journal's metadata holds
    \* adapters
    agen,             \* the generation an instance was constructed with; None: down
    pc, req, reply, outcome,
    \* provider
    provider,         \* the generation each process serves; None: down
    pgen, payments, effects, balances,
    \* network and handler threads
    posts, handling,
    \* observation only: POSTs sent for a request on behalf of a journal
    sent

journalVars == <<dispatches, jgen>>
adapterVars == <<agen, pc, req, reply, outcome>>
storeVars == <<pgen, payments, effects, balances>>
networkVars == <<posts, handling>>
vars == <<journalVars, adapterVars, provider, storeVars, networkVars, sent>>

-----------------------------------------------------------------------------
(* Helpers the transactions share.                                         *)

\* MUTANT: only the operation id is compared.
MatchingOperation(stored, r) == {s \in stored : s.op = r.op}

\* Rows of a table that match a request on operation id or idempotency key.
Matching(stored, r) == {s \in stored : s.op = r.op \/ s.key = r.key}
Missing(stored, r) == Matching(stored, r) = {}
Found(stored, r) == Matching(stored, r) = {r}
Conflict(stored, r) == ~ Missing(stored, r) /\ ~ Found(stored, r)

Claims(j) == {r \in Request : dispatches[j][r] # None}
Recorded == {r \in Request : payments[r] # None}

\* A process may open a store that is new, or behind, or at its generation.
Admissible(stored, g) ==
    stored # None => g.epoch > stored.epoch \/ g = stored

\* MUTANT: a process trusts the generation it was started with.
OwnGeneration(stored, g, r) == r.gen = g /\ r.unit = Unit

\* The instance still holds the store's generation, and the request is its own.
CurrentGeneration(stored, g, r) == stored = g /\ r.gen = g /\ r.unit = Unit

Prepared(r) == r.scope = Scope

VerifyReceipt(rc, r) == rc \in Receipt /\ rc.request = r

\* What a call reports of a journal row.
FromRow(row) == IF row \in Receipt THEN Terminal(row) ELSE Plain("UNKNOWN")

\* MUTANT: the limit is compared before the amount is added.
FailureOverLimit(r) ==
    IF ~ {r.source, r.beneficiary} \subseteq DOMAIN balances THEN "unknown_account"
    ELSE IF balances[r.source] < r.amount THEN "insufficient_funds"
    ELSE IF balances[r.beneficiary] > MaxBalance THEN "balance_limit"
    ELSE "none"

Failure(r) ==
    IF ~ {r.source, r.beneficiary} \subseteq DOMAIN balances THEN "unknown_account"
    ELSE IF balances[r.source] < r.amount THEN "insufficient_funds"
    ELSE IF balances[r.beneficiary] + r.amount > MaxBalance THEN "balance_limit"
    ELSE "none"

ReceiptFor(r) ==
    [request |-> r, status |-> IF Failure(r) = "none" THEN "settled" ELSE "failed",
     reason |-> Failure(r)]

Moved(r) ==
    [balances EXCEPT ![r.source] = @ - r.amount, ![r.beneficiary] = @ + r.amount]

-----------------------------------------------------------------------------
Init ==
    /\ dispatches = [j \in Journal |-> [r \in Request |-> None]]
    /\ jgen = [j \in Journal |-> None]
    /\ agen = [w \in Worker |-> None]
    /\ pc = [w \in Worker |-> "idle"]
    /\ req = [w \in Worker |-> None]
    /\ reply = [w \in Worker |-> None]
    /\ outcome = [w \in Worker |-> None]
    /\ provider = [p \in Provider |-> None]
    /\ pgen = None
    /\ payments = [r \in Request |-> None]
    /\ effects = {}
    /\ balances = [a \in {} |-> 0]
    /\ posts = {}
    /\ handling = {}
    /\ sent = [j \in Journal |-> [r \in Request |-> 0]]

-----------------------------------------------------------------------------
(* Adapter: construction, crash, and the steps of submit, read_status and  *)
(* reconcile.                                                              *)

StartAdapter(w, g) ==
    /\ agen[w] = None
    /\ Admissible(jgen[JournalOf[w]], g)
    /\ agen' = [agen EXCEPT ![w] = g]
    /\ jgen' = [jgen EXCEPT ![JournalOf[w]] = g]
    /\ UNCHANGED <<dispatches, pc, req, reply, outcome, provider, storeVars,
                   networkVars, sent>>

\* Process death: only the journal survives; a request already on the wire
\* stays there.
CrashAdapter(w) ==
    /\ agen[w] # None
    /\ agen' = [agen EXCEPT ![w] = None]
    /\ pc' = [pc EXCEPT ![w] = "idle"]
    /\ req' = [req EXCEPT ![w] = None]
    /\ reply' = [reply EXCEPT ![w] = None]
    /\ outcome' = [outcome EXCEPT ![w] = None]
    /\ UNCHANGED <<journalVars, provider, storeVars, networkVars, sent>>

\* The call ends and reports v.
Return(w, v) ==
    /\ pc' = [pc EXCEPT ![w] = "idle"]
    /\ req' = [req EXCEPT ![w] = None]
    /\ reply' = [reply EXCEPT ![w] = None]
    /\ outcome' = [outcome EXCEPT ![w] = v]
    /\ UNCHANGED agen

\* The call goes on at step l.
Goto(w, l) ==
    /\ pc' = [pc EXCEPT ![w] = l]
    /\ UNCHANGED <<agen, req, reply, outcome>>

Ready(w) == agen[w] # None /\ pc[w] = "idle"

Begin(w, r, l) ==
    /\ pc' = [pc EXCEPT ![w] = l]
    /\ req' = [req EXCEPT ![w] = r]
    /\ outcome' = [outcome EXCEPT ![w] = None]
    /\ UNCHANGED <<agen, reply>>

\* MUTANT: an open claim found by submit is taken up again.
ResumeClaim(w, r) ==
    LET j == JournalOf[w] IN
    /\ Ready(w) /\ Prepared(r)
    /\ Missing(Claims(j), r) \/ dispatches[j][r] = Claimed
    /\ CurrentGeneration(jgen[j], agen[w], r)
    /\ dispatches' = [dispatches EXCEPT ![j][r] = Claimed]
    /\ Begin(w, r, "claimed")
    /\ UNCHANGED <<jgen, provider, storeVars, networkVars, sent>>

\* submit, _claim's transaction: a new claim is durable before anything else.
ClaimNew(w, r) ==
    LET j == JournalOf[w] IN
    /\ Ready(w) /\ Prepared(r)
    /\ Missing(Claims(j), r)
    /\ CurrentGeneration(jgen[j], agen[w], r)
    /\ dispatches' = [dispatches EXCEPT ![j][r] = Claimed]
    /\ Begin(w, r, "claimed")
    /\ UNCHANGED <<jgen, provider, storeVars, networkVars, sent>>

\* submit of a request that has a row already: report the row, never send.
SubmitExisting(w, r) ==
    /\ Ready(w) /\ Prepared(r)
    /\ Found(Claims(JournalOf[w]), r)
    /\ Return(w, FromRow(dispatches[JournalOf[w]][r]))
    /\ UNCHANGED <<journalVars, provider, storeVars, networkVars, sent>>

SubmitRefused(w, r) ==
    LET stored == Claims(JournalOf[w]) IN
    /\ Ready(w)
    /\ \/ ~ Prepared(r) /\ Return(w, Plain("REJECTED"))
       \/ Prepared(r) /\ Conflict(stored, r) /\ Return(w, Plain("CONFLICT"))
       \/ /\ Prepared(r) /\ Missing(stored, r)
          /\ ~ CurrentGeneration(jgen[JournalOf[w]], agen[w], r)
          /\ Return(w, Plain("REJECTED"))
    /\ UNCHANGED <<journalVars, provider, storeVars, networkVars, sent>>

\* The callback of the protected extension (admit_new_claim) refuses: the
\* transaction is rolled back and the call reports a rejection.
AdmissionRefused(w, r) ==
    /\ Ready(w) /\ Prepared(r)
    /\ Missing(Claims(JournalOf[w]), r)
    /\ CurrentGeneration(jgen[JournalOf[w]], agen[w], r)
    /\ Return(w, Plain("REJECTED"))
    /\ UNCHANGED <<journalVars, provider, storeVars, networkVars, sent>>

\* SQLite refuses the claim's transaction.
SubmitUnavailable(w, r) ==
    /\ Ready(w) /\ Prepared(r)
    /\ Return(w, Plain("JOURNAL_UNAVAILABLE"))
    /\ UNCHANGED <<journalVars, provider, storeVars, networkVars, sent>>

\* The one POST of the worker that made the claim.
Post(w) ==
    /\ pc[w] = "claimed"
    /\ posts' = posts \cup {[from |-> w, req |-> req[w]]}
    /\ sent' = [sent EXCEPT ![JournalOf[w]][req[w]] = @ + 1]
    /\ Goto(w, "posted")
    /\ UNCHANGED <<journalVars, provider, storeVars, handling>>

\* MUTANT: a timed-out exchange is tried again.
RetryPost(w) ==
    /\ pc[w] \in {"claimed", "posted", "lookup", "verified"}
    /\ Goto(w, IF pc[w] = "posted" THEN "claimed" ELSE "retain")
    /\ UNCHANGED <<journalVars, provider, storeVars, networkVars, sent>>

\* Any exception after the claim: a hook or before_dispatch raises, the
\* exchange times out or is reset, the journal cannot be written.
Interrupted(w) ==
    /\ pc[w] \in {"claimed", "posted", "lookup", "verified"}
    /\ Goto(w, "retain")
    /\ UNCHANGED <<journalVars, provider, storeVars, networkVars, sent>>

\* _store_receipt: one transaction; a terminal row is kept, never replaced.
StoreReceipt(w) ==
    LET j == JournalOf[w]
        r == req[w]
        row == dispatches[j][r] IN
    /\ pc[w] = "verified"
    /\ \/ /\ Found(Claims(j), r) /\ row \in {Claimed, reply[w]}
          /\ dispatches' = [dispatches EXCEPT ![j][r] = reply[w]]
          /\ Return(w, Terminal(reply[w]))
       \/ /\ ~ Found(Claims(j), r) \/ row \notin {Claimed, reply[w]}
          /\ Goto(w, "retain")
          /\ UNCHANGED dispatches
    /\ UNCHANGED <<jgen, provider, storeVars, networkVars, sent>>

\* MUTANT: the receipt at hand is reported although it was not stored.
RetainReply(w) ==
    /\ pc[w] = "retain"
    /\ Return(w, FromRow(reply[w]))
    /\ UNCHANGED <<journalVars, provider, storeVars, networkVars, sent>>

\* _retain_unknown: another worker's receipt wins over "not known"; a journal
\* that cannot be read reports "not known".
RetainUnknown(w) ==
    /\ pc[w] = "retain"
    /\ \/ Return(w, FromRow(dispatches[JournalOf[w]][req[w]]))
       \/ Return(w, Plain("UNKNOWN"))
    /\ UNCHANGED <<journalVars, provider, storeVars, networkVars, sent>>

\* read_status, and a reconcile that ends at the journal.
ReadStatus(w, r) ==
    LET stored == Claims(JournalOf[w]) IN
    /\ Ready(w) /\ Prepared(r)
    /\ \/ Conflict(stored, r) /\ Return(w, Plain("CONFLICT"))
       \/ ~ Conflict(stored, r) /\ Return(w, FromRow(dispatches[JournalOf[w]][r]))
       \/ Return(w, Plain("UNKNOWN"))
    /\ UNCHANGED <<journalVars, provider, storeVars, networkVars, sent>>

\* reconcile: the journal first; only an open claim leads to a lookup.
Reconcile(w, r) ==
    /\ Ready(w) /\ Prepared(r)
    /\ Found(Claims(JournalOf[w]), r)
    /\ dispatches[JournalOf[w]][r] = Claimed
    /\ Begin(w, r, "lookup")
    /\ UNCHANGED <<journalVars, provider, storeVars, networkVars, sent>>

\* A response body reaches the worker: a receipt that verifies is stored next,
\* anything else ends in _retain_unknown.
Answer(w, v) ==
    /\ reply' = [reply EXCEPT ![w] = IF VerifyReceipt(v, req[w]) THEN v ELSE None]
    /\ pc' = [pc EXCEPT ![w] = IF VerifyReceipt(v, req[w]) THEN "verified" ELSE "retain"]
    /\ UNCHANGED <<agen, req, outcome>>

\* MUTANT: lookups are answered for the current generation only.
LookupCurrent(r) ==
    IF Found(Recorded, r) /\ r.gen = pgen THEN payments[r] ELSE NoReceipt

LookupAnswer(r) ==
    IF Found(Recorded, r) THEN payments[r] ELSE NoReceipt

\* The GET of reconcile.  It reads one snapshot of the provider's store and
\* changes nothing, so request, read and response are one step.
Lookup(w, p) ==
    /\ pc[w] = "lookup"
    /\ provider[p] # None
    /\ Answer(w, LookupAnswer(req[w]))
    /\ UNCHANGED <<journalVars, provider, storeVars, networkVars, sent>>

-----------------------------------------------------------------------------
(* Provider.                                                               *)

\* MUTANT: a restart seeds the accounts again.
StartSeeding(p, g) ==
    /\ provider[p] = None
    /\ Admissible(pgen, g)
    /\ provider' = [provider EXCEPT ![p] = g]
    /\ pgen' = g
    /\ balances' = InitialBalance
    /\ UNCHANGED <<journalVars, adapterVars, payments, effects,
                   networkVars, sent>>

\* _initialize_provider: existing balances are never seeded again.
StartProvider(p, g) ==
    /\ provider[p] = None
    /\ Admissible(pgen, g)
    /\ provider' = [provider EXCEPT ![p] = g]
    /\ pgen' = g
    /\ balances' = [a \in DOMAIN balances \cup DOMAIN InitialBalance |->
                      IF a \in DOMAIN balances THEN balances[a] ELSE InitialBalance[a]]
    /\ UNCHANGED <<journalVars, adapterVars, payments, effects,
                   networkVars, sent>>

CrashProvider(p) ==
    /\ provider[p] # None
    /\ provider' = [provider EXCEPT ![p] = None]
    /\ handling' = {h \in handling : h.by # p}
    /\ UNCHANGED <<journalVars, adapterVars, storeVars, posts, sent>>

\* do_POST begins.
ReceivePost(p, m) ==
    /\ provider[p] # None
    /\ posts' = posts \ {m}
    /\ handling' = handling \cup
         {[from |-> m.from, req |-> m.req, by |-> p, answer |-> None]}
    /\ UNCHANGED <<journalVars, adapterVars, provider, pgen, payments, effects,
                   balances, sent>>

\* The connection is refused, or do_POST fails before the payment transaction.
LosePost(m) ==
    /\ posts' = posts \ {m}
    /\ UNCHANGED <<journalVars, adapterVars, provider, storeVars, handling, sent>>

Answered(h, v) == handling' = (handling \ {h}) \cup {[h EXCEPT !.answer = v]}

\* _apply_payment's transaction, when the request is already recorded or is
\* refused: nothing is written.
AnswerRecorded(h) ==
    /\ h.answer = None
    /\ \/ ~ Prepared(h.req) /\ Answered(h, NoReceipt)
       \/ /\ Prepared(h.req) /\ Found(Recorded, h.req)
          /\ Answered(h, payments[h.req])
       \/ /\ Prepared(h.req) /\ Conflict(Recorded, h.req)
          /\ Answered(h, NoReceipt)
       \/ /\ Prepared(h.req) /\ Missing(Recorded, h.req)
          /\ ~ CurrentGeneration(pgen, provider[h.by], h.req)
          /\ Answered(h, NoReceipt)
    /\ UNCHANGED <<journalVars, adapterVars, provider, storeVars, posts, sent>>

\* MUTANT: a failed payment is answered but not recorded.
ApplySettledOnly(h) ==
    LET r == h.req IN
    /\ h.answer = None
    /\ Prepared(r)
    /\ Missing(Recorded, r)
    /\ CurrentGeneration(pgen, provider[h.by], r)
    /\ IF Failure(r) = "none"
       THEN /\ balances' = Moved(r) /\ effects' = effects \cup {r}
            /\ payments' = [payments EXCEPT ![r] = ReceiptFor(r)]
       ELSE UNCHANGED <<balances, effects, payments>>
    /\ Answered(h, ReceiptFor(r))
    /\ UNCHANGED <<journalVars, adapterVars, provider, pgen, posts, sent>>

\* _apply_payment's transaction for a new request: balances, effect, payment
\* and receipt together.
ApplyPayment(h) ==
    LET r == h.req IN
    /\ h.answer = None
    /\ Prepared(r)
    /\ Missing(Recorded, r)
    /\ CurrentGeneration(pgen, provider[h.by], r)
    /\ IF Failure(r) = "none"
       THEN balances' = Moved(r) /\ effects' = effects \cup {r}
       ELSE UNCHANGED <<balances, effects>>
    /\ payments' = [payments EXCEPT ![r] = ReceiptFor(r)]
    /\ Answered(h, ReceiptFor(r))
    /\ UNCHANGED <<journalVars, adapterVars, provider, pgen, posts, sent>>

\* The response goes out; only a caller still waiting on it sees it.
Respond(h) ==
    /\ h.answer # None
    /\ handling' = handling \ {h}
    /\ IF pc[h.from] = "posted" /\ req[h.from] = h.req
       THEN Answer(h.from, h.answer)
       ELSE UNCHANGED adapterVars
    /\ UNCHANGED <<journalVars, provider, storeVars, posts, sent>>

\* The handler drops the connection: a failed transaction, a failing hook, or
\* drop_after_commit once a payment is committed.
DropHandling(h) ==
    /\ handling' = handling \ {h}
    /\ UNCHANGED <<journalVars, adapterVars, provider, storeVars, posts, sent>>

-----------------------------------------------------------------------------
Call(w, r) ==
    \/ ClaimNew(w, r) \/ SubmitExisting(w, r) \/ SubmitRefused(w, r)
    \/ AdmissionRefused(w, r) \/ SubmitUnavailable(w, r)
    \/ ReadStatus(w, r) \/ Reconcile(w, r)

Continue(w) ==
    \/ Post(w) \/ Interrupted(w) \/ StoreReceipt(w) \/ RetainUnknown(w)
    \/ \E p \in Provider : Lookup(w, p)

Network ==
    \/ \E p \in Provider, m \in posts : ReceivePost(p, m)
    \/ \E m \in posts : LosePost(m)
    \/ \E h \in handling :
         AnswerRecorded(h) \/ ApplyPayment(h) \/ Respond(h) \/ DropHandling(h)

Lifecycle ==
    \/ \E w \in Worker : CrashAdapter(w) \/ \E g \in Generation : StartAdapter(w, g)
    \/ \E p \in Provider : CrashProvider(p) \/ \E g \in Generation : StartProvider(p, g)

Next ==
    \/ \E w \in Worker, r \in Request : Call(w, r)
    \/ \E w \in Worker : Continue(w)
    \/ Network
    \/ Lifecycle

Spec == Init /\ [][Next]_vars

-----------------------------------------------------------------------------
(* Properties.                                                             *)

\* Type invariant: every row, reply, result and message is one the program can
\* hold, and no balance leaves the range the provider's column can store.
TypeOK ==
    /\ dispatches \in [Journal -> [Request -> {None, Claimed} \cup Receipt]]
    /\ jgen \in [Journal -> Generation \cup {None}]
    /\ agen \in [Worker -> Generation \cup {None}]
    /\ pc \in [Worker -> {"idle", "claimed", "posted", "lookup", "verified", "retain"}]
    /\ req \in [Worker -> Request \cup {None}]
    /\ reply \in [Worker -> Receipt \cup {None}]
    /\ outcome \in [Worker -> Result \cup {None}]
    /\ provider \in [Provider -> Generation \cup {None}]
    /\ pgen \in Generation \cup {None}
    /\ payments \in [Request -> Receipt \cup {None}]
    /\ effects \subseteq Request
    /\ balances \in [{} -> 0..MaxBalance] \cup [DOMAIN InitialBalance -> 0..MaxBalance]
    /\ posts \subseteq [from : Worker, req : Request]
    /\ handling \subseteq [from : Worker, req : Request, by : Provider,
                           answer : Receipt \cup {None, NoReceipt}]
    /\ sent \in [Journal -> [Request -> Nat]]

\* A journal's claim is good for one POST: whatever crashes, timeouts, repeated
\* submits and reconciliations happen, _submit_prepared never sends a request
\* twice on behalf of one journal, and never sends one without a durable row.
AtMostOnePost ==
    \A j \in Journal, r \in Request :
        /\ sent[j][r] \in {0, 1}
        /\ sent[j][r] = 1 => dispatches[j][r] # None

\* A terminal journal row is the receipt the provider's store holds for that
\* very request; a late, lost or foreign answer never settles a journal.
JournalAgrees ==
    \A j \in Journal, r \in Request :
        dispatches[j][r] \in Receipt => payments[r] = dispatches[j][r]

\* An operation id and an idempotency key each name one recorded payment and
\* one claim per journal, whichever of two clashing requests comes first.
IdentityNamesOne ==
    LET Distinct(S) == \A r, s \in S : r # s => r.op # s.op /\ r.key # s.key
    IN  Distinct(Recorded) /\ \A j \in Journal : Distinct(Claims(j))

MovedIffSettled == effects = {r \in Recorded : payments[r].status = "settled"}

\* Money moves exactly with a settled receipt: the accounts hold what they were
\* first seeded with plus and minus the settled payments, across provider
\* restarts (which seed again only what is missing) and lost responses.
BooksBalance ==
    LET In(a) == {r \in effects : r.beneficiary = a}
        Out(a) == {r \in effects : r.source = a}
        Total(S) == MapThenSumSet(LAMBDA r : r.amount, S)
    IN  /\ MovedIffSettled
        /\ \A a \in DOMAIN balances :
             balances[a] = InitialBalance[a] + Total(In(a)) - Total(Out(a))

\* A payment is recorded only for a request some journal claimed and sent.
PaidWasSent ==
    \A r \in Recorded : \E j \in Journal : sent[j][r] = 1

\* What a call reported as terminal is what the journal holds from then on, so
\* a caller told "settled" is never told anything else by a later call.
ReportedIsDurable ==
    \A w \in Worker :
        outcome[w] # None /\ outcome[w].state = "TERMINAL" =>
            LET rc == outcome[w].receipt
            IN  dispatches[JournalOf[w]][rc.request] = rc

\* What makes the above inductive: a call in progress has its row, an owner that
\* has not posted yet is the only one and its claim is unspent, whatever is on the
\* wire was paid for by a claim, and a receipt seen anywhere is the recorded one.
CallHasRow == \A w \in Worker : pc[w] # "idle" => dispatches[JournalOf[w]][req[w]] # None
ClaimUnspent ==
    \A w \in Worker : pc[w] = "claimed" =>
        /\ sent[JournalOf[w]][req[w]] = 0
        /\ \A v \in Worker \ {w} :
             pc[v] = "claimed" /\ JournalOf[v] = JournalOf[w] => req[v] # req[w]
WireWasSent ==
    /\ \A m \in posts : sent[JournalOf[m.from]][m.req] = 1
    /\ \A h \in handling : sent[JournalOf[h.from]][h.req] = 1
ReceiptsRecorded ==
    /\ \A r \in Recorded : payments[r].request = r
    /\ \A w \in Worker : reply[w] # None => payments[reply[w].request] = reply[w]
    /\ \A h \in handling :
         h.answer \in Receipt => payments[h.answer.request] = h.answer

SafetyInv ==
    /\ CallHasRow
    /\ ClaimUnspent
    /\ AtMostOnePost
    /\ WireWasSent
    /\ PaidWasSent
    /\ ReceiptsRecorded
    /\ JournalAgrees
    /\ ReportedIsDurable
    /\ MovedIffSettled
    /\ IdentityNamesOne

\* Generations fence: a claim or a payment is made only for the generation its
\* store holds at that instant, even by a process that was started under an
\* older one, and a store's generation never goes back.
GenerationFence ==
    [][/\ \A r \in Request :
            /\ payments[r] = None /\ payments'[r] # None => r.gen = pgen
            /\ \A j \in Journal :
                 dispatches[j][r] = None /\ dispatches'[j][r] # None => r.gen = jgen[j]
       /\ Admissible(pgen, pgen')
       /\ \A j \in Journal : Admissible(jgen[j], jgen'[j])]_vars

\* The runtime implements the abstract promise: each step of a journal or of the
\* provider's store is a claim, a send, a decision or a lesson of
\* AtMostOncePayment, and everything else the code does is invisible there.
Abstract == INSTANCE AtMostOncePayment
    WITH view <- dispatches, ledger <- payments, moved <- effects
Implements == Abstract!Spec

-----------------------------------------------------------------------------
(* Liveness.                                                               *)

Crash ==
    \/ \E w \in Worker : CrashAdapter(w)
    \/ \E p \in Provider : CrashProvider(p)

\* A call runs on: sockets and SQLite waits time out (timeout, sqlite_timeout).
CallFairness == \A w \in Worker : WF_vars(Continue(w))

\* The operator's side: processes are restarted, crashes end, and reconcile is
\* called again until it has answered; a provider that is up does not let every
\* lookup time out, nor SQLite every write.
OperatorFairness ==
    /\ <>[][~ Crash]_vars
    /\ \A p \in Provider : WF_vars(\E g \in Generation : StartProvider(p, g))
    /\ \A w \in Worker :
         /\ WF_vars(\E g \in Generation : StartAdapter(w, g))
         /\ \A r \in Request : SF_vars(Reconcile(w, r))
         /\ SF_vars(\E p \in Provider : Lookup(w, p))
         /\ SF_vars(StoreReceipt(w))

LiveSpec == Spec /\ CallFairness /\ OperatorFairness

\* A claim whose answer was lost is not lost: once the provider has recorded the
\* payment, reconciliation brings its receipt into the journal, also when the
\* recovery epoch has moved on in between.
RecordedIsLearned ==
    \A j \in Journal, r \in Request :
        dispatches[j][r] = Claimed /\ payments[r] # None
            ~> dispatches[j][r] \in Receipt

=============================================================================
