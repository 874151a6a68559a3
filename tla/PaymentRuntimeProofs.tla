------------------------ MODULE PaymentRuntimeProofs ------------------------
(* Invariance of the payment runtime's safety properties, for every value of *)
(* the constants, and its refinement of AtMostOncePayment.                   *)
EXTENDS PaymentRuntime, FiniteSetTheorems, TLAPS

\* A call in progress has a request, and a receipt in hand was verified against
\* it.
CallOK ==
    \A w \in Worker :
        /\ pc[w] # "idle" => req[w] \in Request
        /\ pc[w] = "verified" => reply[w] \in Receipt /\ reply[w].request = req[w]

TypeInv == TypeOK /\ CallOK

USE SentinelAssumption, JournalAssumption

\* The receipt of a payment is one, and of that request.
LEMMA ReceiptForType ==
    ASSUME NEW r \in Request
    PROVE  ReceiptFor(r) \in Receipt /\ ReceiptFor(r).request = r
BY DEF ReceiptFor, Receipt, Failure, FailureReason

\* A balance never leaves its range: a payment that passes the checks keeps both
\* accounts between zero and the largest storable amount.
LEMMA MovedType ==
    ASSUME NEW r \in Request, Failure(r) = "none",
           balances \in [{} -> 0..MaxBalance] \cup [DOMAIN InitialBalance -> 0..MaxBalance]
    PROVE  Moved(r) \in [{} -> 0..MaxBalance] \cup [DOMAIN InitialBalance -> 0..MaxBalance]
<1>1. {r.source, r.beneficiary} \subseteq DOMAIN balances
    BY DEF Failure
<1>2. /\ balances[r.source] >= r.amount
      /\ balances[r.beneficiary] + r.amount <= MaxBalance
      /\ r.amount \in Nat \ {0} /\ r.source # r.beneficiary
      /\ MaxBalance \in Nat
      /\ balances[r.source] \in 0..MaxBalance
      /\ balances[r.beneficiary] \in 0..MaxBalance
    BY <1>1, RequestAssumption, BalanceAssumption DEF Failure
<1>3. balances \in [DOMAIN InitialBalance -> 0..MaxBalance]
    BY <1>1
<1>4. /\ balances[r.source] - r.amount \in 0..MaxBalance
      /\ balances[r.beneficiary] + r.amount \in 0..MaxBalance
    BY <1>2
<1>5. Moved(r) = [a \in DOMAIN InitialBalance |->
                    IF a = r.source THEN balances[r.source] - r.amount
                    ELSE IF a = r.beneficiary THEN balances[r.beneficiary] + r.amount
                    ELSE balances[a]]
    BY <1>1, <1>2, <1>3 DEF Moved
<1> QED
    BY <1>3, <1>4, <1>5

\* The initial values have their types.
LEMMA TypeInit == Init => TypeInv
BY DEF Init, TypeInv, TypeOK, CallOK


\* What the ends and continuations of a call do to its own variables.
LEMMA ReturnType ==
    ASSUME TypeInv, NEW w \in Worker, NEW v \in Result, Return(w, v)
    PROVE  /\ pc' \in [Worker -> {"idle", "claimed", "posted", "lookup", "verified", "retain"}]
           /\ req' \in [Worker -> Request \cup {None}]
           /\ reply' \in [Worker -> Receipt \cup {None}]
           /\ outcome' \in [Worker -> Result \cup {None}]
           /\ agen' = agen
           /\ CallOK'
BY DEF TypeInv, TypeOK, CallOK, Return

\* A call that begins.
LEMMA BeginType ==
    ASSUME TypeInv, NEW w \in Worker, NEW r \in Request, NEW l \in {"claimed", "lookup"},
           Begin(w, r, l)
    PROVE  /\ pc' \in [Worker -> {"idle", "claimed", "posted", "lookup", "verified", "retain"}]
           /\ req' \in [Worker -> Request \cup {None}]
           /\ reply' \in [Worker -> Receipt \cup {None}]
           /\ outcome' \in [Worker -> Result \cup {None}]
           /\ agen' = agen
           /\ CallOK'
BY DEF TypeInv, TypeOK, CallOK, Begin

\* A call that moves on.
LEMMA GotoType ==
    ASSUME TypeInv, NEW w \in Worker, NEW l \in {"posted", "retain"},
           pc[w] # "idle", Goto(w, l)
    PROVE  /\ pc' \in [Worker -> {"idle", "claimed", "posted", "lookup", "verified", "retain"}]
           /\ req' \in [Worker -> Request \cup {None}]
           /\ reply' \in [Worker -> Receipt \cup {None}]
           /\ outcome' \in [Worker -> Result \cup {None}]
           /\ agen' = agen
           /\ CallOK'
BY DEF TypeInv, TypeOK, CallOK, Goto

\* A call that is answered.
LEMMA AnswerType ==
    ASSUME TypeInv, NEW w \in Worker, NEW v, pc[w] # "idle", Answer(w, v)
    PROVE  /\ pc' \in [Worker -> {"idle", "claimed", "posted", "lookup", "verified", "retain"}]
           /\ req' \in [Worker -> Request \cup {None}]
           /\ reply' \in [Worker -> Receipt \cup {None}]
           /\ outcome' \in [Worker -> Result \cup {None}]
           /\ agen' = agen
           /\ CallOK'
BY DEF TypeInv, TypeOK, CallOK, Answer, VerifyReceipt

\* What is reported of a row is a result.
LEMMA FromRowType ==
    ASSUME NEW row PROVE FromRow(row) \in Result
BY DEF FromRow, Terminal, Plain, Result, Verdict

\* A verdict without a receipt is a result.
LEMMA PlainType ==
    ASSUME NEW v \in Verdict PROVE Plain(v) \in Result
BY DEF Plain, Result


\* The variables of the calls, as one fact.
CallType ==
    /\ agen \in [Worker -> Generation \cup {None}]
    /\ pc \in [Worker -> {"idle", "claimed", "posted", "lookup", "verified", "retain"}]
    /\ req \in [Worker -> Request \cup {None}]
    /\ reply \in [Worker -> Receipt \cup {None}]
    /\ outcome \in [Worker -> Result \cup {None}]
    /\ CallOK

\* The first transaction of a call keeps the types.
LEMMA CallStep ==
    ASSUME TypeInv, NEW w \in Worker, NEW r \in Request, Call(w, r)
    PROVE  TypeInv'
<1> USE DEF storeVars, networkVars, journalVars
<1>1. CASE ClaimNew(w, r)
    <2>1. CallType'
        BY <1>1, BeginType DEF ClaimNew, CallType, TypeInv, TypeOK
    <2> QED
        BY <1>1, <2>1 DEF ClaimNew, CallType, TypeInv, TypeOK
<1>2. CASE \E v \in Result :
            Return(w, v) /\ UNCHANGED <<journalVars, provider, storeVars, networkVars, sent>>
    <2>1. CallType'
        BY <1>2, ReturnType DEF CallType, TypeInv, TypeOK
    <2> QED
        BY <1>2, <2>1 DEF CallType, TypeInv, TypeOK
<1>3. CASE Reconcile(w, r)
    <2>1. CallType'
        BY <1>3, BeginType DEF Reconcile, CallType, TypeInv, TypeOK
    <2> QED
        BY <1>3, <2>1 DEF Reconcile, CallType, TypeInv, TypeOK
<1>4. CASE SubmitExisting(w, r) \/ SubmitRefused(w, r) \/ AdmissionRefused(w, r)
           \/ SubmitUnavailable(w, r) \/ ReadStatus(w, r)
    <2>1. /\ \A row : FromRow(row) \in Result
          /\ \A v \in Verdict : Plain(v) \in Result
        BY FromRowType, PlainType
    <2>2. {"REJECTED", "CONFLICT", "JOURNAL_UNAVAILABLE", "UNKNOWN"} \subseteq Verdict
        BY DEF Verdict
    <2> QED
        BY <1>2, <1>4, <2>1, <2>2
           DEF SubmitExisting, SubmitRefused, AdmissionRefused, SubmitUnavailable, ReadStatus
<1> QED
    BY <1>1, <1>3, <1>4 DEF Call

\* So do its later steps,
LEMMA ContinueStep ==
    ASSUME TypeInv, NEW w \in Worker, Continue(w)
    PROVE  TypeInv'
<1> USE DEF storeVars, networkVars, journalVars
<1>0. pc[w] # "idle" /\ req[w] \in Request
    BY DEF Continue, Post, Interrupted, StoreReceipt, RetainUnknown, Lookup, TypeInv, CallOK
<1>1. CASE Post(w)
    <2>1. CallType'
        BY <1>0, <1>1, GotoType DEF Post, CallType, TypeInv, TypeOK
    <2>2. sent' \in [Journal -> [Request -> Nat]]
        BY <1>0, <1>1 DEF Post, TypeInv, TypeOK
    <2> QED
        BY <1>0, <1>1, <2>1, <2>2 DEF Post, CallType, TypeInv, TypeOK
<1>2. CASE Interrupted(w)
    <2>1. CallType'
        BY <1>0, <1>2, GotoType DEF Interrupted, CallType, TypeInv, TypeOK
    <2> QED
        BY <1>2, <2>1 DEF Interrupted, CallType, TypeInv, TypeOK
<1>3. CASE StoreReceipt(w)
    <2>1. reply[w] \in Receipt
        BY <1>3 DEF StoreReceipt, TypeInv, CallOK
    <2>2. Terminal(reply[w]) \in Result
        BY <2>1 DEF Terminal, Result
    <2>3. CallType'
        BY <1>0, <1>3, <2>2, GotoType, ReturnType DEF StoreReceipt, CallType, TypeInv, TypeOK
    <2>4. dispatches' \in [Journal -> [Request -> {None, Claimed} \cup Receipt]]
        <3>1. dispatches \in [Journal -> [Request -> {None, Claimed} \cup Receipt]]
            BY DEF TypeInv, TypeOK
        <3>2. \/ dispatches' = dispatches
              \/ dispatches' = [dispatches EXCEPT ![JournalOf[w]][req[w]] = reply[w]]
            BY <1>3 DEF StoreReceipt
        <3> QED
            BY <1>0, <2>1, <3>1, <3>2
    <2> QED
        BY <1>3, <2>3, <2>4 DEF StoreReceipt, CallType, TypeInv, TypeOK
<1>4. CASE RetainUnknown(w)
    <2>1. CallType'
        BY <1>4, ReturnType, FromRowType, PlainType
           DEF RetainUnknown, CallType, TypeInv, TypeOK, Verdict
    <2> QED
        BY <1>4, <2>1 DEF RetainUnknown, CallType, TypeInv, TypeOK
<1>5. ASSUME NEW p \in Provider, Lookup(w, p)
      PROVE  TypeInv'
    <2>1. CallType'
        BY <1>0, <1>5, AnswerType DEF Lookup, CallType, TypeInv, TypeOK
    <2> QED
        BY <1>5, <2>1 DEF Lookup, CallType, TypeInv, TypeOK
<1> QED
    BY <1>1, <1>2, <1>3, <1>4, <1>5 DEF Continue

\* the network and the provider,
LEMMA NetworkStep ==
    ASSUME TypeInv, Network
    PROVE  TypeInv'
<1> USE DEF storeVars, networkVars, journalVars, adapterVars
<1>1. ASSUME NEW p \in Provider, NEW m \in posts, ReceivePost(p, m)
      PROVE  TypeInv'
    BY <1>1 DEF ReceivePost, TypeInv, TypeOK, CallOK
<1>2. ASSUME NEW m \in posts, LosePost(m)
      PROVE  TypeInv'
    BY <1>2 DEF LosePost, TypeInv, TypeOK, CallOK
<1>3. ASSUME NEW h \in handling, NEW v \in Receipt \cup {NoReceipt}, Answered(h, v)
      PROVE  handling' \subseteq [from : Worker, req : Request, by : Provider,
                                  answer : Receipt \cup {None, NoReceipt}]
    BY <1>3 DEF Answered, TypeInv, TypeOK
<1>4. ASSUME NEW h \in handling, AnswerRecorded(h)
      PROVE  TypeInv'
    <2>1. h.req \in Request /\ (Found(Recorded, h.req) => payments[h.req] \in Receipt)
        BY DEF Found, Matching, Recorded, TypeInv, TypeOK
    <2>2. \E v \in Receipt \cup {NoReceipt} : Answered(h, v)
        BY <1>4, <2>1 DEF AnswerRecorded
    <2>3. handling' \subseteq [from : Worker, req : Request, by : Provider,
                               answer : Receipt \cup {None, NoReceipt}]
        BY <1>3, <2>2
    <2> QED
        BY <1>4, <2>3 DEF AnswerRecorded, TypeInv, TypeOK, CallOK
<1>5. ASSUME NEW h \in handling, ApplyPayment(h)
      PROVE  TypeInv'
    <2>1. h.req \in Request /\ ReceiptFor(h.req) \in Receipt
        BY ReceiptForType DEF TypeInv, TypeOK
    <2>2. handling' \subseteq [from : Worker, req : Request, by : Provider,
                               answer : Receipt \cup {None, NoReceipt}]
        BY <1>3, <1>5, <2>1 DEF ApplyPayment
    <2>3. balances' \in [{} -> 0..MaxBalance] \cup [DOMAIN InitialBalance -> 0..MaxBalance]
        BY <1>5, <2>1, MovedType DEF ApplyPayment, TypeInv, TypeOK
    <2> QED
        BY <1>5, <2>1, <2>2, <2>3 DEF ApplyPayment, TypeInv, TypeOK, CallOK
<1>6. ASSUME NEW h \in handling, Respond(h)
      PROVE  TypeInv'
    <2>1. h.from \in Worker
        BY DEF TypeInv, TypeOK
    <2>2. CallType'
        BY <1>6, <2>1, AnswerType DEF Respond, CallType, TypeInv, TypeOK, CallOK
    <2> QED
        BY <1>6, <2>2 DEF Respond, CallType, TypeInv, TypeOK
<1>7. ASSUME NEW h \in handling, DropHandling(h)
      PROVE  TypeInv'
    BY <1>7 DEF DropHandling, TypeInv, TypeOK, CallOK
<1> QED
    BY <1>1, <1>2, <1>4, <1>5, <1>6, <1>7 DEF Network

\* and crashes and restarts.
LEMMA LifecycleStep ==
    ASSUME TypeInv, Lifecycle
    PROVE  TypeInv'
<1> USE DEF storeVars, networkVars, journalVars, adapterVars
<1>1. ASSUME NEW w \in Worker, CrashAdapter(w)
      PROVE  TypeInv'
    BY <1>1 DEF CrashAdapter, TypeInv, TypeOK, CallOK
<1>2. ASSUME NEW w \in Worker, NEW g \in Generation, StartAdapter(w, g)
      PROVE  TypeInv'
    BY <1>2 DEF StartAdapter, TypeInv, TypeOK, CallOK
<1>3. ASSUME NEW p \in Provider, CrashProvider(p)
      PROVE  TypeInv'
    BY <1>3 DEF CrashProvider, TypeInv, TypeOK, CallOK
<1>4. ASSUME NEW p \in Provider, NEW g \in Generation, StartProvider(p, g)
      PROVE  TypeInv'
    <2>1. balances' \in [DOMAIN InitialBalance -> 0..MaxBalance]
        BY <1>4, BalanceAssumption DEF StartProvider, TypeInv, TypeOK
    <2> QED
        BY <1>4, <2>1 DEF StartProvider, TypeInv, TypeOK, CallOK
<1> QED
    BY <1>1, <1>2, <1>3, <1>4 DEF Lifecycle

\* Every step keeps the types.
LEMMA TypeStep == TypeInv /\ [Next]_vars => TypeInv'
<1>1. ASSUME TypeInv, UNCHANGED vars
      PROVE  TypeInv'
    BY <1>1 DEF vars, journalVars, adapterVars, storeVars, networkVars, TypeInv, TypeOK, CallOK
<1> QED
    BY <1>1, CallStep, ContinueStep, NetworkStep, LifecycleStep DEF Next

\* Type correctness: every row, reply, result, message and balance stays within
\* its type in every execution.
THEOREM TypeCorrect == Spec => []TypeOK
<1>1. TypeInv => TypeOK
    BY DEF TypeInv
<1> QED
    BY <1>1, TypeInit, TypeStep, PTL DEF Spec


-----------------------------------------------------------------------------
(* The safety invariant.                                                   *)

USE DEF journalVars, adapterVars, storeVars, networkVars

\* Empty stores are safe.
LEMMA SafetyInit == Init => SafetyInv
BY DEF Init, SafetyInv, CallHasRow, ClaimUnspent, AtMostOnePost, WireWasSent, PaidWasSent,
       ReceiptsRecorded, JournalAgrees, ReportedIsDurable, MovedIffSettled,
       IdentityNamesOne, Recorded, Claims

\* The parts of the invariant that only speak of stores and messages.
StoreInv ==
    AtMostOnePost /\ WireWasSent /\ PaidWasSent /\ JournalAgrees /\ MovedIffSettled
        /\ IdentityNamesOne

\* Steps that leave the stores alone and add no message.
Quiet ==
    /\ UNCHANGED <<dispatches, payments, effects, sent>>
    /\ posts' \subseteq posts

\* A quiet step keeps what the stores promise.
LEMMA QuietStores ==
    ASSUME SafetyInv, Quiet, \A h \in handling' : \E g \in handling \cup posts :
                                 g.from = h.from /\ g.req = h.req
    PROVE  StoreInv'
BY DEF SafetyInv, StoreInv, Quiet, AtMostOnePost, WireWasSent, PaidWasSent, JournalAgrees,
       MovedIffSettled, IdentityNamesOne, Recorded, Claims


\* A call's steps that only move its own control on: it keeps its request and its
\* reply, and does not become the owner of a claim.
LEMMA MoveOn ==
    ASSUME TypeInv, SafetyInv, Quiet, NEW w \in Worker, NEW l \in {"posted", "retain"},
           pc[w] # "idle", Goto(w, l), handling' = handling
    PROVE  SafetyInv'
<1>1. StoreInv'
    BY QuietStores
<1>2. CallHasRow' /\ ClaimUnspent'
    BY DEF SafetyInv, CallHasRow, ClaimUnspent, Goto, Quiet, TypeInv, TypeOK
<1>3. ReceiptsRecorded' /\ ReportedIsDurable'
    BY DEF SafetyInv, ReceiptsRecorded, ReportedIsDurable, Goto, Quiet, Recorded
<1> QED
    BY <1>1, <1>2, <1>3 DEF SafetyInv, StoreInv

\* A call ends with what its journal row says, or with no receipt at all.
LEMMA EndCall ==
    ASSUME TypeInv, SafetyInv, Quiet, NEW w \in Worker, NEW v \in Result, Return(w, v),
           handling' = handling,
           v.state = "TERMINAL" => dispatches[JournalOf[w]][v.receipt.request] = v.receipt
    PROVE  SafetyInv'
<1>1. StoreInv'
    BY QuietStores
<1>2. CallHasRow' /\ ClaimUnspent'
    BY DEF SafetyInv, CallHasRow, ClaimUnspent, Return, Quiet, TypeInv, TypeOK
<1>3. ReceiptsRecorded' /\ ReportedIsDurable'
    BY DEF SafetyInv, ReceiptsRecorded, ReportedIsDurable, Return, Quiet, Recorded,
           TypeInv, TypeOK
<1> QED
    BY <1>1, <1>2, <1>3 DEF SafetyInv, StoreInv

\* What FromRow reports of a worker's own journal meets EndCall's condition.
LEMMA RowReport ==
    ASSUME TypeInv, SafetyInv, NEW w \in Worker, NEW r \in Request
    PROVE  LET v == FromRow(dispatches[JournalOf[w]][r])
           IN  /\ v \in Result
               /\ v.state = "TERMINAL" =>
                    dispatches[JournalOf[w]][v.receipt.request] = v.receipt
<1>1. CASE dispatches[JournalOf[w]][r] \in Receipt
    <2>1. payments[r] = dispatches[JournalOf[w]][r]
        BY <1>1 DEF SafetyInv, JournalAgrees
    <2>2. dispatches[JournalOf[w]][r].request = r
        BY <1>1, <2>1 DEF SafetyInv, ReceiptsRecorded, Recorded
    <2> QED
        BY <1>1, <2>2, FromRowType DEF FromRow, Terminal
<1>2. CASE dispatches[JournalOf[w]][r] \notin Receipt
    BY <1>2, FromRowType DEF FromRow, Plain
<1> QED
    BY <1>1, <1>2

\* A verdict without a receipt promises nothing.
LEMMA PlainReport ==
    ASSUME NEW v \in Verdict
    PROVE  Plain(v) \in Result /\ Plain(v).state # "TERMINAL"
BY DEF Plain, Result, Verdict

\* A new claim is the only one of its identity, and unspent.
LEMMA ClaimSafe ==
    ASSUME TypeInv, SafetyInv, NEW w \in Worker, NEW r \in Request, ClaimNew(w, r)
    PROVE  SafetyInv'
<1> DEFINE j == JournalOf[w]
<1>1. /\ dispatches[j][r] = None /\ j \in Journal
      /\ dispatches' = [dispatches EXCEPT ![j][r] = Claimed]
      /\ UNCHANGED <<payments, effects, sent, posts, handling, reply>>
    BY DEF ClaimNew, Begin, Missing, Matching, Claims
<1>2. sent[j][r] = 0
    BY <1>1 DEF SafetyInv, AtMostOnePost
<1>3. /\ pc' = [pc EXCEPT ![w] = "claimed"]
      /\ req' = [req EXCEPT ![w] = r]
      /\ outcome' = [outcome EXCEPT ![w] = None]
    BY DEF ClaimNew, Begin
<1>4. \A k \in Journal, q \in Request :
        dispatches'[k][q] = IF k = j /\ q = r THEN Claimed ELSE dispatches[k][q]
    BY <1>1 DEF TypeInv, TypeOK
<1>5. CallHasRow'
    BY <1>1, <1>3, <1>4 DEF SafetyInv, CallHasRow, TypeInv, TypeOK, CallOK
<1>6. ClaimUnspent'
    BY <1>1, <1>2, <1>3 DEF SafetyInv, ClaimUnspent, CallHasRow, TypeInv, TypeOK
<1>7. AtMostOnePost' /\ WireWasSent' /\ PaidWasSent' /\ ReceiptsRecorded' /\ MovedIffSettled'
    BY <1>1, <1>4 DEF SafetyInv, AtMostOnePost, WireWasSent, PaidWasSent, ReceiptsRecorded,
       MovedIffSettled, Recorded
<1>8. JournalAgrees'
    BY <1>1, <1>4 DEF SafetyInv, JournalAgrees
<1>9. ReportedIsDurable'
    <2> SUFFICES ASSUME NEW v \in Worker, outcome'[v] # None, outcome'[v].state = "TERMINAL"
                 PROVE  dispatches'[JournalOf[v]][outcome'[v].receipt.request]
                            = outcome'[v].receipt
        BY DEF ReportedIsDurable
    <2>1. outcome'[v] = outcome[v]
        BY <1>3 DEF TypeInv, TypeOK
    <2>2. /\ outcome[v].receipt \in Receipt /\ outcome[v].receipt.request \in Request
          /\ dispatches[JournalOf[v]][outcome[v].receipt.request] = outcome[v].receipt
        BY <2>1 DEF SafetyInv, ReportedIsDurable, TypeInv, TypeOK, Result, Receipt, Verdict
    <2> QED
        BY <1>1, <1>4, <2>1, <2>2
<1>10. IdentityNamesOne'
    <2>1. \A k \in Journal : Claims(k)' = IF k = j THEN Claims(k) \cup {r} ELSE Claims(k)
        BY <1>1, <1>4 DEF Claims
    <2>2. \A s \in Claims(j) : s.op # r.op /\ s.key # r.key
        BY DEF ClaimNew, Missing, Matching
    <2> QED
        BY <1>1, <2>1, <2>2 DEF SafetyInv, IdentityNamesOne, Recorded
<1> QED
    BY <1>5, <1>6, <1>7, <1>8, <1>9, <1>10 DEF SafetyInv


\* Every first transaction of a call is safe.
LEMMA CallSafe ==
    ASSUME TypeInv, SafetyInv, NEW w \in Worker, NEW r \in Request, Call(w, r)
    PROVE  SafetyInv'
<1>1. CASE ClaimNew(w, r)
    BY <1>1, ClaimSafe
<1>2. CASE Reconcile(w, r)
    <2>1. Quiet /\ handling' = handling
        BY <1>2 DEF Reconcile, Quiet
    <2>2. StoreInv'
        BY <2>1, QuietStores
    <2>3. CallHasRow' /\ ClaimUnspent'
        BY <1>2 DEF Reconcile, Begin, Found, Matching, Claims, SafetyInv, CallHasRow,
           ClaimUnspent, TypeInv, TypeOK
    <2>4. ReceiptsRecorded' /\ ReportedIsDurable'
        BY <1>2 DEF Reconcile, Begin, SafetyInv, ReceiptsRecorded, ReportedIsDurable,
           Recorded, TypeInv, TypeOK
    <2> QED
        BY <2>2, <2>3, <2>4 DEF SafetyInv, StoreInv
<1>3. ASSUME NEW v \in Verdict, Return(w, Plain(v)), Quiet, handling' = handling
      PROVE  SafetyInv'
    BY <1>3, PlainReport, EndCall
<1>4. ASSUME Return(w, FromRow(dispatches[JournalOf[w]][r])), Quiet, handling' = handling
      PROVE  SafetyInv'
    BY <1>4, RowReport, EndCall
<1>5. CASE SubmitExisting(w, r) \/ SubmitRefused(w, r) \/ AdmissionRefused(w, r)
           \/ SubmitUnavailable(w, r) \/ ReadStatus(w, r)
    <2>1. Quiet /\ handling' = handling
        BY <1>5 DEF SubmitExisting, SubmitRefused, AdmissionRefused, SubmitUnavailable,
           ReadStatus, Quiet
    <2>2. {"REJECTED", "CONFLICT", "JOURNAL_UNAVAILABLE", "UNKNOWN"} \subseteq Verdict
        BY DEF Verdict
    <2> QED
        BY <1>3, <1>4, <1>5, <2>1, <2>2
           DEF SubmitExisting, SubmitRefused, AdmissionRefused, SubmitUnavailable, ReadStatus
<1> QED
    BY <1>1, <1>2, <1>5 DEF Call

\* The one POST spends the claim it is made with.
LEMMA PostSafe ==
    ASSUME TypeInv, SafetyInv, NEW w \in Worker, Post(w)
    PROVE  SafetyInv'
<1> DEFINE j == JournalOf[w]
           r == req[w]
<1>1. /\ pc[w] = "claimed" /\ pc' = [pc EXCEPT ![w] = "posted"]
      /\ posts' = posts \cup {[from |-> w, req |-> r]}
      /\ UNCHANGED <<dispatches, payments, effects, req, reply, outcome, handling>>
    BY DEF Post, Goto
<1>2. /\ j \in Journal /\ r \in Request
      /\ dispatches[j][r] # None /\ sent[j][r] = 0
    BY <1>1 DEF SafetyInv, CallHasRow, ClaimUnspent, TypeInv, CallOK
<1>3. \A k \in Journal, q \in Request :
        sent'[k][q] = IF k = j /\ q = r THEN 1 ELSE sent[k][q]
    BY <1>2 DEF Post, TypeInv, TypeOK
<1>4. CallHasRow' /\ JournalAgrees' /\ ReceiptsRecorded' /\ ReportedIsDurable'
        /\ MovedIffSettled' /\ IdentityNamesOne'
    BY <1>1 DEF SafetyInv, CallHasRow, JournalAgrees, ReceiptsRecorded, ReportedIsDurable,
       MovedIffSettled, IdentityNamesOne, Recorded, Claims, TypeInv, TypeOK
<1>5. ClaimUnspent'
    <2> SUFFICES ASSUME NEW v \in Worker, pc'[v] = "claimed"
                 PROVE  /\ sent'[JournalOf[v]][req'[v]] = 0
                        /\ \A x \in Worker \ {v} :
                             pc'[x] = "claimed" /\ JournalOf[x] = JournalOf[v] =>
                                req'[x] # req'[v]
        BY DEF ClaimUnspent
    <2>1. v # w /\ pc[v] = "claimed" /\ req[v] \in Request /\ JournalOf[v] \in Journal
        BY <1>1 DEF TypeInv, TypeOK, CallOK
    <2>2. sent[JournalOf[v]][req[v]] = 0 /\ (JournalOf[v] = j => req[v] # r)
        BY <1>1, <2>1 DEF SafetyInv, ClaimUnspent
    <2>3. sent'[JournalOf[v]][req[v]] = 0
        BY <1>3, <2>1, <2>2
    <2> QED
        BY <1>1, <2>1, <2>3 DEF SafetyInv, ClaimUnspent, TypeInv, TypeOK
<1>6. AtMostOnePost' /\ PaidWasSent'
    BY <1>1, <1>2, <1>3 DEF SafetyInv, AtMostOnePost, PaidWasSent, Recorded
<1>7. WireWasSent'
    <2>1. \A m \in posts \cup handling : JournalOf[m.from] \in Journal /\ m.req \in Request
        BY DEF TypeInv, TypeOK
    <2> QED
        BY <1>1, <1>2, <1>3, <2>1 DEF SafetyInv, WireWasSent
<1> QED
    BY <1>4, <1>5, <1>6, <1>7 DEF SafetyInv

\* A journal learns a receipt only from a reply that the provider recorded.
LEMMA StoreSafe ==
    ASSUME TypeInv, SafetyInv, NEW w \in Worker, StoreReceipt(w)
    PROVE  SafetyInv'
<1> DEFINE j == JournalOf[w]
           r == req[w]
<1>1. /\ pc[w] = "verified" /\ j \in Journal /\ r \in Request
      /\ reply[w] \in Receipt /\ reply[w].request = r /\ payments[r] = reply[w]
    BY DEF StoreReceipt, TypeInv, CallOK, SafetyInv, ReceiptsRecorded
<1>2. CASE Goto(w, "retain") /\ UNCHANGED dispatches
    <2>1. Quiet /\ handling' = handling
        BY <1>2 DEF StoreReceipt, Quiet
    <2> QED
        BY <1>1, <1>2, <2>1, MoveOn
<1>3. CASE /\ dispatches' = [dispatches EXCEPT ![j][r] = reply[w]]
           /\ Return(w, Terminal(reply[w]))
           /\ dispatches[j][r] \in {Claimed, reply[w]}
    <2>1. UNCHANGED <<payments, effects, sent, posts, handling>>
        BY DEF StoreReceipt
    <2>2. \A k \in Journal, q \in Request :
            dispatches'[k][q] = IF k = j /\ q = r THEN reply[w] ELSE dispatches[k][q]
        BY <1>1, <1>3 DEF TypeInv, TypeOK
    <2>3. dispatches[j][r] # None /\ reply[w] # None
        BY <1>1, <1>3
    <2>4. CallHasRow' /\ ClaimUnspent'
        BY <1>1, <1>3, <2>1, <2>2, <2>3
           DEF Return, SafetyInv, CallHasRow, ClaimUnspent, TypeInv, TypeOK, CallOK
    <2>5. AtMostOnePost' /\ WireWasSent' /\ PaidWasSent' /\ MovedIffSettled'
        BY <2>1, <2>2, <2>3 DEF SafetyInv, AtMostOnePost, WireWasSent, PaidWasSent,
           MovedIffSettled, Recorded
    <2>6. ReceiptsRecorded'
        BY <1>3, <2>1 DEF Return, SafetyInv, ReceiptsRecorded, Recorded, TypeInv, TypeOK
    <2>7. JournalAgrees'
        BY <1>1, <2>1, <2>2 DEF SafetyInv, JournalAgrees
    <2>8. ReportedIsDurable'
        <3> SUFFICES ASSUME NEW v \in Worker, outcome'[v] # None, outcome'[v].state = "TERMINAL"
                     PROVE  dispatches'[JournalOf[v]][outcome'[v].receipt.request]
                                = outcome'[v].receipt
            BY DEF ReportedIsDurable
        <3>1. CASE v = w
            BY <1>1, <1>3, <2>2, <3>1 DEF Return, Terminal, TypeInv, TypeOK
        <3>2. CASE v # w
            <4>1. outcome'[v] = outcome[v]
                BY <1>3, <3>2 DEF Return, TypeInv, TypeOK
            <4>2. /\ outcome[v].receipt \in Receipt /\ outcome[v].receipt.request \in Request
                  /\ dispatches[JournalOf[v]][outcome[v].receipt.request] = outcome[v].receipt
                BY <4>1 DEF SafetyInv, ReportedIsDurable, TypeInv, TypeOK, Result, Receipt, Verdict
            <4>3. JournalOf[v] \in Journal
                OBVIOUS
            <4> QED
                BY <1>1, <1>3, <2>2, <4>1, <4>2, <4>3
        <3> QED
            BY <3>1, <3>2
    <2>9. IdentityNamesOne'
        <3>1. \A k \in Journal : Claims(k)' = Claims(k)
            BY <1>1, <2>2, <2>3 DEF Claims
        <3> QED
            BY <2>1, <3>1 DEF SafetyInv, IdentityNamesOne, Recorded
    <2> QED
        BY <2>4, <2>5, <2>6, <2>7, <2>8, <2>9 DEF SafetyInv
<1> QED
    BY <1>2, <1>3 DEF StoreReceipt


\* An answer is taken over as a reply only if it is a receipt for the request; if
\* every receipt the answer may be is recorded, so is the reply.
LEMMA AnswerSafe ==
    ASSUME TypeInv, SafetyInv, Quiet, NEW w \in Worker, NEW v, pc[w] # "idle", Answer(w, v),
           handling' \subseteq handling,
           v \in Receipt => payments[v.request] = v
    PROVE  SafetyInv'
<1>1. StoreInv'
    BY QuietStores
<1>2. CallHasRow' /\ ClaimUnspent'
    BY DEF SafetyInv, CallHasRow, ClaimUnspent, Answer, Quiet, TypeInv, TypeOK
<1>3. ReportedIsDurable'
    BY DEF SafetyInv, ReportedIsDurable, Answer, Quiet
<1>4. ReceiptsRecorded'
    BY DEF SafetyInv, ReceiptsRecorded, Answer, VerifyReceipt, Quiet, Recorded, TypeInv, TypeOK
<1> QED
    BY <1>1, <1>2, <1>3, <1>4 DEF SafetyInv, StoreInv

\* Every later step of a call is safe.
LEMMA ContinueSafe ==
    ASSUME TypeInv, SafetyInv, NEW w \in Worker, Continue(w)
    PROVE  SafetyInv'
<1>1. CASE Post(w)
    BY <1>1, PostSafe
<1>2. CASE Interrupted(w)
    <2>1. Quiet /\ handling' = handling
        BY <1>2 DEF Interrupted, Quiet
    <2> QED
        BY <1>2, <2>1, MoveOn DEF Interrupted
<1>3. CASE StoreReceipt(w)
    BY <1>3, StoreSafe
<1>4. CASE RetainUnknown(w)
    <2>1. Quiet /\ handling' = handling
        BY <1>4 DEF RetainUnknown, Quiet
    <2>2. req[w] \in Request
        BY <1>4 DEF RetainUnknown, TypeInv, CallOK
    <2>3. "UNKNOWN" \in Verdict
        BY DEF Verdict
    <2> QED
        BY <1>4, <2>1, <2>2, <2>3, EndCall, RowReport, PlainReport DEF RetainUnknown
<1>5. ASSUME NEW p \in Provider, Lookup(w, p)
      PROVE  SafetyInv'
    <2>1. Quiet /\ handling' \subseteq handling
        BY <1>5 DEF Lookup, Quiet
    <2>2. req[w] \in Request
        BY <1>5 DEF Lookup, TypeInv, CallOK
    <2>3. LookupAnswer(req[w]) \in Receipt =>
            payments[LookupAnswer(req[w]).request] = LookupAnswer(req[w])
        BY <2>2 DEF LookupAnswer, Found, Matching, Recorded, SafetyInv, ReceiptsRecorded
    <2> QED
        BY <1>5, <2>1, <2>3, AnswerSafe DEF Lookup
<1> QED
    BY <1>1, <1>2, <1>3, <1>4, <1>5 DEF Continue

\* Steps of the network that leave the calls and the stores alone.
LEMMA NetworkQuiet ==
    ASSUME TypeInv, SafetyInv, Quiet, UNCHANGED adapterVars,
           \A h \in handling' :
               /\ \E g \in handling \cup posts : g.from = h.from /\ g.req = h.req
               /\ h.answer \in Receipt => payments[h.answer.request] = h.answer
    PROVE  SafetyInv'
<1>1. StoreInv'
    BY QuietStores
<1>2. CallHasRow' /\ ClaimUnspent' /\ ReportedIsDurable' /\ ReceiptsRecorded'
    BY DEF SafetyInv, CallHasRow, ClaimUnspent, ReportedIsDurable, ReceiptsRecorded, Quiet,
       Recorded
<1> QED
    BY <1>1, <1>2 DEF SafetyInv, StoreInv

\* The one step that records a payment: the request was sent, no recorded request
\* shares its identity, and the receipt answered is the receipt stored.
LEMMA ApplySafe ==
    ASSUME TypeInv, SafetyInv, NEW h \in handling, ApplyPayment(h)
    PROVE  SafetyInv'
<1> DEFINE r == h.req
           rc == ReceiptFor(r)
<1>1. /\ r \in Request /\ h.from \in Worker /\ rc \in Receipt /\ rc.request = r
      /\ payments[r] = None /\ rc # None
    BY ReceiptForType DEF ApplyPayment, Missing, Matching, Recorded, TypeInv, TypeOK
<1>2. /\ \A q \in Request : payments'[q] = IF q = r THEN rc ELSE payments[q]
      /\ Recorded' = Recorded \cup {r}
    BY <1>1 DEF ApplyPayment, Recorded, TypeInv, TypeOK
<1>3. UNCHANGED <<dispatches, sent, pc, req, reply, outcome, posts>>
    BY DEF ApplyPayment
<1>4. \A g \in handling' :
        \/ g \in handling
        \/ g.from = h.from /\ g.req = r /\ g.answer = rc
    BY DEF ApplyPayment, Answered, TypeInv, TypeOK
<1>5. CallHasRow' /\ ClaimUnspent' /\ AtMostOnePost' /\ ReportedIsDurable'
    BY <1>3 DEF SafetyInv, CallHasRow, ClaimUnspent, AtMostOnePost, ReportedIsDurable
<1>6. WireWasSent'
    BY <1>3, <1>4 DEF SafetyInv, WireWasSent
<1>7. PaidWasSent'
    BY <1>1, <1>2, <1>3 DEF SafetyInv, WireWasSent, PaidWasSent
<1>8. ReceiptsRecorded'
    <2>1. \A x \in Receipt : payments[x.request] = x => payments'[x.request] = x
        BY <1>1, <1>2 DEF Receipt
    <2>2. \A q \in Recorded' : payments'[q].request = q
        BY <1>1, <1>2 DEF SafetyInv, ReceiptsRecorded, Recorded
    <2>3. \A w \in Worker : reply'[w] # None => payments'[reply'[w].request] = reply'[w]
        BY <1>3, <2>1 DEF SafetyInv, ReceiptsRecorded, TypeInv, TypeOK
    <2>4. \A g \in handling' : g.answer \in Receipt => payments'[g.answer.request] = g.answer
        BY <1>1, <1>2, <1>4, <2>1 DEF SafetyInv, ReceiptsRecorded
    <2> QED
        BY <2>2, <2>3, <2>4 DEF ReceiptsRecorded
<1>9. JournalAgrees'
    BY <1>1, <1>2, <1>3 DEF SafetyInv, JournalAgrees
<1>10. MovedIffSettled'
    <2>1. effects = {q \in Recorded : payments[q].status = "settled"}
        BY DEF SafetyInv, MovedIffSettled
    <2>2. r \notin Recorded
        BY <1>1 DEF Recorded
    <2>3. effects' = IF rc.status = "settled" THEN effects \cup {r} ELSE effects
        BY DEF ApplyPayment, ReceiptFor
    <2> QED
        BY <1>1, <1>2, <2>1, <2>2, <2>3 DEF MovedIffSettled, Recorded
<1>11. IdentityNamesOne'
    <2>1. \A s \in Recorded : s.op # r.op /\ s.key # r.key
        BY DEF ApplyPayment, Missing, Matching
    <2> QED
        BY <1>2, <1>3, <2>1 DEF SafetyInv, IdentityNamesOne, Claims
<1> QED
    BY <1>5, <1>6, <1>7, <1>8, <1>9, <1>10, <1>11 DEF SafetyInv

\* Lost, late and repeated messages are safe, and so is a payment.
LEMMA NetworkSafe ==
    ASSUME TypeInv, SafetyInv, Network
    PROVE  SafetyInv'
<1>1. ASSUME NEW p \in Provider, NEW m \in posts, ReceivePost(p, m)
      PROVE  SafetyInv'
    <2>1. Quiet /\ UNCHANGED adapterVars
        BY <1>1 DEF ReceivePost, Quiet
    <2>2. \A h \in handling' : h \in handling \/
            (h.from = m.from /\ h.req = m.req /\ h.answer = None)
        BY <1>1 DEF ReceivePost
    <2>3. \A h \in handling' :
            /\ \E g \in handling \cup posts : g.from = h.from /\ g.req = h.req
            /\ h.answer \in Receipt => payments[h.answer.request] = h.answer
        BY <2>2 DEF SafetyInv, ReceiptsRecorded
    <2> QED
        BY <2>1, <2>3, NetworkQuiet
<1>2. ASSUME NEW m \in posts, LosePost(m)
      PROVE  SafetyInv'
    <2>1. Quiet /\ UNCHANGED adapterVars /\ handling' = handling
        BY <1>2 DEF LosePost, Quiet
    <2> QED
        BY <2>1, NetworkQuiet DEF SafetyInv, ReceiptsRecorded
<1>3. ASSUME NEW h \in handling, AnswerRecorded(h)
      PROVE  SafetyInv'
    <2>1. Quiet /\ UNCHANGED adapterVars
        BY <1>3 DEF AnswerRecorded, Quiet
    <2>2. h.req \in Request
        BY DEF TypeInv, TypeOK
    <2>3. PICK v : /\ Answered(h, v)
                   /\ v = NoReceipt \/ (v = payments[h.req] /\ h.req \in Recorded)
        BY <1>3, <2>2 DEF AnswerRecorded, Found, Matching
    <2>4. v \in Receipt => payments[v.request] = v
        BY <2>3 DEF SafetyInv, ReceiptsRecorded
    <2>5. \A g \in handling' : g \in handling \/
            (g.from = h.from /\ g.req = h.req /\ g.answer = v)
        BY <2>3 DEF Answered, TypeInv, TypeOK
    <2>6. \A g \in handling' :
            /\ \E f \in handling \cup posts : f.from = g.from /\ f.req = g.req
            /\ g.answer \in Receipt => payments[g.answer.request] = g.answer
        BY <2>4, <2>5 DEF SafetyInv, ReceiptsRecorded
    <2> QED
        BY <2>1, <2>6, NetworkQuiet
<1>4. ASSUME NEW h \in handling, ApplyPayment(h)
      PROVE  SafetyInv'
    BY <1>4, ApplySafe
<1>5. ASSUME NEW h \in handling, Respond(h)
      PROVE  SafetyInv'
    <2>1. Quiet /\ handling' \subseteq handling /\ h.from \in Worker
        BY <1>5 DEF Respond, Quiet, TypeInv, TypeOK
    <2>2. h.answer \in Receipt => payments[h.answer.request] = h.answer
        BY DEF SafetyInv, ReceiptsRecorded
    <2>3. CASE pc[h.from] = "posted" /\ Answer(h.from, h.answer)
        BY <2>1, <2>2, <2>3, AnswerSafe
    <2>4. CASE UNCHANGED adapterVars
        BY <2>1, <2>4, NetworkQuiet DEF SafetyInv, ReceiptsRecorded
    <2> QED
        BY <1>5, <2>3, <2>4 DEF Respond
<1>6. ASSUME NEW h \in handling, DropHandling(h)
      PROVE  SafetyInv'
    <2>1. Quiet /\ UNCHANGED adapterVars /\ handling' \subseteq handling
        BY <1>6 DEF DropHandling, Quiet
    <2> QED
        BY <2>1, NetworkQuiet DEF SafetyInv, ReceiptsRecorded
<1> QED
    BY <1>1, <1>2, <1>3, <1>4, <1>5, <1>6 DEF Network

\* Crashes and restarts lose no row and forge none.
LEMMA LifecycleSafe ==
    ASSUME TypeInv, SafetyInv, Lifecycle
    PROVE  SafetyInv'
<1>1. ASSUME NEW w \in Worker, CrashAdapter(w)
      PROVE  SafetyInv'
    <2>1. Quiet /\ handling' = handling
        BY <1>1 DEF CrashAdapter, Quiet
    <2>2. StoreInv'
        BY <2>1, QuietStores
    <2>3. CallHasRow' /\ ClaimUnspent' /\ ReportedIsDurable' /\ ReceiptsRecorded'
        BY <1>1 DEF CrashAdapter, SafetyInv, CallHasRow, ClaimUnspent, ReportedIsDurable,
           ReceiptsRecorded, Recorded, TypeInv, TypeOK
    <2> QED
        BY <2>2, <2>3 DEF SafetyInv, StoreInv
<1>2. ASSUME NEW w \in Worker, NEW g \in Generation, StartAdapter(w, g)
      PROVE  SafetyInv'
    <2>1. Quiet /\ UNCHANGED <<pc, req, reply, outcome, handling>>
        BY <1>2 DEF StartAdapter, Quiet
    <2>2. StoreInv'
        BY <2>1, QuietStores
    <2>3. CallHasRow' /\ ClaimUnspent' /\ ReportedIsDurable' /\ ReceiptsRecorded'
        BY <2>1 DEF Quiet, SafetyInv, CallHasRow, ClaimUnspent, ReportedIsDurable,
           ReceiptsRecorded, Recorded
    <2> QED
        BY <2>2, <2>3 DEF SafetyInv, StoreInv
<1>3. ASSUME NEW p \in Provider, CrashProvider(p)
      PROVE  SafetyInv'
    <2>1. Quiet /\ UNCHANGED adapterVars /\ handling' \subseteq handling
        BY <1>3 DEF CrashProvider, Quiet
    <2> QED
        BY <2>1, NetworkQuiet DEF SafetyInv, ReceiptsRecorded
<1>4. ASSUME NEW p \in Provider, NEW g \in Generation, StartProvider(p, g)
      PROVE  SafetyInv'
    <2>1. Quiet /\ UNCHANGED adapterVars /\ handling' = handling
        BY <1>4 DEF StartProvider, Quiet
    <2> QED
        BY <2>1, NetworkQuiet DEF SafetyInv, ReceiptsRecorded
<1> QED
    BY <1>1, <1>2, <1>3, <1>4 DEF Lifecycle

\* Every step keeps the safety invariant.
LEMMA SafetyStep == TypeInv /\ SafetyInv /\ [Next]_vars => SafetyInv'
<1>1. ASSUME TypeInv, SafetyInv, UNCHANGED vars
      PROVE  SafetyInv'
    <2>1. Quiet /\ UNCHANGED adapterVars /\ handling' = handling
        BY <1>1 DEF vars, Quiet
    <2> QED
        BY <1>1, <2>1, NetworkQuiet DEF SafetyInv, ReceiptsRecorded
<1> QED
    BY <1>1, CallSafe, ContinueSafe, NetworkSafe, LifecycleSafe DEF Next

\* The safety invariant holds in every execution: in particular at most one POST
\* per journal and request, terminal rows equal to the provider's receipts, and
\* one request per operation id and idempotency key.
THEOREM Safety == Spec => [](TypeInv /\ SafetyInv)
BY TypeInit, TypeStep, SafetyInit, SafetyStep, PTL DEF Spec

\* One claim is good for one POST, in every execution.
THEOREM OnePostPerClaim == Spec => []AtMostOnePost
<1>1. SafetyInv => AtMostOnePost
    BY DEF SafetyInv
<1> QED
    BY <1>1, Safety, PTL

\* A journal's terminal row is always the receipt the provider recorded.
THEOREM JournalTruth == Spec => []JournalAgrees
<1>1. SafetyInv => JournalAgrees
    BY DEF SafetyInv
<1> QED
    BY <1>1, Safety, PTL

\* What a call reported as terminal is always in its journal.
THEOREM ReportsDurable == Spec => []ReportedIsDurable
<1>1. SafetyInv => ReportedIsDurable
    BY DEF SafetyInv
<1> QED
    BY <1>1, Safety, PTL

\* Operation ids and idempotency keys always name one recorded payment.
THEOREM IdentityUnique == Spec => []IdentityNamesOne
<1>1. SafetyInv => IdentityNamesOne
    BY DEF SafetyInv
<1> QED
    BY <1>1, Safety, PTL


-----------------------------------------------------------------------------
(* The refinement of AtMostOncePayment.                                    *)

\* Everything but a claim, a post, a stored receipt or an applied payment leaves
\* the abstract state as it is.
LEMMA InvisibleSteps ==
    ASSUME [Next]_vars
    PROVE  \/ \E w \in Worker, r \in Request : ClaimNew(w, r)
           \/ \E w \in Worker : Post(w) \/ StoreReceipt(w)
           \/ \E h \in handling : ApplyPayment(h)
           \/ UNCHANGED <<dispatches, sent, payments, effects>>
<1> DEFINE Kept == UNCHANGED <<dispatches, sent, payments, effects>>
<1>1. ASSUME NEW w \in Worker, NEW r \in Request, Call(w, r)
      PROVE  ClaimNew(w, r) \/ Kept
    BY <1>1 DEF Call, SubmitExisting, SubmitRefused, AdmissionRefused, SubmitUnavailable,
       ReadStatus, Reconcile, storeVars, journalVars
<1>2. ASSUME NEW w \in Worker, Continue(w)
      PROVE  Post(w) \/ StoreReceipt(w) \/ Kept
    BY <1>2 DEF Continue, Interrupted, RetainUnknown, Lookup, storeVars, journalVars
<1>3. ASSUME Network
      PROVE  (\E h \in handling : ApplyPayment(h)) \/ Kept
    BY <1>3 DEF Network, ReceivePost, LosePost, AnswerRecorded, Respond, DropHandling,
       storeVars, journalVars
<1>4. ASSUME Lifecycle
      PROVE  Kept
    BY <1>4 DEF Lifecycle, CrashAdapter, StartAdapter, CrashProvider, StartProvider,
       storeVars, journalVars
<1>5. CASE UNCHANGED vars
    BY <1>5 DEF vars, storeVars, journalVars
<1> QED
    BY <1>1, <1>2, <1>3, <1>4, <1>5 DEF Next

\* An empty system has paid nothing.
LEMMA AbstractInit == Init => Abstract!Init
BY DEF Init, Abstract!Init

\* Every step is a claim, a send, a decision or a learnt receipt of the abstract
\* specification, or a stutter.
LEMMA AbstractStep ==
    ASSUME TypeInv, SafetyInv, [Next]_vars
    PROVE  [Abstract!Next]_(Abstract!vars)
<1>1. ASSUME NEW w \in Worker, NEW r \in Request, ClaimNew(w, r)
      PROVE  Abstract!Next
    <2> DEFINE j == JournalOf[w]
    <2>1. dispatches[j][r] = None /\ j \in Journal
        BY <1>1 DEF ClaimNew, Missing, Matching, Claims
    <2>2. \A s \in Request : Abstract!Clash(r, s) => dispatches[j][s] = None
        BY <1>1 DEF ClaimNew, Missing, Matching, Claims, Abstract!Clash
    <2>3. Abstract!Claim(j, r)
        BY <1>1, <2>1, <2>2 DEF ClaimNew, Abstract!Claim
    <2> QED
        BY <2>1, <2>3 DEF Abstract!Next
<1>2. ASSUME NEW w \in Worker, Post(w)
      PROVE  Abstract!Next
    <2> DEFINE j == JournalOf[w]
               r == req[w]
    <2>1. /\ j \in Journal /\ r \in Request
          /\ dispatches[j][r] # None /\ sent[j][r] = 0
        BY <1>2 DEF Post, SafetyInv, CallHasRow, ClaimUnspent, TypeInv, CallOK
    <2>2. sent' = [sent EXCEPT ![j][r] = 1]
        BY <1>2, <2>1 DEF Post, TypeInv, TypeOK
    <2>3. Abstract!Send(j, r)
        BY <1>2, <2>1, <2>2 DEF Post, Abstract!Send
    <2> QED
        BY <2>1, <2>3 DEF Abstract!Next
<1>3. ASSUME NEW w \in Worker, StoreReceipt(w)
      PROVE  Abstract!Next \/ UNCHANGED Abstract!vars
    <2> DEFINE j == JournalOf[w]
               r == req[w]
    <2>1. /\ j \in Journal /\ r \in Request
          /\ reply[w] \in Receipt /\ payments[r] = reply[w]
        BY <1>3 DEF StoreReceipt, TypeInv, CallOK, SafetyInv, ReceiptsRecorded
    <2>2. CASE dispatches' = dispatches
        BY <1>3, <2>2 DEF StoreReceipt, Abstract!vars
    <2>3. CASE /\ dispatches[j][r] = Claimed
               /\ dispatches' = [dispatches EXCEPT ![j][r] = reply[w]]
        <3>1. Abstract!Learn(j, r)
            BY <1>3, <2>1, <2>3 DEF StoreReceipt, Abstract!Learn
        <3> QED
            BY <2>1, <3>1 DEF Abstract!Next
    <2>4. CASE /\ dispatches[j][r] = reply[w]
               /\ dispatches' = [dispatches EXCEPT ![j][r] = reply[w]]
        <3>1. dispatches' = dispatches
            BY <2>1, <2>4 DEF TypeInv, TypeOK
        <3> QED
            BY <2>2, <3>1
    <2> QED
        BY <1>3, <2>2, <2>3, <2>4 DEF StoreReceipt
<1>4. ASSUME NEW h \in handling, ApplyPayment(h)
      PROVE  Abstract!Next
    <2> DEFINE r == h.req
               d == ReceiptFor(r)
    <2>1. /\ r \in Request /\ d \in Receipt /\ d.request = r
          /\ h.from \in Worker /\ JournalOf[h.from] \in Journal
        BY ReceiptForType DEF TypeInv, TypeOK
    <2>2. payments[r] = None
        BY <1>4, <2>1 DEF ApplyPayment, Missing, Matching, Recorded
    <2>3. \A s \in Request : Abstract!Clash(r, s) => payments[s] = None
        BY <1>4 DEF ApplyPayment, Missing, Matching, Recorded, Abstract!Clash
    <2>4. sent[JournalOf[h.from]][r] = 1
        BY DEF SafetyInv, WireWasSent
    <2>5. effects' = IF d.status = "settled" THEN effects \cup {r} ELSE effects
        BY <1>4 DEF ApplyPayment, ReceiptFor
    <2>6. Abstract!Decide(r, d)
        BY <1>4, <2>1, <2>2, <2>3, <2>4, <2>5 DEF ApplyPayment, Abstract!Decide
    <2> QED
        BY <2>1, <2>6 DEF Abstract!Next
<1>5. CASE UNCHANGED <<dispatches, sent, payments, effects>>
    BY <1>5 DEF Abstract!vars
<1> QED
    BY <1>1, <1>2, <1>3, <1>4, <1>5, InvisibleSteps

\* Processes, threads, crashes, lost and late messages add nothing to what
\* AtMostOncePayment allows.
THEOREM Refinement == Spec => Implements
<1>1. TypeInv /\ SafetyInv /\ [Next]_vars => [Abstract!Next]_(Abstract!vars)
    BY AbstractStep
<1> QED
    BY <1>1, AbstractInit, Safety, PTL DEF Spec, Implements, Abstract!Spec

-----------------------------------------------------------------------------
(* Action properties.                                                      *)

\* A step records a payment or opens a claim only for the generation its store
\* holds, and no step takes a store's generation back.
THEOREM FencedByGeneration == Spec => GenerationFence
<1> DEFINE Fence ==
        /\ \A r \in Request :
             /\ payments[r] = None /\ payments'[r] # None => r.gen = pgen
             /\ \A j \in Journal :
                  dispatches[j][r] = None /\ dispatches'[j][r] # None => r.gen = jgen[j]
        /\ Admissible(pgen, pgen')
        /\ \A j \in Journal : Admissible(jgen[j], jgen'[j])
<1>1. ASSUME TypeInv, SafetyInv, [Next]_vars
      PROVE  Fence
    <2>1. CASE UNCHANGED <<dispatches, payments>>
               /\ (\E w \in Worker, g \in Generation : StartAdapter(w, g))
        BY <1>1, <2>1 DEF StartAdapter, Admissible, TypeInv, TypeOK
    <2>2. CASE \E p \in Provider, g \in Generation : StartProvider(p, g)
        BY <2>2 DEF StartProvider, Admissible
    <2>3. CASE UNCHANGED <<pgen, jgen>>
        <3>1. Admissible(pgen, pgen') /\ \A j \in Journal : Admissible(jgen[j], jgen'[j])
            BY <2>3 DEF Admissible
        <3>2. ASSUME NEW w \in Worker, NEW q \in Request, ClaimNew(w, q)
              PROVE  Fence
            BY <1>1, <3>1, <3>2 DEF ClaimNew, CurrentGeneration, TypeInv, TypeOK
        <3>3. ASSUME NEW w \in Worker, Post(w) \/ StoreReceipt(w)
              PROVE  Fence
            <4>1. req[w] \in Request /\ dispatches[JournalOf[w]][req[w]] # None
                BY <1>1, <3>3 DEF Post, StoreReceipt, SafetyInv, CallHasRow, TypeInv, CallOK
            <4>2. payments' = payments
                BY <3>3 DEF Post, StoreReceipt
            <4>3. \/ dispatches' = dispatches
                  \/ dispatches' = [dispatches EXCEPT ![JournalOf[w]][req[w]] = reply[w]]
                BY <3>3 DEF Post, StoreReceipt
            <4>4. \A j \in Journal, q \in Request :
                    dispatches[j][q] = None => dispatches'[j][q] = None
                <5>1. dispatches \in [Journal -> [Request -> {None, Claimed} \cup Receipt]]
                    BY <1>1 DEF TypeInv, TypeOK
                <5>2. CASE dispatches' = dispatches
                    BY <5>2
                <5>3. CASE dispatches' =
                             [dispatches EXCEPT ![JournalOf[w]][req[w]] = reply[w]]
                    BY <4>1, <5>1, <5>3
                <5> QED
                    BY <4>3, <5>2, <5>3
            <4> QED
                BY <3>1, <4>2, <4>4
        <3>4. ASSUME NEW h \in handling, ApplyPayment(h)
              PROVE  Fence
            BY <1>1, <3>1, <3>4 DEF ApplyPayment, CurrentGeneration, TypeInv, TypeOK
        <3>5. CASE UNCHANGED <<dispatches, sent, payments, effects>>
            BY <3>1, <3>5
        <3> QED
            BY <1>1, <3>2, <3>3, <3>4, <3>5, InvisibleSteps
    <2>4. \/ UNCHANGED <<dispatches, payments>>
               /\ (\E w \in Worker, g \in Generation : StartAdapter(w, g))
          \/ \E p \in Provider, g \in Generation : StartProvider(p, g)
          \/ UNCHANGED <<pgen, jgen>>
        <3>1. ASSUME NEW w \in Worker, NEW r \in Request, Call(w, r)
              PROVE  UNCHANGED <<pgen, jgen>>
            BY <3>1 DEF Call, ClaimNew, SubmitExisting, SubmitRefused, AdmissionRefused,
               SubmitUnavailable, ReadStatus, Reconcile, storeVars, journalVars
        <3>2. ASSUME NEW w \in Worker, Continue(w)
              PROVE  UNCHANGED <<pgen, jgen>>
            BY <3>2 DEF Continue, Post, Interrupted, StoreReceipt, RetainUnknown, Lookup,
               storeVars, journalVars
        <3>3. ASSUME Network
              PROVE  UNCHANGED <<pgen, jgen>>
            BY <3>3 DEF Network, ReceivePost, LosePost, AnswerRecorded, ApplyPayment, Respond,
               DropHandling, storeVars, journalVars
        <3>4. ASSUME NEW w \in Worker, CrashAdapter(w)
              PROVE  UNCHANGED <<pgen, jgen>>
            BY <3>4 DEF CrashAdapter, storeVars, journalVars
        <3>5. ASSUME NEW p \in Provider, CrashProvider(p)
              PROVE  UNCHANGED <<pgen, jgen>>
            BY <3>5 DEF CrashProvider, storeVars, journalVars
        <3>6. ASSUME NEW w \in Worker, NEW g \in Generation, StartAdapter(w, g)
              PROVE  UNCHANGED <<dispatches, payments>>
            BY <3>6 DEF StartAdapter, storeVars
        <3>7. CASE UNCHANGED vars
            BY <3>7 DEF vars, storeVars, journalVars
        <3> QED
            BY <1>1, <3>1, <3>2, <3>3, <3>4, <3>5, <3>6, <3>7 DEF Next, Lifecycle
    <2> QED
        BY <2>1, <2>2, <2>3, <2>4
<1>2. TypeInv /\ SafetyInv /\ [Next]_vars => [Fence]_vars
    BY <1>1
<1> QED
    BY <1>2, Safety, PTL DEF Spec, GenerationFence

-----------------------------------------------------------------------------
(* Sums of amounts.  A total is a fold over a finite set; that it grows by   *)
(* the amount of each new member, whatever order the fold takes them in, is  *)
(* induction over the set.                                                   *)

\* Induction over finite sets: among some subsets there is one that contains no other.
LEMMA SmallestSubset ==
    ASSUME NEW S, IsFiniteSet(S), NEW T \in SUBSET (SUBSET S), T # {}
    PROVE  \E s \in T : \A t \in T : t \subseteq s => t = s
<1>1. IsWellFoundedOn(StrictSubsetOrdering(S), SUBSET S)
    <2>1. IsWellFoundedOn(StrictSubsetOrdering(S), FiniteSubsetsOf(S))
        BY FS_StrictSubsetOrderingWellFounded, Zenon
    <2>2. FiniteSubsetsOf(S) = SUBSET S
        BY FS_FiniteSubsetsOfFinite, Zenon
    <2> QED
        BY <2>1, <2>2, Zenon
<1>2. PICK s \in T : \A t \in T : ~ (<<t, s>> \in StrictSubsetOrdering(S))
    BY <1>1, WFMin
<1>3. \A t \in T : ~ (t \subseteq s /\ t # s)
    BY <1>2 DEF StrictSubsetOrdering
<1> QED
    BY <1>3

\* And over numbers.
LEMMA SmallestNumber ==
    ASSUME NEW T \in SUBSET Nat, T # {}
    PROVE  \E n \in T : \A m \in T : n <= m
<1>1. IsWellFoundedOn({p \in Nat \X Nat : p[1] < p[2]}, Nat)
    BY NatLessThanWellFounded DEF OpToRel
<1>2. PICK n \in T : \A m \in T : ~ (<<m, n>> \in {p \in Nat \X Nat : p[1] < p[2]})
    BY <1>1, WFMin
<1>3. \A m \in T : ~ (m < n)
    BY <1>2
<1> QED
    BY <1>3

Total(S) == MapThenSumSet(LAMBDA r : r.amount, S)

\* The function the fold is defined by, over some domain.
Pick(s) == CHOOSE x \in s : TRUE
Running(D, f) ==
    f = [s \in D |-> IF s = {} THEN 0 ELSE Pick(s).amount + f[s \ {Pick(s)}]]

Sums(S, f) == Running(SUBSET S, f)
Priced(S) == \A r \in S : r.amount \in Int

\* What the fold is, unfolded.
LEMMA TotalIs ==
    ASSUME NEW S
    PROVE  Total(S) = (CHOOSE f : Sums(S, f))[S]
BY Zenon DEF Total, Sums, Running, Pick, MapThenSumSet, MapThenFoldSet

\* The member a step of the fold takes is one of the set.
LEMMA PickIn == ASSUME NEW s, s # {} PROVE Pick(s) \in s
BY DEF Pick

\* There is one over the subsets of a finite set: over those of at most n elements, for
\* each n.
LEMMA RunningExists ==
    ASSUME NEW S, IsFiniteSet(S)
    PROVE  \E f : Sums(S, f)
<1> DEFINE Upto(n) == {s \in SUBSET S : Cardinality(s) <= n}
<1>0. \A s \in SUBSET S : IsFiniteSet(s) /\ Cardinality(s) \in Nat /\ Cardinality(s) <= Cardinality(S)
    BY FS_Subset, FS_CardinalityType
<1>1. \E f : Running(Upto(0), f)
    <2>1. \A s \in Upto(0) : s = {}
        BY <1>0, FS_EmptySet
    <2>2. PICK f : f = [s \in Upto(0) |-> 0]
        OBVIOUS
    <2>3. f = [s \in Upto(0) |-> IF s = {} THEN 0 ELSE Pick(s).amount + f[s \ {Pick(s)}]]
        BY <2>1, <2>2
    <2> QED
        BY <2>3 DEF Running
<1>2. ASSUME NEW n \in Nat, n # 0, NEW f, Running(Upto(n - 1), f)
      PROVE  \E g : Running(Upto(n), g)
    <2>1. PICK g : g = [s \in Upto(n) |->
                          IF s = {} THEN 0 ELSE Pick(s).amount + f[s \ {Pick(s)}]]
        OBVIOUS
    <2>2. \A s \in Upto(n - 1) :
            f[s] = IF s = {} THEN 0 ELSE Pick(s).amount + f[s \ {Pick(s)}]
        BY <1>2 DEF Running
    <2>3. \A s \in Upto(n - 1) : s \in Upto(n)
        BY <1>0
    <2>4. \A s \in Upto(n - 1) : g[s] = f[s]
        <3> HIDE DEF Upto
        <3> QED
            BY <2>1, <2>2, <2>3
    <2>5. \A s \in Upto(n) : s # {} => s \ {Pick(s)} \in Upto(n - 1)
        BY <1>0, PickIn, FS_RemoveElement
    <2>6. g = [s \in Upto(n) |-> IF s = {} THEN 0 ELSE Pick(s).amount + g[s \ {Pick(s)}]]
        <3> HIDE DEF Upto
        <3> QED
            BY <2>1, <2>4, <2>5
    <2> QED
        BY <2>6 DEF Running
<1>3. \A n \in Nat : \E f : Running(Upto(n), f)
    <2>1. PICK B : B = {n \in Nat : ~ \E f : Running(Upto(n), f)}
        OBVIOUS
    <2> HIDE DEF Upto
    <2> SUFFICES ASSUME B # {} PROVE FALSE
        BY <2>1
    <2>2. PICK n \in B : \A m \in B : n <= m
        BY <2>1, SmallestNumber
    <2>3. n \in Nat /\ n # 0
        BY <1>1, <2>1
    <2>4. n - 1 \in Nat /\ n - 1 \notin B
        BY <2>1, <2>2, <2>3
    <2>5. \E f : Running(Upto(n - 1), f)
        BY <2>1, <2>4
    <2> QED
        BY <1>2, <2>1, <2>3, <2>5
<1>4. Upto(Cardinality(S)) = SUBSET S
    BY <1>0
<1>5. Cardinality(S) \in Nat
    BY FS_CardinalityType
<1> QED
    BY <1>3, <1>4, <1>5 DEF Sums

\* A running sum is that of its argument alone,
LEMMA RunningSame ==
    ASSUME NEW S, NEW T \in SUBSET S, IsFiniteSet(T), NEW f, NEW g,
           Sums(S, f), Sums(T, g)
    PROVE  f[T] = g[T]
<1>1. PICK B : B = {s \in SUBSET T : f[s] # g[s]}
    OBVIOUS
<1> SUFFICES ASSUME B # {} PROVE FALSE
    BY <1>1
<1>2. PICK s \in B : \A t \in B : t \subseteq s => t = s
    BY <1>1, SmallestSubset
<1>3. s \in SUBSET T /\ s \in SUBSET S /\ f[s] # g[s]
    BY <1>1
<1>4. /\ f[s] = IF s = {} THEN 0 ELSE Pick(s).amount + f[s \ {Pick(s)}]
      /\ g[s] = IF s = {} THEN 0 ELSE Pick(s).amount + g[s \ {Pick(s)}]
    BY <1>3 DEF Running, Sums
<1>5. CASE s = {}
    BY <1>3, <1>4, <1>5
<1>6. CASE s # {}
    <2>1. PICK t : t = s \ {Pick(s)}
        OBVIOUS
    <2>2. t \in SUBSET T /\ t \subseteq s /\ t # s
        BY <1>3, <1>6, <2>1, PickIn
    <2>3. f[t] = g[t]
        BY <1>1, <1>2, <2>2
    <2> QED
        BY <1>3, <1>4, <1>6, <2>1, <2>3
<1> QED
    BY <1>5, <1>6

\* and whatever is picked first.
LEMMA RunningOrder ==
    ASSUME NEW S, IsFiniteSet(S), Priced(S), NEW f, Sums(S, f)
    PROVE  \A s \in SUBSET S : f[s] \in Int /\ \A x \in s : f[s] = x.amount + f[s \ {x}]
<1> DEFINE Fine(s) == f[s] \in Int /\ \A x \in s : f[s] = x.amount + f[s \ {x}]
<1>1. PICK B : B = {s \in SUBSET S : ~ Fine(s)}
    OBVIOUS
<1> SUFFICES ASSUME B # {} PROVE FALSE
    BY <1>1
<1>2. PICK s \in B : \A t \in B : t \subseteq s => t = s
    <2>1. B \in SUBSET (SUBSET S)
        BY <1>1
    <2> QED
        BY <2>1, SmallestSubset
<1>3. s \in SUBSET S /\ ~ Fine(s)
    BY <1>1
<1>4. f[s] = IF s = {} THEN 0 ELSE Pick(s).amount + f[s \ {Pick(s)}]
    BY <1>3 DEF Running, Sums
<1>5. CASE s = {}
    BY <1>3, <1>4, <1>5
<1>6. CASE s # {}
    <2>1. PICK p : p = Pick(s)
        OBVIOUS
    <2>2. p \in s /\ f[s] = p.amount + f[s \ {p}]
        BY <1>4, <1>6, <2>1, PickIn
    <2>3. \A t \in SUBSET s : t # s => Fine(t)
        <3> HIDE DEF Fine
        <3> QED
            BY <1>1, <1>2, <1>3
    <2>4. \A x \in s : x.amount \in Int /\ f[s \ {x}] \in Int
        BY <1>3, <2>3 DEF Priced
    <2>5. p.amount \in Int /\ f[s \ {p}] \in Int /\ f[s] \in Int
        <3>1. p.amount \in Int /\ f[s \ {p}] \in Int
            BY <2>2, <2>4
        <3> QED
            BY <2>2, <3>1
    <2>6. ASSUME NEW x \in s, x # p
          PROVE  f[s] = x.amount + f[s \ {x}]
        <3>1. PICK t : t = (s \ {p}) \ {x}
            OBVIOUS
        <3>2. t = (s \ {x}) \ {p} /\ t \in SUBSET s /\ t # s
            BY <3>1, <2>6
        <3>3. s \ {p} \in SUBSET s /\ s \ {p} # s /\ x \in s \ {p}
            BY <2>2, <2>6
        <3>4. s \ {x} \in SUBSET s /\ s \ {x} # s /\ p \in s \ {x}
            BY <2>2, <2>6
        <3>5. f[s \ {p}] = x.amount + f[t]
            BY <2>3, <3>1, <3>3
        <3>6. f[s \ {x}] = p.amount + f[t]
            BY <2>3, <3>2, <3>4
        <3>7. f[t] \in Int /\ p.amount \in Int /\ x.amount \in Int
            BY <2>2, <2>3, <2>4, <2>6, <3>2
        <3> QED
            BY <2>2, <3>5, <3>6, <3>7
    <2> QED
        BY <1>3, <2>2, <2>5, <2>6
<1> QED
    BY <1>5, <1>6

\* The total of a finite set is a number, that of none is nothing, and each member adds
\* its amount.
LEMMA TotalAdds ==
    ASSUME NEW S, IsFiniteSet(S), Priced(S)
    PROVE  /\ Total(S) \in Int
           /\ S = {} => Total(S) = 0
           /\ \A r \in S : Total(S) = r.amount + Total(S \ {r})
<1>1. PICK f : f = CHOOSE h : Sums(S, h)
    OBVIOUS
<1>2. Sums(S, f) /\ Total(S) = f[S]
    <2>1. Sums(S, f)
        BY <1>1, RunningExists, Zenon
    <2>2. Total(S) = f[S]
        BY <1>1, TotalIs, Zenon
    <2> QED
        BY <2>1, <2>2
<1>3. f[S] \in Int /\ \A x \in S : f[S] = x.amount + f[S \ {x}]
    <2>1. \A s \in SUBSET S : f[s] \in Int /\ \A x \in s : f[s] = x.amount + f[s \ {x}]
        BY <1>2, RunningOrder
    <2> QED
        BY <2>1
<1>4. S = {} => f[S] = 0
    BY <1>2 DEF Running, Sums
<1>5. ASSUME NEW r \in S PROVE Total(S \ {r}) = f[S \ {r}]
    <2>1. PICK T : T = S \ {r}
        OBVIOUS
    <2>2. T \in SUBSET S
        BY <2>1
    <2>3. IsFiniteSet(T)
        BY <2>2, FS_Subset
    <2>4. PICK g : g = CHOOSE h : Sums(T, h)
        OBVIOUS
    <2>5. Sums(T, g) /\ Total(T) = g[T]
        <3>1. Sums(T, g)
            BY <2>3, <2>4, RunningExists, Zenon
        <3>2. Total(T) = g[T]
            BY <2>4, TotalIs, Zenon
        <3> QED
            BY <3>1, <3>2
    <2>6. f[T] = g[T]
        <3>1. Sums(S, f) /\ Sums(T, g)
            BY <1>2, <2>5
        <3> QED
            BY <2>2, <2>3, <3>1, RunningSame
    <2> QED
        BY <2>1, <2>5, <2>6
<1> QED
    BY <1>2, <1>3, <1>4, <1>5

-----------------------------------------------------------------------------
(* The books.                                                                *)

Incoming(a) == {r \in effects : r.beneficiary = a}
Outgoing(a) == {r \in effects : r.source = a}

\* What makes the balances add up step by step: the payments that moved money are
\* finitely many, and their accounts are open.
Books ==
    /\ IsFiniteSet(effects)
    /\ effects \subseteq Request
    /\ \A r \in effects : {r.source, r.beneficiary} \subseteq DOMAIN balances
    /\ \A a \in DOMAIN balances :
         balances[a] = InitialBalance[a] + Total(Incoming(a)) - Total(Outgoing(a))

\* Requests have prices.
LEMMA RequestsPriced == ASSUME NEW T \in SUBSET Request PROVE Priced(T)
BY RequestAssumption DEF Priced

\* A new payment adds its amount to the total it belongs to.
LEMMA TotalWith ==
    ASSUME NEW T \in SUBSET Request, IsFiniteSet(T), NEW r \in Request, r \notin T
    PROVE  Total(T \cup {r}) = Total(T) + r.amount /\ Total(T) \in Int
<1>1. PICK U : U = T \cup {r}
    OBVIOUS
<1>2. IsFiniteSet(U)
    BY <1>1, FS_AddElement
<1>3. Priced(U) /\ Priced(T)
    BY <1>1, RequestsPriced
<1>4. Total(U) = r.amount + Total(U \ {r})
    <2>1. r \in U
        BY <1>1
    <2> QED
        BY <1>2, <1>3, <2>1, TotalAdds
<1>5. U \ {r} = T
    BY <1>1
<1>6. Total(T) \in Int
    BY <1>3, TotalAdds
<1>7. r.amount \in Int
    BY RequestAssumption
<1>8. Total(U) = r.amount + Total(T)
    BY <1>4, <1>5
<1>9. Total(U) = Total(T) + r.amount
    BY <1>6, <1>7, <1>8
<1> QED
    BY <1>1, <1>6, <1>9

\* The books start empty.
LEMMA BooksInit == Init => Books
BY FS_EmptySet DEF Init, Books

\* A payment that passes the checks is booked on both of its accounts and on no other.
LEMMA PaymentBooked ==
    ASSUME TypeInv, Books, NEW r \in Request, r \notin effects, Failure(r) = "none",
           balances' = Moved(r), effects' = effects \cup {r}
    PROVE  Books'
<1>1. /\ {r.source, r.beneficiary} \subseteq DOMAIN balances
      /\ r.source # r.beneficiary /\ r.amount \in Int
    BY RequestAssumption DEF Failure
<1>2. DOMAIN balances' = DOMAIN balances
    BY DEF Moved
<1>3. IsFiniteSet(effects') /\ effects' \subseteq Request
    BY FS_AddElement DEF Books
<1>4. \A q \in effects' : {q.source, q.beneficiary} \subseteq DOMAIN balances'
    BY <1>1, <1>2 DEF Books
<1>5. ASSUME NEW a \in DOMAIN balances
      PROVE  balances'[a] = InitialBalance[a] + Total(Incoming(a)') - Total(Outgoing(a)')
    <2>1. PICK I : I = Incoming(a)
        OBVIOUS
    <2>2. PICK O : O = Outgoing(a)
        OBVIOUS
    <2>3. I \subseteq effects /\ O \subseteq effects /\ r \notin I /\ r \notin O
        BY <2>1, <2>2 DEF Incoming, Outgoing
    <2>4. IsFiniteSet(I) /\ IsFiniteSet(O) /\ I \in SUBSET Request /\ O \in SUBSET Request
        BY <2>3, FS_Subset DEF Books
    <2>5. Total(I \cup {r}) = Total(I) + r.amount /\ Total(I) \in Int
        BY <2>3, <2>4, TotalWith
    <2>6. Total(O \cup {r}) = Total(O) + r.amount /\ Total(O) \in Int
        BY <2>3, <2>4, TotalWith
    <2>7. balances[a] = InitialBalance[a] + Total(I) - Total(O)
        BY <2>1, <2>2 DEF Books
    <2>8. InitialBalance[a] \in Int
        <3>1. a \in DOMAIN InitialBalance
            BY DEF TypeInv, TypeOK
        <3> QED
            BY <3>1, BalanceAssumption
    <2>9. CASE a = r.source
        <3>1. Incoming(a)' = I /\ Outgoing(a)' = O \cup {r}
            BY <1>1, <2>1, <2>2, <2>9 DEF Incoming, Outgoing
        <3>2. balances'[a] = balances[a] - r.amount
            BY <1>1, <2>9 DEF Moved
        <3> QED
            BY <1>1, <2>5, <2>6, <2>7, <2>8, <3>1, <3>2
    <2>10. CASE a = r.beneficiary
        <3>1. Incoming(a)' = I \cup {r} /\ Outgoing(a)' = O
            BY <1>1, <2>1, <2>2, <2>10 DEF Incoming, Outgoing
        <3>2. balances'[a] = balances[a] + r.amount
            BY <1>1, <2>10 DEF Moved
        <3> QED
            BY <1>1, <2>5, <2>6, <2>7, <2>8, <3>1, <3>2
    <2>11. CASE a # r.source /\ a # r.beneficiary
        <3>1. Incoming(a)' = I /\ Outgoing(a)' = O
            BY <2>1, <2>2, <2>11 DEF Incoming, Outgoing
        <3>2. balances'[a] = balances[a]
            BY <2>11 DEF Moved
        <3> QED
            BY <2>7, <3>1, <3>2
    <2> QED
        BY <2>9, <2>10, <2>11
<1> QED
    BY <1>2, <1>3, <1>4, <1>5 DEF Books

\* A start seeds what is missing: no payment has touched it.
LEMMA SeedingBooked ==
    ASSUME TypeInv, Books, NEW p \in Provider, NEW g \in Generation, StartProvider(p, g)
    PROVE  Books'
<1>1. effects' = effects
    BY DEF StartProvider
<1>2. DOMAIN balances \subseteq DOMAIN balances'
    BY DEF StartProvider
<1>3. ASSUME NEW a \in DOMAIN balances'
      PROVE  balances'[a] = InitialBalance[a] + Total(Incoming(a)') - Total(Outgoing(a)')
    <2>1. Incoming(a)' = Incoming(a) /\ Outgoing(a)' = Outgoing(a)
        BY <1>1 DEF Incoming, Outgoing
    <2>2. CASE a \in DOMAIN balances
        <3>1. balances'[a] = balances[a]
            BY <2>2 DEF StartProvider
        <3> QED
            BY <2>1, <2>2, <3>1 DEF Books
    <2>3. CASE a \notin DOMAIN balances
        <3>1. Incoming(a) = {} /\ Outgoing(a) = {}
            BY <2>3 DEF Books, Incoming, Outgoing
        <3>2. a \in DOMAIN InitialBalance /\ balances'[a] = InitialBalance[a]
            BY <2>3 DEF StartProvider
        <3>3. Total({}) = 0
            BY TotalAdds, FS_EmptySet DEF Priced
        <3>4. InitialBalance[a] \in Int
            BY <3>2, BalanceAssumption
        <3> QED
            BY <2>1, <3>1, <3>2, <3>3, <3>4
    <2> QED
        BY <2>2, <2>3
<1> QED
    BY <1>1, <1>2, <1>3 DEF Books

\* No other step touches an account or an effect.
LEMMA BooksStep ==
    ASSUME TypeInv, SafetyInv, Books, [Next]_vars
    PROVE  Books'
<1> USE DEF storeVars
<1>1. CASE UNCHANGED <<effects, balances>>
    BY <1>1 DEF Books, Incoming, Outgoing
<1>2. ASSUME NEW w \in Worker, NEW r \in Request, Call(w, r)
      PROVE  UNCHANGED <<effects, balances>>
    BY <1>2 DEF Call, ClaimNew, SubmitExisting, SubmitRefused, AdmissionRefused,
       SubmitUnavailable, ReadStatus, Reconcile
<1>3. ASSUME NEW w \in Worker, Continue(w)
      PROVE  UNCHANGED <<effects, balances>>
    BY <1>3 DEF Continue, Post, Interrupted, StoreReceipt, RetainUnknown, Lookup
<1>4. ASSUME NEW h \in handling, ApplyPayment(h)
      PROVE  Books'
    <2>1. h.req \in Request
        BY DEF TypeInv, TypeOK
    <2>2. CASE Failure(h.req) = "none"
        <3>1. h.req \notin effects
            BY <1>4, <2>1 DEF ApplyPayment, Missing, Matching, SafetyInv, MovedIffSettled
        <3> QED
            BY <1>4, <2>1, <2>2, <3>1, PaymentBooked DEF ApplyPayment
    <2>3. CASE Failure(h.req) # "none"
        BY <1>1, <1>4, <2>3 DEF ApplyPayment
    <2> QED
        BY <2>2, <2>3
<1>5. ASSUME Network
      PROVE  \/ UNCHANGED <<effects, balances>>
             \/ \E h \in handling : ApplyPayment(h)
    BY <1>5 DEF Network, ReceivePost, LosePost, AnswerRecorded, Respond, DropHandling
<1>6. ASSUME Lifecycle
      PROVE  \/ UNCHANGED <<effects, balances>>
             \/ \E p \in Provider, g \in Generation : StartProvider(p, g)
    BY <1>6 DEF Lifecycle, CrashAdapter, StartAdapter, CrashProvider
<1>7. CASE UNCHANGED vars
    BY <1>1, <1>7 DEF vars
<1> QED
    BY <1>1, <1>2, <1>3, <1>4, <1>5, <1>6, <1>7, SeedingBooked DEF Next

\* The accounts hold what they were seeded with plus and minus the settled
\* payments, after any interleaving of _apply_payment's transactions and any
\* number of provider restarts, which run _initialize_provider again.
THEOREM BooksAlwaysBalance == Spec => []BooksBalance
<1>1. Init => Books
    BY BooksInit
<1>2. TypeInv /\ SafetyInv /\ Books /\ [Next]_vars => Books'
    BY BooksStep
<1>3. SafetyInv /\ Books => BooksBalance
    BY DEF SafetyInv, Books, BooksBalance, Incoming, Outgoing, Total
<1> QED
    BY <1>1, <1>2, <1>3, Safety, PTL DEF Spec

=============================================================================
