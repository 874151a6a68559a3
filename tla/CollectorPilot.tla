---------------------------- MODULE CollectorPilot ----------------------------
(***************************************************************************)
(* The collector pilot: upload gateways that send only after a separate     *)
(* collector has recorded their intent and was read back                   *)
(* (incident-collector-pilot/collector_pilot: gateway.py, collector.py,     *)
(* protocol.py, client.py).                                                *)
(*                                                                         *)
(* Admission, journal, transport and receiver are those of UploadGate; what *)
(* is added stands between the claim and the final check.  An intent is     *)
(* [upload, created]: what the signed collection intent binds.  Collection  *)
(* requests may be lost, or reach the collector after the gateway gave up;  *)
(* a status query is one exchange.  Wrong receipts and nonces are refused   *)
(* like lost responses.                                                    *)
(***************************************************************************)
EXTENDS UploadGate

VARIABLES
    up,               \* the collector process runs
    collections,      \* its rows: per request id None or [intent, at]
    collecting,       \* per gateway: how far the collection of its call is; None
    collectWire,      \* collection requests on their way to the collector
    reconciled        \* per gateway: its last reconciliation report; None

collectorVars == <<up, collections, collecting, collectWire, reconciled>>
allVars == <<vars, collectorVars>>

CollectorInit ==
    /\ Init
    /\ up = TRUE
    /\ collections = [i \in Id |-> None]
    /\ collecting = [g \in Gateway |-> None]
    /\ collectWire = {}
    /\ reconciled = [g \in Gateway |-> None]

-----------------------------------------------------------------------------
(* A gateway.                                                              *)

IntentOf(g) == [upload |-> Mine(g), created |-> call[g].admitted]
Progress(g, step, at, receipt) ==
    collecting' = [collecting EXCEPT ![g] = [step |-> step, at |-> at, receipt |-> receipt]]

\* execute, up to the claim and with it, is the upload gateway's.
Admit(g, u) ==
    /\ Execute(g, u)
    /\ reconciled' = [reconciled EXCEPT ![g] = None]
    /\ UNCHANGED <<up, collections, collecting, collectWire>>
ClaimIntent(g) == Claim(g) /\ UNCHANGED collectorVars

\* _block: the intent stands, nothing is sent.
BlockCollected(g) ==
    /\ Goto(g, "persist", [call[g] EXCEPT !.result = "blocked_after_intent"])
    /\ collecting' = [collecting EXCEPT ![g] = None]

\* The sole collection request, after the claim.
Collect(g) ==
    /\ pc[g] = "final" /\ collecting[g] = None
    /\ \/ /\ Progress(g, "asked", now, None)
          /\ collectWire' = collectWire \cup {[from |-> g, intent |-> IntentOf(g)]}
          /\ UNCHANGED gatewayVars
       \/ BlockCollected(g) /\ UNCHANGED collectWire
    /\ UNCHANGED <<now, journalOf, journal, wire, uploads, sends, up, collections, reconciled>>

\* verify_receipt: it binds this intent, and was recorded after it and by now.
ReceiptBinds(row, intent, at) ==
    row.intent = intent /\ intent.created <= row.at /\ row.at <= at

\* The exchange gave a response, and the clock did not go back meanwhile.
Usable(c) == c.at <= now /\ c.receipt # None

\* _exchange and the acknowledgement are checked; without one the upload is blocked.
Acknowledge(g) ==
    LET c == collecting[g] IN
    /\ pc[g] = "final" /\ c # None /\ c.step = "asked"
    /\ IF call[g].admitted <= c.at /\ Usable(c) /\ ReceiptBinds(c.receipt, IntentOf(g), now)
       THEN Progress(g, "acknowledged", now, c.receipt) /\ UNCHANGED gatewayVars
       ELSE BlockCollected(g)
    /\ UNCHANGED <<now, journalOf, journal, wire, uploads, sends, up, collections, collectWire, reconciled>>

\* _lookup: what the collector answers a query about an intent, if it can; a record of
\* another intent under the id is a conflict, and not told.
Lookup(intent) ==
    LET row == collections[intent.upload.id] IN
    {s \in [status : {"FOUND", "NOT_FOUND"}, receipt : {row}, checked : {now}] :
        /\ up
        /\ row # None => row.intent = intent
        /\ s.status = "FOUND" <=> row # None}

\* verify_status: it answers this query, and what was found binds the intent.
StatusBinds(s, intent, asked) ==
    /\ intent.created <= asked /\ asked <= s.checked
    /\ IF s.status = "FOUND" THEN ReceiptBinds(s.receipt, intent, s.checked) ELSE s.receipt = None
Answers(intent) == {s \in Lookup(intent) : StatusBinds(s, intent, now)}

\* The fresh status query: only the receipt that was acknowledged will do.
ReadBack(g) ==
    LET c == collecting[g] IN
    /\ pc[g] = "final" /\ c # None /\ c.step = "acknowledged"
    /\ \/ /\ c.at <= now
          /\ \E s \in Answers(IntentOf(g)) : s.status = "FOUND" /\ s.receipt = c.receipt
          /\ Progress(g, "found", now, c.receipt) /\ UNCHANGED gatewayVars
       \/ BlockCollected(g)
    /\ UNCHANGED <<now, journalOf, journal, wire, uploads, sends, up, collections, collectWire, reconciled>>

\* The assessor's check after the read-back, at a later reading of the clock.
CollectedFinal(g) ==
    LET c == collecting[g] IN
    /\ c # None /\ c.step = "found"
    /\ Final(g)
    /\ pc'[g] = "send" => c.at <= now
    /\ collecting' = [collecting EXCEPT ![g] = None]
    /\ UNCHANGED <<up, collections, collectWire, reconciled>>

SendPayload(g) == Send(g) /\ UNCHANGED collectorVars
Postflight(g) == Observe(g) /\ UNCHANGED collectorVars
PersistReport(g) == Persist(g) /\ UNCHANGED collectorVars
Die(g) ==
    /\ Crash(g)
    /\ collecting' = [collecting EXCEPT ![g] = None]
    /\ UNCHANGED <<up, collections, collectWire, reconciled>>

\* MUTANT: a reconciliation looks for the request id, not for the intent.
ReconcileById(g, i) ==
    LET row == journal[journalOf[g]][i] IN
    /\ pc[g] = "idle" /\ row # None /\ up
    /\ reconciled' = [reconciled EXCEPT ![g] =
         [id |-> i, state |-> IF collections[i] # None THEN "FOUND" ELSE "NOT_FOUND"]]
    /\ UNCHANGED <<vars, up, collections, collecting, collectWire>>

\* reconcile: what the collector holds of a journalled intent, whatever became of it.
\* NOT_ESTABLISHED stands for every report that tells nothing of the collector.
Reconcile(g, i) ==
    LET row == journal[journalOf[g]][i]
        intent == [upload |-> row.upload, created |-> row.prepared]
        told == IF row # None /\ KeyFrom <= now /\ now < KeyUntil
                THEN {s.status : s \in Answers(intent)} ELSE {} IN
    /\ pc[g] = "idle"
    /\ \E s \in told \cup {"NOT_ESTABLISHED"} :
          reconciled' = [reconciled EXCEPT ![g] = [id |-> i, state |-> s]]
    /\ UNCHANGED <<vars, up, collections, collecting, collectWire>>

-----------------------------------------------------------------------------
(* The collector.                                                          *)

\* MUTANT: a later intent takes the place of the recorded one.
RecordLatest(intent) ==
    collections' = [collections EXCEPT ![intent.upload.id] = [intent |-> intent, at |-> now]]

\* _accept: one row per request id; the same intent finds its row, another is refused.
Record(intent) ==
    LET row == collections[intent.upload.id] IN
    \/ /\ row = None
       /\ collections' = [collections EXCEPT ![intent.upload.id] =
                            [intent |-> intent, at |-> now]]
    \/ row # None /\ row.intent = intent /\ UNCHANGED collections

\* The client's exchange: its only response, if it comes before the gateway gave up.
Respond(m, receipt) ==
    \/ /\ collecting[m.from] # None /\ collecting[m.from].step = "asked"
       /\ IntentOf(m.from) = m.intent
       /\ collecting' = [collecting EXCEPT ![m.from].receipt = receipt]
    \/ UNCHANGED collecting

\* A request is handled, and answered with the receipt on record.
Accept(m) ==
    /\ up /\ m.intent.created <= now
    /\ Record(m.intent)
    /\ collectWire' = collectWire \ {m}
    /\ Respond(m, collections'[m.intent.upload.id])
    /\ UNCHANGED <<vars, up, reconciled>>

\* Refused, dropped before the commit, or never arrived.
Drop(m) ==
    /\ collectWire' = collectWire \ {m}
    /\ UNCHANGED <<vars, up, collections, collecting, reconciled>>

Stop ==
    /\ up /\ up' = FALSE
    /\ UNCHANGED <<vars, collections, collecting, collectWire, reconciled>>

\* It starts again on its own store, at its own endpoint.
Restart ==
    /\ ~ up /\ up' = TRUE
    /\ UNCHANGED <<vars, collections, collecting, collectWire, reconciled>>

CollectorNext ==
    \/ \E g \in Gateway, u \in Upload : Admit(g, u)
    \/ \E g \in Gateway :
         \/ ClaimIntent(g) \/ Collect(g) \/ Acknowledge(g) \/ ReadBack(g) \/ CollectedFinal(g)
         \/ SendPayload(g) \/ Postflight(g) \/ PersistReport(g) \/ Die(g)
    \/ \E g \in Gateway, i \in Id : Reconcile(g, i)
    \/ \E m \in collectWire : Accept(m) \/ Drop(m)
    \/ Stop \/ Restart
    \/ \E m \in wire : (Receive(m) \/ Lose(m)) /\ UNCHANGED collectorVars
    \/ \E t \in Time : SetClock(t) /\ UNCHANGED collectorVars

CollectorSpec == CollectorInit /\ [][CollectorNext]_allVars

-----------------------------------------------------------------------------
(* Properties.                                                             *)

\* Nothing is sent before the collector holds this very intent, nor under a permit that
\* expired, or by a clock that went back, while that took its time; and what the collector
\* holds stays, through restarts, late requests and other gateways: of several gateways
\* that use one request id on journals of their own, those that send sent the same intent.
SentAsCollected ==
    [][/\ \A i \in Id : collections[i] # None => collections'[i] = collections[i]
       /\ \A g \in Gateway :
            pc[g] = "send" /\ pc'[g] = "sent" =>
                /\ collections[Mine(g).id] # None
                /\ collections[Mine(g).id].intent = IntentOf(g)
                /\ call[g].admitted <= collections[Mine(g).id].at
                /\ collections[Mine(g).id].at <= call[g].final
                /\ Allowed(Mine(g), call[g].admitted) /\ Allowed(Mine(g), call[g].final)]_allVars

\* A reconciliation tells what became of the record, not of the upload: found means that
\* the collector holds the journalled intent for good, though its acknowledgement may
\* have been lost and the upload blocked or never sent.
ReconciledIsTrue ==
    \A g \in Gateway :
        reconciled[g] # None /\ reconciled[g].state = "FOUND" =>
            LET i == reconciled[g].id IN
            /\ collections[i] # None
            /\ journal[journalOf[g]][i].upload = collections[i].intent.upload
            /\ journal[journalOf[g]][i].prepared = collections[i].intent.created

=============================================================================
