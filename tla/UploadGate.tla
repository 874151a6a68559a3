------------------------------ MODULE UploadGate ------------------------------
(***************************************************************************)
(* The upload pilot: gateways that send measured bytes to a receiver once,  *)
(* after a permit was checked and an intent committed to a journal          *)
(* (experiments/incident-upload-pilot/upload_pilot: gateway.py, journal.py, *)
(* receiver.py, transport.py).                                              *)
(*                                                                         *)
(* An upload is [id, evaluation, content, from, until]: its request id and  *)
(* the evaluation it is for, its subject and measured bytes, and the times  *)
(* at which the assessor allows it on the evidence supplied with it.        *)
(* What an operation on the journal or the receiver's database does is one  *)
(* action.  The receiver's negative control without authentication is left  *)
(* out, and its counter of handler calls.                                   *)
(***************************************************************************)
EXTENDS Integers

CONSTANTS
    Upload,           \* uploads gateways may be asked for
    Gateway, Journal,
    Layout,           \* which journals the gateways may be constructed with
    Time,             \* what the wall clock may show
    KeyFrom, KeyUntil, \* when the gateway's key is authorized
    None

ASSUME LayoutAssumption == Layout \subseteq [Gateway -> Journal]
ASSUME TimeAssumption == Time \subseteq Int /\ KeyFrom \in Int /\ KeyUntil \in Int
ASSUME UploadAssumption == \A u \in Upload : u.from \in Int /\ u.until \in Int

Id == {u.id : u \in Upload}
Terminal == {"blocked_after_intent", "receipt_confirmed", "outcome_unknown"}
Row == [upload : Upload, prepared : Time, state : Terminal \cup {"dispatch_intent"}]
ASSUME NoneAssumption ==
    None \notin Upload \cup Row \cup Time \cup [upload : Upload, at : Time]

VARIABLES
    now,              \* the wall clock of the host
    journalOf,        \* the journal a gateway was constructed with; never changes
    journal,          \* request_journal: per journal and id, None or a row
    pc, call,         \* per gateway: the step of execute, and its frame
    report,           \* per gateway: what its last call reported; None
    wire,             \* requests on their way to the receiver
    uploads,          \* the receiver's rows: per id None or [upload, at]
    sends             \* observation only: transport calls, per journal and id

gatewayVars == <<pc, call, report>>
vars == <<now, journalOf, journal, gatewayVars, wire, uploads, sends>>

\* What a call has observed so far: the upload, the times of admission, final check
\* and send, the receipt received, and the result to be recorded.
Frame(u) ==
    [upload |-> u, admitted |-> now, final |-> None, sent |-> None, receipt |-> None,
     result |-> None]

Fingerprint(u) == <<u.id, u.evaluation, u.content>>

\* The receiver does not know of evaluations: it compares subject and bytes under an id.
SamePayload(u, v) == u.id = v.id /\ u.content = v.content

\* assess and _key_authorized.
Allowed(u, at) ==
    /\ u.from <= at /\ at < u.until
    /\ KeyFrom <= at /\ at < KeyUntil

Init ==
    /\ now \in Time
    /\ journalOf \in Layout
    /\ journal = [j \in Journal |-> [i \in Id |-> None]]
    /\ pc = [g \in Gateway |-> "idle"]
    /\ call = [g \in Gateway |-> None]
    /\ report = [g \in Gateway |-> None]
    /\ wire = {}
    /\ uploads = [i \in Id |-> None]
    /\ sends = [j \in Journal |-> [i \in Id |-> 0]]

-----------------------------------------------------------------------------
(* A gateway.                                                              *)

Mine(g) == call[g].upload
RowOf(g, u) == journal[journalOf[g]][u.id]
SetRow(g, u, s) ==
    journal' = [journal EXCEPT ![journalOf[g]][u.id] =
                  [upload |-> u, prepared |-> call[g].admitted, state |-> s]]

Goto(g, l, frame) ==
    /\ pc' = [pc EXCEPT ![g] = l]
    /\ call' = [call EXCEPT ![g] = frame]
    /\ UNCHANGED report

Return(g, u, s, attempted) ==
    /\ pc' = [pc EXCEPT ![g] = "idle"]
    /\ call' = [call EXCEPT ![g] = None]
    /\ report' = [report EXCEPT ![g] = [upload |-> u, state |-> s, attempted |-> attempted]]

\* A row under the same id: the same action is not sent again, another one is refused.
Replay(g, u) ==
    Return(g, u, IF Fingerprint(RowOf(g, u).upload) = Fingerprint(u)
                 THEN "REPLAY_NO_SEND" ELSE "REQUEST_ID_CONFLICT", FALSE)
Block(g, u) == Return(g, u, "BLOCKED_WITHOUT_ATTEMPT", FALSE)

\* execute, up to the claim: the clock, the assessment, and a look at the journal,
\* which may be unavailable.
Execute(g, u) ==
    /\ pc[g] = "idle"
    /\ \/ Block(g, u)
       \/ RowOf(g, u) # None /\ Replay(g, u)
       \/ RowOf(g, u) = None /\ Allowed(u, now) /\ Goto(g, "claim", Frame(u))
    /\ UNCHANGED <<now, journalOf, journal, wire, uploads, sends>>

\* MUTANT: an intent left by a gateway that died is taken over.
ClaimResumes(g) ==
    LET u == Mine(g) IN
    /\ pc[g] = "claim"
    /\ \/ RowOf(g, u) # None /\ RowOf(g, u).state # "dispatch_intent"
              /\ Replay(g, u) /\ UNCHANGED journal
       \/ /\ RowOf(g, u) # None => RowOf(g, u).upload = u /\ RowOf(g, u).state = "dispatch_intent"
          /\ SetRow(g, u, "dispatch_intent") /\ Goto(g, "final", call[g])
    /\ UNCHANGED <<now, journalOf, wire, uploads, sends>>

\* claim: one transaction; only its acknowledgement gives the right to send.
Claim(g) ==
    LET u == Mine(g) IN
    /\ pc[g] = "claim"
    /\ \/ RowOf(g, u) # None /\ Replay(g, u) /\ UNCHANGED journal
       \/ Block(g, u) /\ UNCHANGED journal
       \/ RowOf(g, u) = None /\ SetRow(g, u, "dispatch_intent")
              /\ (Goto(g, "final", call[g]) \/ Block(g, u))
    /\ UNCHANGED <<now, journalOf, wire, uploads, sends>>

\* The check after the commit, at a later reading of the clock; before_send may fail.
Final(g) ==
    /\ pc[g] = "final"
    /\ \/ /\ now >= call[g].admitted /\ Allowed(Mine(g), now)
          /\ Goto(g, "send", [call[g] EXCEPT !.final = now])
       \/ Goto(g, "persist", [call[g] EXCEPT !.result = "blocked_after_intent"])
    /\ UNCHANGED <<now, journalOf, journal, wire, uploads, sends>>

\* The sole transport call.
Send(g) ==
    /\ pc[g] = "send"
    /\ wire' = wire \cup {[from |-> g, upload |-> Mine(g), created |-> call[g].admitted]}
    /\ sends' = [sends EXCEPT ![journalOf[g]][Mine(g).id] = @ + 1]
    /\ Goto(g, "sent", [call[g] EXCEPT !.sent = now])
    /\ UNCHANGED <<now, journalOf, journal, uploads>>

\* _transport_result and verify_receipt, at the time post.
Confirmed(frame, post) ==
    LET rc == frame.receipt IN
    /\ frame.final <= frame.sent /\ frame.sent <= post
    /\ KeyFrom <= post /\ post < KeyUntil
    /\ rc # None
    /\ SamePayload(rc.upload, frame.upload)
    /\ frame.sent <= rc.at /\ rc.at <= post

\* MUTANT: a transport call that failed is recorded as one that was not made.
ObserveBlocks(g) ==
    /\ pc[g] = "sent"
    /\ Goto(g, "persist",
            [call[g] EXCEPT !.result = IF Confirmed(call[g], now) THEN "receipt_confirmed"
                                       ELSE "blocked_after_intent"])
    /\ UNCHANGED <<now, journalOf, journal, wire, uploads, sends>>

\* send has returned, with a response or without, or was given up.
Observe(g) ==
    /\ pc[g] = "sent"
    /\ Goto(g, "persist",
            [call[g] EXCEPT !.result = IF Confirmed(call[g], now) THEN "receipt_confirmed"
                                       ELSE "outcome_unknown"])
    /\ UNCHANGED <<now, journalOf, journal, wire, uploads, sends>>

ReportOf(result) ==
    CASE result = "blocked_after_intent" -> "BLOCKED_WITHOUT_ATTEMPT"
      [] result = "receipt_confirmed" -> "RECEIPT_CONFIRMED"
      [] result = "outcome_unknown" -> "OUTCOME_UNKNOWN"

\* MUTANT: a result that could not be recorded is reported all the same.
PersistBestEffort(g) ==
    LET u == Mine(g)
        result == call[g].result IN
    /\ pc[g] = "persist"
    /\ \/ RowOf(g, u).state = "dispatch_intent" /\ SetRow(g, u, result)
       \/ UNCHANGED journal
    /\ Return(g, u, ReportOf(result), call[g].sent # None)
    /\ UNCHANGED <<now, journalOf, wire, uploads, sends>>

\* _persist: the result is recorded once; one that is not acknowledged as recorded
\* is reported as unknown, recorded or not.
Persist(g) ==
    LET u == Mine(g)
        result == call[g].result IN
    /\ pc[g] = "persist"
    /\ \/ /\ RowOf(g, u).state = "dispatch_intent" /\ SetRow(g, u, result)
          /\ \E s \in {ReportOf(result), "OUTCOME_UNKNOWN"} :
                Return(g, u, s, call[g].sent # None)
       \/ UNCHANGED journal /\ Return(g, u, "OUTCOME_UNKNOWN", call[g].sent # None)
    /\ UNCHANGED <<now, journalOf, wire, uploads, sends>>

\* SIGKILL at any step of execute.
Crash(g) ==
    /\ pc[g] # "idle"
    /\ pc' = [pc EXCEPT ![g] = "idle"]
    /\ call' = [call EXCEPT ![g] = None]
    /\ report' = [report EXCEPT ![g] = None]
    /\ UNCHANGED <<now, journalOf, journal, wire, uploads, sends>>

-----------------------------------------------------------------------------
(* The receiver.                                                           *)

\* _accept: one row per id, and an identical repetition gets the original receipt.
Store(m) ==
    LET row == uploads[m.upload.id] IN
    \/ /\ row = None
       /\ uploads' = [uploads EXCEPT ![m.upload.id] = [upload |-> m.upload, at |-> now]]
    \/ /\ row # None /\ SamePayload(row.upload, m.upload)
       /\ UNCHANGED uploads

Waiting(g, m) == pc[g] = "sent" /\ call[g].upload = m.upload /\ call[g].receipt = None

\* The receipt reaches a gateway that still waits for it, or is lost or spoiled.
Receive(m) ==
    /\ m.created <= now
    /\ Store(m)
    /\ wire' = wire \ {m}
    /\ \/ /\ Waiting(m.from, m)
          /\ call' = [call EXCEPT ![m.from].receipt = uploads'[m.upload.id]]
       \/ UNCHANGED call
    /\ UNCHANGED <<now, journalOf, journal, pc, report, sends>>

\* A request that does not arrive or is refused (a conflicting id, a clock behind).
Lose(m) ==
    /\ wire' = wire \ {m}
    /\ UNCHANGED <<now, journalOf, journal, gatewayVars, uploads, sends>>

SetClock(t) ==
    /\ now' = t
    /\ UNCHANGED <<journalOf, journal, gatewayVars, wire, uploads, sends>>

Next ==
    \/ \E g \in Gateway, u \in Upload : Execute(g, u)
    \/ \E g \in Gateway :
         Claim(g) \/ Final(g) \/ Send(g) \/ Observe(g) \/ Persist(g) \/ Crash(g)
    \/ \E m \in wire : Receive(m) \/ Lose(m)
    \/ \E t \in Time : SetClock(t)

Spec == Init /\ [][Next]_vars

-----------------------------------------------------------------------------
(* Properties.                                                             *)

\* An intent is worth one transport call: whichever gateways share a journal, die
\* after the claim or lose its acknowledgement, no id is sent twice on its behalf,
\* and only what the intent committed to is ever on the wire.
OneSendPerIntent ==
    /\ \A j \in Journal, i \in Id :
         sends[j][i] \in {0, 1} /\ (sends[j][i] = 1 => journal[j][i] # None)
    /\ \A m \in wire : journal[journalOf[m.from]][m.upload.id].upload = m.upload

\* A journal's results are true, also of the receiver: blocked means that nothing was
\* sent and never will be, confirmed that the receiver keeps this very subject with these bytes.
ResultsAreTrue ==
    \A j \in Journal, i \in Id :
        LET row == journal[j][i] IN
        row # None =>
            /\ row.state = "blocked_after_intent" => sends[j][i] = 0
            /\ row.state = "receipt_confirmed" =>
                 /\ sends[j][i] = 1
                 /\ uploads[i] # None
                 /\ SamePayload(uploads[i].upload, row.upload)

\* A confirmation is reported only once it is durable (a crash after the report takes
\* nothing back), and a call that reports a replay or a conflict was shut out by a row
\* that is there, without an attempt of its own.
ReportIsDurable ==
    \A g \in Gateway :
        report[g] # None =>
            LET row == RowOf(g, report[g].upload) IN
            /\ report[g].state = "RECEIPT_CONFIRMED" =>
                 /\ report[g].attempted
                 /\ row # None
                 /\ row.upload = report[g].upload /\ row.state = "receipt_confirmed"
            /\ report[g].state \in {"REPLAY_NO_SEND", "REQUEST_ID_CONFLICT"} =>
                 ~ report[g].attempted /\ row # None

=============================================================================
