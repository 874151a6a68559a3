------------------------- MODULE CollectorPilotProofs -------------------------
(* The safety of the upload gate, for any number of gateways, journals and   *)
(* uploads; the collector pilot as an implementation of the gate, to which   *)
(* that safety carries over; and the invariance of what the collector adds.  *)
EXTENDS CollectorPilot, TLAPS

USE NoneAssumption, TimeAssumption, UploadAssumption, LayoutAssumption
USE DEF gatewayVars

-----------------------------------------------------------------------------
(* The upload gate: its inductive invariant.                                *)

Step == {"idle", "claim", "final", "send", "sent", "persist"}
Owning == {"final", "send", "sent", "persist"}
Receipt == [upload : Upload, at : Time]
FrameType ==
    [upload : Upload, admitted : Time, final : Time \cup {None}, sent : Time \cup {None},
     receipt : Receipt \cup {None}, result : Terminal \cup {None}]
Answer == {"REPLAY_NO_SEND", "REQUEST_ID_CONFLICT", "BLOCKED_WITHOUT_ATTEMPT",
           "RECEIPT_CONFIRMED", "OUTCOME_UNKNOWN"}
Reports == [upload : Upload, attempted : BOOLEAN, state : Answer]
GateType ==
    /\ pc \in [Gateway -> Step]
    /\ call \in [Gateway -> FrameType \cup {None}]
    /\ report \in [Gateway -> Reports \cup {None}]
    /\ \A g \in Gateway : pc[g] # "idle" => call[g] \in FrameType
StoreType ==
    /\ now \in Time
    /\ journalOf \in [Gateway -> Journal]
    /\ journal \in [Journal -> [Id -> Row \cup {None}]]
    /\ uploads \in [Id -> Receipt \cup {None}]
    /\ wire \subseteq [from : Gateway, upload : Upload, created : Time]
    /\ sends \in [Journal -> [Id -> Nat]]

\* A gateway past its claim owns an intent of its journal, with the one call it is worth.
Owns(g) ==
    LET row == RowOf(g, Mine(g)) IN
    /\ row # None /\ row.upload = Mine(g) /\ row.state = "dispatch_intent"
    /\ row.prepared = call[g].admitted
    /\ \A h \in Gateway \ {g} :
          pc[h] \in Owning /\ journalOf[h] = journalOf[g] => Mine(h).id # Mine(g).id
    /\ pc[g] \in {"final", "send"} => call[g].sent = None
    /\ pc[g] = "sent" => call[g].sent # None
    /\ sends[journalOf[g]][Mine(g).id] = IF call[g].sent = None THEN 0 ELSE 1
Owners == \A g \in Gateway : pc[g] \in Owning => Owns(g)

\* A receipt that a call holds is what the receiver keeps.
Kept(u) == uploads[u.id] # None /\ SamePayload(uploads[u.id].upload, u)
Receipts ==
    \A g \in Gateway : pc[g] # "idle" /\ call[g].receipt # None =>
        call[g].receipt = uploads[Mine(g).id]
Results ==
    \A g \in Gateway : pc[g] = "persist" =>
        /\ call[g].result \in Terminal
        /\ call[g].result = "blocked_after_intent" => call[g].sent = None
        /\ call[g].result = "receipt_confirmed" => call[g].sent # None /\ Kept(Mine(g))

\* A call that has not claimed yet has sent nothing.
Unsent == \A g \in Gateway : pc[g] = "claim" => call[g].sent = None
RowsNamed == \A j \in Journal, i \in Id : journal[j][i] # None => journal[j][i].upload.id = i
WireNamed ==
    \A m \in wire : LET row == journal[journalOf[m.from]][m.upload.id] IN
                    row # None /\ row.upload = m.upload

IInv ==
    /\ GateType /\ StoreType
    /\ Owners /\ Unsent /\ Receipts /\ Results /\ RowsNamed /\ WireNamed
    /\ OneSendPerIntent /\ ResultsAreTrue /\ ReportIsDurable

-----------------------------------------------------------------------------
\* The id of an upload is an id.
LEMMA IdOfUpload == \A u \in Upload : u.id \in Id
BY DEF Id

\* What a gateway writes into its journal.
LEMMA RowWritten ==
    ASSUME GateType, StoreType, NEW g \in Gateway, NEW u \in Upload, call[g] \in FrameType,
           NEW s \in Terminal \cup {"dispatch_intent"}, SetRow(g, u, s)
    PROVE  LET row == [upload |-> u, prepared |-> call[g].admitted, state |-> s] IN
           /\ row \in Row
           /\ journal' \in [Journal -> [Id -> Row \cup {None}]]
           /\ \A j \in Journal, i \in Id :
                 journal'[j][i] = IF j = journalOf[g] /\ i = u.id THEN row ELSE journal[j][i]
<1>1. u.id \in Id /\ journalOf[g] \in Journal
    BY IdOfUpload DEF StoreType
<1>2. [upload |-> u, prepared |-> call[g].admitted, state |-> s] \in Row
    BY DEF FrameType, Row
<1> QED
    BY <1>1, <1>2 DEF SetRow, StoreType

\* The invariant holds at the start, when nothing is journalled, sent or stored.
LEMMA InitIInv == Init => IInv
<1> SUFFICES ASSUME Init PROVE IInv
    OBVIOUS
<1>1. GateType
    BY DEF Init, GateType, Step
<1>2. StoreType
    BY DEF Init, StoreType
<1>3. Owners /\ Unsent /\ Receipts /\ Results /\ RowsNamed /\ WireNamed
    BY DEF Init, Owners, Unsent, Owning, Receipts, Results, RowsNamed, WireNamed
<1>4. OneSendPerIntent /\ ResultsAreTrue /\ ReportIsDurable
    BY DEF Init, OneSendPerIntent, ResultsAreTrue, ReportIsDurable
<1> QED
    BY <1>1, <1>2, <1>3, <1>4 DEF IInv


\* What a call that returns leaves behind, and that other calls are not concerned.
LEMMA ReturnType ==
    ASSUME GateType, NEW g \in Gateway, NEW u \in Upload, NEW a \in BOOLEAN,
           NEW s \in Answer,
           Return(g, u, s, a)
    PROVE  /\ GateType'
           /\ pc'[g] = "idle" /\ call'[g] = None
           /\ report'[g] = [upload |-> u, state |-> s, attempted |-> a]
           /\ \A h \in Gateway \ {g} :
                 pc'[h] = pc[h] /\ call'[h] = call[h] /\ report'[h] = report[h]
<1>1. [upload |-> u, state |-> s, attempted |-> a] \in Reports
    BY DEF Reports
<1> QED
    BY <1>1 DEF Return, GateType, Step

\* The same for a call that answers without an attempt.
LEMMA ReturnUntried ==
    ASSUME GateType, NEW g \in Gateway, NEW u \in Upload,
           NEW s \in Answer,
           Return(g, u, s, FALSE)
    PROVE  /\ GateType' /\ pc'[g] = "idle" /\ call'[g] = None
           /\ report'[g] = [upload |-> u, state |-> s, attempted |-> FALSE]
           /\ \A h \in Gateway \ {g} :
                 pc'[h] = pc[h] /\ call'[h] = call[h] /\ report'[h] = report[h]
<1>1. FALSE \in BOOLEAN
    OBVIOUS
<1> QED
    BY <1>1, ReturnType, Zenon

\* And for a call that answers after its one attempt.
LEMMA ReturnTried ==
    ASSUME GateType, NEW g \in Gateway, NEW u \in Upload,
           NEW s \in Answer,
           Return(g, u, s, TRUE)
    PROVE  /\ GateType' /\ pc'[g] = "idle" /\ call'[g] = None
           /\ report'[g] = [upload |-> u, state |-> s, attempted |-> TRUE]
           /\ \A h \in Gateway \ {g} :
                 pc'[h] = pc[h] /\ call'[h] = call[h] /\ report'[h] = report[h]
<1>1. TRUE \in BOOLEAN
    OBVIOUS
<1> QED
    BY <1>1, ReturnType, Zenon

\* What a call that goes on carries with it, and that other calls are not concerned.
LEMMA GotoType ==
    ASSUME GateType, NEW g \in Gateway, NEW l \in Step, NEW frame \in FrameType,
           Goto(g, l, frame)
    PROVE  /\ GateType'
           /\ pc'[g] = l /\ call'[g] = frame /\ report' = report
           /\ \A h \in Gateway \ {g} : pc'[h] = pc[h] /\ call'[h] = call[h]
BY DEF Goto, GateType, Step

\* A step that leaves the journals, the receiver and the transport calls alone.
LEMMA StoresKept ==
    ASSUME IInv, journal' = journal, journalOf' = journalOf, uploads' = uploads, sends' = sends
    PROVE  RowsNamed' /\ ResultsAreTrue'
BY DEF IInv, RowsNamed, ResultsAreTrue, SamePayload

\* A step that leaves the stores alone and whose caller owns nothing after it: the other
\* calls keep what they own and have found.
LEMMA OthersKept ==
    ASSUME IInv, NEW g \in Gateway, pc'[g] \notin Owning,
           UNCHANGED <<journalOf, journal, uploads, sends>>,
           \A h \in Gateway \ {g} : pc'[h] = pc[h] /\ call'[h] = call[h]
    PROVE  Owners' /\ Results'
<1>1. \A h \in Gateway : pc'[h] \in Owning =>
          h # g /\ pc[h] \in Owning /\ pc'[h] = pc[h] /\ call'[h] = call[h]
    OBVIOUS
<1>2. Owners'
    <2> SUFFICES ASSUME NEW h \in Gateway, pc'[h] \in Owning PROVE Owns(h)'
        BY DEF Owners
    <2>1. pc'[h] = pc[h] /\ call'[h] = call[h] /\ Owns(h)
        BY <1>1 DEF IInv, Owners
    <2>2. Mine(h)' = Mine(h) /\ RowOf(h, Mine(h))' = RowOf(h, Mine(h))
        BY <2>1 DEF RowOf, Mine
    <2>3. ASSUME NEW k \in Gateway \ {h}, pc'[k] \in Owning, journalOf[k] = journalOf[h]
          PROVE  Mine(k)'.id # Mine(h).id
        <3>1. pc[k] \in Owning /\ Mine(k)' = Mine(k)
            BY <1>1, <2>3 DEF Mine
        <3> QED
            BY <2>1, <2>3, <3>1 DEF Owns
    <2> QED
        BY <2>1, <2>2, <2>3 DEF Owns
<1>3. Results'
    <2>1. \A h \in Gateway : pc'[h] = "persist" => pc[h] = "persist" /\ call'[h] = call[h]
        BY <1>1 DEF Owning
    <2> QED
        BY <2>1 DEF IInv, Results, Kept, Mine
<1> QED
    BY <1>2, <1>3

\* A report that confirms nothing, and tells of a row only if it is there.
LEMMA ReportsKept ==
    ASSUME IInv, NEW g \in Gateway, UNCHANGED <<journalOf, journal>>,
           \A h \in Gateway \ {g} : report'[h] = report[h],
           report'[g] # None =>
              /\ report'[g].state # "RECEIPT_CONFIRMED"
              /\ report'[g].state \in {"REPLAY_NO_SEND", "REQUEST_ID_CONFLICT"} =>
                   ~ report'[g].attempted /\ RowOf(g, report'[g].upload) # None
    PROVE  ReportIsDurable'
<1> SUFFICES ASSUME NEW h \in Gateway, report'[h] # None
             PROVE  LET row == journal[journalOf[h]][report'[h].upload.id] IN
                    /\ report'[h].state = "RECEIPT_CONFIRMED" =>
                         /\ report'[h].attempted
                         /\ row # None
                         /\ row.upload = report'[h].upload /\ row.state = "receipt_confirmed"
                    /\ report'[h].state \in {"REPLAY_NO_SEND", "REQUEST_ID_CONFLICT"} =>
                         ~ report'[h].attempted /\ row # None
    BY DEF ReportIsDurable, RowOf
<1>1. CASE h = g
    BY <1>1 DEF RowOf
<1>2. CASE h # g
    <2>1. report'[h] = report[h]
        BY <1>2
    <2> QED
        BY <2>1 DEF IInv, ReportIsDurable, RowOf
<1> QED
    BY <1>1, <1>2

\* An admission claims nothing yet, and one that is refused was refused by a row.
LEMMA ExecuteIInv ==
    ASSUME IInv, NEW g \in Gateway, NEW u \in Upload, Execute(g, u)
    PROVE  IInv'
<1>0. GateType /\ StoreType
    BY DEF IInv
<1>1. now' = now /\ journalOf' = journalOf /\ journal' = journal /\ wire' = wire
      /\ uploads' = uploads /\ sends' = sends
    BY DEF Execute
<1>2. StoreType' /\ RowsNamed' /\ ResultsAreTrue' /\ WireNamed' /\ OneSendPerIntent'
    BY <1>1, StoresKept DEF StoreType, WireNamed, OneSendPerIntent, IInv
<1>3. /\ GateType'
      /\ \/ pc'[g] = "idle" /\ call'[g] = None
         \/ pc'[g] = "claim" /\ call'[g].receipt = None /\ call'[g].sent = None
      /\ \/ report' = report
         \/ /\ report'[g].upload = u
            /\ report'[g].state = "BLOCKED_WITHOUT_ATTEMPT"
         \/ /\ report'[g].upload = u /\ ~ report'[g].attempted
            /\ report'[g].state # "RECEIPT_CONFIRMED" /\ RowOf(g, u) # None
      /\ \A h \in Gateway \ {g} : pc'[h] = pc[h] /\ call'[h] = call[h] /\ report'[h] = report[h]
    <2>1. CASE Block(g, u)
        <3>1. Return(g, u, "BLOCKED_WITHOUT_ATTEMPT", FALSE) /\ "BLOCKED_WITHOUT_ATTEMPT" \in Answer
            BY <2>1 DEF Block, Answer
        <3>2. /\ GateType' /\ pc'[g] = "idle" /\ call'[g] = None
              /\ report'[g] = [upload |-> u, state |-> "BLOCKED_WITHOUT_ATTEMPT", attempted |-> FALSE]
              /\ \A h \in Gateway \ {g} :
                    pc'[h] = pc[h] /\ call'[h] = call[h] /\ report'[h] = report[h]
            BY <1>0, <3>1, ReturnUntried
        <3> QED
            BY <3>2
    <2>2. CASE RowOf(g, u) # None /\ Replay(g, u)
        <3>1. PICK s \in {"REPLAY_NO_SEND", "REQUEST_ID_CONFLICT"} :
                  Return(g, u, s, FALSE) /\ s \in Answer
            BY <2>2 DEF Replay, Answer
        <3>2. /\ GateType' /\ pc'[g] = "idle" /\ call'[g] = None
              /\ report'[g] = [upload |-> u, state |-> s, attempted |-> FALSE]
              /\ \A h \in Gateway \ {g} :
                    pc'[h] = pc[h] /\ call'[h] = call[h] /\ report'[h] = report[h]
            BY <1>0, <3>1, ReturnUntried
        <3> QED
            BY <2>2, <3>2
    <2>3. CASE RowOf(g, u) = None /\ Goto(g, "claim", Frame(u))
        <3>1. /\ Frame(u) \in FrameType /\ Frame(u).receipt = None /\ Frame(u).sent = None
              /\ "claim" \in Step
            BY DEF Frame, FrameType, StoreType, Step, IInv
        <3> QED
            BY <1>0, <2>3, <3>1, GotoType
    <2> QED
        BY <2>1, <2>2, <2>3 DEF Execute
<1>4. Owners' /\ Results'
    BY <1>1, <1>3, OthersKept DEF Owning
<1>5. Receipts' /\ Unsent'
    BY <1>1, <1>3 DEF Receipts, Unsent, Mine, IInv
<1>6. ReportIsDurable'
    <2>1. CASE report' = report
        BY <1>1, <2>1 DEF ReportIsDurable, RowOf, IInv
    <2>2. CASE report' # report
        BY <1>1, <1>3, <2>2, ReportsKept
    <2> QED
        BY <2>1, <2>2
<1> QED
    BY <1>2, <1>3, <1>4, <1>5, <1>6 DEF IInv

\* A call past its claim goes on without touching a store: what its frame gains has to
\* bear out the step it goes to.
LEMMA FrameMoves ==
    ASSUME IInv, NEW g \in Gateway, pc[g] \in Owning, NEW l \in Owning, NEW frame \in FrameType,
           Goto(g, l, frame),
           frame.upload = Mine(g), frame.sent = call[g].sent, frame.receipt = call[g].receipt,
           frame.admitted = call[g].admitted,
           l \in {"final", "send"} => frame.sent = None,
           l = "sent" => frame.sent # None,
           l = "persist" =>
              /\ frame.result \in Terminal
              /\ frame.result = "blocked_after_intent" => frame.sent = None
              /\ frame.result = "receipt_confirmed" => frame.sent # None /\ Kept(Mine(g)),
           UNCHANGED <<now, journalOf, journal, wire, uploads, sends>>
    PROVE  IInv'
<1>0. GateType /\ StoreType
    BY DEF IInv
<1>1. l \in Step
    BY DEF Owning, Step
<1>2. /\ GateType' /\ pc'[g] = l /\ call'[g] = frame /\ report' = report
      /\ \A h \in Gateway \ {g} : pc'[h] = pc[h] /\ call'[h] = call[h]
    BY <1>0, <1>1, GotoType
<1>3. StoreType' /\ RowsNamed' /\ ResultsAreTrue' /\ WireNamed' /\ OneSendPerIntent'
    BY StoresKept DEF StoreType, WireNamed, OneSendPerIntent, IInv
<1>4. Owners'
    <2> SUFFICES ASSUME NEW h \in Gateway, pc'[h] \in Owning PROVE Owns(h)'
        BY DEF Owners
    <2>1. pc[h] \in Owning /\ Owns(h)
        BY <1>2 DEF Owners, IInv
    <2>2. \A k \in Gateway : pc[k] \in Owning <=> pc'[k] \in Owning
        BY <1>2
    <2>3. \A k \in Gateway :
              /\ Mine(k)' = Mine(k) /\ call'[k].sent = call[k].sent
              /\ call'[k].admitted = call[k].admitted
        BY <1>2 DEF Mine
    <2>4. RowOf(h, Mine(h))' = RowOf(h, Mine(h))
        BY <2>3 DEF RowOf
    <2>5. /\ pc'[h] \in {"final", "send"} => call'[h].sent = None
          /\ pc'[h] = "sent" => call'[h].sent # None
        BY <1>2, <2>1 DEF Owns
    <2> QED
        BY <2>1, <2>2, <2>3, <2>4, <2>5 DEF Owns
<1>5. Unsent' /\ Receipts'
    BY <1>2 DEF Unsent, Receipts, Owning, Mine, IInv
<1>6. Results'
    BY <1>2 DEF Results, Mine, Kept, SamePayload, IInv
<1>7. ReportIsDurable'
    BY <1>2 DEF ReportIsDurable, RowOf, IInv
<1> QED
    BY <1>2, <1>3, <1>4, <1>5, <1>6, <1>7 DEF IInv

\* The final check sends nothing: a refusal is recorded as one before the send.
LEMMA FinalIInv ==
    ASSUME IInv, NEW g \in Gateway, Final(g)
    PROVE  IInv'
<1>1. call[g] \in FrameType /\ now \in Time /\ call[g].sent = None /\ pc[g] \in Owning
    BY DEF Final, IInv, GateType, StoreType, Owners, Owns, Owning
<1>2. CASE Goto(g, "send", [call[g] EXCEPT !.final = now])
    <2> DEFINE frame == [call[g] EXCEPT !.final = now]
    <2>1. /\ frame \in FrameType /\ frame.upload = Mine(g) /\ frame.sent = call[g].sent
          /\ frame.receipt = call[g].receipt /\ "send" \in Owning
          /\ frame.admitted = call[g].admitted
        BY <1>1 DEF FrameType, Mine, Owning
    <2> HIDE DEF frame
    <2>2. Goto(g, "send", frame)
        BY <1>2 DEF frame
    <2> QED
        BY <1>1, <2>1, <2>2, FrameMoves DEF Final
<1>3. CASE Goto(g, "persist", [call[g] EXCEPT !.result = "blocked_after_intent"])
    <2> DEFINE frame == [call[g] EXCEPT !.result = "blocked_after_intent"]
    <2>1. /\ frame \in FrameType /\ frame.upload = Mine(g) /\ frame.sent = call[g].sent
          /\ frame.receipt = call[g].receipt /\ "persist" \in Owning
          /\ frame.admitted = call[g].admitted
          /\ frame.result = "blocked_after_intent" /\ frame.result \in Terminal
        BY <1>1 DEF FrameType, Mine, Owning, Terminal
    <2> HIDE DEF frame
    <2>2. Goto(g, "persist", frame)
        BY <1>3 DEF frame
    <2> QED
        BY <1>1, <2>1, <2>2, FrameMoves DEF Final
<1> QED
    BY <1>2, <1>3 DEF Final

\* A response is taken for a confirmation only if its receipt is the receiver's.
LEMMA ObserveIInv ==
    ASSUME IInv, NEW g \in Gateway, Observe(g)
    PROVE  IInv'
<1> DEFINE result == IF Confirmed(call[g], now) THEN "receipt_confirmed" ELSE "outcome_unknown"
           frame == [call[g] EXCEPT !.result = result]
<1>1. call[g] \in FrameType /\ call[g].sent # None /\ pc[g] \in Owning
    BY DEF Observe, IInv, GateType, Owners, Owns, Owning
<1>2. Confirmed(call[g], now) => Kept(Mine(g))
    BY <1>1 DEF Confirmed, Kept, Mine, IInv, Receipts, Observe
<1>3. /\ frame \in FrameType /\ frame.upload = Mine(g) /\ frame.sent = call[g].sent
      /\ frame.receipt = call[g].receipt /\ frame.admitted = call[g].admitted /\ "persist" \in Owning
      /\ frame.result = result /\ result \in Terminal /\ result # "blocked_after_intent"
      /\ result = "receipt_confirmed" => Confirmed(call[g], now)
    BY <1>1 DEF FrameType, Mine, Owning, Terminal
<1>4. Goto(g, "persist", frame)
    BY DEF Observe
<1> HIDE DEF frame, result
<1> QED
    BY <1>1, <1>2, <1>3, <1>4, FrameMoves DEF Observe

\* A gateway that dies leaves its intent behind, which nobody owns then.
LEMMA CrashIInv ==
    ASSUME IInv, NEW g \in Gateway, Crash(g)
    PROVE  IInv'
<1>0. GateType /\ StoreType
    BY DEF IInv
<1>1. /\ GateType' /\ pc'[g] = "idle" /\ report'[g] = None
      /\ \A h \in Gateway \ {g} : pc'[h] = pc[h] /\ call'[h] = call[h] /\ report'[h] = report[h]
    BY DEF Crash, GateType, Step, IInv
<1>2. StoreType' /\ RowsNamed' /\ ResultsAreTrue' /\ WireNamed' /\ OneSendPerIntent'
    BY StoresKept DEF Crash, StoreType, WireNamed, OneSendPerIntent, IInv
<1>3. UNCHANGED <<journalOf, journal, uploads, sends>>
    BY DEF Crash
<1>4. Owners' /\ Results'
    BY <1>1, <1>3, OthersKept DEF Owning
<1>5. Receipts' /\ Unsent'
    BY <1>1, <1>3 DEF Receipts, Unsent, Mine, IInv
<1>6. ReportIsDurable'
    BY <1>1, <1>3, ReportsKept
<1> QED
    BY <1>1, <1>2, <1>4, <1>5, <1>6 DEF IInv

\* Every part of the invariant is about the variables.
LEMMA SameIInv ==
    ASSUME IInv, UNCHANGED <<now, journalOf, journal, pc, call, report, wire, uploads, sends>>
    PROVE  IInv'
<1>1. GateType' /\ StoreType'
    BY DEF IInv, GateType, StoreType
<1>2. Owners'
    BY DEF IInv, Owners, Owns, RowOf, Mine
<1>3. Unsent' /\ Receipts' /\ Results'
    BY DEF IInv, Unsent, Receipts, Results, Kept, Mine
<1>4. RowsNamed' /\ WireNamed' /\ OneSendPerIntent'
    BY DEF IInv, RowsNamed, WireNamed, OneSendPerIntent
<1>5. ResultsAreTrue' /\ ReportIsDurable'
    BY DEF IInv, ResultsAreTrue, ReportIsDurable, RowOf
<1> QED
    BY <1>1, <1>2, <1>3, <1>4, <1>5 DEF IInv

\* A request that is lost, and a clock that is set.
LEMMA OutsideIInv ==
    ASSUME IInv, (\E m \in wire : Lose(m)) \/ (\E t \in Time : SetClock(t))
    PROVE  IInv'
<1>0. GateType /\ StoreType
    BY DEF IInv
<1>1. /\ UNCHANGED <<journalOf, journal, pc, call, report, uploads, sends>>
      /\ wire' \subseteq wire /\ now' \in Time
    BY DEF Lose, SetClock, StoreType, IInv
<1>2. GateType' /\ StoreType' /\ WireNamed' /\ OneSendPerIntent'
    BY <1>1 DEF GateType, StoreType, WireNamed, OneSendPerIntent, IInv
<1>3. RowsNamed' /\ ResultsAreTrue' /\ Owners' /\ Results'
    BY <1>1, StoresKept DEF Owners, Owns, RowOf, Mine, Results, Kept, SamePayload, IInv
<1>4. Receipts' /\ Unsent' /\ ReportIsDurable'
    BY <1>1 DEF Receipts, Unsent, Mine, ReportIsDurable, RowOf, IInv
<1> QED
    BY <1>2, <1>3, <1>4 DEF IInv

\* A claim makes its gateway the only owner of the row, as the row was not there.
LEMMA ClaimIInv ==
    ASSUME IInv, NEW g \in Gateway, Claim(g)
    PROVE  IInv'
<1> DEFINE u == Mine(g)
<1>0. GateType /\ StoreType
    BY DEF IInv
<1>1. /\ UNCHANGED <<now, journalOf, wire, uploads, sends>> /\ pc[g] = "claim"
      /\ call[g] \in FrameType /\ u \in Upload /\ u.id \in Id /\ call[g].sent = None
      /\ journalOf[g] \in Journal
    <2>1. call[g] \in FrameType /\ UNCHANGED <<now, journalOf, wire, uploads, sends>> /\ pc[g] = "claim"
        BY DEF Claim, GateType, IInv
    <2>2. u \in Upload /\ call[g].sent = None /\ journalOf[g] \in Journal
        BY <2>1 DEF FrameType, Mine, Unsent, StoreType, IInv
    <2> QED
        BY <2>1, <2>2, IdOfUpload
<1>2. CASE UNCHANGED journal /\ ((RowOf(g, u) # None /\ Replay(g, u)) \/ Block(g, u))
    <2>1. /\ GateType' /\ pc'[g] = "idle" /\ report'[g].upload = u
          /\ report'[g].state # "RECEIPT_CONFIRMED" /\ ~ report'[g].attempted
          /\ report'[g].state # "BLOCKED_WITHOUT_ATTEMPT" => RowOf(g, u) # None
          /\ \A h \in Gateway \ {g} :
                pc'[h] = pc[h] /\ call'[h] = call[h] /\ report'[h] = report[h]
        <3>1. PICK s \in {"REPLAY_NO_SEND", "REQUEST_ID_CONFLICT", "BLOCKED_WITHOUT_ATTEMPT"} :
                  /\ Return(g, u, s, FALSE) /\ s \in Answer
                  /\ s # "BLOCKED_WITHOUT_ATTEMPT" => RowOf(g, u) # None
            BY <1>2 DEF Replay, Block, Answer
        <3>2. /\ GateType' /\ pc'[g] = "idle"
              /\ report'[g] = [upload |-> u, state |-> s, attempted |-> FALSE]
              /\ \A h \in Gateway \ {g} :
                    pc'[h] = pc[h] /\ call'[h] = call[h] /\ report'[h] = report[h]
            BY <1>0, <1>1, <3>1, ReturnUntried
        <3> QED
            BY <3>1, <3>2
    <2>2. StoreType' /\ RowsNamed' /\ ResultsAreTrue' /\ WireNamed' /\ OneSendPerIntent'
        BY <1>1, <1>2, StoresKept DEF StoreType, WireNamed, OneSendPerIntent, IInv
    <2>3. Owners' /\ Results'
        BY <1>1, <1>2, <2>1, OthersKept DEF Owning
    <2>4. Receipts' /\ Unsent'
        BY <1>1, <2>1 DEF Receipts, Unsent, Mine, IInv
    <2>5. ReportIsDurable'
        BY <1>1, <1>2, <2>1, ReportsKept
    <2> QED
        BY <2>1, <2>2, <2>3, <2>4, <2>5 DEF IInv
<1>3. CASE /\ RowOf(g, u) = None /\ SetRow(g, u, "dispatch_intent")
           /\ Goto(g, "final", call[g]) \/ Block(g, u)
    <2> DEFINE row == [upload |-> u, prepared |-> call[g].admitted, state |-> "dispatch_intent"]
    <2>1. /\ row \in Row /\ journal' \in [Journal -> [Id -> Row \cup {None}]]
          /\ \A j \in Journal, i \in Id :
                journal'[j][i] = IF j = journalOf[g] /\ i = u.id THEN row ELSE journal[j][i]
        BY <1>1, <1>3, RowWritten DEF IInv
    <2>2. /\ row.upload = u /\ row.state = "dispatch_intent" /\ row # None
          /\ row.prepared = call[g].admitted
        BY <2>1
    <2> HIDE DEF row
    <2>3. /\ GateType'
          /\ \/ pc'[g] = "final" /\ call'[g] = call[g] /\ report'[g] = report[g]
             \/ /\ pc'[g] = "idle" /\ report'[g].upload = u
                /\ report'[g].state = "BLOCKED_WITHOUT_ATTEMPT"
          /\ \A h \in Gateway \ {g} :
                pc'[h] = pc[h] /\ call'[h] = call[h] /\ report'[h] = report[h]
        <3>1. CASE Goto(g, "final", call[g])
            <4>1. "final" \in Step
                BY DEF Step
            <4> QED
                BY <1>0, <1>1, <3>1, <4>1, GotoType
        <3>2. CASE Block(g, u)
            <4>1. Return(g, u, "BLOCKED_WITHOUT_ATTEMPT", FALSE) /\ "BLOCKED_WITHOUT_ATTEMPT" \in Answer
                BY <3>2 DEF Block, Answer
            <4>2. /\ GateType' /\ pc'[g] = "idle"
                  /\ report'[g] = [upload |-> u, state |-> "BLOCKED_WITHOUT_ATTEMPT", attempted |-> FALSE]
                  /\ \A h \in Gateway \ {g} :
                        pc'[h] = pc[h] /\ call'[h] = call[h] /\ report'[h] = report[h]
                BY <1>0, <1>1, <4>1, ReturnUntried
            <4> QED
                BY <4>2
        <3> QED
            BY <1>3, <3>1, <3>2
    <2>4. journal[journalOf[g]][u.id] = None
        BY <1>3 DEF RowOf
    <2>5. \A j \in Journal, i \in Id : journal[j][i] # None => journal'[j][i] = journal[j][i]
        BY <2>1, <2>4
    <2>6. sends[journalOf[g]][u.id] = 0
        BY <1>1, <2>4 DEF OneSendPerIntent, IInv
    <2>7. StoreType' /\ RowsNamed'
        <3>1. StoreType'
            BY <1>1, <2>1 DEF StoreType, IInv
        <3>2. RowsNamed'
            BY <2>1, <2>2 DEF RowsNamed, IInv
        <3> QED
            BY <3>1, <3>2
    <2>8. ResultsAreTrue'
        BY <1>1, <2>1, <2>2 DEF ResultsAreTrue, SamePayload, IInv
    <2>9. WireNamed' /\ OneSendPerIntent'
        <3>1. \A m \in wire : m.from \in Gateway /\ m.upload.id \in Id /\ journalOf[m.from] \in Journal
            BY IdOfUpload DEF StoreType, IInv
        <3> QED
            BY <1>1, <2>1, <2>2, <2>5, <3>1 DEF WireNamed, OneSendPerIntent, StoreType, IInv
    <2>10. Owners'
        <3> SUFFICES ASSUME NEW h \in Gateway, pc'[h] \in Owning PROVE Owns(h)'
            BY DEF Owners
        <3>1. \A k \in Gateway : pc[k] \in Owning =>
                  /\ k # g /\ Mine(k)' = Mine(k) /\ Mine(k).id \in Id
                  /\ journalOf[k] \in Journal
                  /\ journalOf[k] = journalOf[g] => Mine(k).id # u.id
            <4> SUFFICES ASSUME NEW k \in Gateway, pc[k] \in Owning
                         PROVE  /\ k # g /\ Mine(k)' = Mine(k) /\ Mine(k).id \in Id
                                /\ journalOf[k] \in Journal
                                /\ journalOf[k] = journalOf[g] => Mine(k).id # u.id
                OBVIOUS
            <4>1. k # g /\ pc[k] # "idle"
                BY <1>1 DEF Owning
            <4>2. call[k] \in FrameType /\ Mine(k) \in Upload
                BY <4>1 DEF GateType, FrameType, Mine, IInv
            <4>3. Mine(k)' = Mine(k)
                BY <2>3, <4>1 DEF Mine
            <4>4. journalOf[k] = journalOf[g] => Mine(k).id # u.id
                BY <2>4 DEF Owners, Owns, RowOf, IInv
            <4> QED
                BY <4>1, <4>2, <4>3, <4>4, IdOfUpload DEF StoreType, IInv
        <3>2. \A k \in Gateway : pc'[k] \in Owning => k = g \/ pc[k] \in Owning
            BY <2>3
        <3>3. CASE h = g
            <4>1. pc'[g] = "final" /\ Mine(g)' = u /\ call'[g] = call[g]
                BY <2>3, <3>3 DEF Owning, Mine
            <4>2. RowOf(g, u)' = row
                BY <1>1, <2>1, <4>1 DEF RowOf
            <4> QED
                BY <1>1, <2>2, <2>6, <3>1, <3>2, <3>3, <4>1, <4>2 DEF Owns, RowOf
        <3>4. CASE h # g
            <4>1. pc[h] \in Owning /\ pc'[h] = pc[h] /\ call'[h] = call[h] /\ Owns(h)
                BY <2>3, <3>4 DEF Owners, IInv
            <4>2. RowOf(h, Mine(h))' = RowOf(h, Mine(h))
                BY <1>1, <2>1, <3>1, <4>1 DEF RowOf
            <4>3. \A k \in Gateway \ {h} :
                      pc'[k] \in Owning /\ journalOf[k] = journalOf[h] => Mine(k)'.id # Mine(h)'.id
                <5> SUFFICES ASSUME NEW k \in Gateway \ {h}, pc'[k] \in Owning,
                                    journalOf[k] = journalOf[h]
                             PROVE  Mine(k)'.id # Mine(h)'.id
                    OBVIOUS
                <5>1. CASE k = g
                    <6>1. Mine(g)' = u
                        BY <2>3, <5>1 DEF Mine, Owning
                    <6> QED
                        BY <3>1, <4>1, <5>1, <6>1
                <5>2. CASE k # g
                    BY <3>1, <3>2, <4>1, <5>2 DEF Owns
                <5> QED
                    BY <5>1, <5>2
            <4> QED
                BY <1>1, <3>1, <4>1, <4>2, <4>3 DEF Owns
        <3> QED
            BY <3>3, <3>4
    <2>11. Results' /\ Receipts' /\ Unsent'
        BY <1>1, <2>3 DEF Results, Kept, SamePayload, Mine, Receipts, Unsent, IInv
    <2>12. ReportIsDurable'
        <3> SUFFICES ASSUME NEW h \in Gateway, report'[h] # None,
                            report'[h].state # "BLOCKED_WITHOUT_ATTEMPT",
                            report'[h].state # "OUTCOME_UNKNOWN"
                     PROVE  /\ report'[h] = report[h]
                            /\ journal'[journalOf[h]][report[h].upload.id]
                                 = journal[journalOf[h]][report[h].upload.id]
            <4>1. ReportIsDurable
                BY DEF IInv
            <4> QED
                BY <1>1, <4>1 DEF ReportIsDurable, RowOf
        <3>1. report'[h] = report[h]
            BY <2>3
        <3>2. report[h] \in Reports /\ report[h].upload \in Upload
            BY <3>1 DEF GateType, Reports, IInv
        <3>3. /\ journalOf[h] \in Journal /\ report[h].upload.id \in Id
              /\ journal[journalOf[h]][report[h].upload.id] \in Row \cup {None}
            BY <3>2, IdOfUpload DEF StoreType, IInv
        <3>4. journal[journalOf[h]][report[h].upload.id] # None
            <4>1. CASE report[h].state = "RECEIPT_CONFIRMED"
                BY <3>1, <4>1 DEF ReportIsDurable, RowOf, IInv
            <4>2. CASE report[h].state \in {"REPLAY_NO_SEND", "REQUEST_ID_CONFLICT"}
                BY <3>1, <4>2 DEF ReportIsDurable, RowOf, IInv
            <4>3. /\ report[h].state \in Answer
                  /\ report[h].state # "BLOCKED_WITHOUT_ATTEMPT"
                  /\ report[h].state # "OUTCOME_UNKNOWN"
                BY <3>1, <3>2 DEF Reports
            <4> QED
                BY <4>1, <4>2, <4>3 DEF Answer
        <3> QED
            BY <2>5, <3>1, <3>3, <3>4 DEF IInv
    <2> QED
        BY <2>3, <2>7, <2>8, <2>9, <2>10, <2>11, <2>12 DEF IInv
<1> QED
    BY <1>2, <1>3 DEF Claim

\* What a gateway past its claim holds, and holds alone.
LEMMA Owned ==
    ASSUME IInv, NEW g \in Gateway, pc[g] \in Owning
    PROVE  /\ call[g] \in FrameType /\ Mine(g) \in Upload /\ Mine(g).id \in Id
           /\ journalOf[g] \in Journal /\ Owns(g)
           /\ \A h \in Gateway \ {g} :
                 pc[h] \in Owning => journalOf[h] # journalOf[g] \/ Mine(h).id # Mine(g).id
<1>1. call[g] \in FrameType /\ journalOf[g] \in Journal
    BY DEF IInv, GateType, StoreType, Owning
<1>2. Mine(g) \in Upload
    BY <1>1 DEF FrameType, Mine
<1>3. Owns(g)
    BY DEF IInv, Owners
<1> QED
    BY <1>1, <1>2, <1>3, IdOfUpload DEF Owns

\* The owner's transport call is the first on behalf of the row.
LEMMA SendIInv ==
    ASSUME IInv, NEW g \in Gateway, Send(g)
    PROVE  IInv'
<1> DEFINE u == Mine(g)
           frame == [call[g] EXCEPT !.sent = now]
           m == [from |-> g, upload |-> u, created |-> call[g].admitted]
<1>0. GateType /\ StoreType
    BY DEF IInv
<1>1. UNCHANGED <<now, journalOf, journal, uploads>> /\ pc[g] = "send" /\ now \in Time
    BY DEF Send, StoreType, IInv
<1>2. /\ call[g] \in FrameType /\ u \in Upload /\ u.id \in Id /\ journalOf[g] \in Journal
      /\ Owns(g)
      /\ \A h \in Gateway \ {g} :
            pc[h] \in Owning => journalOf[h] # journalOf[g] \/ Mine(h).id # u.id
    BY <1>1, Owned DEF Owning
<1>3. /\ RowOf(g, u) # None /\ RowOf(g, u).upload = u /\ RowOf(g, u).state = "dispatch_intent"
      /\ call[g].sent = None /\ sends[journalOf[g]][u.id] = 0
    BY <1>1, <1>2 DEF Owns
<1>4. /\ frame \in FrameType /\ frame.upload = u /\ frame.sent = now /\ frame.sent # None
      /\ frame.receipt = call[g].receipt /\ frame.admitted = call[g].admitted /\ "sent" \in Step
    BY <1>1, <1>2 DEF FrameType, Mine, Step
<1>5. /\ GateType' /\ pc'[g] = "sent" /\ call'[g] = frame /\ report' = report
      /\ \A h \in Gateway \ {g} : pc'[h] = pc[h] /\ call'[h] = call[h]
    <2>1. Goto(g, "sent", frame)
        BY DEF Send
    <2> HIDE DEF frame
    <2> QED
        BY <1>0, <1>4, <2>1, GotoType
<1>6. /\ sends' \in [Journal -> [Id -> Nat]]
      /\ \A j \in Journal, i \in Id :
            sends'[j][i] = IF j = journalOf[g] /\ i = u.id THEN 1 ELSE sends[j][i]
    BY <1>2, <1>3 DEF Send, StoreType, IInv
<1>7. wire' = wire \cup {m} /\ m \in [from : Gateway, upload : Upload, created : Time]
      /\ m.from = g /\ m.upload = u
    BY <1>2 DEF Send, FrameType
<1> HIDE DEF frame, m
<1>8. StoreType'
    BY <1>1, <1>6, <1>7 DEF StoreType, IInv
<1>9. RowsNamed' /\ WireNamed'
    BY <1>1, <1>3, <1>7 DEF RowsNamed, WireNamed, RowOf, IInv
<1>10. OneSendPerIntent'
    <2>1. \A j \in Journal, i \in Id :
              sends'[j][i] \in {0, 1} /\ (sends'[j][i] = 1 => journal'[j][i] # None)
        BY <1>1, <1>3, <1>6 DEF OneSendPerIntent, RowOf, IInv
    <2>2. \A n \in wire' : journal'[journalOf'[n.from]][n.upload.id].upload = n.upload
        BY <1>1, <1>3, <1>7 DEF OneSendPerIntent, RowOf, IInv
    <2> QED
        BY <2>1, <2>2 DEF OneSendPerIntent
<1>11. ResultsAreTrue'
    BY <1>1, <1>3, <1>6 DEF ResultsAreTrue, RowOf, SamePayload, IInv
<1>12. Owners'
    <2> SUFFICES ASSUME NEW h \in Gateway, pc'[h] \in Owning PROVE Owns(h)'
        BY DEF Owners
    <2>1. \A k \in Gateway : Mine(k)' = Mine(k) /\ (pc'[k] \in Owning <=> pc[k] \in Owning)
        BY <1>1, <1>4, <1>5 DEF Mine, Owning
    <2>2. Mine(h).id \in Id /\ journalOf[h] \in Journal /\ Owns(h)
        BY <2>1, Owned
    <2>3. RowOf(h, Mine(h))' = RowOf(h, Mine(h))
        BY <1>1, <2>1 DEF RowOf
    <2>4. CASE h = g
        BY <1>1, <1>2, <1>4, <1>5, <1>6, <2>1, <2>2, <2>3, <2>4 DEF Owns
    <2>5. CASE h # g
        <3>1. sends'[journalOf[h]][Mine(h).id] = sends[journalOf[h]][Mine(h).id]
            BY <1>2, <1>6, <2>1, <2>2, <2>5
        <3> QED
            BY <1>1, <1>5, <2>1, <2>2, <2>3, <2>5, <3>1 DEF Owns
    <2> QED
        BY <2>4, <2>5
<1>13. Unsent' /\ Results' /\ Receipts'
    BY <1>1, <1>4, <1>5 DEF Unsent, Results, Receipts, Kept, SamePayload, Mine, IInv
<1>14. ReportIsDurable'
    BY <1>1, <1>5 DEF ReportIsDurable, RowOf, IInv
<1> QED
    BY <1>5, <1>8, <1>9, <1>10, <1>11, <1>12, <1>13, <1>14 DEF IInv

\* The result that the owner records is true of its transport call and of the receiver.
LEMMA PersistIInv ==
    ASSUME IInv, NEW g \in Gateway, Persist(g)
    PROVE  IInv'
<1> DEFINE u == Mine(g)
           attempted == call[g].sent # None
<1>0. GateType /\ StoreType
    BY DEF IInv
<1>1. UNCHANGED <<now, journalOf, wire, uploads, sends>> /\ pc[g] = "persist"
    BY DEF Persist
<1>2. /\ call[g] \in FrameType /\ u \in Upload /\ u.id \in Id /\ journalOf[g] \in Journal
      /\ Owns(g)
      /\ \A h \in Gateway \ {g} :
            pc[h] \in Owning => journalOf[h] # journalOf[g] \/ Mine(h).id # u.id
    BY <1>1, Owned DEF Owning
<1>3. /\ call[g].result \in Terminal
      /\ call[g].result = "blocked_after_intent" => call[g].sent = None
      /\ call[g].result = "receipt_confirmed" => call[g].sent # None /\ Kept(u)
      /\ sends[journalOf[g]][u.id] = IF call[g].sent = None THEN 0 ELSE 1
      /\ RowOf(g, u) # None /\ RowOf(g, u).state = "dispatch_intent"
    BY <1>1, <1>2 DEF Results, Owns, IInv
<1>4. PICK s \in {"BLOCKED_WITHOUT_ATTEMPT", "RECEIPT_CONFIRMED", "OUTCOME_UNKNOWN"} :
          /\ Return(g, u, s, attempted)
          /\ \/ SetRow(g, u, call[g].result)
             \/ UNCHANGED journal /\ s = "OUTCOME_UNKNOWN"
          /\ s = "RECEIPT_CONFIRMED" =>
                /\ call[g].result = "receipt_confirmed"
                /\ SetRow(g, u, "receipt_confirmed")
    <2>1. CASE UNCHANGED journal /\ Return(g, u, "OUTCOME_UNKNOWN", attempted)
        BY <2>1
    <2>2. ASSUME NEW s \in {ReportOf(call[g].result), "OUTCOME_UNKNOWN"},
                 SetRow(g, u, call[g].result), Return(g, u, s, attempted)
          PROVE  /\ s \in {"BLOCKED_WITHOUT_ATTEMPT", "RECEIPT_CONFIRMED", "OUTCOME_UNKNOWN"}
                 /\ s = "RECEIPT_CONFIRMED" => call[g].result = "receipt_confirmed"
        BY <1>3, <2>2 DEF ReportOf, Terminal
    <2>3. CASE \E s \in {ReportOf(call[g].result), "OUTCOME_UNKNOWN"} :
                  SetRow(g, u, call[g].result) /\ Return(g, u, s, attempted)
        BY <2>2, <2>3
    <2> QED
        BY <2>1, <2>3 DEF Persist
<1>5. /\ GateType' /\ pc'[g] = "idle"
      /\ report'[g] = [upload |-> u, state |-> s, attempted |-> attempted]
      /\ \A h \in Gateway \ {g} :
            pc'[h] = pc[h] /\ call'[h] = call[h] /\ report'[h] = report[h]
    <2>1. attempted \in BOOLEAN /\ s \in Answer
        BY DEF Answer
    <2>2. CASE attempted = TRUE
        <3>1. Return(g, u, s, TRUE)
            BY <1>4, <2>2, Zenon
        <3>2. /\ GateType' /\ pc'[g] = "idle"
              /\ report'[g] = [upload |-> u, state |-> s, attempted |-> TRUE]
              /\ \A h \in Gateway \ {g} :
                    pc'[h] = pc[h] /\ call'[h] = call[h] /\ report'[h] = report[h]
            BY <1>0, <1>2, <2>1, <3>1, ReturnTried
        <3> QED
            BY <2>2, <3>2
    <2>3. CASE attempted = FALSE
        <3>1. Return(g, u, s, FALSE)
            BY <1>4, <2>3, Zenon
        <3>2. /\ GateType' /\ pc'[g] = "idle"
              /\ report'[g] = [upload |-> u, state |-> s, attempted |-> FALSE]
              /\ \A h \in Gateway \ {g} :
                    pc'[h] = pc[h] /\ call'[h] = call[h] /\ report'[h] = report[h]
            BY <1>0, <1>2, <2>1, <3>1, ReturnUntried
        <3> QED
            BY <2>3, <3>2
    <2> QED
        BY <2>1, <2>2, <2>3
<1>6. CASE UNCHANGED journal /\ s = "OUTCOME_UNKNOWN"
    <2>1. StoreType' /\ RowsNamed' /\ ResultsAreTrue' /\ WireNamed' /\ OneSendPerIntent'
        BY <1>1, <1>6, StoresKept DEF StoreType, WireNamed, OneSendPerIntent, IInv
    <2>2. Owners' /\ Results'
        BY <1>1, <1>5, <1>6, OthersKept DEF Owning
    <2>3. Receipts' /\ Unsent'
        BY <1>1, <1>5 DEF Receipts, Unsent, Mine, IInv
    <2>4. ReportIsDurable'
        BY <1>1, <1>5, <1>6, ReportsKept
    <2> QED
        BY <1>5, <2>1, <2>2, <2>3, <2>4 DEF IInv
<1>7. CASE SetRow(g, u, call[g].result)
    <2> DEFINE row == [upload |-> u, prepared |-> call[g].admitted, state |-> call[g].result]
    <2>1. /\ row \in Row /\ journal' \in [Journal -> [Id -> Row \cup {None}]]
          /\ \A j \in Journal, i \in Id :
                journal'[j][i] = IF j = journalOf[g] /\ i = u.id THEN row ELSE journal[j][i]
        BY <1>2, <1>3, <1>7, RowWritten DEF IInv
    <2>2. row.upload = u /\ row.state = call[g].result /\ row # None
        BY <2>1
    <2> HIDE DEF row
    <2>3. journal[journalOf[g]][u.id].upload = u
        BY <1>2 DEF Owns, RowOf
    <2>4. journal[journalOf[g]][u.id].state = "dispatch_intent" /\ journal[journalOf[g]][u.id] # None
        BY <1>3 DEF RowOf
    <2>5. StoreType'
        BY <1>1, <2>1 DEF StoreType, IInv
    <2>6. RowsNamed'
        BY <2>1, <2>2 DEF RowsNamed, IInv
    <2>7. ResultsAreTrue'
        BY <1>1, <1>3, <2>1, <2>2 DEF ResultsAreTrue, Kept, SamePayload, IInv
    <2>8. WireNamed' /\ OneSendPerIntent'
        <3>1. \A m \in wire : m.from \in Gateway /\ m.upload.id \in Id /\ journalOf[m.from] \in Journal
            BY IdOfUpload DEF StoreType, IInv
        <3>2. \A j \in Journal, i \in Id :
                  journal[j][i] # None => journal'[j][i] # None /\ journal'[j][i].upload = journal[j][i].upload
            BY <2>1, <2>2, <2>3
        <3> QED
            BY <1>1, <3>1, <3>2 DEF WireNamed, OneSendPerIntent, IInv
    <2>9. Owners'
        <3> SUFFICES ASSUME NEW h \in Gateway, pc'[h] \in Owning PROVE Owns(h)'
            BY DEF Owners
        <3>1. \A k \in Gateway : pc'[k] \in Owning =>
                  k # g /\ pc[k] \in Owning /\ Mine(k)' = Mine(k)
            BY <1>5 DEF Mine, Owning
        <3>2. /\ h # g /\ pc'[h] = pc[h] /\ call'[h] = call[h]
              /\ Mine(h).id \in Id /\ journalOf[h] \in Journal /\ Owns(h)
            BY <1>5, <3>1, Owned
        <3>3. RowOf(h, Mine(h))' = RowOf(h, Mine(h))
            BY <1>1, <1>2, <2>1, <3>1, <3>2 DEF RowOf
        <3> QED
            BY <1>1, <3>1, <3>2, <3>3 DEF Owns
    <2>10. Results' /\ Receipts' /\ Unsent'
        BY <1>1, <1>5 DEF Results, Kept, SamePayload, Mine, Receipts, Unsent, IInv
    <2>11. ReportIsDurable'
        <3> SUFFICES ASSUME NEW h \in Gateway, report'[h] # None,
                            report'[h].state \in {"RECEIPT_CONFIRMED", "REPLAY_NO_SEND", "REQUEST_ID_CONFLICT"}
                     PROVE  LET held == journal'[journalOf[h]][report'[h].upload.id] IN
                            /\ held # None
                            /\ report'[h].state = "RECEIPT_CONFIRMED" =>
                                 /\ report'[h].attempted
                                 /\ held.upload = report'[h].upload
                                 /\ held.state = "receipt_confirmed"
                            /\ report'[h].state # "RECEIPT_CONFIRMED" => ~ report'[h].attempted
            BY <1>1 DEF ReportIsDurable, RowOf
        <3>1. CASE h = g
            <4>1. s = "RECEIPT_CONFIRMED" /\ report'[h].upload = u /\ report'[h].attempted = attempted
                BY <1>5, <3>1
            <4>2. call[g].result = "receipt_confirmed"
                BY <1>4, <4>1
            <4>3. attempted
                BY <1>3, <4>2
            <4>4. journal'[journalOf[g]][u.id] = row
                BY <1>2, <2>1
            <4>5. report'[h].state = "RECEIPT_CONFIRMED"
                BY <1>5, <3>1, <4>1
            <4> QED
                BY <2>2, <3>1, <4>1, <4>2, <4>3, <4>4, <4>5
        <3>2. CASE h # g
            <4>1. report'[h] = report[h] /\ report[h] \in Reports
                BY <1>5, <3>2 DEF GateType
            <4>2. report[h].upload.id \in Id /\ journalOf[h] \in Journal
                BY <4>1, IdOfUpload DEF Reports, StoreType, IInv
            <4>3. LET held == journal[journalOf[h]][report[h].upload.id] IN
                  /\ held # None
                  /\ report[h].state = "RECEIPT_CONFIRMED" =>
                       /\ report[h].attempted
                       /\ held.upload = report[h].upload /\ held.state = "receipt_confirmed"
                  /\ report[h].state # "RECEIPT_CONFIRMED" => ~ report[h].attempted
                BY <4>1 DEF ReportIsDurable, RowOf, IInv
            <4> QED
                BY <2>1, <2>2, <2>4, <4>1, <4>2, <4>3
        <3> QED
            BY <3>1, <3>2
    <2> QED
        BY <1>5, <2>5, <2>6, <2>7, <2>8, <2>9, <2>10, <2>11 DEF IInv
<1> QED
    BY <1>4, <1>6, <1>7

\* The receiver takes no upload back that it has stored.
LEMMA ReceiveIInv ==
    ASSUME IInv, NEW m \in wire, Receive(m)
    PROVE  IInv'
<1>0. GateType /\ StoreType
    BY DEF IInv
<1>1. /\ UNCHANGED <<now, journalOf, journal, pc, report, sends>> /\ wire' \subseteq wire
      /\ m.from \in Gateway /\ m.upload \in Upload /\ m.upload.id \in Id /\ now \in Time
    BY IdOfUpload DEF Receive, StoreType, IInv
<1>2. /\ uploads' \in [Id -> Receipt \cup {None}] /\ uploads'[m.upload.id] # None
      /\ \A i \in Id : uploads[i] # None => uploads'[i] = uploads[i]
    <2>1. CASE UNCHANGED uploads /\ uploads[m.upload.id] # None
        BY <2>1 DEF StoreType, IInv
    <2>2. CASE /\ uploads[m.upload.id] = None
               /\ uploads' = [uploads EXCEPT ![m.upload.id] = [upload |-> m.upload, at |-> now]]
        <3>1. [upload |-> m.upload, at |-> now] \in Receipt
            BY <1>1 DEF Receipt
        <3>2. [upload |-> m.upload, at |-> now] # None
            BY <3>1 DEF Receipt
        <3> QED
            BY <1>1, <2>2, <3>1, <3>2 DEF StoreType, IInv
    <2> QED
        BY <2>1, <2>2 DEF Receive, Store
<1>3. StoreType' /\ RowsNamed' /\ WireNamed' /\ OneSendPerIntent'
    BY <1>1, <1>2 DEF StoreType, RowsNamed, WireNamed, OneSendPerIntent, IInv
<1>4. ResultsAreTrue'
    BY <1>1, <1>2 DEF ResultsAreTrue, SamePayload, IInv
<1>5. /\ GateType'
      /\ \A h \in Gateway :
            \/ call'[h] = call[h]
            \/ /\ call[h] \in FrameType /\ pc[h] = "sent" /\ Mine(h) = m.upload
               /\ call'[h] = [call[h] EXCEPT !.receipt = uploads'[m.upload.id]]
    <2>1. CASE UNCHANGED call
        BY <1>1, <2>1 DEF GateType, IInv
    <2>2. CASE /\ Waiting(m.from, m)
               /\ call' = [call EXCEPT ![m.from].receipt = uploads'[m.upload.id]]
        <3> DEFINE frame == [call[m.from] EXCEPT !.receipt = uploads'[m.upload.id]]
        <3>1. call[m.from] \in FrameType /\ pc[m.from] = "sent" /\ Mine(m.from) = m.upload
            BY <1>1, <2>2 DEF Waiting, GateType, Mine, IInv
        <3>2. frame \in FrameType
            BY <1>1, <1>2, <3>1 DEF FrameType
        <3>3. call' = [call EXCEPT ![m.from] = frame]
            BY <1>1, <2>2 DEF GateType
        <3> HIDE DEF frame
        <3>4. GateType'
            BY <1>1, <3>2, <3>3 DEF GateType, IInv
        <3>5. \A h \in Gateway : call'[h] = IF h = m.from THEN frame ELSE call[h]
            BY <1>1, <3>3 DEF GateType, IInv
        <3> QED
            BY <1>1, <3>1, <3>4, <3>5 DEF frame
    <2> QED
        BY <2>1, <2>2 DEF Receive, IInv
<1>6. \A h \in Gateway : pc[h] # "idle" =>
          /\ call[h] \in FrameType /\ Mine(h)' = Mine(h) /\ Mine(h).id \in Id
          /\ call'[h].sent = call[h].sent /\ call'[h].result = call[h].result
          /\ call'[h].admitted = call[h].admitted
          /\ call'[h].receipt = call[h].receipt \/ call'[h].receipt = uploads'[Mine(h).id]
    <2> SUFFICES ASSUME NEW h \in Gateway, pc[h] # "idle"
                 PROVE  /\ call[h] \in FrameType /\ Mine(h)' = Mine(h) /\ Mine(h).id \in Id
                        /\ call'[h].sent = call[h].sent /\ call'[h].result = call[h].result
                        /\ call'[h].admitted = call[h].admitted
                        /\ \/ call'[h].receipt = call[h].receipt
                           \/ call'[h].receipt = uploads'[Mine(h).id]
        OBVIOUS
    <2>1. call[h] \in FrameType /\ Mine(h) \in Upload
        BY DEF GateType, FrameType, Mine, IInv
    <2>2. CASE call'[h] = call[h]
        BY <2>1, <2>2, IdOfUpload DEF Mine, IInv
    <2>3. CASE /\ call[h] \in FrameType /\ Mine(h) = m.upload
               /\ call'[h] = [call[h] EXCEPT !.receipt = uploads'[m.upload.id]]
        BY <2>1, <2>3, IdOfUpload DEF Mine, FrameType, IInv
    <2> QED
        BY <1>5, <2>2, <2>3 DEF IInv
<1>7. Owners'
    <2>1. \A h \in Gateway : pc[h] \in Owning => pc[h] # "idle"
        BY DEF Owning, IInv
    <2> QED
        BY <1>1, <1>6, <2>1 DEF Owners, Owns, RowOf, IInv
<1>8. Unsent' /\ Results'
    BY <1>1, <1>2, <1>6 DEF Unsent, Results, Kept, SamePayload, IInv
<1>9. Receipts'
    BY <1>1, <1>2, <1>6 DEF Receipts, IInv
<1>10. ReportIsDurable'
    BY <1>1 DEF ReportIsDurable, RowOf, IInv
<1> QED
    BY <1>3, <1>4, <1>5, <1>7, <1>8, <1>9, <1>10 DEF IInv

\* Every step of the upload gate preserves the invariant.
LEMMA NextIInv == IInv /\ [Next]_vars => IInv'
<1> SUFFICES ASSUME IInv, [Next]_vars PROVE IInv'
    OBVIOUS
<1>1. CASE UNCHANGED vars
    <2>1. UNCHANGED <<now, journalOf, journal, pc, call, report, wire, uploads, sends>>
        BY <1>1 DEF vars
    <2> QED
        BY <2>1, SameIInv
<1>2. CASE \E g \in Gateway, u \in Upload : Execute(g, u)
    BY <1>2, ExecuteIInv
<1>3. ASSUME NEW g \in Gateway,
             Claim(g) \/ Final(g) \/ Send(g) \/ Observe(g) \/ Persist(g) \/ Crash(g)
      PROVE  IInv'
    BY <1>3, ClaimIInv, FinalIInv, SendIInv, ObserveIInv, PersistIInv, CrashIInv
<1>4. CASE \E m \in wire : Receive(m)
    BY <1>4, ReceiveIInv
<1>5. CASE (\E m \in wire : Lose(m)) \/ (\E t \in Time : SetClock(t))
    BY <1>5, OutsideIInv
<1> QED
    BY <1>1, <1>2, <1>3, <1>4, <1>5 DEF Next

\* Whichever gateways share a journal, die or are refused: of the upload gate, an intent
\* is worth one transport call, the journal's results are true of the receiver, and a
\* confirmation is durable before it is reported.
THEOREM UploadGateSafe == Spec => [](OneSendPerIntent /\ ResultsAreTrue /\ ReportIsDurable)
<1>1. Spec => []IInv
    BY InitIInv, NextIInv, PTL DEF Spec
<1>2. IInv => OneSendPerIntent /\ ResultsAreTrue /\ ReportIsDurable
    BY DEF IInv
<1> QED
    BY <1>1, <1>2, PTL

-----------------------------------------------------------------------------
(* The collector pilot is an upload gate: what stands between the claim and  *)
(* the final check only blocks, and what it sends the gate would have sent.  *)

\* A collection that fails is a final check that refuses.
LEMMA BlockedIsFinal ==
    ASSUME NEW g \in Gateway, pc[g] = "final", BlockCollected(g),
           UNCHANGED <<now, journalOf, journal, wire, uploads, sends>>
    PROVE  Next
<1>1. Final(g)
    BY DEF Final, BlockCollected
<1> QED
    BY <1>1 DEF Next

\* Every step of the collector pilot is one of the upload gate, or not seen by it.
LEMMA CollectorStep == [CollectorNext]_allVars => [Next]_vars
<1> SUFFICES ASSUME [CollectorNext]_allVars PROVE [Next]_vars
    OBVIOUS
<1>1. CASE UNCHANGED allVars
    BY <1>1 DEF allVars
<1>2. ASSUME NEW g \in Gateway, NEW u \in Upload, Admit(g, u) PROVE [Next]_vars
    BY <1>2 DEF Admit, Next
<1>3. ASSUME NEW g \in Gateway,
             \/ ClaimIntent(g) \/ CollectedFinal(g) \/ SendPayload(g) \/ Postflight(g)
             \/ PersistReport(g) \/ Die(g)
      PROVE  [Next]_vars
    BY <1>3 DEF ClaimIntent, CollectedFinal, SendPayload, Postflight, PersistReport, Die, Next
<1>4. ASSUME NEW g \in Gateway, Collect(g) \/ Acknowledge(g) \/ ReadBack(g) PROVE [Next]_vars
    <2>1. CASE UNCHANGED gatewayVars
        BY <1>4, <2>1 DEF Collect, Acknowledge, ReadBack, vars
    <2>2. CASE BlockCollected(g)
        BY <1>4, <2>2, BlockedIsFinal DEF Collect, Acknowledge, ReadBack
    <2> QED
        BY <1>4, <2>1, <2>2 DEF Collect, Acknowledge, ReadBack
<1>5. CASE \E m \in wire : (Receive(m) \/ Lose(m)) /\ UNCHANGED collectorVars
    BY <1>5 DEF Next
<1>6. CASE \E t \in Time : SetClock(t) /\ UNCHANGED collectorVars
    BY <1>6 DEF Next
<1>7. CASE \/ \E g \in Gateway, i \in Id : Reconcile(g, i)
           \/ \E m \in collectWire : Accept(m) \/ Drop(m)
           \/ Stop \/ Restart
    BY <1>7 DEF Reconcile, Accept, Drop, Stop, Restart
<1> QED
    BY <1>1, <1>2, <1>3, <1>4, <1>5, <1>6, <1>7 DEF CollectorNext

\* Every behaviour of the collector pilot, hiding what it adds, is one of the upload gate.
THEOREM CollectorImplements == CollectorSpec => Spec
<1>1. CollectorInit => Init
    BY DEF CollectorInit
<1> QED
    BY <1>1, CollectorStep, PTL DEF CollectorSpec, Spec

\* So an upload that waits for the collector is sent at most once for its intent.
THEOREM OneSendCollected == CollectorSpec => []OneSendPerIntent
<1>1. Spec => []OneSendPerIntent
    BY UploadGateSafe, PTL
<1> QED
    BY <1>1, CollectorImplements, PTL

\* And what its journal calls blocked or confirmed is so, whatever became of the collection.
THEOREM ResultsCollected == CollectorSpec => []ResultsAreTrue
<1>1. Spec => []ResultsAreTrue
    BY UploadGateSafe, PTL
<1> QED
    BY <1>1, CollectorImplements, PTL

\* And its reports take nothing back.
THEOREM ReportsCollected == CollectorSpec => []ReportIsDurable
<1>1. Spec => []ReportIsDurable
    BY UploadGateSafe, PTL
<1> QED
    BY <1>1, CollectorImplements, PTL

-----------------------------------------------------------------------------
(* What is sent was collected: the invariant of the collector's part.        *)

Intent == [upload : Upload, created : Time]
Collection == [intent : Intent, at : Time]
CollectorType ==
    /\ collections \in [Id -> Collection \cup {None}]
    /\ collecting \in [Gateway ->
          [step : {"asked", "acknowledged", "found"}, at : Time, receipt : Collection \cup {None}]
          \cup {None}]
    /\ collectWire \subseteq [from : Gateway, intent : Intent]
    /\ reconciled \in [Gateway ->
          [id : Id, state : {"FOUND", "NOT_FOUND", "NOT_ESTABLISHED"}] \cup {None}]

\* A receipt that a call holds is the collector's row; past its check it binds the intent.
Waits(g) ==
    LET c == collecting[g] IN
    c # None =>
        /\ pc[g] = "final"
        /\ c.receipt # None => collections[Mine(g).id] = c.receipt
        /\ c.step # "asked" => c.receipt # None /\ ReceiptBinds(c.receipt, IntentOf(g), c.at)
Permitted(g) == pc[g] \in {"claim", "final", "send"} => Allowed(Mine(g), call[g].admitted)
Ready(g) ==
    pc[g] = "send" =>
        /\ collections[Mine(g).id] # None
        /\ ReceiptBinds(collections[Mine(g).id], IntentOf(g), call[g].final)
        /\ Allowed(Mine(g), call[g].final)
Collecting(g) == Waits(g) /\ Permitted(g) /\ Ready(g)

\* What was found is journalled and collected.
Found(g) ==
    reconciled[g] # None /\ reconciled[g].state = "FOUND" =>
        LET i == reconciled[g].id
            row == journal[journalOf[g]][i] IN
        /\ collections[i] # None /\ row # None
        /\ row.upload = collections[i].intent.upload
        /\ row.prepared = collections[i].intent.created

CInv == IInv /\ CollectorType /\ \A g \in Gateway : Collecting(g) /\ Found(g)

-----------------------------------------------------------------------------
\* A call that has left the steps of the collection, or has not come to them.
LEMMA LeftCollecting ==
    ASSUME NEW g \in Gateway, collecting'[g] = None, pc'[g] \in {"idle", "sent", "persist"}
    PROVE  Collecting(g)'
BY DEF Collecting, Waits, Permitted, Ready

\* A call that another actor's step does not concern.
LEMMA StaysCollecting ==
    ASSUME CInv, NEW g \in Gateway, pc'[g] = pc[g], collecting'[g] = collecting[g],
           call'[g].upload = call[g].upload, call'[g].admitted = call[g].admitted,
           call'[g].final = call[g].final,
           \A i \in Id : collections[i] # None => collections'[i] = collections[i]
    PROVE  Collecting(g)'
<1>1. Collecting(g)
    BY DEF CInv
<1>2. Mine(g)' = Mine(g) /\ IntentOf(g)' = IntentOf(g)
    BY DEF Mine, IntentOf
<1>3. pc[g] \in {"final", "send"} => Mine(g).id \in Id
    BY Owned DEF CInv, Owning
<1>4. Permitted(g)'
    BY <1>1, <1>2 DEF Collecting, Permitted, Allowed
<1>5. Ready(g)'
    BY <1>1, <1>2, <1>3 DEF Collecting, Ready, ReceiptBinds, Allowed
<1>6. Waits(g)'
    BY <1>1, <1>2, <1>3 DEF Collecting, Waits, ReceiptBinds
<1> QED
    BY <1>4, <1>5, <1>6 DEF Collecting

\* A journal's row keeps what was committed to.
LEMMA RowsKept ==
    ASSUME IInv, [Next]_vars
    PROVE  /\ journalOf' = journalOf
           /\ \A j \in Journal, i \in Id : journal[j][i] # None =>
                 /\ journal'[j][i] # None
                 /\ journal'[j][i].upload = journal[j][i].upload
                 /\ journal'[j][i].prepared = journal[j][i].prepared
<1> DEFINE Same == \A j \in Journal, i \in Id : journal[j][i] # None =>
                     /\ journal'[j][i] # None
                     /\ journal'[j][i].upload = journal[j][i].upload
                     /\ journal'[j][i].prepared = journal[j][i].prepared
<1>1. journalOf' = journalOf
    BY DEF Next, vars, Execute, Claim, Final, Send, Observe, Persist, Crash, Receive, Lose, SetClock
<1>2. CASE journal' = journal
    BY <1>1, <1>2
<1>3. ASSUME NEW g \in Gateway, pc[g] # "idle", NEW s \in Terminal \cup {"dispatch_intent"},
             SetRow(g, Mine(g), s),
             \/ RowOf(g, Mine(g)) = None
             \/ /\ RowOf(g, Mine(g)).upload = Mine(g)
                /\ RowOf(g, Mine(g)).prepared = call[g].admitted
      PROVE  Same
    <2>1. call[g] \in FrameType /\ Mine(g) \in Upload /\ GateType /\ StoreType
        BY <1>3 DEF IInv, GateType, FrameType, Mine
    <2> DEFINE row == [upload |-> Mine(g), prepared |-> call[g].admitted, state |-> s]
    <2>2. /\ row \in Row
          /\ \A j \in Journal, i \in Id :
                journal'[j][i] = IF j = journalOf[g] /\ i = Mine(g).id THEN row ELSE journal[j][i]
        BY <1>3, <2>1, RowWritten
    <2>3. row # None /\ row.upload = Mine(g) /\ row.prepared = call[g].admitted
        BY <2>2
    <2> HIDE DEF row
    <2> QED
        BY <1>3, <2>2, <2>3 DEF RowOf
<1>4. ASSUME NEW g \in Gateway, Claim(g) PROVE Same
    <2>1. CASE journal' = journal
        BY <2>1
    <2>2. CASE RowOf(g, Mine(g)) = None /\ SetRow(g, Mine(g), "dispatch_intent")
        BY <1>3, <1>4, <2>2 DEF Claim
    <2> QED
        BY <1>4, <2>1, <2>2 DEF Claim
<1>5. ASSUME NEW g \in Gateway, Persist(g) PROVE Same
    <2>1. CASE journal' = journal
        BY <2>1
    <2>2. CASE SetRow(g, Mine(g), call[g].result)
        <3>1. pc[g] = "persist" /\ call[g].result \in Terminal
            BY <1>5 DEF Persist, IInv, Results
        <3>2. RowOf(g, Mine(g)).upload = Mine(g) /\ RowOf(g, Mine(g)).prepared = call[g].admitted
            BY <3>1, Owned DEF Owning, Owns
        <3> QED
            BY <1>3, <2>2, <3>1, <3>2
    <2> QED
        BY <1>5, <2>1, <2>2 DEF Persist
<1> HIDE DEF Same
<1>6. Same
    <2>1. CASE journal' = journal
        BY <2>1 DEF Same
    <2>2. CASE Next
        BY <1>4, <1>5, <2>1, <2>2 DEF Next, Execute, Final, Send, Observe, Crash, Receive, Lose, SetClock
    <2> QED
        BY <2>1, <2>2 DEF vars
<1> QED
    BY <1>1, <1>6 DEF Same

\* A report of a reconciliation stays true, as rows of journals and collector stay.
LEMMA StaysFound ==
    ASSUME CInv, [Next]_vars, NEW g \in Gateway, reconciled'[g] \in {reconciled[g], None},
           \A i \in Id : collections[i] # None => collections'[i] = collections[i]
    PROVE  Found(g)'
<1>1. CASE reconciled'[g] = None
    BY <1>1 DEF Found
<1>2. CASE reconciled'[g] = reconciled[g] /\ reconciled[g] # None /\ reconciled[g].state = "FOUND"
    <2>1. reconciled[g].id \in Id /\ journalOf[g] \in Journal /\ Found(g)
        BY <1>2 DEF CInv, CollectorType, IInv, StoreType
    <2>2. /\ journalOf' = journalOf
          /\ LET row == journal[journalOf[g]][reconciled[g].id]
                 new == journal'[journalOf[g]][reconciled[g].id] IN
             row # None => new # None /\ new.upload = row.upload /\ new.prepared = row.prepared
        BY <2>1, RowsKept DEF CInv
    <2> QED
        BY <1>2, <2>1, <2>2 DEF Found
<1> QED
    BY <1>1, <1>2 DEF Found

\* The invariant holds at the start, when nothing is collected.
LEMMA InitCInv == CollectorInit => CInv
<1> SUFFICES ASSUME CollectorInit PROVE CInv
    OBVIOUS
<1>1. IInv
    BY InitIInv DEF CollectorInit
<1>2. CollectorType
    BY DEF CollectorInit, CollectorType
<1>3. \A g \in Gateway : Collecting(g) /\ Found(g)
    BY DEF CollectorInit, Init, Collecting, Waits, Permitted, Ready, Found
<1> QED
    BY <1>1, <1>2, <1>3 DEF CInv

\* The steps that are the upload gate's own.
LEMMA GateCInv ==
    ASSUME CInv, NEW g \in Gateway,
           \/ ClaimIntent(g) \/ SendPayload(g) \/ Postflight(g) \/ PersistReport(g) \/ Die(g)
    PROVE  CInv'
<1> USE DEF CInv
<1>1. [CollectorNext]_allVars
    BY DEF CollectorNext
<1>2. IInv' /\ [Next]_vars
    BY <1>1, CollectorStep, NextIInv
<1>3. /\ UNCHANGED <<collections, collectWire, reconciled>>
      /\ collecting' \in {collecting, [collecting EXCEPT ![g] = None]}
      /\ \A h \in Gateway \ {g} : pc'[h] = pc[h] /\ call'[h] = call[h] /\ collecting'[h] = collecting[h]
    BY DEF ClaimIntent, SendPayload, Postflight, PersistReport, Die, Claim, Send, Observe, Persist,
           Crash, Replay, Block, Return, Goto, collectorVars, CollectorType, IInv, GateType
<1>4. CollectorType'
    BY <1>3 DEF CollectorType
<1>5. ASSUME NEW h \in Gateway PROVE Found(h)'
    BY <1>2, <1>3, StaysFound
<1>6. ASSUME NEW h \in Gateway \ {g} PROVE Collecting(h)'
    BY <1>3, StaysCollecting
<1>7. Collecting(g)'
    <2>1. CASE ClaimIntent(g)
        <3>1. /\ pc[g] = "claim" /\ collecting[g] = None /\ collecting' = collecting
              /\ Allowed(Mine(g), call[g].admitted)
            BY <2>1 DEF ClaimIntent, Claim, collectorVars, Collecting, Waits, Permitted
        <3>2. CASE pc'[g] = "idle"
            BY <3>1, <3>2, LeftCollecting
        <3>3. CASE pc'[g] = "final" /\ call'[g] = call[g]
            BY <3>1, <3>3 DEF Collecting, Waits, Permitted, Ready, Mine, Allowed
        <3> QED
            BY <2>1, <3>2, <3>3 DEF ClaimIntent, Claim, Replay, Block, Return, Goto, IInv, GateType
    <2>2. CASE SendPayload(g) \/ Postflight(g) \/ PersistReport(g)
        <3>1. /\ collecting[g] = None /\ collecting' = collecting
              /\ pc'[g] \in {"idle", "sent", "persist"}
            BY <2>2 DEF SendPayload, Postflight, PersistReport, Send, Observe, Persist, Return, Goto,
                   collectorVars, Collecting, Waits, IInv, GateType
        <3> QED
            BY <3>1, LeftCollecting
    <2>3. CASE Die(g)
        <3>1. collecting'[g] = None /\ pc'[g] = "idle"
            BY <2>3 DEF Die, Crash, IInv, GateType, CollectorType
        <3> QED
            BY <3>1, LeftCollecting
    <2> QED
        BY <2>1, <2>2, <2>3
<1> QED
    BY <1>2, <1>4, <1>5, <1>6, <1>7

\* An admission starts no collection, and forgets the last reconciliation.
LEMMA AdmitCInv ==
    ASSUME CInv, NEW g \in Gateway, NEW u \in Upload, Admit(g, u)
    PROVE  CInv'
<1> USE DEF CInv
<1>1. [CollectorNext]_allVars
    BY DEF CollectorNext
<1>2. IInv' /\ [Next]_vars
    BY <1>1, CollectorStep, NextIInv
<1>3. /\ UNCHANGED <<collections, collecting, collectWire>>
      /\ reconciled' = [reconciled EXCEPT ![g] = None] /\ now \in Time
      /\ \A h \in Gateway \ {g} : pc'[h] = pc[h] /\ call'[h] = call[h]
    BY DEF Admit, Execute, Replay, Block, Return, Goto, IInv, GateType, StoreType
<1>4. CollectorType'
    BY <1>3 DEF CollectorType
<1>5. ASSUME NEW h \in Gateway PROVE Found(h)'
    <2>1. reconciled'[h] \in {reconciled[h], None}
        BY <1>3 DEF CollectorType
    <2> QED
        BY <1>2, <1>3, <2>1, StaysFound
<1>6. ASSUME NEW h \in Gateway \ {g} PROVE Collecting(h)'
    BY <1>3, StaysCollecting
<1>7. Collecting(g)'
    <2>1. collecting'[g] = None
        BY <1>3 DEF Admit, Execute, Collecting, Waits
    <2>2. CASE pc'[g] = "idle"
        BY <2>1, <2>2, LeftCollecting
    <2>3. CASE pc'[g] = "claim" /\ call'[g] = Frame(u) /\ Allowed(u, now)
        BY <2>1, <2>3 DEF Collecting, Waits, Permitted, Ready, Mine, Allowed, Frame
    <2> QED
        BY <2>2, <2>3 DEF Admit, Execute, Replay, Block, Return, Goto, IInv, GateType
<1> QED
    BY <1>2, <1>4, <1>5, <1>6, <1>7

\* The steps between the claim and the final check.
LEMMA CollectCInv ==
    ASSUME CInv, NEW g \in Gateway,
           Collect(g) \/ Acknowledge(g) \/ ReadBack(g)
    PROVE  CInv'
<1> USE DEF CInv
<1>1. [CollectorNext]_allVars
    BY DEF CollectorNext
<1>2. IInv' /\ [Next]_vars
    BY <1>1, CollectorStep, NextIInv
<1>3. /\ UNCHANGED <<now, collections, reconciled>> /\ pc[g] = "final" /\ now \in Time
      /\ call[g] \in FrameType /\ Mine(g) \in Upload
    BY Owned DEF Collect, Acknowledge, ReadBack, IInv, StoreType, Owning
<1>4. ASSUME NEW h \in Gateway PROVE Found(h)'
    BY <1>2, <1>3, StaysFound
<1>5. CASE BlockCollected(g) /\ collectWire' = collectWire
    <2>1. /\ pc'[g] = "persist" /\ collecting'[g] = None /\ CollectorType'
          /\ \A h \in Gateway \ {g} :
                pc'[h] = pc[h] /\ call'[h] = call[h] /\ collecting'[h] = collecting[h]
        BY <1>3, <1>5 DEF BlockCollected, Goto, IInv, GateType, CollectorType
    <2>2. ASSUME NEW h \in Gateway PROVE Collecting(h)'
        BY <1>3, <2>1, StaysCollecting, LeftCollecting
    <2> QED
        BY <1>2, <1>4, <2>1, <2>2
<1>6. ASSUME UNCHANGED gatewayVars,
             NEW step \in {"asked", "acknowledged", "found"}, NEW receipt \in Collection \cup {None},
             Progress(g, step, now, receipt), CollectorType',
             receipt # None => collections[Mine(g).id] = receipt,
             step # "asked" => receipt # None /\ ReceiptBinds(receipt, IntentOf(g), now)
      PROVE  CInv'
    <2>1. /\ collecting'[g] = [step |-> step, at |-> now, receipt |-> receipt]
          /\ \A h \in Gateway \ {g} : collecting'[h] = collecting[h]
        BY <1>6 DEF Progress, CollectorType
    <2>2. ASSUME NEW h \in Gateway \ {g} PROVE Collecting(h)'
        BY <1>3, <1>6, <2>1, StaysCollecting
    <2>3. Mine(g)' = Mine(g) /\ IntentOf(g)' = IntentOf(g) /\ pc' = pc /\ call' = call
        BY <1>6 DEF Mine, IntentOf
    <2>4. Waits(g)'
        BY <1>3, <1>6, <2>1, <2>3 DEF Waits, ReceiptBinds
    <2>5. Permitted(g)' /\ Ready(g)'
        BY <1>3, <2>3 DEF Collecting, Permitted, Ready, Allowed
    <2> QED
        BY <1>2, <1>4, <1>6, <2>2, <2>4, <2>5 DEF Collecting
<1>7. CASE Collect(g) /\ ~ BlockCollected(g)
    <2>1. UNCHANGED gatewayVars /\ Progress(g, "asked", now, None)
        BY <1>7 DEF Collect
    <2>2. IntentOf(g) \in Intent
        BY <1>3 DEF IntentOf, Intent, FrameType
    <2>3. [step |-> "asked", at |-> now, receipt |-> None] \in
            [step : {"asked", "acknowledged", "found"}, at : Time, receipt : Collection \cup {None}]
        BY <1>3
    <2>4. CollectorType'
        BY <1>3, <1>7, <2>1, <2>2, <2>3 DEF Collect, Progress, CollectorType
    <2> QED
        BY <1>6, <2>1, <2>4
<1>8. ASSUME Acknowledge(g) \/ ReadBack(g), ~ BlockCollected(g) PROVE CInv'
    <2> DEFINE c == collecting[g]
    <2>1. PICK step \in {"acknowledged", "found"} :
              /\ UNCHANGED gatewayVars /\ collectWire' = collectWire
              /\ Progress(g, step, now, c.receipt) /\ c # None
              /\ c.receipt # None /\ ReceiptBinds(c.receipt, IntentOf(g), now)
        <3>1. CASE Acknowledge(g)
            BY <1>8, <3>1 DEF Acknowledge, Usable
        <3>2. CASE ReadBack(g)
            <4>1. c # None /\ c.step = "acknowledged" /\ c.at <= now /\ c.at \in Time
                BY <1>8, <3>2 DEF ReadBack, CollectorType
            <4>2. c.receipt # None /\ ReceiptBinds(c.receipt, IntentOf(g), c.at)
                BY <4>1 DEF Collecting, Waits
            <4>3. c.receipt.at \in Time
                BY <4>1, <4>2 DEF CollectorType, Collection
            <4>4. ReceiptBinds(c.receipt, IntentOf(g), now)
                BY <1>3, <4>1, <4>2, <4>3 DEF ReceiptBinds
            <4> QED
                BY <1>8, <3>2, <4>1, <4>2, <4>4 DEF ReadBack
        <3> QED
            BY <1>8, <3>1, <3>2
    <2>2. c.receipt \in Collection \cup {None} /\ collections[Mine(g).id] = c.receipt
        BY <2>1 DEF CollectorType, Collecting, Waits
    <2>3. [step |-> step, at |-> now, receipt |-> c.receipt] \in
            [step : {"asked", "acknowledged", "found"}, at : Time, receipt : Collection \cup {None}]
        BY <1>3, <2>2
    <2>4. CollectorType'
        BY <1>3, <2>1, <2>3 DEF Progress, CollectorType
    <2> HIDE DEF c
    <2> QED
        BY <1>6, <2>1, <2>2, <2>4
<1>9. CASE BlockCollected(g)
    <2>1. pc'[g] = "persist"
        BY <1>9 DEF BlockCollected, Goto, IInv, GateType
    <2>2. ~ UNCHANGED gatewayVars
        BY <1>3, <2>1
    <2> QED
        BY <1>5, <1>9, <2>2 DEF Collect, Acknowledge, ReadBack
<1> QED
    BY <1>7, <1>8, <1>9

\* The final check sends only what was found again, at a later reading of the clock.
LEMMA FinalCInv ==
    ASSUME CInv, NEW g \in Gateway, CollectedFinal(g)
    PROVE  CInv'
<1> USE DEF CInv
<1> DEFINE c == collecting[g]
<1>1. IInv' /\ [Next]_vars
    <2>1. [CollectorNext]_allVars
        BY DEF CollectorNext
    <2> QED
        BY <2>1, CollectorStep, NextIInv
<1>2. /\ UNCHANGED <<now, collections, collectWire, reconciled>> /\ pc[g] = "final" /\ now \in Time
      /\ call[g] \in FrameType /\ Mine(g) \in Upload /\ c # None /\ c.step = "found"
      /\ collecting' = [collecting EXCEPT ![g] = None]
    BY Owned DEF CollectedFinal, Final, IInv, StoreType, Owning
<1>3. /\ CollectorType' /\ collecting'[g] = None
      /\ \A h \in Gateway \ {g} : collecting'[h] = collecting[h]
    BY <1>2 DEF CollectorType
<1>4. \A h \in Gateway \ {g} : pc'[h] = pc[h] /\ call'[h] = call[h]
    BY DEF CollectedFinal, Final, Goto, IInv, GateType
<1>5. ASSUME NEW h \in Gateway PROVE Found(h)'
    BY <1>1, <1>2, StaysFound
<1>6. ASSUME NEW h \in Gateway \ {g} PROVE Collecting(h)'
    BY <1>2, <1>3, <1>4, StaysCollecting
<1>7. CASE pc'[g] = "persist"
    BY <1>1, <1>3, <1>5, <1>6, <1>7, LeftCollecting
<1>8. CASE /\ pc'[g] = "send" /\ call'[g] = [call[g] EXCEPT !.final = now]
           /\ Allowed(Mine(g), now)
    <2>1. /\ collections[Mine(g).id] = c.receipt /\ c.receipt # None
          /\ ReceiptBinds(c.receipt, IntentOf(g), c.at)
          /\ Allowed(Mine(g), call[g].admitted)
        BY <1>2 DEF Collecting, Waits, Permitted
    <2>2. c.at \in Time /\ c.receipt.at \in Time /\ c.at <= now
        BY <1>2, <1>8, <2>1 DEF CollectorType, Collection, CollectedFinal
    <2>3. ReceiptBinds(c.receipt, IntentOf(g), now)
        BY <1>2, <2>1, <2>2 DEF ReceiptBinds
    <2>4. Mine(g)' = Mine(g) /\ IntentOf(g)' = IntentOf(g) /\ call'[g].final = now
          /\ call'[g].admitted = call[g].admitted
        BY <1>2, <1>8 DEF Mine, IntentOf, FrameType
    <2>5. Waits(g)'
        BY <1>3 DEF Waits
    <2>6. Permitted(g)'
        BY <2>1, <2>4 DEF Permitted, Allowed
    <2>7. Ready(g)'
        BY <1>2, <1>8, <2>1, <2>3, <2>4 DEF Ready, ReceiptBinds, Allowed
    <2> QED
        BY <1>1, <1>3, <1>5, <1>6, <2>5, <2>6, <2>7 DEF Collecting
<1> QED
    BY <1>7, <1>8 DEF CollectedFinal, Final, Goto, IInv, GateType

\* The clock, the receiver and the transport.
LEMMA WorldCInv ==
    ASSUME CInv,
           \/ \E m \in wire : (Receive(m) \/ Lose(m)) /\ UNCHANGED collectorVars
           \/ \E t \in Time : SetClock(t) /\ UNCHANGED collectorVars
           \/ UNCHANGED allVars
    PROVE  CInv'
<1> USE DEF CInv
<1>1. IInv' /\ [Next]_vars
    <2>1. [CollectorNext]_allVars
        BY DEF CollectorNext
    <2> QED
        BY <2>1, CollectorStep, NextIInv
<1>2. /\ UNCHANGED <<pc, collections, collecting, collectWire, reconciled>>
      /\ \A h \in Gateway :
            /\ call'[h].upload = call[h].upload /\ call'[h].admitted = call[h].admitted
            /\ call'[h].final = call[h].final
    <2>1. CASE UNCHANGED call
        BY <2>1 DEF collectorVars, allVars, vars, Receive, Lose, SetClock
    <2>2. ASSUME NEW m \in wire, Receive(m), UNCHANGED collectorVars, Waiting(m.from, m),
                 call' = [call EXCEPT ![m.from].receipt = uploads'[m.upload.id]]
          PROVE  \A h \in Gateway :
                    /\ call'[h].upload = call[h].upload /\ call'[h].admitted = call[h].admitted
                    /\ call'[h].final = call[h].final
        <3>1. m.from \in Gateway /\ call[m.from] \in FrameType
            BY <2>2 DEF Waiting, IInv, GateType, StoreType
        <3>2. \A h \in Gateway :
                  call'[h] = IF h = m.from THEN [call[h] EXCEPT !.receipt = uploads'[m.upload.id]]
                             ELSE call[h]
            BY <2>2, <3>1 DEF IInv, GateType
        <3>3. LET f == [call[m.from] EXCEPT !.receipt = uploads'[m.upload.id]] IN
              /\ f.upload = call[m.from].upload /\ f.admitted = call[m.from].admitted
              /\ f.final = call[m.from].final
            BY <3>1 DEF FrameType
        <3> QED
            BY <3>2, <3>3
    <2> QED
        BY <2>1, <2>2 DEF collectorVars, allVars, vars, Receive, Lose, SetClock
<1>3. CollectorType'
    BY <1>2 DEF CollectorType
<1>4. ASSUME NEW h \in Gateway PROVE Collecting(h)' /\ Found(h)'
    BY <1>1, <1>2, StaysCollecting, StaysFound
<1> QED
    BY <1>1, <1>3, <1>4

\* The collector, its requests and its queries.
LEMMA CollectorCInv ==
    ASSUME CInv,
           \/ \E g \in Gateway, i \in Id : Reconcile(g, i)
           \/ \E m \in collectWire : Accept(m) \/ Drop(m)
           \/ Stop \/ Restart
    PROVE  CInv'
<1> USE DEF CInv
<1>1. IInv' /\ [Next]_vars
    <2>1. [CollectorNext]_allVars
        BY DEF CollectorNext
    <2> QED
        BY <2>1, CollectorStep, NextIInv
<1>2. UNCHANGED <<now, pc, call, journalOf, journal>>
    BY DEF Reconcile, Accept, Drop, Stop, Restart, vars
<1>3. CASE (\E m \in collectWire : Drop(m)) \/ Stop \/ Restart
    <2>1. UNCHANGED <<collections, collecting, reconciled>> /\ collectWire' \subseteq collectWire
        BY <1>3 DEF Drop, Stop, Restart
    <2>2. CollectorType'
        BY <2>1 DEF CollectorType
    <2>3. ASSUME NEW h \in Gateway PROVE Collecting(h)' /\ Found(h)'
        BY <1>1, <1>2, <2>1, StaysCollecting, StaysFound
    <2> QED
        BY <1>1, <2>2, <2>3
<1>4. ASSUME NEW g \in Gateway, NEW i \in Id, Reconcile(g, i) PROVE CInv'
    <2> DEFINE row == journal[journalOf[g]][i]
               intent == [upload |-> row.upload, created |-> row.prepared]
    <2>1. UNCHANGED <<collections, collecting, collectWire>>
        BY <1>4 DEF Reconcile
    <2>2. PICK s \in {"FOUND", "NOT_FOUND", "NOT_ESTABLISHED"} :
              /\ reconciled' = [reconciled EXCEPT ![g] = [id |-> i, state |-> s]]
              /\ s = "FOUND" => row # None /\ \E a \in Answers(intent) : a.status = "FOUND"
        <3>1. PICK s \in (IF row # None /\ KeyFrom <= now /\ now < KeyUntil
                            THEN {a.status : a \in Answers(intent)} ELSE {}) \cup {"NOT_ESTABLISHED"} :
                  reconciled' = [reconciled EXCEPT ![g] = [id |-> i, state |-> s]]
            BY <1>4 DEF Reconcile
        <3>2. \A a \in Answers(intent) : a.status \in {"FOUND", "NOT_FOUND"}
            BY DEF Answers, Lookup
        <3>3. CASE s = "NOT_ESTABLISHED"
            BY <3>1, <3>3
        <3>4. CASE row # None /\ s \in {a.status : a \in Answers(intent)}
            BY <3>1, <3>2, <3>4
        <3> QED
            BY <3>1, <3>3, <3>4
    <2>3. CollectorType'
        BY <2>1, <2>2 DEF CollectorType
    <2>4. ASSUME NEW h \in Gateway PROVE Collecting(h)'
        BY <1>2, <2>1, StaysCollecting
    <2>5. ASSUME NEW h \in Gateway \ {g} PROVE Found(h)'
        <3>1. reconciled'[h] = reconciled[h]
            BY <2>2 DEF CollectorType
        <3> QED
            BY <1>1, <2>1, <3>1, StaysFound
    <2>6. Found(g)'
        <3>1. reconciled'[g] = [id |-> i, state |-> s]
            BY <2>2 DEF CollectorType
        <3>2. CASE s = "FOUND"
            <4>1. row # None /\ row.upload.id = i
                BY <2>2, <3>2 DEF IInv, RowsNamed, StoreType
            <4>2. intent.upload.id = i /\ intent.upload = row.upload /\ intent.created = row.prepared
                BY <4>1
            <4>3. collections[i] # None /\ collections[i].intent = intent
                BY <2>2, <3>2, <4>2 DEF Answers, Lookup
            <4> QED
                BY <1>2, <2>1, <3>1, <4>1, <4>2, <4>3 DEF Found
        <3>3. CASE s # "FOUND"
            BY <3>1, <3>3 DEF Found
        <3> QED
            BY <3>2, <3>3
    <2> QED
        BY <1>1, <2>3, <2>4, <2>5, <2>6
<1>5. ASSUME NEW m \in collectWire, Accept(m) PROVE CInv'
    <2> DEFINE i == m.intent.upload.id
    <2>1. /\ m.from \in Gateway /\ m.intent \in Intent /\ i \in Id /\ now \in Time
          /\ collectWire' \subseteq collectWire /\ reconciled' = reconciled
        BY <1>5, IdOfUpload DEF Accept, CollectorType, Intent, IInv, StoreType
    <2>2. /\ collections' \in [Id -> Collection \cup {None}]
          /\ \A k \in Id : collections[k] # None => collections'[k] = collections[k]
        <3>1. [intent |-> m.intent, at |-> now] \in Collection
            BY <2>1 DEF Collection
        <3>2. collections \in [Id -> Collection \cup {None}]
            BY DEF CollectorType
        <3>3. \/ collections[i] = None
                 /\ collections' = [collections EXCEPT ![i] = [intent |-> m.intent, at |-> now]]
              \/ collections' = collections
            BY <1>5 DEF Accept, Record
        <3> QED
            BY <2>1, <3>1, <3>2, <3>3
    <2>3. CASE UNCHANGED collecting
        <3>1. CollectorType'
            BY <2>1, <2>2, <2>3 DEF CollectorType
        <3>2. ASSUME NEW h \in Gateway PROVE Collecting(h)' /\ Found(h)'
            BY <1>1, <1>2, <2>1, <2>2, <2>3, StaysCollecting, StaysFound
        <3> QED
            BY <1>1, <3>1, <3>2
    <2>4. CASE /\ collecting[m.from] # None /\ collecting[m.from].step = "asked"
               /\ IntentOf(m.from) = m.intent
               /\ collecting' = [collecting EXCEPT ![m.from].receipt = collections'[i]]
        <3> DEFINE c == [collecting[m.from] EXCEPT !.receipt = collections'[i]]
        <3>1. /\ c \in [step : {"asked", "acknowledged", "found"}, at : Time,
                        receipt : Collection \cup {None}]
              /\ c.step = "asked" /\ c.receipt = collections'[i]
            BY <2>1, <2>2, <2>4 DEF CollectorType
        <3>2. collecting' = [collecting EXCEPT ![m.from] = c]
            BY <2>1, <2>4 DEF CollectorType
        <3> HIDE DEF c
        <3>3. CollectorType' /\ collecting'[m.from] = c
              /\ \A h \in Gateway \ {m.from} : collecting'[h] = collecting[h]
            BY <2>1, <2>2, <3>1, <3>2 DEF CollectorType
        <3>4. ASSUME NEW h \in Gateway PROVE Found(h)'
            BY <1>1, <2>1, <2>2, StaysFound
        <3>5. ASSUME NEW h \in Gateway \ {m.from} PROVE Collecting(h)'
            BY <1>2, <2>2, <3>3, StaysCollecting
        <3>6. pc[m.from] = "final" /\ Mine(m.from)' = Mine(m.from) /\ Mine(m.from).id = i
            BY <1>2, <2>1, <2>4 DEF Collecting, Waits, IntentOf, Mine
        <3>7. Collecting(m.from)'
            <4>1. Waits(m.from)'
                BY <1>2, <3>1, <3>3, <3>6 DEF Waits
            <4>2. Permitted(m.from)' /\ Ready(m.from)'
                BY <1>2, <2>1, <3>6 DEF Collecting, Permitted, Ready, Allowed, Mine
            <4> QED
                BY <4>1, <4>2 DEF Collecting
        <3> QED
            BY <1>1, <3>3, <3>4, <3>5, <3>7
    <2> QED
        BY <1>5, <2>3, <2>4 DEF Accept, Respond
<1> QED
    BY <1>3, <1>4, <1>5

\* Every step of the collector pilot preserves the invariant.
LEMMA NextCInv == CInv /\ [CollectorNext]_allVars => CInv'
<1> SUFFICES ASSUME CInv, [CollectorNext]_allVars PROVE CInv'
    OBVIOUS
<1>1. CASE \E g \in Gateway, u \in Upload : Admit(g, u)
    BY <1>1, AdmitCInv
<1>2. ASSUME NEW g \in Gateway,
             \/ ClaimIntent(g) \/ Collect(g) \/ Acknowledge(g) \/ ReadBack(g) \/ CollectedFinal(g)
             \/ SendPayload(g) \/ Postflight(g) \/ PersistReport(g) \/ Die(g)
      PROVE  CInv'
    BY <1>2, GateCInv, CollectCInv, FinalCInv
<1>3. CASE \/ \E g \in Gateway, i \in Id : Reconcile(g, i)
           \/ \E m \in collectWire : Accept(m) \/ Drop(m)
           \/ Stop \/ Restart
    BY <1>3, CollectorCInv
<1>4. CASE \/ \E m \in wire : (Receive(m) \/ Lose(m)) /\ UNCHANGED collectorVars
           \/ \E t \in Time : SetClock(t) /\ UNCHANGED collectorVars
           \/ UNCHANGED allVars
    BY <1>4, WorldCInv
<1> QED
    BY <1>1, <1>2, <1>3, <1>4 DEF CollectorNext

\* The collector's invariant holds throughout.
LEMMA CollectorInvariant == CollectorSpec => []CInv
BY InitCInv, NextCInv, PTL DEF CollectorSpec

\* A reconciliation that found the intent tells the truth of the collector, for good.
THEOREM ReconciliationTrue == CollectorSpec => []ReconciledIsTrue
<1>1. CInv => ReconciledIsTrue
    BY DEF CInv, Found, ReconciledIsTrue
<1> QED
    BY <1>1, CollectorInvariant, PTL

\* Whatever is lost, delayed or restarted, no upload is sent before the collector holds its
\* intent, and what the collector holds it keeps.
THEOREM SentOnceCollected == CollectorSpec => SentAsCollected
<1> DEFINE Sent ==
        /\ \A i \in Id : collections[i] # None => collections'[i] = collections[i]
        /\ \A g \in Gateway :
             pc[g] = "send" /\ pc'[g] = "sent" =>
                /\ collections[Mine(g).id] # None
                /\ collections[Mine(g).id].intent = IntentOf(g)
                /\ call[g].admitted <= collections[Mine(g).id].at
                /\ collections[Mine(g).id].at <= call[g].final
                /\ Allowed(Mine(g), call[g].admitted) /\ Allowed(Mine(g), call[g].final)
<1>1. ASSUME CInv, [CollectorNext]_allVars PROVE Sent
    <2>1. ASSUME NEW g \in Gateway, pc[g] = "send"
          PROVE  /\ collections[Mine(g).id] # None
                 /\ collections[Mine(g).id].intent = IntentOf(g)
                 /\ call[g].admitted <= collections[Mine(g).id].at
                 /\ collections[Mine(g).id].at <= call[g].final
                 /\ Allowed(Mine(g), call[g].admitted) /\ Allowed(Mine(g), call[g].final)
        BY <1>1, <2>1 DEF CInv, Collecting, Permitted, Ready, ReceiptBinds, IntentOf
    <2>2. \A i \in Id : collections[i] # None => collections'[i] = collections[i]
        <3>1. CASE UNCHANGED collections
            BY <3>1
        <3>2. ASSUME NEW m \in collectWire, Accept(m)
              PROVE  \A i \in Id : collections[i] # None => collections'[i] = collections[i]
            BY <1>1, <3>2 DEF Accept, Record, CInv, CollectorType
        <3> QED
            BY <1>1, <3>1, <3>2 DEF CollectorNext, allVars, collectorVars, Admit, ClaimIntent, Collect,
                   Acknowledge, ReadBack, CollectedFinal, SendPayload, Postflight, PersistReport, Die,
                   Reconcile, Drop, Stop, Restart
    <2> QED
        BY <2>1, <2>2
<1> QED
    BY <1>1, CollectorInvariant, PTL DEF CollectorSpec, SentAsCollected

=============================================================================
