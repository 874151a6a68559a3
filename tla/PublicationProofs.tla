--------------------------- MODULE PublicationProofs ---------------------------
(* Invariance of the publication pilot's safety properties, and its           *)
(* refinement of OneEffect, for any number of callers, candidates and         *)
(* approvals, whatever the candidates contain.                                *)
EXTENDS Publication, TLAPS

USE NoneAssumption, ClockAssumption
USE DEF callerVars

-----------------------------------------------------------------------------
(* The inductive invariant.                                                *)

Step == {"idle", "claim", "final", "link", "readback", "persist"}
Owning == {"final", "link", "readback", "persist"}
MaybeTime == Time \cup {None}
State == Terminal \cup {"publication_intent"}
FrameType ==
    [candidate : Candidate, approval : Approval, at : Time, final : MaybeTime,
     permitted : BOOLEAN, attempted : BOOLEAN, result : Terminal \cup {None},
     receipt : MaybeTime]
Reports ==
    [candidate : Candidate, approval : Approval, preflight : BOOLEAN, at : Time,
     final : MaybeTime, permitted : BOOLEAN, attempted : BOOLEAN,
     published : Answer \cup {None}, journal : State \cup {None}, state : Answer,
     receipt : MaybeTime, post : Time]

CallType ==
    /\ pc \in [Caller -> Step]
    /\ call \in [Caller -> FrameType \cup {None}]
    /\ report \in [Caller -> Reports \cup {None}]
    /\ \A w \in Caller : pc[w] # "idle" => call[w] \in FrameType
StoreType ==
    /\ now \in Time
    /\ journal \in [Id -> Row \cup {None}]
    /\ DOMAIN visible = Id /\ visible = [i \in Id |-> visible[i]]
    /\ DOMAIN links = Id /\ links = [i \in Id |-> links[i]]

\* A frame holds the check of the preflight, and what the final check found.
FrameTrue(f) ==
    /\ Check(f.candidate, f.approval, f.at)
    /\ f.final # None => f.permitted = (Check(f.candidate, f.approval, f.final) /\ f.at <= f.final)
    /\ f.attempted => f.final # None /\ f.permitted
Frames ==
    \A w \in Caller : pc[w] # "idle" =>
        FrameTrue(call[w]) /\ (pc[w] = "claim" => ~ call[w].attempted)

\* What a caller past its claim has done so far.
Stage(w) ==
    LET s == links[IdOf(Mine(w))]
        r == call[w].result IN
    /\ pc[w] \in {"final", "link"} => s = <<>>
    /\ pc[w] = "final" => ~ call[w].attempted
    /\ pc[w] \in {"link", "readback"} => call[w].attempted
    /\ pc[w] = "readback" => Len(s) = 1
    /\ pc[w] = "persist" =>
         /\ r \in Terminal
         /\ r = "blocked_after_intent" => s = <<>>
         /\ r = "local_output_confirmed" => Len(s) = 1 /\ call[w].receipt \in Time

\* A caller past its claim owns an intent of the journal.
Owns(w) ==
    /\ journal[IdOf(Mine(w))] = [candidate |-> Mine(w), state |-> "publication_intent"]
    /\ \A v \in Caller \ {w} : pc[v] \in Owning => IdOf(Mine(v)) # IdOf(Mine(w))
    /\ Stage(w)
Owners == \A w \in Caller : pc[w] \in Owning => Owns(w)

Rows == \A i \in Id : journal[i] = None => links[i] = <<>>

ReportTrue(w) ==
    LET r == report[w] IN
    r # None =>
        /\ \/ r.state = "LOCAL_OUTPUT_CONFIRMED"
           \/ r.at <= (IF r.final # None THEN r.final ELSE r.at)
              /\ (IF r.final # None THEN r.final ELSE r.at) <= r.post
           => VerifyReport(r)
        /\ r.state = "LOCAL_OUTPUT_CONFIRMED" =>
             journal[IdOf(r.candidate)] = [candidate |-> r.candidate,
                                        state |-> "local_output_confirmed"]

IInv ==
    /\ CallType /\ StoreType
    /\ Frames /\ Owners /\ Rows
    /\ OutputAsApproved
    /\ \A w \in Caller : ReportTrue(w)

-----------------------------------------------------------------------------
\* The id of a candidate is one of the journal.
LEMMA IdOfCandidate == \A c \in Candidate : IdOf(c) \in Id
BY DEF Id

\* The invariant holds at the start, with nothing journalled, linked or reported.
LEMMA InitIInv == Init => IInv
<1> SUFFICES ASSUME Init PROVE IInv
    OBVIOUS
<1>1. CallType /\ StoreType
    BY DEF Init, CallType, StoreType, Step
<1>2. Frames /\ Owners /\ Rows
    BY DEF Init, Frames, Owners, Owning, Rows
<1>3. OutputAsApproved
    BY DEF Init, OutputAsApproved
<1>4. \A w \in Caller : ReportTrue(w)
    BY DEF Init, ReportTrue
<1> QED
    BY <1>1, <1>2, <1>3, <1>4 DEF IInv

\* A caller past its claim has a row.
LEMMA Owned ==
    ASSUME IInv, NEW w \in Caller, pc[w] \in Owning
    PROVE  /\ call[w] \in FrameType /\ FrameTrue(call[w])
           /\ Mine(w) \in Candidate /\ IdOf(Mine(w)) \in Id
           /\ Owns(w) /\ journal[IdOf(Mine(w))] # None
<1>1. call[w] \in FrameType /\ Owns(w) /\ FrameTrue(call[w])
    BY DEF IInv, CallType, Owners, Owning, Frames
<1>2. Mine(w) \in Candidate /\ IdOf(Mine(w)) \in Id
    BY <1>1, IdOfCandidate DEF FrameType, Mine
<1>3. [candidate |-> Mine(w), state |-> "publication_intent"] \in Row
    BY <1>2 DEF Row
<1> QED
    BY <1>1, <1>2, <1>3 DEF Owns

\* What a call that goes on carries with it, and that other calls are not concerned.
LEMMA GotoType ==
    ASSUME CallType, NEW w \in Caller, NEW l \in Step, NEW frame \in FrameType,
           Goto(w, l, frame)
    PROVE  /\ CallType'
           /\ pc'[w] = l /\ call'[w] = frame /\ report'[w] = None
           /\ \A v \in Caller \ {w} :
                 pc'[v] = pc[v] /\ call'[v] = call[v] /\ report'[v] = report[v]
BY DEF Goto, CallType, Step

\* The report of a call that returns stands up to verify_report.
LEMMA ReturnTrue ==
    ASSUME IInv, NEW w \in Caller, NEW frame \in FrameType, FrameTrue(frame),
           NEW published \in Answer, NEW inJournal \in State \cup {None},
           Return(w, frame, published, inJournal),
           published = "LOCAL_OUTPUT_CONFIRMED" /\ inJournal = "local_output_confirmed" =>
              /\ frame.receipt \in Time
              /\ journal'[IdOf(frame.candidate)] =
                   [candidate |-> frame.candidate, state |-> "local_output_confirmed"]
    PROVE  /\ CallType' /\ pc'[w] = "idle" /\ ReportTrue(w)'
           /\ \A v \in Caller \ {w} :
                 pc'[v] = pc[v] /\ call'[v] = call[v] /\ report'[v] = report[v]
<1>1. PICK state, receipt, r :
          /\ state \in Answer /\ receipt \in MaybeTime
          /\ state = Concluded(frame, published, inJournal)
          /\ receipt = IF state = "LOCAL_OUTPUT_CONFIRMED" THEN frame.receipt ELSE None
          /\ r = [candidate |-> frame.candidate, approval |-> frame.approval, preflight |-> TRUE,
                  at |-> frame.at, final |-> frame.final, permitted |-> frame.permitted,
                  attempted |-> frame.attempted, published |-> published, journal |-> inJournal,
                  state |-> state, receipt |-> receipt, post |-> now]
    <2>1. Concluded(frame, published, inJournal) \in Answer
        BY DEF Concluded, Answer
    <2>2. frame.receipt \in MaybeTime /\ None \in MaybeTime
        BY DEF FrameType, MaybeTime
    <2> QED
        BY <2>1, <2>2
<1>2. r \in Reports
    BY <1>1 DEF Reports, FrameType, IInv, StoreType
<1>3. /\ pc' = [pc EXCEPT ![w] = "idle"] /\ call' = [call EXCEPT ![w] = None]
      /\ report' = [report EXCEPT ![w] = r]
    BY <1>1 DEF Return
<1>4. CallType' /\ pc'[w] = "idle" /\ report'[w] = r
      /\ \A v \in Caller \ {w} :
            pc'[v] = pc[v] /\ call'[v] = call[v] /\ report'[v] = report[v]
    BY <1>2, <1>3 DEF CallType, Step, IInv
<1>5. /\ r.candidate = frame.candidate /\ r.approval = frame.approval /\ r.preflight = TRUE
      /\ r.at = frame.at /\ r.final = frame.final /\ r.permitted = frame.permitted
      /\ r.attempted = frame.attempted /\ r.published = published /\ r.journal = inJournal
      /\ r.state = state /\ r.receipt = receipt /\ r.post = now
    BY <1>1
<1>6. /\ frame.at \in Int /\ (frame.final # None => frame.final \in Int) /\ now \in Int
      /\ frame.permitted \in BOOLEAN /\ frame.attempted \in BOOLEAN
    BY DEF FrameType, MaybeTime, IInv, StoreType
<1>7. state \in {published, "OUTCOME_UNKNOWN"}
    BY <1>1 DEF Concluded
<1>8. state = "LOCAL_OUTPUT_CONFIRMED" =>
         /\ published = state /\ inJournal = "local_output_confirmed"
         /\ frame.attempted /\ frame.permitted /\ ReceiptHolds(frame.receipt, frame.final, now)
         /\ frame.receipt \in Time /\ frame.receipt # None /\ receipt = frame.receipt
    BY <1>1 DEF Concluded
<1>9. state = "LOCAL_OUTPUT_CONFIRMED" =>
         /\ frame.final # None /\ frame.at <= frame.final
         /\ frame.final <= frame.receipt /\ frame.receipt <= now /\ frame.final <= now
    <2> SUFFICES ASSUME state = "LOCAL_OUTPUT_CONFIRMED"
                 PROVE  /\ frame.final # None /\ frame.at <= frame.final
                        /\ frame.final <= frame.receipt /\ frame.receipt <= now
                        /\ frame.final <= now
        OBVIOUS
    <2>1. frame.final # None /\ frame.at <= frame.final
        <3>1. frame.attempted /\ frame.permitted
            BY <1>8
        <3>2. frame.final # None
            BY <3>1 DEF FrameTrue
        <3>3. frame.permitted = (Check(frame.candidate, frame.approval, frame.final)
                                 /\ frame.at <= frame.final)
            BY <3>2 DEF FrameTrue
        <3> QED
            BY <3>1, <3>2, <3>3, Zenon
    <2>2. ReceiptHolds(frame.receipt, frame.final, now) /\ frame.receipt \in Int
        BY <1>8
    <2>3. frame.final <= frame.receipt /\ frame.receipt <= now
        BY <2>2 DEF ReceiptHolds
    <2> QED
        BY <1>6, <2>1, <2>2, <2>3
<1>10. Check(frame.candidate, frame.approval, frame.at) = TRUE
    BY DEF FrameTrue, Check
<1>11. ASSUME \/ state = "LOCAL_OUTPUT_CONFIRMED"
              \/ frame.at <= (IF frame.final # None THEN frame.final ELSE frame.at)
                 /\ (IF frame.final # None THEN frame.final ELSE frame.at) <= now
       PROVE  VerifyReport(r)
    <2>1. frame.final # None =>
             /\ frame.at <= frame.final
             /\ frame.permitted = Check(frame.candidate, frame.approval, frame.final)
        BY <1>6, <1>9, <1>11 DEF FrameTrue, Check
    <2>2. (IF frame.final # None THEN frame.final ELSE frame.at) <= now
        BY <1>9, <1>11
    <2>3. frame.attempted => frame.final # None /\ frame.permitted /\ published # None
        BY DEF FrameTrue
    <2> QED
        BY <1>1, <1>5, <1>7, <1>8, <1>9, <1>10, <2>1, <2>2, <2>3 DEF VerifyReport, ReceiptHolds
<1>12. ReportTrue(w)'
    BY <1>4, <1>5, <1>8, <1>11 DEF ReportTrue
<1> QED
    BY <1>4, <1>12

\* A confirmed report has its row, and holds on while that row stays.
LEMMA ReportsStay ==
    ASSUME IInv, NEW v \in Caller, report'[v] = report[v],
           \A i \in Id : journal[i] # None /\ journal[i].state # "publication_intent" =>
               journal'[i] = journal[i]
    PROVE  ReportTrue(v)'
<1>1. PICK r : r = report[v]
    OBVIOUS
<1>2. ASSUME r # None, r.state = "LOCAL_OUTPUT_CONFIRMED"
      PROVE  journal'[IdOf(r.candidate)] = [candidate |-> r.candidate, state |-> "local_output_confirmed"]
    <2>1. r.candidate \in Candidate /\ IdOf(r.candidate) \in Id
        BY <1>1, <1>2, IdOfCandidate DEF IInv, CallType, Reports
    <2>2. PICK row : row = [candidate |-> r.candidate, state |-> "local_output_confirmed"]
        OBVIOUS
    <2>3. row \in Row /\ row # None /\ row.state # "publication_intent"
        BY <2>1, <2>2 DEF Row, Terminal
    <2>4. journal[IdOf(r.candidate)] = row
        BY <1>1, <1>2, <2>2 DEF IInv, ReportTrue
    <2> QED
        BY <2>1, <2>2, <2>3, <2>4
<1>3. r # None =>
         (\/ r.state = "LOCAL_OUTPUT_CONFIRMED"
          \/ r.at <= (IF r.final # None THEN r.final ELSE r.at)
             /\ (IF r.final # None THEN r.final ELSE r.at) <= r.post
          => VerifyReport(r))
    BY <1>1 DEF IInv, ReportTrue
<1>4. report'[v] = r
    BY <1>1
<1>5. r # None => (r.state = "LOCAL_OUTPUT_CONFIRMED" =>
          journal'[IdOf(r.candidate)] = [candidate |-> r.candidate,
                                      state |-> "local_output_confirmed"])
    BY <1>2
<1>6. CASE r = None
    BY <1>4, <1>6 DEF ReportTrue
<1>7. CASE r # None
    <2>1. \/ r.state = "LOCAL_OUTPUT_CONFIRMED"
          \/ r.at <= (IF r.final # None THEN r.final ELSE r.at)
             /\ (IF r.final # None THEN r.final ELSE r.at) <= r.post
          => VerifyReport(r)
        BY <1>3, <1>7
    <2>2. r.state = "LOCAL_OUTPUT_CONFIRMED" =>
             journal'[IdOf(r.candidate)] = [candidate |-> r.candidate,
                                         state |-> "local_output_confirmed"]
        BY <1>5, <1>7
    <2> QED
        BY <1>4, <2>1, <2>2 DEF ReportTrue
<1> QED
    BY <1>6, <1>7

stores == <<journal, visible, links>>

\* A step of one call that leaves everything shared alone: the others keep what they have.
LEMMA QuietStep ==
    ASSUME IInv, NEW w \in Caller, CallType', now' \in Time, UNCHANGED stores,
           \A v \in Caller \ {w} :
              pc'[v] = pc[v] /\ call'[v] = call[v] /\ report'[v] = report[v],
           pc'[w] # "idle" => FrameTrue(call'[w]),
           pc'[w] = "claim" => ~ call'[w].attempted,
           pc'[w] \in Owning =>
              pc[w] \in Owning /\ call'[w].candidate = call[w].candidate /\ Stage(w)',
           ReportTrue(w)'
    PROVE  IInv'
<1> USE DEF stores
<1>1. StoreType' /\ Rows' /\ OutputAsApproved'
    BY DEF IInv, StoreType, Rows, OutputAsApproved
<1>4. Frames'
    BY DEF IInv, Frames
<1>2. Owners'
    <2> SUFFICES ASSUME NEW v \in Caller, pc'[v] \in Owning PROVE Owns(v)'
        BY DEF Owners
    <2>1. pc[v] \in Owning /\ call'[v].candidate = call[v].candidate /\ Stage(v)'
        <3>1. CASE v = w
            BY <3>1
        <3>2. CASE v # w
            BY <3>2 DEF IInv, Owners, Owns, Stage, Mine
        <3> QED
            BY <3>1, <3>2
    <2>2. Owns(v)
        BY <2>1 DEF IInv, Owners
    <2>3. \A x \in Caller : pc'[x] \in Owning =>
              pc[x] \in Owning /\ call'[x].candidate = call[x].candidate
        OBVIOUS
    <2> QED
        BY <2>1, <2>2, <2>3 DEF Owns, Mine
<1>3. \A v \in Caller : ReportTrue(v)'
    BY DEF IInv, ReportTrue
<1> QED
    BY <1>1, <1>2, <1>3, <1>4 DEF IInv

\* A step that leaves the calls, the journal and our links alone.
LEMMA CallersKept ==
    ASSUME IInv, UNCHANGED <<journal, links, pc, call, report>>
    PROVE  CallType' /\ Frames' /\ Owners' /\ Rows' /\ \A w \in Caller : ReportTrue(w)'
<1>1. CallType'
    BY DEF IInv, CallType
<1>2. Frames'
    BY DEF IInv, Frames
<1>3. Owners'
    <2> SUFFICES ASSUME NEW w \in Caller, pc[w] \in Owning PROVE Owns(w)'
        BY DEF Owners
    <2>1. Owns(w)
        BY DEF IInv, Owners
    <2>2. Stage(w)'
        BY <2>1 DEF Owns, Stage, Mine
    <2> QED
        BY <2>1, <2>2 DEF Owns, Mine
<1>4. Rows'
    BY DEF IInv, Rows
<1>5. \A w \in Caller : ReportTrue(w)'
    BY DEF IInv, ReportTrue
<1> QED
    BY <1>1, <1>2, <1>3, <1>4, <1>5

\* If it leaves the names alone as well, nothing is disturbed.
LEMMA SameIInv ==
    ASSUME IInv, now' \in Time, UNCHANGED <<stores, pc, call, report>>
    PROVE  IInv'
<1>1. UNCHANGED <<journal, links, visible, pc, call, report>>
    BY DEF stores
<1>2. StoreType'
    BY <1>1 DEF IInv, StoreType
<1>3. OutputAsApproved'
    BY <1>1 DEF IInv, OutputAsApproved
<1> QED
    BY <1>1, <1>2, <1>3, CallersKept DEF IInv

\* A call that returns and records nothing; a confirmation only over a confirmed row.
LEMMA QuietReturn ==
    ASSUME IInv, NEW w \in Caller, NEW frame \in FrameType, FrameTrue(frame),
           NEW published \in Answer \ {"LOCAL_OUTPUT_CONFIRMED"},
           NEW inJournal \in State \cup {None},
           Return(w, frame, published, inJournal), UNCHANGED <<now, stores>>
    PROVE  IInv'
<1>1. /\ CallType' /\ pc'[w] = "idle" /\ ReportTrue(w)'
      /\ \A v \in Caller \ {w} :
            pc'[v] = pc[v] /\ call'[v] = call[v] /\ report'[v] = report[v]
    BY ReturnTrue
<1> QED
    BY <1>1, QuietStep DEF IInv, StoreType, Owning

\* A call that goes on with everything shared left alone.
LEMMA QuietGoto ==
    ASSUME IInv, NEW w \in Caller, NEW l \in Step, NEW frame \in FrameType, FrameTrue(frame),
           Goto(w, l, frame), UNCHANGED <<now, stores>>,
           l = "claim" => ~ frame.attempted,
           l \in Owning => pc[w] \in Owning /\ frame.candidate = call[w].candidate /\ Stage(w)'
    PROVE  IInv'
<1>1. /\ CallType' /\ pc'[w] = l /\ call'[w] = frame /\ report'[w] = None
      /\ \A v \in Caller \ {w} :
            pc'[v] = pc[v] /\ call'[v] = call[v] /\ report'[v] = report[v]
    BY GotoType DEF IInv
<1> QED
    BY <1>1, QuietStep DEF IInv, StoreType, ReportTrue

\* A replay tells of a row that is there.
LEMMA ReplayTells ==
    ASSUME IInv, NEW w \in Caller, NEW frame \in FrameType, Replay(w, frame)
    PROVE  \E s \in Answer \ {"LOCAL_OUTPUT_CONFIRMED"}, j \in State : Return(w, frame, s, j)
<1>1. IdOf(frame.candidate) \in Id
    BY IdOfCandidate DEF FrameType
<1>2. journal[IdOf(frame.candidate)].state \in State
    BY <1>1 DEF Replay, IInv, StoreType, Row, State
<1>3. {"REPLAY_NO_PUBLICATION", "REQUEST_ID_CONFLICT"} \subseteq Answer \ {"LOCAL_OUTPUT_CONFIRMED"}
    BY DEF Answer
<1> QED
    BY <1>2, <1>3 DEF Replay

-----------------------------------------------------------------------------
(* One lemma per action.                                                   *)

\* A preflight that is denied is reported without a look at the journal.
LEMMA DenyIInv ==
    ASSUME IInv, NEW w \in Caller, NEW c \in Candidate, NEW approval \in Approval,
           pc[w] = "idle", ~ Check(c, approval, now), Deny(w, c, approval),
           UNCHANGED <<now, stores>>
    PROVE  IInv'
<1>1. PICK r : r = [candidate |-> c, approval |-> approval, preflight |-> FALSE, at |-> now,
                    final |-> None, permitted |-> FALSE, attempted |-> FALSE, published |-> None,
                    journal |-> None, state |-> "BLOCKED_WITHOUT_PUBLICATION", receipt |-> None,
                    post |-> now]
    OBVIOUS
<1>2. r \in Reports
    BY <1>1 DEF Reports, MaybeTime, Answer, IInv, StoreType
<1>3. report' = [report EXCEPT ![w] = r] /\ UNCHANGED <<pc, call>>
    BY <1>1 DEF Deny
<1>4. CallType' /\ report'[w] = r
      /\ \A v \in Caller \ {w} :
            pc'[v] = pc[v] /\ call'[v] = call[v] /\ report'[v] = report[v]
    BY <1>2, <1>3 DEF CallType, IInv
<1>5. Check(c, approval, now) = FALSE /\ now <= now
    BY DEF Check, IInv, StoreType
<1>6. VerifyReport(r)
    BY <1>1, <1>5 DEF VerifyReport
<1>7. ReportTrue(w)'
    BY <1>1, <1>4, <1>6 DEF ReportTrue
<1> QED
    BY <1>3, <1>4, <1>7, QuietStep DEF IInv, StoreType, Owning

\* Up to the claim a release changes nothing but its call.
LEMMA ReleaseIInv ==
    ASSUME IInv, NEW w \in Caller, NEW c \in Candidate, NEW approval \in Approval,
           Release(w, c, approval)
    PROVE  IInv'
<1>1. UNCHANGED <<now, stores>> /\ pc[w] = "idle"
    BY DEF Release, stores
<1>2. CASE Check(c, approval, now)
    <2>0. PICK frame : frame = Frame(c, approval)
        OBVIOUS
    <2>1. /\ frame \in FrameType /\ frame.candidate = c /\ frame.approval = approval
          /\ frame.at = now /\ frame.final = None /\ frame.attempted = FALSE
        BY <2>0 DEF Frame, FrameType, MaybeTime, IInv, StoreType
    <2>5. FrameTrue(frame) /\ ~ frame.attempted
        BY <1>2, <2>1 DEF FrameTrue
    <2>2. CASE Block(w, frame)
        BY <1>1, <2>1, <2>2, <2>5, QuietReturn DEF Block, Answer
    <2>3. CASE Replay(w, frame)
        BY <1>1, <2>1, <2>3, <2>5, ReplayTells, QuietReturn
    <2>4. CASE Goto(w, "claim", frame)
        BY <1>1, <2>1, <2>4, <2>5, QuietGoto DEF Step, Owning
    <2> QED
        BY <1>2, <2>0, <2>2, <2>3, <2>4 DEF Release
<1>3. CASE ~ Check(c, approval, now)
    BY <1>1, <1>3, DenyIInv DEF Release
<1> QED
    BY <1>2, <1>3

\* A claim writes an intent into an empty row; who was not told of it owns nothing.
LEMMA ClaimIInv ==
    ASSUME IInv, NEW w \in Caller, Claim(w)
    PROVE  IInv'
<1>0. PICK c, frame : c = Mine(w) /\ frame = call[w]
    OBVIOUS
<1>1. /\ frame \in FrameType /\ FrameTrue(frame) /\ UNCHANGED <<now, visible, links>>
      /\ c \in Candidate /\ IdOf(c) \in Id /\ pc[w] = "claim" /\ ~ frame.attempted
    BY <1>0, IdOfCandidate DEF IInv, CallType, Claim, FrameType, Mine, Frames
<1>2. CASE UNCHANGED journal /\ Replay(w, frame)
    BY <1>1, <1>2, ReplayTells, QuietReturn DEF stores
<1>3. CASE UNCHANGED journal /\ Block(w, frame)
    BY <1>1, <1>3, QuietReturn DEF Block, Answer, stores
<1>4. CASE /\ journal[IdOf(c)] = None /\ SetRow(c, "publication_intent")
           /\ Goto(w, "final", frame) \/ Block(w, frame)
    <2>0. PICK i, row : i = IdOf(c) /\ row = [candidate |-> c, state |-> "publication_intent"]
        OBVIOUS
    <2>1. row \in Row /\ row # None /\ journal' = [journal EXCEPT ![i] = row]
        BY <1>1, <1>4, <2>0 DEF SetRow, Row
    <2>2. StoreType' /\ journal'[i] = row /\ \A k \in Id \ {i} : journal'[k] = journal[k]
        BY <1>1, <2>0, <2>1 DEF IInv, StoreType
    <2>3. /\ CallType' /\ pc'[w] \in {"final", "idle"} /\ ReportTrue(w)'
          /\ pc'[w] = "final" => call'[w] = call[w]
          /\ \A v \in Caller \ {w} :
                pc'[v] = pc[v] /\ call'[v] = call[v] /\ report'[v] = report[v]
        <3>1. CASE Goto(w, "final", frame)
            BY <1>0, <1>1, <3>1, GotoType DEF IInv, Step, ReportTrue
        <3>2. CASE Block(w, frame)
            <4>1. "BLOCKED_WITHOUT_PUBLICATION" \in Answer
                BY DEF Answer
            <4> QED
                BY <1>1, <3>2, <4>1, ReturnTrue DEF Block
        <3> QED
            BY <1>4, <3>1, <3>2
    <2>4. journal[i] = None /\ links[i] = <<>>
        BY <1>1, <1>4, <2>0 DEF IInv, Rows
    <2>5. \A v \in Caller : pc[v] \in Owning => IdOf(Mine(v)) # i
        BY <2>4, Owned
    <2>6. \A v \in Caller \ {w} : pc'[v] \in Owning => Owns(v)'
        <3> SUFFICES ASSUME NEW v \in Caller \ {w}, pc'[v] \in Owning PROVE Owns(v)'
            OBVIOUS
        <3>1. /\ Owns(v) /\ pc[v] \in Owning /\ call'[v] = call[v]
              /\ IdOf(Mine(v)) # i /\ IdOf(Mine(v)) \in Id
            BY <2>3, <2>5, Owned
        <3>2. journal'[IdOf(Mine(v))] = journal[IdOf(Mine(v))]
            BY <3>1, <2>2
        <3>3. Stage(v)'
            BY <3>1, <2>3, <1>1 DEF Owns, Stage, Mine
        <3>4. \A x \in Caller \ {v} :
                  pc'[x] \in Owning => IdOf(call'[x].candidate) # IdOf(call[v].candidate)
            <4> SUFFICES ASSUME NEW x \in Caller \ {v}, pc'[x] \in Owning
                         PROVE  IdOf(call'[x].candidate) # IdOf(call[v].candidate)
                OBVIOUS
            <4>1. CASE x = w
                <5>1. call'[x] = call[x]
                    BY <4>1, <2>3 DEF Owning
                <5> QED
                    BY <1>0, <2>0, <4>1, <5>1, <3>1 DEF Mine
            <4>2. CASE x # w
                <5>1. pc[x] \in Owning /\ call'[x] = call[x]
                    BY <4>2, <2>3
                <5> QED
                    BY <5>1, <3>1 DEF Owns, Mine
            <4> QED
                BY <4>1, <4>2
        <3> QED
            BY <3>1, <3>2, <3>3, <3>4 DEF Owns, Mine
    <2>7. pc'[w] \in Owning => Owns(w)'
        <3> SUFFICES ASSUME pc'[w] \in Owning PROVE Owns(w)'
            OBVIOUS
        <3>1. pc'[w] = "final" /\ call'[w] = call[w]
            BY <2>3 DEF Owning
        <3>2. \A x \in Caller \ {w} : pc'[x] \in Owning => IdOf(call'[x].candidate) # i
            BY <2>3, <2>5 DEF Mine
        <3>3. Stage(w)'
            BY <1>0, <1>1, <2>0, <2>4, <3>1 DEF Stage, Mine
        <3> QED
            BY <1>0, <2>0, <2>2, <3>1, <3>2, <3>3 DEF Owns, Mine
    <2>8. Owners'
        BY <2>6, <2>7 DEF Owners
    <2>9. Frames'
        <3>1. \A v \in Caller : pc'[v] # "idle" =>
                  pc[v] # "idle" /\ call'[v] = call[v] /\ (pc'[v] = "claim" => pc[v] = "claim")
            BY <1>1, <2>3
        <3> QED
            BY <3>1 DEF Frames, IInv
    <2>10. Rows'
        BY <1>1, <2>1, <2>2 DEF IInv, Rows
    <2>11. OutputAsApproved'
        <3>1. \A k \in Id : links[k] # <<>> => journal'[k] = journal[k]
            BY <2>2, <2>4
        <3> SUFFICES ASSUME NEW k \in Id, NEW n \in DOMAIN links[k]
                     PROVE  LinkTrue(visible[k], journal'[k], links[k][n])
            BY <1>1 DEF OutputAsApproved
        <3>2. links[k] # <<>>
            OBVIOUS
        <3>3. LinkTrue(visible[k], journal[k], links[k][n])
            BY DEF IInv, OutputAsApproved
        <3> QED
            BY <3>1, <3>2, <3>3
    <2>12. \A v \in Caller \ {w} : ReportTrue(v)'
        BY <2>2, <2>3, <2>4, ReportsStay
    <2> QED
        BY <2>2, <2>3, <2>8, <2>9, <2>10, <2>11, <2>12 DEF IInv
<1> QED
    BY <1>0, <1>2, <1>3, <1>4 DEF Claim

\* A caller past its claim goes on, with what it has done so far in its frame.
LEMMA OwnerGoto ==
    ASSUME IInv, NEW w \in Caller, pc[w] \in Owning, NEW l \in Owning \ {"final"},
           NEW frame \in FrameType, FrameTrue(frame), Goto(w, l, frame), UNCHANGED <<now, stores>>,
           frame.candidate = call[w].candidate,
           l = "link" => links[IdOf(Mine(w))] = <<>> /\ frame.attempted,
           l = "readback" => Len(links[IdOf(Mine(w))]) = 1 /\ frame.attempted,
           l = "persist" => frame.result \in Terminal,
           l = "persist" /\ frame.result = "blocked_after_intent" => links[IdOf(Mine(w))] = <<>>,
           l = "persist" /\ frame.result = "local_output_confirmed" =>
              Len(links[IdOf(Mine(w))]) = 1 /\ frame.receipt \in Time
    PROVE  IInv'
<1>1. l \in Step
    BY DEF Owning, Step
<1>2. pc'[w] = l /\ call'[w] = frame
    BY <1>1, GotoType DEF IInv
<1>3. Stage(w)'
    BY <1>2 DEF Stage, Mine, stores, Owning
<1> QED
    BY <1>1, <1>3, QuietGoto DEF Owning

\* The check after the commit decides, by its own reading of the clock.
LEMMA FinalGateIInv ==
    ASSUME IInv, NEW w \in Caller, FinalGate(w)
    PROVE  IInv'
<1>1. pc[w] = "final" /\ pc[w] \in Owning /\ UNCHANGED <<now, stores>> /\ now \in Time
    BY DEF FinalGate, Owning, IInv, StoreType, stores
<1>2. /\ call[w] \in FrameType /\ links[IdOf(Mine(w))] = <<>> /\ FrameTrue(call[w])
      /\ ~ call[w].attempted
    BY <1>1, Owned DEF Owns, Stage
<1>3. PICK permitted \in BOOLEAN :
          permitted = (Check(Mine(w), call[w].approval, now) /\ call[w].at <= now)
    OBVIOUS
<1>4. ASSUME permitted,
             Goto(w, "link", [[call[w] EXCEPT !.final = now, !.permitted = permitted] EXCEPT !.attempted = TRUE])
      PROVE  IInv'
    <2>1. PICK frame : frame = [[call[w] EXCEPT !.final = now, !.permitted = permitted] EXCEPT !.attempted = TRUE]
        OBVIOUS
    <2>2. /\ frame \in FrameType /\ frame.candidate = call[w].candidate /\ frame.attempted
          /\ frame.approval = call[w].approval /\ frame.at = call[w].at
          /\ frame.final = now /\ frame.permitted = permitted
        BY <1>1, <1>2, <2>1 DEF FrameType, MaybeTime
    <2>3. FrameTrue(frame)
        BY <1>1, <1>2, <1>3, <1>4, <2>2 DEF FrameTrue, Mine
    <2> QED
        BY <1>1, <1>2, <1>4, <2>1, <2>2, <2>3, OwnerGoto DEF Owning
<1>5. ASSUME ~ permitted,
             Goto(w, "persist", [[call[w] EXCEPT !.final = now, !.permitted = permitted]
                                    EXCEPT !.result = "blocked_after_intent"])
      PROVE  IInv'
    <2>1. PICK frame : frame = [[call[w] EXCEPT !.final = now, !.permitted = permitted]
                                    EXCEPT !.result = "blocked_after_intent"]
        OBVIOUS
    <2>2. /\ frame \in FrameType /\ frame.candidate = call[w].candidate
          /\ frame.approval = call[w].approval /\ frame.at = call[w].at
          /\ frame.final = now /\ frame.permitted = permitted
          /\ frame.attempted = call[w].attempted /\ frame.result = "blocked_after_intent"
        BY <1>1, <1>2, <2>1 DEF FrameType, MaybeTime, Terminal
    <2>3. FrameTrue(frame)
        BY <1>1, <1>2, <1>3, <1>5, <2>2 DEF FrameTrue, Mine
    <2> QED
        BY <1>1, <1>2, <1>5, <2>1, <2>2, <2>3, OwnerGoto DEF Owning, Terminal
<1>6. ASSUME Goto(w, "persist", [call[w] EXCEPT !.result = "outcome_unknown"])
      PROVE  IInv'
    <2>1. PICK frame : frame = [call[w] EXCEPT !.result = "outcome_unknown"]
        OBVIOUS
    <2>2. /\ frame \in FrameType /\ frame.candidate = call[w].candidate
          /\ frame.approval = call[w].approval /\ frame.at = call[w].at
          /\ frame.final = call[w].final /\ frame.permitted = call[w].permitted
          /\ frame.attempted = call[w].attempted /\ frame.result = "outcome_unknown"
        BY <1>1, <1>2, <2>1 DEF FrameType, MaybeTime, Terminal
    <2>3. FrameTrue(frame)
        BY <1>2, <2>2 DEF FrameTrue
    <2> QED
        BY <1>1, <1>2, <1>6, <2>1, <2>2, <2>3, OwnerGoto DEF Owning, Terminal
<1> QED
    BY <1>3, <1>4, <1>5, <1>6 DEF FinalGate

\* What a check permits: an approval of exactly this page and a policy, both in force, and
\* a notice with every AI activity of the session, none of them prohibited.
LEMMA CheckSound ==
    ASSUME NEW candidate \in Candidate, NEW approval \in Approval, NEW at,
           Check(candidate, approval, at), NEW c, c = Contents[candidate]
    PROVE  /\ approval.candidate = candidate
           /\ Within(approval.at, at, approval.until)
           /\ Within(c.policy.from, at, c.policy.until)
           /\ \A k \in DOMAIN c.source.operations :
                LET a == c.source.operations[k].activity IN
                a \in AiActivity => a \in c.html.notice /\ a \notin c.policy.prohibited
<1>1. Permits(candidate, approval, at)
    BY DEF Check, Authorized
<1>2. Measured(c) /\ Discloses(c) /\ PolicyPermits(c, at) /\ Approved(candidate, approval, at)
    BY <1>1 DEF Permits
<1>3. c.html.notice = Notice(Observed(c.source))
    BY <1>2 DEF Measured, Discloses, Rendered
<1>4. ASSUME NEW k \in DOMAIN c.source.operations, NEW a,
             a = c.source.operations[k].activity, a \in AiActivity
      PROVE  a \in c.html.notice /\ a \notin c.policy.prohibited
    <2>1. a \in Observed(c.source)
        BY <1>4 DEF Observed
    <2> QED
        BY <1>2, <1>3, <2>1 DEF Notice, PolicyPermits
<1> QED
    BY <1>2, <1>4 DEF PolicyPermits, Approved

\* Our own link: the first of its id, and of what the final check permitted.
LEMMA LinkedIInv ==
    ASSUME IInv, NEW w \in Caller, pc[w] = "link", MakeLink(w), UNCHANGED <<now, journal>>,
           NEW l \in {"readback", "persist"}, NEW frame \in FrameType, FrameTrue(frame),
           Goto(w, l, frame), frame.candidate = call[w].candidate,
           l = "readback" => frame.attempted,
           l = "persist" => frame.result = "outcome_unknown"
    PROVE  IInv'
<1>1. pc[w] \in Owning /\ l \in Step /\ l \in Owning
    BY DEF Owning, Step
<1>2. /\ CallType' /\ pc'[w] = l /\ call'[w] = frame /\ report'[w] = None
      /\ \A v \in Caller \ {w} :
            pc'[v] = pc[v] /\ call'[v] = call[v] /\ report'[v] = report[v]
    BY <1>1, GotoType DEF IInv
<1>3. PICK c, i, m : c = Mine(w) /\ i = IdOf(c)
          /\ m = [candidate |-> c, approval |-> call[w].approval,
                  admitted |-> call[w].at, final |-> call[w].final, at |-> now]
    OBVIOUS
<1>4. /\ c \in Candidate /\ i \in Id /\ call[w] \in FrameType /\ FrameTrue(call[w])
      /\ journal[i] # None /\ journal[i] = [candidate |-> c, state |-> "publication_intent"]
      /\ links[i] = <<>> /\ call[w].attempted
      /\ \A v \in Caller \ {w} : pc[v] \in Owning => IdOf(Mine(v)) # i
    BY <1>1, <1>3, Owned DEF Owns, Stage
<1>5. /\ StoreType' /\ links'[i] = <<m>>
      /\ visible'[i] = [html |-> Contents[c].html, ours |-> TRUE]
      /\ \A j \in Id \ {i} : links'[j] = links[j] /\ visible'[j] = visible[j]
    <2>1. PICK file : file = [html |-> Contents[c].html, ours |-> TRUE]
        OBVIOUS
    <2>2. visible' = [visible EXCEPT ![i] = file]
        BY <1>3, <2>1 DEF MakeLink, HtmlOf
    <2>3. links' = [links EXCEPT ![i] = Append(@, m)]
        BY <1>3 DEF MakeLink
    <2>4. Append(<<>>, m) = <<m>>
        OBVIOUS
    <2>5. StoreType'
        BY <2>2, <2>3 DEF IInv, StoreType
    <2>6. links'[i] = Append(links[i], m) /\ visible'[i] = file
        BY <1>4, <2>2, <2>3 DEF IInv, StoreType
    <2>7. \A j \in Id \ {i} : links'[j] = links[j] /\ visible'[j] = visible[j]
        BY <2>2, <2>3 DEF IInv, StoreType
    <2> QED
        BY <1>4, <2>1, <2>4, <2>5, <2>6, <2>7
<1>6. Frames'
    BY <1>1, <1>2 DEF Frames, IInv, Owning
<1>7. Stage(w)'
    <2>1. frame.candidate = c /\ Len(<<m>>) = 1
        BY <1>3 DEF Mine
    <2> QED
        BY <1>2, <1>3, <1>5, <2>1 DEF Stage, Mine, Terminal
<1>8. Owners'
    <2> SUFFICES ASSUME NEW v \in Caller, pc'[v] \in Owning PROVE Owns(v)'
        BY DEF Owners
    <2>1. \A x \in Caller : pc'[x] \in Owning => pc[x] \in Owning /\ call'[x].candidate = call[x].candidate
        BY <1>1, <1>2
    <2>2. Owns(v)
        BY <2>1 DEF IInv, Owners
    <2>3. Stage(v)'
        <3>1. CASE v = w
            BY <1>7, <3>1
        <3>2. CASE v # w
            <4>1. pc[v] \in Owning /\ call'[v] = call[v] /\ pc'[v] = pc[v]
                BY <1>2, <3>2
            <4>2. IdOf(Mine(v)) # i /\ IdOf(Mine(v)) \in Id
                BY <1>4, <3>2, <4>1, Owned
            <4>3. links'[IdOf(Mine(v))] = links[IdOf(Mine(v))]
                BY <1>5, <4>2
            <4> QED
                BY <2>2, <4>1, <4>3 DEF Owns, Stage, Mine
        <3> QED
            BY <3>1, <3>2
    <2> QED
        BY <2>1, <2>2, <2>3 DEF Owns, Mine
<1>9. Rows'
    BY <1>4, <1>5 DEF Rows, IInv
<1>10. OutputAsApproved'
    <2>1. /\ call[w].final # None /\ call[w].at <= call[w].final
          /\ Check(c, call[w].approval, call[w].final)
        <3>1. call[w].final # None /\ call[w].permitted
            BY <1>4 DEF FrameTrue
        <3>2. call[w].permitted = (Check(call[w].candidate, call[w].approval, call[w].final)
                                   /\ call[w].at <= call[w].final)
            BY <1>4, <3>1 DEF FrameTrue
        <3> QED
            BY <1>3, <3>1, <3>2, Zenon DEF Mine
    <2>2. PICK content : content = Contents[c]
        OBVIOUS
    <2>3. call[w].approval \in Approval
        BY <1>4 DEF FrameType
    <2>4. /\ m.approval.candidate = c /\ m.candidate = c
          /\ Within(m.approval.at, m.final, m.approval.until)
          /\ Within(content.policy.from, m.final, content.policy.until)
          /\ m.admitted <= m.final
          /\ \A k \in DOMAIN content.source.operations :
               LET a == content.source.operations[k].activity IN
               a \in AiActivity => a \in content.html.notice /\ a \notin content.policy.prohibited
        <3>1. m.approval = call[w].approval /\ m.final = call[w].final
              /\ m.admitted = call[w].at /\ m.candidate = c
            BY <1>3
        <3>2. /\ call[w].approval.candidate = c
              /\ Within(call[w].approval.at, call[w].final, call[w].approval.until)
              /\ Within(content.policy.from, call[w].final, content.policy.until)
              /\ \A k \in DOMAIN content.source.operations :
                   LET a == content.source.operations[k].activity IN
                   a \in AiActivity => a \in content.html.notice /\ a \notin content.policy.prohibited
            <4>1. c \in Candidate /\ call[w].approval \in Approval
                BY <1>4, <2>3
            <4>2. Check(c, call[w].approval, call[w].final)
                BY <2>1
            <4> QED
                BY <4>1, <4>2, <2>2, CheckSound
        <3> QED
            BY <2>1, <3>1, <3>2
    <2>5. DOMAIN <<m>> = {1} /\ <<m>>[1] = m
        OBVIOUS
    <2> SUFFICES ASSUME NEW j \in Id, NEW n \in DOMAIN links'[j]
                 PROVE  LinkTrue(visible'[j], journal'[j], links'[j][n])
        BY DEF OutputAsApproved
    <2>6. CASE j = i
        <3>1. links'[j][n] = m /\ journal'[j] = journal[i] /\ visible'[j] = visible'[i]
            BY <1>5, <2>5, <2>6
        <3>2. journal[i] # None /\ journal[i].candidate = m.candidate
            BY <1>4, <2>4
        <3>3. LinkTrue(visible'[i], journal[i], m)
            BY <1>5, <2>2, <2>4, <3>2 DEF LinkTrue
        <3> QED
            BY <3>1, <3>3
    <2>7. CASE j # i
        <3>1. links'[j] = links[j] /\ visible'[j] = visible[j] /\ journal'[j] = journal[j]
            BY <1>5, <2>7
        <3>2. \A k \in DOMAIN links[j] : LinkTrue(visible[j], journal[j], links[j][k])
            BY DEF IInv, OutputAsApproved
        <3> QED
            BY <3>1, <3>2
    <2> QED
        BY <2>6, <2>7
<1>11. \A v \in Caller : ReportTrue(v)'
    BY <1>2, ReportsStay DEF ReportTrue
<1> QED
    BY <1>2, <1>5, <1>6, <1>8, <1>9, <1>10, <1>11 DEF IInv

\* A frame that only takes a result on is as true as before.
LEMMA WithResult ==
    ASSUME NEW f \in FrameType, FrameTrue(f), NEW r \in Terminal, NEW frame,
           frame = [f EXCEPT !.result = r]
    PROVE  /\ frame \in FrameType /\ FrameTrue(frame) /\ frame.result = r
           /\ frame.candidate = f.candidate
<1>1. /\ frame \in FrameType /\ frame.candidate = f.candidate /\ frame.approval = f.approval
      /\ frame.at = f.at /\ frame.final = f.final /\ frame.permitted = f.permitted
      /\ frame.attempted = f.attempted /\ frame.result = r
    BY DEF FrameType
<1> QED
    BY <1>1 DEF FrameTrue

\* A link is made, is refused because the name is taken, or fails in an unknown way.
LEMMA LinkIInv ==
    ASSUME IInv, NEW w \in Caller, Link(w)
    PROVE  IInv'
<1>1. pc[w] = "link" /\ pc[w] \in Owning /\ UNCHANGED <<now, journal>>
    BY DEF Link, Owning
<1>2. /\ call[w] \in FrameType /\ FrameTrue(call[w]) /\ links[IdOf(Mine(w))] = <<>>
      /\ call[w].attempted
    BY <1>1, Owned DEF Owns, Stage
<1>3. CASE MakeLink(w) /\ Goto(w, "readback", call[w])
    BY <1>1, <1>2, <1>3, LinkedIInv
<1>4. CASE /\ UNCHANGED <<visible, links>>
           /\ Goto(w, "persist", [call[w] EXCEPT !.result = "blocked_after_intent"])
    <2>1. PICK frame : frame = [call[w] EXCEPT !.result = "blocked_after_intent"]
        OBVIOUS
    <2>2. "blocked_after_intent" \in Terminal
        BY DEF Terminal
    <2>3. /\ frame \in FrameType /\ FrameTrue(frame) /\ frame.result = "blocked_after_intent"
          /\ frame.candidate = call[w].candidate
        BY <1>2, <2>1, <2>2, WithResult
    <2> QED
        BY <1>1, <1>2, <1>4, <2>1, <2>2, <2>3, OwnerGoto DEF Owning, stores
<1>5. CASE /\ MakeLink(w) \/ UNCHANGED <<visible, links>>
           /\ Goto(w, "persist", [call[w] EXCEPT !.result = "outcome_unknown"])
    <2>1. PICK frame : frame = [call[w] EXCEPT !.result = "outcome_unknown"]
        OBVIOUS
    <2>2. "outcome_unknown" \in Terminal
        BY DEF Terminal
    <2>3. /\ frame \in FrameType /\ FrameTrue(frame) /\ frame.result = "outcome_unknown"
          /\ frame.candidate = call[w].candidate
        BY <1>2, <2>1, <2>2, WithResult
    <2>4. CASE MakeLink(w)
        BY <1>1, <1>5, <2>1, <2>3, <2>4, LinkedIInv
    <2>5. CASE UNCHANGED <<visible, links>>
        BY <1>1, <1>2, <1>5, <2>1, <2>2, <2>3, <2>5, OwnerGoto DEF Owning, stores
    <2> QED
        BY <1>5, <2>4, <2>5
<1> QED
    BY <1>3, <1>4, <1>5 DEF Link

\* A confirmation comes from a caller that made its link, and carries a receipt.
LEMMA ReadBackIInv ==
    ASSUME IInv, NEW w \in Caller, ReadBack(w)
    PROVE  IInv'
<1>1. pc[w] = "readback" /\ pc[w] \in Owning /\ UNCHANGED <<now, stores>> /\ now \in Time
    BY DEF ReadBack, Owning, stores, IInv, StoreType
<1>2. /\ call[w] \in FrameType /\ FrameTrue(call[w]) /\ Len(links[IdOf(Mine(w))]) = 1
    BY <1>1, Owned DEF Owns, Stage
<1>3. CASE Goto(w, "persist", [call[w] EXCEPT !.receipt = now, !.result = "local_output_confirmed"])
    <2>1. PICK frame : frame = [call[w] EXCEPT !.receipt = now, !.result = "local_output_confirmed"]
        OBVIOUS
    <2>2. /\ frame \in FrameType /\ frame.candidate = call[w].candidate
          /\ frame.approval = call[w].approval /\ frame.at = call[w].at
          /\ frame.final = call[w].final /\ frame.permitted = call[w].permitted
          /\ frame.attempted = call[w].attempted /\ frame.receipt \in Time
          /\ frame.result = "local_output_confirmed"
        BY <1>1, <1>2, <2>1 DEF FrameType, MaybeTime, Terminal
    <2>3. FrameTrue(frame)
        BY <1>2, <2>2 DEF FrameTrue
    <2> QED
        BY <1>1, <1>2, <1>3, <2>1, <2>2, <2>3, OwnerGoto DEF Owning, Terminal
<1>4. CASE Goto(w, "persist", [call[w] EXCEPT !.result = "outcome_unknown"])
    <2>1. PICK frame : frame = [call[w] EXCEPT !.result = "outcome_unknown"]
        OBVIOUS
    <2>2. "outcome_unknown" \in Terminal
        BY DEF Terminal
    <2>3. /\ frame \in FrameType /\ FrameTrue(frame) /\ frame.result = "outcome_unknown"
          /\ frame.candidate = call[w].candidate
        BY <1>2, <2>1, <2>2, WithResult
    <2> QED
        BY <1>1, <1>2, <1>4, <2>1, <2>2, <2>3, OwnerGoto DEF Owning, Terminal
<1> QED
    BY <1>3, <1>4 DEF ReadBack

\* A result is written over the caller's own intent; the report says no more than it.
LEMMA PersistIInv ==
    ASSUME IInv, NEW w \in Caller, Persist(w)
    PROVE  IInv'
<1>0. PICK c, i, frame, result : c = Mine(w) /\ i = IdOf(c) /\ frame = call[w] /\ result = frame.result
    OBVIOUS
<1>1. pc[w] = "persist" /\ pc[w] \in Owning /\ UNCHANGED <<now, visible, links>>
    BY DEF Persist, Owning
<1>2. /\ frame \in FrameType /\ FrameTrue(frame) /\ c \in Candidate /\ i \in Id
      /\ journal[i] = [candidate |-> c, state |-> "publication_intent"] /\ journal[i] # None
      /\ result \in Terminal
      /\ result = "local_output_confirmed" => frame.receipt \in Time
      /\ \A v \in Caller \ {w} : pc[v] \in Owning => IdOf(Mine(v)) # i
    BY <1>0, <1>1, Owned DEF Owns, Stage
<1>3. CASE UNCHANGED journal /\ Return(w, frame, "OUTCOME_UNKNOWN", journal[i].state)
    <2>1. "OUTCOME_UNKNOWN" \in Answer \ {"LOCAL_OUTPUT_CONFIRMED"} /\ journal[i].state \in State
        BY <1>2 DEF Answer, State
    <2> QED
        BY <1>1, <1>2, <1>3, <2>1, QuietReturn DEF stores
<1>4. ASSUME SetRow(c, result), NEW published \in {PublishedAs(result), "OUTCOME_UNKNOWN"},
             Return(w, frame, published, result)
      PROVE  IInv'
    <2>0. PICK row : row = [candidate |-> c, state |-> result]
        OBVIOUS
    <2>1. row \in Row /\ row # None /\ journal' = [journal EXCEPT ![i] = row] /\ row.candidate = c
        BY <1>0, <1>2, <1>4, <2>0 DEF SetRow, Row
    <2>2. StoreType' /\ journal'[i] = row /\ \A k \in Id \ {i} : journal'[k] = journal[k]
        BY <1>1, <1>2, <2>1 DEF IInv, StoreType
    <2>3. published \in Answer /\ result \in State \cup {None}
        BY <1>2, <1>4 DEF PublishedAs, Answer, Terminal, State
    <2>4. published = "LOCAL_OUTPUT_CONFIRMED" /\ result = "local_output_confirmed" =>
             /\ frame.receipt \in Time
             /\ journal'[IdOf(frame.candidate)] =
                  [candidate |-> frame.candidate, state |-> "local_output_confirmed"]
        BY <1>0, <1>2, <2>0, <2>2 DEF Mine
    <2>5. /\ CallType' /\ pc'[w] = "idle" /\ ReportTrue(w)'
          /\ \A v \in Caller \ {w} :
                pc'[v] = pc[v] /\ call'[v] = call[v] /\ report'[v] = report[v]
        BY <1>2, <1>4, <2>3, <2>4, ReturnTrue
    <2>6. Frames'
        <3>1. \A v \in Caller : pc'[v] # "idle" => pc'[v] = pc[v] /\ call'[v] = call[v]
            BY <2>5
        <3> QED
            BY <3>1 DEF Frames, IInv
    <2>7. Owners'
        <3> SUFFICES ASSUME NEW v \in Caller, pc'[v] \in Owning PROVE Owns(v)'
            BY DEF Owners
        <3>1. \A x \in Caller : pc'[x] \in Owning => pc[x] \in Owning /\ call'[x] = call[x] /\ pc'[x] = pc[x]
            BY <2>5 DEF Owning
        <3>2. v # w /\ Owns(v) /\ IdOf(Mine(v)) # i /\ IdOf(Mine(v)) \in Id
            BY <1>2, <2>5, <3>1, Owned DEF Owning
        <3>3. journal'[IdOf(Mine(v))] = journal[IdOf(Mine(v))]
            BY <2>2, <3>2
        <3>4. Stage(v)'
            BY <1>1, <3>1, <3>2 DEF Owns, Stage, Mine
        <3> QED
            BY <3>1, <3>2, <3>3, <3>4 DEF Owns, Mine
    <2>8. Rows'
        BY <1>1, <2>1, <2>2 DEF IInv, Rows
    <2>9. OutputAsApproved'
        <3> SUFFICES ASSUME NEW j \in Id, NEW n \in DOMAIN links[j]
                     PROVE  LinkTrue(visible[j], journal'[j], links[j][n])
            BY <1>1 DEF OutputAsApproved
        <3>1. LinkTrue(visible[j], journal[j], links[j][n])
            BY DEF IInv, OutputAsApproved
        <3>2. journal'[j] # None /\ journal'[j].candidate = journal[j].candidate
            <4>1. journal[j] # None
                BY <3>1 DEF LinkTrue
            <4> QED
                BY <4>1, <1>2, <2>1, <2>2
        <3> QED
            BY <3>1, <3>2 DEF LinkTrue
    <2>10. \A v \in Caller \ {w} : ReportTrue(v)'
        BY <1>2, <2>2, <2>5, ReportsStay
    <2> QED
        BY <2>2, <2>5, <2>6, <2>7, <2>8, <2>9, <2>10 DEF IInv
<1> QED
    BY <1>0, <1>3, <1>4 DEF Persist

\* A crash leaves only the journal and the directory behind.
LEMMA CrashIInv ==
    ASSUME IInv, NEW w \in Caller, Crash(w)
    PROVE  IInv'
<1>1. /\ CallType' /\ pc'[w] = "idle" /\ report'[w] = None
      /\ \A v \in Caller \ {w} :
            pc'[v] = pc[v] /\ call'[v] = call[v] /\ report'[v] = report[v]
    BY DEF IInv, CallType, Crash, Step
<1>2. UNCHANGED stores /\ now' \in Time
    BY DEF Crash, stores, IInv, StoreType
<1> QED
    BY <1>1, <1>2, QuietStep DEF Owning, ReportTrue

\* A file of somebody else's takes a free name, so none of our links' names.
LEMMA PutIInv ==
    ASSUME IInv, NEW i \in Id, Put(i)
    PROVE  IInv'
<1>1. visible[i] = None /\ UNCHANGED <<now, journal, pc, call, report, links>>
    BY DEF Put
<1>2. StoreType' /\ \A j \in Id \ {i} : visible'[j] = visible[j]
    BY <1>1 DEF Put, IInv, StoreType
<1>3. OutputAsApproved'
    <2> SUFFICES ASSUME NEW j \in Id, NEW n \in DOMAIN links[j]
                 PROVE  LinkTrue(visible'[j], journal[j], links[j][n])
        BY <1>1 DEF OutputAsApproved
    <2>1. LinkTrue(visible[j], journal[j], links[j][n])
        BY DEF IInv, OutputAsApproved
    <2>2. visible[j] # None
        <3>1. links[j][n].candidate \in Candidate
            BY <2>1 DEF LinkTrue, IInv, StoreType, Row
        <3>2. visible[j] \in OurFile
            <4>1. PICK d, file : d = links[j][n].candidate /\ file = visible[j]
                OBVIOUS
            <4>2. file = [html |-> HtmlOf(d), ours |-> TRUE] /\ d \in Candidate
                BY <2>1, <3>1, <4>1 DEF LinkTrue, HtmlOf
            <4>3. HtmlOf(d) \in {HtmlOf(c) : c \in Candidate}
                BY <4>2
            <4> QED
                BY <4>1, <4>2, <4>3 DEF OurFile
        <3> QED
            BY <3>2
    <2> QED
        BY <1>1, <1>2, <2>1, <2>2
<1> QED
    BY <1>1, <1>2, <1>3, CallersKept DEF IInv

\* The clock may show any time next: what was checked at another time stays checked.
LEMMA SetClockIInv ==
    ASSUME IInv, NEW t \in Time, SetClock(t)
    PROVE  IInv'
BY SameIInv DEF SetClock, stores

\* Every step keeps the invariant.
LEMMA NextIInv == IInv /\ [Next]_vars => IInv'
<1> SUFFICES ASSUME IInv, [Next]_vars PROVE IInv'
    OBVIOUS
<1>1. CASE UNCHANGED vars
    BY <1>1, SameIInv DEF vars, stores, IInv, StoreType
<1>2. ASSUME NEW w \in Caller, NEW c \in Candidate, NEW approval \in Approval,
             Release(w, c, approval)
      PROVE  IInv'
    BY <1>2, ReleaseIInv
<1>3. ASSUME NEW w \in Caller, Claim(w) PROVE IInv'
    BY <1>3, ClaimIInv
<1>4. ASSUME NEW w \in Caller, FinalGate(w) PROVE IInv'
    BY <1>4, FinalGateIInv
<1>5. ASSUME NEW w \in Caller, Link(w) PROVE IInv'
    BY <1>5, LinkIInv
<1>6. ASSUME NEW w \in Caller, ReadBack(w) PROVE IInv'
    BY <1>6, ReadBackIInv
<1>7. ASSUME NEW w \in Caller, Persist(w) PROVE IInv'
    BY <1>7, PersistIInv
<1>8. ASSUME NEW w \in Caller, Crash(w) PROVE IInv'
    BY <1>8, CrashIInv
<1>9. ASSUME NEW i \in Id, Put(i) PROVE IInv'
    BY <1>9, PutIInv
<1>10. ASSUME NEW t \in Time, SetClock(t) PROVE IInv'
    BY <1>10, SetClockIInv
<1> QED
    BY <1>1, <1>2, <1>3, <1>4, <1>5, <1>6, <1>7, <1>8, <1>9, <1>10 DEF Next

\* The invariant holds in every reachable state.
LEMMA Invariance == Spec => []IInv
BY InitIInv, NextIInv, PTL DEF Spec

-----------------------------------------------------------------------------
(* The theorems.                                                           *)

\* What stands at a visible name by a link of ours was approved for exactly that page by an
\* approval and a policy in force at the check after the commit, and names its AI activities.
THEOREM ApprovedOutput == Spec => []OutputAsApproved
<1>1. IInv => OutputAsApproved
    BY DEF IInv
<1> QED
    BY <1>1, Invariance, PTL

\* A confirmation, and every report of a call during which the clock did not go back, stands
\* up to verify_report, and a confirmation is in the journal for good.
THEOREM VerifiedReports == Spec => []ReportsVerify
<1>1. IInv => ReportsVerify
    BY DEF IInv, ReportsVerify, ReportTrue
<1> QED
    BY <1>1, Invariance, PTL

-----------------------------------------------------------------------------
(* The refinement of OneEffect.                                            *)

Intents == [i \in Id |-> IF journal[i] = None THEN None ELSE journal[i].candidate]
Effects == [i \in Id |-> Len(links[i])]
Outcomes == [i \in Id |-> OutcomeOf(journal[i])]

\* Of a row, OneEffect sees the candidate and what its state means.
LEMMA RowSeen ==
    ASSUME StoreType, NEW i \in Id, NEW row \in Row, journal' = [journal EXCEPT ![i] = row]
    PROVE  /\ row # None
           /\ Intents' = [Intents EXCEPT ![i] = row.candidate]
           /\ Outcomes' = [Outcomes EXCEPT ![i] = OutcomeOf(row)]
<1>1. row # None /\ journal'[i] = row /\ \A j \in Id \ {i} : journal'[j] = journal[j]
    BY DEF StoreType
<1>2. Intents' = [Intents EXCEPT ![i] = row.candidate]
    <2>1. \A j \in Id : (IF journal'[j] = None THEN None ELSE journal'[j].candidate)
                        = [Intents EXCEPT ![i] = row.candidate][j]
        BY <1>1 DEF Intents
    <2> QED
        BY <2>1 DEF Intents
<1>3. Outcomes' = [Outcomes EXCEPT ![i] = OutcomeOf(row)]
    <2>1. \A j \in Id : OutcomeOf(journal'[j]) = [Outcomes EXCEPT ![i] = OutcomeOf(row)][j]
        BY <1>1 DEF Outcomes
    <2>2. Outcomes' = [j \in Id |-> OutcomeOf(journal'[j])]
        BY DEF Outcomes, OutcomeOf
    <2>3. [Outcomes EXCEPT ![i] = OutcomeOf(row)] =
          [j \in Id |-> [Outcomes EXCEPT ![i] = OutcomeOf(row)][j]]
        BY DEF Outcomes
    <2> QED
        BY <2>1, <2>2, <2>3
<1> QED
    BY <1>1, <1>2, <1>3

\* What a state means.
LEMMA Meaning ==
    ASSUME NEW row \in Row
    PROVE  /\ row.state = "publication_intent" => OutcomeOf(row) = None
           /\ row.state \in Terminal => OutcomeOf(row) \in {"blocked", "confirmed", "unknown"}
           /\ OutcomeOf(row) = "blocked" => row.state = "blocked_after_intent"
           /\ OutcomeOf(row) = "confirmed" => row.state = "local_output_confirmed"
BY DEF OutcomeOf, Row, Terminal

\* The steps that OneEffect sees are the claim, the link and the recording of a result.
LEMMA AbstractStep ==
    ASSUME IInv, [Next]_vars
    PROVE  [Abstract!Next]_(Abstract!vars)
<1>0. /\ Len(<<>>) = 0
      /\ \A i \in Id : /\ Intents[i] = IF journal[i] = None THEN None ELSE journal[i].candidate
                       /\ Effects[i] = Len(links[i])
                       /\ Outcomes[i] = OutcomeOf(journal[i])
    BY DEF Intents, Effects, Outcomes
<1>1. CASE UNCHANGED <<journal, links>>
    BY <1>1 DEF Abstract!vars, OutcomeOf
<1>2. ASSUME NEW w \in Caller, Claim(w), journal' # journal
      PROVE  Abstract!Next
    <2>0. PICK c, i, row : c = Mine(w) /\ i = IdOf(c)
                           /\ row = [candidate |-> c, state |-> "publication_intent"]
        OBVIOUS
    <2>1. /\ c \in Candidate /\ i \in Id /\ journal[i] = None /\ UNCHANGED links
          /\ journal' = [journal EXCEPT ![i] = row]
        BY <1>2, <2>0, IdOfCandidate DEF Claim, SetRow, IInv, CallType, FrameType, Mine
    <2>2. row \in Row /\ row.candidate = c /\ row.state = "publication_intent"
        BY <2>0, <2>1 DEF Row
    <2>3. Intents' = [Intents EXCEPT ![i] = c] /\ UNCHANGED Effects
        BY <2>1, <2>2, RowSeen DEF Effects, IInv
    <2>4. UNCHANGED Outcomes
        <3>1. Outcomes' = [Outcomes EXCEPT ![i] = None]
            <4>1. OutcomeOf(row) = None
                BY <2>2, Meaning
            <4>2. Outcomes' = [Outcomes EXCEPT ![i] = OutcomeOf(row)]
                BY <2>1, <2>2, RowSeen DEF IInv
            <4> QED
                BY <4>1, <4>2
        <3>2. Outcomes[i] = None
            BY <1>0, <2>1 DEF OutcomeOf
        <3> QED
            BY <2>1, <3>1, <3>2 DEF Outcomes
    <2>5. Abstract!Commit(i, c)
        BY <1>0, <2>1, <2>3, <2>4 DEF Abstract!Commit, Intents, Effects, Outcomes
    <2> QED
        BY <2>1, <2>5 DEF Abstract!Next
<1>3. ASSUME NEW w \in Caller, Link(w), links' # links
      PROVE  Abstract!Next
    <2>0a. PICK c, i, m : c = Mine(w) /\ i = IdOf(c)
              /\ m = [candidate |-> c, approval |-> call[w].approval,
                      admitted |-> call[w].at, final |-> call[w].final, at |-> now]
        OBVIOUS
    <2>0. c = Mine(w) /\ i = IdOf(c) /\ UNCHANGED journal
          /\ links' = [links EXCEPT ![i] = Append(@, m)]
        <3>1. UNCHANGED journal /\ MakeLink(w)
            BY <1>3 DEF Link
        <3>2. links' = [links EXCEPT ![i] = Append(@, m)]
            BY <2>0a, <3>1 DEF MakeLink
        <3> QED
            BY <2>0a, <3>1, <3>2
    <2>1. pc[w] = "link" /\ pc[w] \in Owning
        BY <1>3 DEF Link, Owning
    <2>2. /\ i \in Id /\ links[i] = <<>> /\ journal[i] # None
          /\ journal[i] = [candidate |-> c, state |-> "publication_intent"]
        BY <2>0, <2>1, Owned DEF Owns, Stage
    <2>3. Effects[i] = 0 /\ Effects' = [Effects EXCEPT ![i] = 1]
        <3>1. links'[i] = Append(<<>>, m) /\ Append(<<>>, m) = <<m>>
            BY <2>0, <2>2 DEF IInv, StoreType
        <3>2. Len(<<m>>) = 1
            OBVIOUS
        <3>3. \A j \in Id \ {i} : links'[j] = links[j]
            BY <2>0 DEF IInv, StoreType
        <3>4. \A j \in Id : Len(links'[j]) = [Effects EXCEPT ![i] = 1][j]
            BY <2>2, <3>1, <3>2, <3>3 DEF Effects
        <3>5. Effects' = [j \in Id |-> Len(links'[j])]
            BY DEF Effects
        <3>6. [Effects EXCEPT ![i] = 1] = [j \in Id |-> [Effects EXCEPT ![i] = 1][j]]
            BY DEF Effects
        <3>7. Effects' = [Effects EXCEPT ![i] = 1]
            BY <3>4, <3>5, <3>6
        <3> QED
            BY <1>0, <2>2, <3>7
    <2>4. Intents[i] # None /\ Outcomes[i] = None
        <3>1. c \in Candidate
            BY <2>0, <2>1, Owned
        <3> QED
            BY <1>0, <2>2, <3>1 DEF OutcomeOf
    <2>5. UNCHANGED <<Intents, Outcomes>>
        BY <2>0 DEF Intents, Outcomes, OutcomeOf
    <2>6. Abstract!Effect(i)
        BY <2>3, <2>4, <2>5 DEF Abstract!Effect, Intents, Effects, Outcomes
    <2> QED
        BY <2>2, <2>6 DEF Abstract!Next
<1>4. ASSUME NEW w \in Caller, Persist(w), journal' # journal
      PROVE  Abstract!Next
    <2>0. PICK c, i, row : c = Mine(w) /\ i = IdOf(c)
                           /\ row = [candidate |-> c, state |-> call[w].result]
        OBVIOUS
    <2>1. pc[w] = "persist" /\ pc[w] \in Owning
        BY <1>4 DEF Persist, Owning
    <2>2. /\ c \in Candidate /\ i \in Id /\ journal[i] # None /\ Stage(w)
          /\ journal[i] = [candidate |-> c, state |-> "publication_intent"]
        BY <2>0, <2>1, Owned DEF Owns
    <2>3. /\ row \in Row /\ row.candidate = c /\ row.state \in Terminal
          /\ row.state = "blocked_after_intent" => links[i] = <<>>
          /\ row.state = "local_output_confirmed" => Len(links[i]) = 1
        BY <2>0, <2>1, <2>2 DEF Stage, Row
    <2>4. journal' = [journal EXCEPT ![i] = row] /\ UNCHANGED links
        BY <1>4, <2>0 DEF Persist, SetRow
    <2>5. PICK o \in {"blocked", "confirmed", "unknown"} : o = OutcomeOf(row)
        BY <2>3, Meaning
    <2>6. Intents' = [Intents EXCEPT ![i] = c] /\ Outcomes' = [Outcomes EXCEPT ![i] = o]
        BY <2>2, <2>3, <2>4, <2>5, RowSeen DEF IInv
    <2>7. /\ o = "blocked" => Effects[i] = 0
          /\ o = "confirmed" => Effects[i] = 1
        BY <1>0, <2>2, <2>3, <2>5, Meaning
    <2>8. Intents[i] = c /\ c # None /\ Outcomes[i] = None
        <3>1. OutcomeOf(journal[i]) = None /\ journal[i].candidate = c
            BY <2>2 DEF OutcomeOf
        <3> QED
            BY <1>0, <2>2, <3>1
    <2>9. UNCHANGED <<Intents, Effects>>
        BY <2>4, <2>6, <2>8 DEF Intents, Effects
    <2>10. Abstract!Conclude(i, o)
        BY <2>6, <2>7, <2>8, <2>9 DEF Abstract!Conclude, Intents, Effects, Outcomes
    <2> QED
        BY <2>2, <2>5, <2>10 DEF Abstract!Next
<1>5. UNCHANGED <<journal, links>> \/ \E w \in Caller :
         (Claim(w) /\ journal' # journal) \/ (Link(w) /\ links' # links)
         \/ (Persist(w) /\ journal' # journal)
    <2>1. ASSUME NEW w \in Caller,
                 \/ \E c \in Candidate, approval \in Approval : Release(w, c, approval)
                 \/ FinalGate(w) \/ ReadBack(w) \/ Crash(w)
          PROVE  UNCHANGED <<journal, links>>
        BY <2>1 DEF Release, FinalGate, ReadBack, Crash
    <2>2. ASSUME NEW w \in Caller, Claim(w) \/ Persist(w)
          PROVE  links' = links
        BY <2>2 DEF Claim, Persist
    <2>3. ASSUME NEW w \in Caller, Link(w)
          PROVE  journal' = journal
        BY <2>3 DEF Link
    <2>4. ASSUME \/ \E i \in Id : Put(i)
                 \/ \E t \in Time : SetClock(t)
                 \/ UNCHANGED vars
          PROVE  UNCHANGED <<journal, links>>
        BY <2>4 DEF Put, SetClock, vars
    <2> QED
        BY <2>1, <2>2, <2>3, <2>4 DEF Next
<1> QED
    BY <1>1, <1>2, <1>3, <1>4, <1>5

\* Across callers, crashes and lost acknowledgements, an id is linked at most once, between
\* its intent and its outcome, and never when its outcome is "blocked".
THEOREM OnePublication == Spec => Implements
<1>1. Init => Abstract!Init
    <2>1. Len(<<>>) = 0
        OBVIOUS
    <2> QED
        BY <2>1 DEF Init, Abstract!Init, OutcomeOf
<1>2. IInv /\ [Next]_vars => [Abstract!Next]_(Abstract!vars)
    BY AbstractStep
<1> QED
    BY <1>1, <1>2, Invariance, PTL DEF Spec, Implements, Abstract!Spec

=============================================================================
