----------------------------- MODULE ErasureProofs -----------------------------
(* Invariance of the erasure pilot's safety properties, and its refinement of *)
(* OneEffect, for any number of callers, tasks, objects and observations.     *)
EXTENDS Erasure, TLAPS

USE NoneAssumption, TimeAssumption, TaskAssumption
USE DEF callerVars

-----------------------------------------------------------------------------
(* The inductive invariant.                                                *)

Step == {"idle", "authorize", "measure", "resolve", "claim", "acknowledge", "final", "unlink",
         "confirm", "attest", "persist"}
Owning == {"acknowledge", "final", "unlink", "confirm", "attest", "persist"}
Measuring == {"claim", "acknowledge", "final", "unlink"}
Object == [content : Content, file : Nat]
MaybeTime == Time \cup {None}
FrameType ==
    [task : Task, acknowledgeOnly : BOOLEAN, proposed : MaybeTime, object : Object \cup {None},
     acknowledged : MaybeTime, unlinked : MaybeTime, attempted : BOOLEAN,
     result : Terminal \cup {None}, completed : MaybeTime]
Completion == [task : Task, unlinked : MaybeTime, at : MaybeTime]
Told == Terminal \cup {"deletion_intent", "NOT_CLAIMED", "UNAVAILABLE"}
Answer == Terminal \cup {"REPLAY_NO_ACTION", "REQUEST_ID_CONFLICT"}
Reports ==
    [task : Task, state : Answer, attempted : BOOLEAN, journal : Told,
     acknowledged : MaybeTime, completion : Completion \cup {None}]
Unlinking == [task : Task, at : Time, measured : Nat, removed : Nat]

CallType ==
    /\ pc \in [Caller -> Step]
    /\ call \in [Caller -> FrameType \cup {None}]
    /\ report \in [Caller -> Reports \cup {None}]
    /\ \A w \in Caller : pc[w] # "idle" => call[w] \in FrameType
StoreType ==
    /\ now \in Time
    /\ files \in Nat
    /\ namespace \in [Name -> Object \cup {None}]
    /\ journal \in [Id -> Row \cup {None}]
    /\ unlinks \in [Id -> Seq(Unlinking)]

\* The one unlink of a caller's task was its own, at the time its frame says.
Did(w) ==
    LET s == unlinks[Mine(w).id] IN
    Len(s) = 1 /\ s[1].task = Mine(w) /\ s[1].at = call[w].unlinked

\* What a caller past its claim has done of its task so far.
Stage(w) ==
    /\ pc[w] \in {"acknowledge", "final", "unlink"} => unlinks[Mine(w).id] = <<>>
    /\ pc[w] = "unlink" => call[w].unlinked \in Time /\ Authorized(Mine(w), call[w].unlinked)
    /\ pc[w] \in {"confirm", "attest"} => Did(w)
    /\ pc[w] = "persist" =>
         /\ call[w].result \in Terminal
         /\ call[w].result \in {"BLOCKED", "ACKNOWLEDGED_ONLY"} => unlinks[Mine(w).id] = <<>>
         /\ call[w].result = "LOCAL_UNLINK_CONFIRMED" => Did(w)

\* A caller past its claim owns an intent of the journal.
Owns(w) ==
    /\ RowOf(w) = [task |-> Mine(w), state |-> "deletion_intent"]
    /\ \A v \in Caller \ {w} : pc[v] \in Owning => Mine(v).id # Mine(w).id
    /\ Stage(w)
Owners == \A w \in Caller : pc[w] \in Owning => Owns(w)

Gone(file) == \E i \in Id : \E u \in Unlinked(i) : u.removed = file

\* The measured file is still there, or some request has removed it and only a newer one
\* can have taken its place.
Measured(w) ==
    LET object == call[w].object
        there == namespace[Mine(w).name] IN
    /\ object \in Object /\ object.file <= files
    /\ \/ there # None /\ there.file = object.file
       \/ Gone(object.file) /\ (there # None => there.file > object.file)
Measures == \A w \in Caller : pc[w] \in Measuring => Measured(w)

Rows ==
    \A i \in Id : IF journal[i] = None THEN unlinks[i] = <<>>
                  ELSE journal[i].task.id = i
Files == \A n \in Name : namespace[n] # None => namespace[n].file <= files

\* What a completion attests is what the journal and the namespace have seen.
Happened(c) ==
    /\ c.task \in Task
    /\ journal[c.task.id] = [task |-> c.task, state |-> "LOCAL_UNLINK_CONFIRMED"]
    /\ \E u \in Unlinked(c.task.id) : u.task = c.task /\ u.at = c.unlinked
ReportsTrue ==
    \A w \in Caller : report[w] # None /\ report[w].completion # None =>
        Happened(report[w].completion)
ObservationsTrue ==
    \A o \in observations : o.completion # None =>
        Happened(o.completion) /\ o.completion.task.id = o.task.id /\ o.unlinked

IInv ==
    /\ CallType /\ StoreType
    /\ Owners /\ Measures /\ Rows /\ Files
    /\ ReportsTrue /\ ObservationsTrue
    /\ WhatWasRemoved

-----------------------------------------------------------------------------
\* The id and the name of a task are ones of the journal and of the namespace.
LEMMA IdOfTask == \A t \in Task : t.id \in Id /\ t.name \in Name
BY DEF Id, Name

\* The invariant holds at the start, with nothing created, journalled or observed.
LEMMA InitIInv == Init => IInv
<1> SUFFICES ASSUME Init PROVE IInv
    OBVIOUS
<1>1. CallType /\ StoreType
    BY DEF Init, CallType, StoreType, Step
<1>2. Owners /\ Measures
    BY DEF Init, Owners, Owning, Measures, Measuring
<1>3. Rows /\ Files /\ ReportsTrue /\ ObservationsTrue
    BY DEF Init, Rows, Files, ReportsTrue, ObservationsTrue
<1>4. WhatWasRemoved
    <2>1. \A i \in Id : Unlinked(i) = {}
        BY DEF Init, Unlinked
    <2> QED
        BY <2>1 DEF WhatWasRemoved
<1> QED
    BY <1>1, <1>2, <1>3, <1>4 DEF IInv

\* What a call that goes on carries with it, and that other calls are not concerned.
LEMMA GotoType ==
    ASSUME CallType, NEW w \in Caller, NEW l \in Step, NEW frame \in FrameType,
           Goto(w, l, frame)
    PROVE  /\ CallType'
           /\ pc'[w] = l /\ call'[w] = frame /\ report'[w] = None
           /\ \A v \in Caller \ {w} :
                 pc'[v] = pc[v] /\ call'[v] = call[v] /\ report'[v] = report[v]
BY DEF Goto, CallType, Step

\* What a call that returns leaves behind: a completion only with a confirmation.
LEMMA ReturnType ==
    ASSUME CallType, NEW w \in Caller, NEW frame \in FrameType, NEW s \in Answer,
           NEW j \in Told, Return(w, frame, s, j)
    PROVE  /\ CallType'
           /\ pc'[w] = "idle"
           /\ report'[w].task = frame.task /\ report'[w].journal = j
           /\ s # "LOCAL_UNLINK_CONFIRMED" => report'[w].completion = None
           /\ s = "LOCAL_UNLINK_CONFIRMED" => report'[w].completion =
                [task |-> frame.task, unlinked |-> frame.unlinked, at |-> frame.completed]
           /\ \A v \in Caller \ {w} :
                 pc'[v] = pc[v] /\ call'[v] = call[v] /\ report'[v] = report[v]
<1> DEFINE c == IF s = "LOCAL_UNLINK_CONFIRMED"
                THEN [task |-> frame.task, unlinked |-> frame.unlinked, at |-> frame.completed]
                ELSE None
           r == [task |-> frame.task, state |-> s, attempted |-> frame.attempted,
                 journal |-> j, acknowledged |-> frame.acknowledged, completion |-> c]
<1>1. c \in Completion \cup {None}
    BY DEF Completion, FrameType
<1>2. r \in Reports
    BY <1>1 DEF Reports, FrameType
<1>3. /\ pc' = [pc EXCEPT ![w] = "idle"] /\ call' = [call EXCEPT ![w] = None]
      /\ report' = [report EXCEPT ![w] = r]
    BY DEF Return
<1> HIDE DEF r
<1>4. CallType' /\ pc'[w] = "idle" /\ report'[w] = r
      /\ \A v \in Caller \ {w} :
            pc'[v] = pc[v] /\ call'[v] = call[v] /\ report'[v] = report[v]
    BY <1>2, <1>3 DEF CallType, Step
<1> QED
    BY <1>4 DEF r

\* A caller past its claim has a row.
LEMMA Owned ==
    ASSUME IInv, NEW w \in Caller, pc[w] \in Owning
    PROVE  /\ call[w] \in FrameType /\ Mine(w) \in Task /\ Mine(w).id \in Id
           /\ Mine(w).name \in Name /\ Owns(w)
           /\ journal[Mine(w).id] # None
<1>1. call[w] \in FrameType /\ Owns(w)
    BY DEF IInv, CallType, Owners, Owning
<1>2. Mine(w) \in Task /\ Mine(w).id \in Id /\ Mine(w).name \in Name
    BY <1>1, IdOfTask DEF FrameType, Mine
<1>3. [task |-> Mine(w), state |-> "deletion_intent"] \in Row
    BY <1>2 DEF Row
<1> QED
    BY <1>1, <1>2, <1>3 DEF Owns, RowOf

\* What happened is in a row.
LEMMA HappenedRow ==
    ASSUME NEW c, Happened(c)
    PROVE  c.task.id \in Id /\ journal[c.task.id] # None
<1>1. [task |-> c.task, state |-> "LOCAL_UNLINK_CONFIRMED"] \in Row
    BY DEF Happened, Row, Terminal
<1> QED
    BY <1>1, IdOfTask DEF Happened

\* A call that returns without a confirmation leaves no completion behind.
LEMMA ReturnWithout ==
    ASSUME CallType, NEW w \in Caller, NEW frame \in FrameType, NEW s \in Answer,
           s # "LOCAL_UNLINK_CONFIRMED", NEW j \in Told, Return(w, frame, s, j)
    PROVE  /\ CallType' /\ pc'[w] = "idle" /\ report'[w].completion = None
           /\ \A v \in Caller \ {w} :
                 pc'[v] = pc[v] /\ call'[v] = call[v] /\ report'[v] = report[v]
<1>1. CallType'
    BY ReturnType
<1>2. pc'[w] = "idle" /\ report'[w].completion = None
    BY ReturnType
<1> QED
    BY <1>1, <1>2, ReturnType

stores == <<namespace, files, journal, observations, unlinks>>

\* A step of one call that leaves everything shared alone: the others keep what they have.
LEMMA QuietStep ==
    ASSUME IInv, NEW w \in Caller, CallType', now' \in Time, UNCHANGED stores,
           \A v \in Caller \ {w} :
              pc'[v] = pc[v] /\ call'[v] = call[v] /\ report'[v] = report[v],
           pc'[w] \in Owning => pc[w] \in Owning /\ call'[w].task = call[w].task /\ Stage(w)',
           pc'[w] \in Measuring => Measured(w)',
           report'[w] # None => report'[w].completion = None
    PROVE  IInv'
<1> USE DEF IInv, stores
<1>1. StoreType' /\ Rows' /\ Files'
    BY DEF StoreType, Rows, Files
<1>2. Owners'
    <2> SUFFICES ASSUME NEW v \in Caller, pc'[v] \in Owning PROVE Owns(v)'
        BY DEF Owners
    <2>1. pc[v] \in Owning /\ call'[v].task = call[v].task /\ Stage(v)'
        <3>1. CASE v = w
            BY <3>1
        <3>2. CASE v # w
            <4>1. pc[v] \in Owning /\ call'[v] = call[v] /\ pc'[v] = pc[v] /\ unlinks' = unlinks
                BY <3>2
            <4>2. Stage(v)
                BY <4>1 DEF Owners, Owns
            <4> QED
                BY <4>1, <4>2 DEF Stage, Did, Mine
        <3> QED
            BY <3>1, <3>2
    <2>2. Owns(v)
        BY <2>1 DEF Owners
    <2>3. \A x \in Caller : pc'[x] \in Owning =>
              pc[x] \in Owning /\ call'[x].task = call[x].task
        OBVIOUS
    <2> QED
        BY <2>1, <2>2, <2>3 DEF Owns, Mine, RowOf
<1>3. Measures'
    BY DEF Measures, Measured, Mine, Gone, Unlinked
<1>4. ReportsTrue' /\ ObservationsTrue'
    <2>1. \A c : Happened(c) => Happened(c)'
        BY DEF Happened, Unlinked
    <2>2. ReportsTrue'
        BY <2>1 DEF ReportsTrue
    <2> QED
        BY <2>1, <2>2 DEF ObservationsTrue
<1>5. WhatWasRemoved'
    BY DEF WhatWasRemoved, Unlinked
<1> QED
    BY <1>1, <1>2, <1>3, <1>4, <1>5

\* A call that returns without a confirmation and records nothing.
LEMMA QuietReturn ==
    ASSUME IInv, NEW w \in Caller, NEW frame \in FrameType,
           NEW s \in Answer \ {"LOCAL_UNLINK_CONFIRMED"}, NEW j \in Told,
           Return(w, frame, s, j), UNCHANGED <<now, stores>>
    PROVE  IInv'
<1>0. CallType /\ s \in Answer
    BY DEF IInv
<1>1. /\ CallType' /\ pc'[w] = "idle" /\ report'[w].completion = None
      /\ \A v \in Caller \ {w} :
            pc'[v] = pc[v] /\ call'[v] = call[v] /\ report'[v] = report[v]
    BY <1>0, ReturnWithout
<1> QED
    BY <1>1, QuietStep DEF IInv, StoreType, Owning, Measuring

\* A call that goes on with everything shared left alone.
LEMMA QuietGoto ==
    ASSUME IInv, NEW w \in Caller, NEW l \in Step, NEW frame \in FrameType,
           Goto(w, l, frame), UNCHANGED <<now, stores>>,
           l \in Owning => pc[w] \in Owning /\ frame.task = call[w].task /\ Stage(w)',
           l \in Measuring => Measured(w)'
    PROVE  IInv'
<1>1. /\ CallType' /\ pc'[w] = l /\ call'[w] = frame /\ report'[w] = None
      /\ \A v \in Caller \ {w} :
            pc'[v] = pc[v] /\ call'[v] = call[v] /\ report'[v] = report[v]
    BY GotoType DEF IInv
<1> QED
    BY <1>1, QuietStep DEF IInv, StoreType

\* A replay tells of a row that is there.
LEMMA ReplayTells ==
    ASSUME IInv, NEW w \in Caller, NEW frame \in FrameType, Replay(w, frame)
    PROVE  \E s \in {"REPLAY_NO_ACTION", "REQUEST_ID_CONFLICT"}, j \in Terminal \cup {"deletion_intent"} :
               Return(w, frame, s, j)
<1>1. frame.task.id \in Id
    BY IdOfTask DEF FrameType
<1>2. journal[frame.task.id].state \in Terminal \cup {"deletion_intent"}
    BY <1>1 DEF Replay, IInv, StoreType, Row
<1> QED
    BY <1>2 DEF Replay

-----------------------------------------------------------------------------
(* One lemma per action.                                                   *)

\* The first look of a deletion changes nothing but the call.
LEMMA DeleteIInv ==
    ASSUME IInv, NEW w \in Caller, NEW t \in Task, NEW a \in BOOLEAN, Delete(w, t, a)
    PROVE  IInv'
<1>1. Frame(t, a) \in FrameType /\ UNCHANGED <<now, stores>>
    BY DEF Frame, FrameType, MaybeTime, IInv, StoreType, Delete, stores
<1>2. CASE Replay(w, Frame(t, a))
    BY <1>1, <1>2, ReplayTells, QuietReturn DEF Answer, Told, Terminal
<1>3. CASE Return(w, Frame(t, a), "BLOCKED", "UNAVAILABLE")
    BY <1>1, <1>3, QuietReturn DEF Answer, Told, Terminal
<1>4. CASE Goto(w, "authorize", Frame(t, a))
    BY <1>1, <1>4, QuietGoto DEF Step, Owning, Measuring
<1> QED
    BY <1>2, <1>3, <1>4 DEF Delete

\* Neither does the authorization at the clock.
LEMMA AuthorizeIInv ==
    ASSUME IInv, NEW w \in Caller, Authorize(w)
    PROVE  IInv'
<1>1. /\ call[w] \in FrameType /\ [call[w] EXCEPT !.proposed = now] \in FrameType
      /\ UNCHANGED <<now, stores>>
    BY DEF IInv, CallType, StoreType, Authorize, stores, FrameType, MaybeTime
<1>2. CASE Return(w, call[w], "BLOCKED", "NOT_CLAIMED")
    BY <1>1, <1>2, QuietReturn DEF Answer, Told, Terminal
<1>3. CASE Goto(w, "measure", [call[w] EXCEPT !.proposed = now])
    BY <1>1, <1>3, QuietGoto DEF Step, Owning, Measuring
<1> QED
    BY <1>2, <1>3 DEF Authorize

\* A row or none, or no answer: what another look at the journal tells is a word of the report.
LEMMA CurrentTold ==
    ASSUME IInv, NEW t \in Task
    PROVE  CurrentState(t) \subseteq Told
BY IdOfTask DEF CurrentState, Told, IInv, StoreType, Row

\* A measured object is one that is there; a failed measurement claims nothing.
LEMMA MeasureIInv ==
    ASSUME IInv, NEW w \in Caller, Measure(w)
    PROVE  IInv'
<1> DEFINE object == namespace[Mine(w).name]
<1>1. call[w] \in FrameType /\ UNCHANGED <<now, stores>> /\ Mine(w).name \in Name
    BY IdOfTask DEF IInv, CallType, Measure, stores, FrameType, Mine
<1>2. CASE AsBound(Mine(w), object) /\ Goto(w, "claim", [call[w] EXCEPT !.object = object])
    <2>1. object \in Object /\ object.file <= files /\ object # None
        BY <1>1, <1>2 DEF IInv, StoreType, AsBound, Files
    <2>2. [call[w] EXCEPT !.object = object] \in FrameType
        BY <1>1, <2>1 DEF FrameType
    <2>3. call'[w] = [call[w] EXCEPT !.object = object]
        BY <1>2, <2>2, GotoType DEF IInv, Step
    <2>4. call'[w].object = object /\ call'[w].task = call[w].task
        BY <1>1, <2>3 DEF FrameType
    <2>5. Measured(w)'
        BY <1>1, <2>1, <2>4 DEF Measured, Mine, stores
    <2> QED
        BY <1>1, <1>2, <2>2, <2>5, QuietGoto DEF Step, Owning
<1>3. CASE Goto(w, "resolve", call[w])
    BY <1>1, <1>3, QuietGoto DEF Step, Owning, Measuring
<1>4. CASE \E j \in CurrentState(Mine(w)) : Return(w, call[w], "BLOCKED", j)
    <2>1. Mine(w) \in Task /\ "BLOCKED" \in Answer \ {"LOCAL_UNLINK_CONFIRMED"}
        BY <1>1 DEF FrameType, Mine, Answer, Terminal
    <2> QED
        BY <1>1, <1>4, <2>1, CurrentTold, QuietReturn
<1> QED
    BY <1>2, <1>3, <1>4 DEF Measure

\* A call whose object is gone or another one only tells what the journal says.
LEMMA ResolveIInv ==
    ASSUME IInv, NEW w \in Caller, Resolve(w)
    PROVE  IInv'
<1>1. call[w] \in FrameType /\ UNCHANGED <<now, stores>>
    BY DEF IInv, CallType, Resolve, stores
<1>2. CASE Replay(w, call[w])
    BY <1>1, <1>2, ReplayTells, QuietReturn DEF Answer, Told, Terminal
<1>3. CASE \E j \in {"UNAVAILABLE", "NOT_CLAIMED"} : Return(w, call[w], "BLOCKED", j)
    BY <1>1, <1>3, QuietReturn DEF Answer, Told, Terminal
<1> QED
    BY <1>2, <1>3 DEF Resolve

\* A claim writes an intent into an empty row; who was not told of it owns nothing.
LEMMA ClaimIInv ==
    ASSUME IInv, NEW w \in Caller, Claim(w)
    PROVE  IInv'
<1>1. /\ call[w] \in FrameType /\ UNCHANGED <<now, namespace, files, observations, unlinks>>
      /\ Mine(w) \in Task /\ Mine(w).id \in Id /\ pc[w] = "claim"
    BY IdOfTask DEF IInv, CallType, Claim, FrameType, Mine
<1>2. CASE UNCHANGED journal /\ Replay(w, call[w])
    BY <1>1, <1>2, ReplayTells, QuietReturn DEF Answer, Told, Terminal, stores
<1>3. CASE /\ UNCHANGED journal
           /\ \E j \in CurrentState(Mine(w)) : Return(w, call[w], "BLOCKED", j)
    <2>1. "BLOCKED" \in Answer \ {"LOCAL_UNLINK_CONFIRMED"}
        BY DEF Answer, Terminal
    <2> QED
        BY <1>1, <1>3, <2>1, CurrentTold, QuietReturn DEF stores
<1>4. CASE /\ RowOf(w) = None /\ SetRow(Mine(w), "deletion_intent")
           /\ \/ Goto(w, "acknowledge", call[w])
              \/ \E j \in {"deletion_intent", "UNAVAILABLE"} : Return(w, call[w], "BLOCKED", j)
    <2> DEFINE i == Mine(w).id
               row == [task |-> Mine(w), state |-> "deletion_intent"]
    <2>1. row \in Row /\ journal' = [journal EXCEPT ![i] = row] /\ row # None
        BY <1>1, <1>4 DEF SetRow, Row
    <2>2. StoreType' /\ Files'
        BY <1>1, <2>1 DEF IInv, StoreType, Files
    <2>3. /\ CallType' /\ pc'[w] \in {"acknowledge", "idle"}
          /\ pc'[w] = "acknowledge" => call'[w] = call[w]
          /\ report'[w] # None => report'[w].completion = None
          /\ \A v \in Caller \ {w} :
                pc'[v] = pc[v] /\ call'[v] = call[v] /\ report'[v] = report[v]
        <3>1. CASE Goto(w, "acknowledge", call[w])
            BY <1>1, <3>1, GotoType DEF IInv, Step
        <3>2. ASSUME NEW j \in {"deletion_intent", "UNAVAILABLE"},
                     Return(w, call[w], "BLOCKED", j)
              PROVE  /\ CallType' /\ pc'[w] \in {"acknowledge", "idle"}
                     /\ pc'[w] = "acknowledge" => call'[w] = call[w]
                     /\ report'[w] # None => report'[w].completion = None
                     /\ \A v \in Caller \ {w} :
                           pc'[v] = pc[v] /\ call'[v] = call[v] /\ report'[v] = report[v]
            <4>1. /\ "BLOCKED" \in Answer /\ "BLOCKED" # "LOCAL_UNLINK_CONFIRMED"
                  /\ j \in Told /\ CallType
                BY DEF Answer, Terminal, Told, IInv
            <4> QED
                BY <1>1, <3>2, <4>1, ReturnWithout
        <3> QED
            BY <1>4, <3>1, <3>2
    <2>4. journal[i] = None /\ unlinks[i] = <<>>
        BY <1>1, <1>4 DEF RowOf, IInv, Rows
    <2>5. \A v \in Caller : pc[v] \in Owning => Mine(v).id # i
        BY <2>4, Owned
    <2>6. \A v \in Caller \ {w} : pc'[v] \in Owning => Owns(v)'
        <3> SUFFICES ASSUME NEW v \in Caller \ {w}, pc'[v] \in Owning PROVE Owns(v)'
            OBVIOUS
        <3>1. Owns(v) /\ pc[v] \in Owning /\ call'[v] = call[v] /\ Mine(v).id # i
            BY <2>3, <2>5 DEF IInv, Owners
        <3>2. journal'[Mine(v).id] = journal[Mine(v).id]
            BY <3>1, <2>1, IdOfTask DEF IInv, CallType, StoreType
        <3>3. Stage(v)'
            BY <3>1, <2>3, <1>1 DEF Owns, Stage, Did, Mine
        <3>4. \A x \in Caller \ {v} : pc'[x] \in Owning => call'[x].task.id # call[v].task.id
            <4> SUFFICES ASSUME NEW x \in Caller \ {v}, pc'[x] \in Owning
                         PROVE  call'[x].task.id # call[v].task.id
                OBVIOUS
            <4>1. CASE x = w
                <5>1. call'[x] = call[x]
                    BY <4>1, <2>3 DEF Owning
                <5> QED
                    BY <4>1, <5>1, <3>1 DEF Mine
            <4>2. CASE x # w
                <5>1. pc[x] \in Owning /\ call'[x] = call[x]
                    BY <4>2, <2>3
                <5> QED
                    BY <5>1, <3>1 DEF Owns, Mine
            <4> QED
                BY <4>1, <4>2
        <3> QED
            BY <3>1, <3>2, <3>3, <3>4 DEF Owns, Mine, RowOf
    <2>7. pc'[w] \in Owning => Owns(w)'
        <3> SUFFICES ASSUME pc'[w] \in Owning PROVE Owns(w)'
            OBVIOUS
        <3>1. pc'[w] = "acknowledge" /\ call'[w] = call[w]
            BY <2>3 DEF Owning
        <3>2. journal'[i] = row
            BY <2>1, <1>1 DEF IInv, StoreType
        <3>3. \A x \in Caller \ {w} : pc'[x] \in Owning => call'[x].task.id # i
            BY <2>3, <2>5 DEF Mine
        <3> QED
            BY <1>1, <2>4, <3>1, <3>2, <3>3 DEF Owns, Mine, RowOf, Stage
    <2>8. Owners'
        BY <2>6, <2>7 DEF Owners
    <2>9. Measures'
        BY <2>3, <1>1 DEF IInv, Measures, Measured, Measuring, Mine, Gone, Unlinked
    <2>10. Rows'
        BY <1>1, <2>1 DEF IInv, Rows, StoreType
    <2>11. \A c : Happened(c) => Happened(c)'
        <3> SUFFICES ASSUME NEW c, Happened(c) PROVE Happened(c)'
            OBVIOUS
        <3>1. c.task.id \in Id /\ c.task.id # i
            BY <2>4, HappenedRow
        <3> QED
            BY <1>1, <2>1, <3>1 DEF Happened, Unlinked, IInv, StoreType
    <2>12. ReportsTrue' /\ ObservationsTrue'
        <3>1. ReportsTrue'
            BY <2>3, <2>11 DEF IInv, ReportsTrue
        <3>2. ObservationsTrue'
            BY <1>1, <2>11 DEF IInv, ObservationsTrue
        <3> QED
            BY <3>1, <3>2
    <2>13. WhatWasRemoved'
        <3> SUFFICES ASSUME NEW k \in Id, NEW u \in Unlinked(k)'
                     PROVE  /\ journal'[k] # None /\ journal'[k].task = u.task
                            /\ Authorized(u.task, u.at)
                            /\ u.removed # u.measured =>
                                 /\ u.removed > u.measured
                                 /\ \E j \in Id \ {k} : \E v \in Unlinked(j)' : v.removed = u.measured
            BY DEF WhatWasRemoved, Authorized, KeyValid
        <3>1. \A j : Unlinked(j)' = Unlinked(j)
            BY <1>1 DEF Unlinked
        <3>2. journal[k] # None
            BY <3>1 DEF IInv, WhatWasRemoved
        <3>3. journal'[k] = journal[k]
            BY <2>1, <2>4, <3>2 DEF IInv, StoreType
        <3> QED
            BY <3>1, <3>2, <3>3 DEF IInv, WhatWasRemoved
    <2> QED
        BY <2>2, <2>3, <2>8, <2>9, <2>10, <2>12, <2>13 DEF IInv
<1> QED
    BY <1>2, <1>3, <1>4 DEF Claim

\* A caller past its claim goes on, with what it has done of its task in its frame.
LEMMA OwnerGoto ==
    ASSUME IInv, NEW w \in Caller, pc[w] \in Owning, NEW l \in Owning \ {"confirm", "attest"},
           NEW frame \in FrameType, Goto(w, l, frame), UNCHANGED <<now, stores>>,
           frame.task = call[w].task, frame.object = call[w].object,
           l \in Measuring => pc[w] \in Measuring,
           l # "persist" => unlinks[Mine(w).id] = <<>>,
           l = "unlink" => frame.unlinked \in Time /\ Authorized(Mine(w), frame.unlinked),
           l = "persist" => frame.result \in Terminal,
           l = "persist" /\ frame.result \in {"BLOCKED", "ACKNOWLEDGED_ONLY"}
              => unlinks[Mine(w).id] = <<>>,
           l = "persist" /\ frame.result = "LOCAL_UNLINK_CONFIRMED"
              => Did(w) /\ frame.unlinked = call[w].unlinked
    PROVE  IInv'
<1>1. l \in Step
    BY DEF Owning, Step
<1>2. pc'[w] = l /\ call'[w] = frame
    BY <1>1, GotoType DEF IInv
<1>3. Stage(w)'
    <2>1. l = "persist" /\ frame.result = "LOCAL_UNLINK_CONFIRMED" => Did(w)'
        BY <1>2 DEF Did, Mine, stores
    <2> QED
        BY <1>2, <2>1 DEF Stage, Mine, stores, Owning
<1>4. l \in Measuring => Measured(w)'
    BY <1>2 DEF IInv, Measures, Measured, Mine, Gone, Unlinked, stores
<1> QED
    BY <1>1, <1>3, <1>4, QuietGoto

\* The acknowledgement goes on, ends the task or leaves it unknown; nothing is unlinked yet.
LEMMA AcknowledgeIInv ==
    ASSUME IInv, NEW w \in Caller, Acknowledge(w)
    PROVE  IInv'
<1>1. /\ pc[w] = "acknowledge" /\ pc[w] \in Owning /\ pc[w] \in Measuring
      /\ UNCHANGED <<now, stores>> /\ now \in Time
    BY DEF Acknowledge, Owning, Measuring, IInv, StoreType, stores
<1>2. call[w] \in FrameType /\ unlinks[Mine(w).id] = <<>>
    BY <1>1, Owned DEF Owns, Stage
<1> DEFINE acknowledged == [call[w] EXCEPT !.acknowledged = now]
<1>3. acknowledged \in FrameType /\ acknowledged.task = call[w].task
      /\ acknowledged.object = call[w].object
    BY <1>1, <1>2 DEF FrameType, MaybeTime
<1>4. CASE Goto(w, "final", acknowledged)
    BY <1>1, <1>2, <1>3, <1>4, OwnerGoto DEF Owning, Measuring
<1>5. ASSUME NEW frame \in {acknowledged, call[w]},
             NEW result \in {"ACKNOWLEDGED_ONLY", "OUTCOME_UNKNOWN"},
             Goto(w, "persist", [frame EXCEPT !.result = result])
      PROVE  IInv'
    <2>1. /\ [frame EXCEPT !.result = result] \in FrameType
          /\ [frame EXCEPT !.result = result].task = call[w].task
          /\ [frame EXCEPT !.result = result].object = call[w].object
          /\ [frame EXCEPT !.result = result].result = result
        BY <1>2, <1>3 DEF FrameType, Terminal
    <2> QED
        BY <1>1, <1>2, <1>5, <2>1, OwnerGoto DEF Owning, Measuring, Terminal
<1> QED
    BY <1>4, <1>5 DEF Acknowledge

\* The last check goes on with an authorization of its time only, and blocks otherwise.
LEMMA FinalCheckIInv ==
    ASSUME IInv, NEW w \in Caller, FinalCheck(w)
    PROVE  IInv'
<1>1. /\ pc[w] = "final" /\ pc[w] \in Owning /\ pc[w] \in Measuring
      /\ UNCHANGED <<now, stores>> /\ now \in Time
    BY DEF FinalCheck, Owning, Measuring, IInv, StoreType, stores
<1>2. call[w] \in FrameType /\ unlinks[Mine(w).id] = <<>>
    BY <1>1, Owned DEF Owns, Stage
<1>3. CASE /\ Authorized(Mine(w), now)
           /\ Goto(w, "unlink", [call[w] EXCEPT !.unlinked = now, !.attempted = TRUE])
    <2> DEFINE frame == [call[w] EXCEPT !.unlinked = now, !.attempted = TRUE]
    <2>1. /\ frame \in FrameType /\ frame.task = call[w].task
          /\ frame.object = call[w].object /\ frame.unlinked = now
        BY <1>1, <1>2 DEF FrameType, MaybeTime
    <2> HIDE DEF frame
    <2>2. Goto(w, "unlink", frame)
        BY <1>3 DEF frame
    <2> QED
        BY <1>1, <1>2, <1>3, <2>1, <2>2, OwnerGoto DEF Owning, Measuring
<1>4. CASE Goto(w, "persist", [call[w] EXCEPT !.result = "BLOCKED"])
    <2> DEFINE frame == [call[w] EXCEPT !.result = "BLOCKED"]
    <2>1. /\ frame \in FrameType /\ frame.task = call[w].task
          /\ frame.object = call[w].object /\ frame.result = "BLOCKED"
        BY <1>2 DEF FrameType, Terminal
    <2> HIDE DEF frame
    <2>2. Goto(w, "persist", frame)
        BY <1>4 DEF frame
    <2> QED
        BY <1>1, <1>2, <2>1, <2>2, OwnerGoto DEF Owning, Measuring, Terminal
<1> QED
    BY <1>3, <1>4 DEF FinalCheck

\* The look at the empty name goes on with the unlink the call has made.
LEMMA ConfirmIInv ==
    ASSUME IInv, NEW w \in Caller, Confirm(w)
    PROVE  IInv'
<1>1. /\ pc[w] = "confirm" /\ pc[w] \in Owning /\ UNCHANGED <<now, stores>>
    BY DEF Confirm, Owning, stores
<1>2. call[w] \in FrameType /\ Did(w)
    BY <1>1, Owned DEF Owns, Stage
<1>3. CASE Goto(w, "attest", call[w])
    <2>1. pc'[w] = "attest" /\ call'[w] = call[w]
        BY <1>2, <1>3, GotoType DEF IInv, Step
    <2>2. Did(w)'
        BY <1>1, <1>2, <2>1 DEF Did, Mine, stores
    <2>3. Stage(w)'
        BY <2>1, <2>2 DEF Stage
    <2> QED
        BY <1>1, <1>2, <1>3, <2>3, QuietGoto DEF Step, Owning, Measuring
<1>4. CASE Goto(w, "persist", [call[w] EXCEPT !.result = "OUTCOME_UNKNOWN"])
    <2> DEFINE frame == [call[w] EXCEPT !.result = "OUTCOME_UNKNOWN"]
    <2>1. /\ frame \in FrameType /\ frame.task = call[w].task
          /\ frame.object = call[w].object /\ frame.result = "OUTCOME_UNKNOWN"
        BY <1>2 DEF FrameType, Terminal
    <2> HIDE DEF frame
    <2>2. Goto(w, "persist", frame)
        BY <1>4 DEF frame
    <2> QED
        BY <1>1, <2>1, <2>2, OwnerGoto DEF Owning, Measuring, Terminal
<1> QED
    BY <1>3, <1>4 DEF Confirm

\* The receipt and the attestation speak of the unlink the call has made.
LEMMA AttestIInv ==
    ASSUME IInv, NEW w \in Caller, Attest(w)
    PROVE  IInv'
<1>1. /\ pc[w] = "attest" /\ pc[w] \in Owning
      /\ UNCHANGED <<now, stores>> /\ now \in Time
    BY DEF Attest, Owning, IInv, StoreType, stores
<1>2. call[w] \in FrameType /\ Did(w)
    BY <1>1, Owned DEF Owns, Stage
<1>3. ASSUME NEW frame, NEW at \in MaybeTime,
             NEW result \in {"LOCAL_UNLINK_CONFIRMED", "OUTCOME_UNKNOWN"},
             frame = [call[w] EXCEPT !.completed = at, !.result = result],
             Goto(w, "persist", frame)
      PROVE  IInv'
    <2>1. /\ frame \in FrameType /\ frame.task = call[w].task /\ frame.object = call[w].object
          /\ frame.result = result /\ frame.unlinked = call[w].unlinked
        BY <1>2, <1>3 DEF FrameType, Terminal
    <2> QED
        BY <1>1, <1>2, <1>3, <2>1, OwnerGoto DEF Owning, Measuring, Terminal
<1>4. [call[w] EXCEPT !.result = "OUTCOME_UNKNOWN"]
      = [call[w] EXCEPT !.completed = call[w].completed, !.result = "OUTCOME_UNKNOWN"]
      /\ call[w].completed \in MaybeTime
    BY <1>2 DEF FrameType
<1>5. now \in MaybeTime
    BY <1>1 DEF MaybeTime
<1> QED
    BY <1>3, <1>4, <1>5 DEF Attest

\* A call that dies leaves what it did to the journal.
LEMMA CrashIInv ==
    ASSUME IInv, NEW w \in Caller, Crash(w)
    PROVE  IInv'
<1>1. UNCHANGED <<now, stores>> /\ pc'[w] = "idle" /\ report'[w] = None /\ CallType'
      /\ \A v \in Caller \ {w} :
            pc'[v] = pc[v] /\ call'[v] = call[v] /\ report'[v] = report[v]
    BY DEF Crash, stores, IInv, CallType, Step
<1> QED
    BY <1>1, QuietStep DEF IInv, StoreType, Owning, Measuring

\* A step that leaves the calls, the journal and the namespace alone.
LEMMA CallersKept ==
    ASSUME IInv, now' \in Time, UNCHANGED <<namespace, files, journal, pc, call, report, unlinks>>
    PROVE  /\ CallType' /\ StoreType' /\ Rows' /\ Files' /\ Owners' /\ Measures'
           /\ ReportsTrue' /\ WhatWasRemoved'
           /\ \A c : Happened(c) => Happened(c)'
<1>1. CallType'
    BY DEF IInv, CallType
<1>2. StoreType'
    BY DEF IInv, StoreType
<1>3. Rows' /\ Files'
    BY DEF IInv, Rows, Files
<1>4. Owners'
    <2> SUFFICES ASSUME NEW w \in Caller, pc[w] \in Owning PROVE Owns(w)'
        BY DEF Owners
    <2>1. Owns(w)
        BY DEF IInv, Owners
    <2>2. Stage(w)'
        BY <2>1 DEF Owns, Stage, Did, Mine
    <2> QED
        BY <2>1, <2>2 DEF Owns, Mine, RowOf
<1>5. Measures'
    <2> SUFFICES ASSUME NEW w \in Caller, pc[w] \in Measuring PROVE Measured(w)'
        BY DEF Measures
    <2>1. Measured(w)
        BY DEF IInv, Measures
    <2>2. \A file : Gone(file) => Gone(file)'
        BY DEF Gone, Unlinked
    <2> QED
        BY <2>1, <2>2 DEF Measured, Mine
<1>6. \A c : Happened(c) => Happened(c)'
    BY DEF Happened, Unlinked
<1>7. ReportsTrue'
    BY <1>6 DEF IInv, ReportsTrue
<1>8. WhatWasRemoved'
    <2>1. \A i \in Id : Unlinked(i)' = Unlinked(i)
        BY DEF Unlinked
    <2> QED
        BY <2>1 DEF IInv, WhatWasRemoved
<1> QED
    BY <1>1, <1>2, <1>3, <1>4, <1>5, <1>6, <1>7, <1>8

\* If it leaves the observations alone as well, nothing is disturbed.
LEMMA SameIInv ==
    ASSUME IInv, now' \in Time, UNCHANGED <<stores, pc, call, report>>
    PROVE  IInv'
<1>1. UNCHANGED <<namespace, files, journal, pc, call, report, unlinks, observations>>
    BY DEF stores
<1>2. ObservationsTrue'
    BY <1>1, CallersKept DEF IInv, ObservationsTrue
<1> QED
    BY <1>1, <1>2, CallersKept DEF IInv

\* The clock may be set to any time.
LEMMA SetClockIInv ==
    ASSUME IInv, NEW t \in Time, SetClock(t)
    PROVE  IInv'
<1>1. now' \in Time /\ UNCHANGED <<stores, pc, call, report>>
    BY DEF SetClock, stores, callerVars
<1> QED
    BY <1>1, SameIInv

\* A file that is created is newer than every measured one.
LEMMA CreateIInv ==
    ASSUME IInv, NEW n \in Name, NEW content \in Content, Create(n, content)
    PROVE  IInv'
<1>1. /\ UNCHANGED <<now, journal, pc, call, report, observations, unlinks>>
      /\ files' = files + 1 /\ files \in Nat /\ namespace[n] = None
      /\ namespace' = [namespace EXCEPT ![n] = [content |-> content, file |-> files']]
    BY DEF Create, IInv, StoreType
<1>2. [content |-> content, file |-> files'] \in Object
    BY <1>1 DEF Object
<1>3. CallType' /\ StoreType' /\ Rows'
    BY <1>1, <1>2 DEF IInv, CallType, StoreType, Rows
<1>4. Files'
    <2> SUFFICES ASSUME NEW m \in Name, namespace'[m] # None PROVE namespace'[m].file <= files'
        BY DEF Files
    <2>1. CASE m = n
        BY <1>1, <2>1 DEF IInv, StoreType
    <2>2. CASE m # n
        <3>1. namespace[m] \in Object /\ namespace[m].file <= files /\ namespace'[m] = namespace[m]
            BY <1>1, <2>2 DEF IInv, StoreType, Files
        <3> QED
            BY <1>1, <3>1 DEF Object
    <2> QED
        BY <2>1, <2>2
<1>5. Owners'
    BY <1>1 DEF IInv, Owners, Owns, Stage, Did, Mine, RowOf
<1>6. Measures'
    <2> SUFFICES ASSUME NEW w \in Caller, pc[w] \in Measuring PROVE Measured(w)'
        BY <1>1 DEF Measures
    <2>1. Measured(w) /\ Mine(w).name \in Name /\ call[w].object.file \in Nat
        BY IdOfTask DEF IInv, Measures, CallType, Measuring, FrameType, Mine, Measured, Object
    <2>2. call[w].object.file <= files' /\ (Gone(call[w].object.file) => Gone(call[w].object.file)')
        BY <1>1, <2>1 DEF Measured, Gone, Unlinked
    <2>3. CASE Mine(w).name = n
        <3>1. namespace'[n].file = files'
            BY <1>1 DEF IInv, StoreType
        <3>2. Gone(call[w].object.file) /\ files' > call[w].object.file
            BY <1>1, <2>1, <2>3 DEF Measured
        <3> QED
            BY <1>1, <2>1, <2>2, <2>3, <3>1, <3>2 DEF Measured, Mine
    <2>4. CASE Mine(w).name # n
        <3>1. namespace'[Mine(w).name] = namespace[Mine(w).name]
            BY <1>1, <2>1, <2>4 DEF IInv, StoreType
        <3> QED
            BY <1>1, <2>1, <2>2, <3>1 DEF Measured, Mine
    <2> QED
        BY <2>3, <2>4
<1>7. ReportsTrue' /\ ObservationsTrue' /\ WhatWasRemoved'
    <2>1. \A c : Happened(c) => Happened(c)'
        BY <1>1 DEF Happened, Unlinked
    <2>2. \A i \in Id : Unlinked(i)' = Unlinked(i)
        BY <1>1 DEF Unlinked
    <2>3. ReportsTrue'
        BY <1>1, <2>1 DEF IInv, ReportsTrue
    <2>4. ObservationsTrue'
        BY <1>1, <2>1 DEF IInv, ObservationsTrue
    <2>5. WhatWasRemoved'
        BY <1>1, <2>2 DEF IInv, WhatWasRemoved
    <2> QED
        BY <2>3, <2>4, <2>5
<1> QED
    BY <1>3, <1>4, <1>5, <1>6, <1>7 DEF IInv

\* An observation links to a completion that some caller holds, so that it happened.
LEMMA ObserveIInv ==
    ASSUME IInv, NEW t \in Task, NEW phase, NEW previous,
           NEW completion \in Completions \cup {None}, Observe(t, phase, previous, completion)
    PROVE  IInv'
<1>1. /\ UNCHANGED <<now, namespace, files, journal, pc, call, report, unlinks>>
      /\ now' \in Time
    BY DEF Observe, callerVars, IInv, StoreType
<1>2. /\ CallType' /\ StoreType' /\ Rows' /\ Files' /\ Owners' /\ Measures'
      /\ ReportsTrue' /\ WhatWasRemoved'
      /\ \A c : Happened(c) => Happened(c)'
    BY <1>1, CallersKept
<1>5. completion # None =>
         Happened(completion) /\ completion.task.id = t.id /\ unlinks[t.id] # <<>>
    <2> SUFFICES ASSUME completion # None
                 PROVE  Happened(completion) /\ completion.task.id = t.id /\ unlinks[t.id] # <<>>
        OBVIOUS
    <2>1. Happened(completion) /\ completion.task.id = t.id
        BY DEF Observe, SameSubject, Completions, IInv, ReportsTrue
    <2>2. Unlinked(t.id) # {}
        BY <2>1 DEF Happened
    <2> QED
        BY <2>1, <2>2 DEF Unlinked
<1>6. ObservationsTrue'
    <2> SUFFICES ASSUME NEW o \in observations', o.completion # None
                 PROVE  (Happened(o.completion) /\ o.completion.task.id = o.task.id /\ o.unlinked)'
        BY DEF ObservationsTrue
    <2>1. CASE o \in observations
        BY <1>2, <2>1 DEF IInv, ObservationsTrue
    <2>2. CASE o \notin observations
        <3>1. o.completion = completion /\ o.task = t /\ o.unlinked = (unlinks[t.id] # <<>>)
            BY <2>2 DEF Observe
        <3>2. completion # None /\ o.unlinked = TRUE
            BY <1>5, <3>1
        <3>3. Happened(completion)'
            BY <1>2, <1>5, <3>2
        <3> QED
            BY <1>5, <3>1, <3>2, <3>3
    <2> QED
        BY <2>1, <2>2
<1> QED
    BY <1>2, <1>6 DEF IInv

\* What a name is bound to is unlinked: by the last check it was authorized, and if it is
\* not what was measured, another request has removed that before.
LEMMA UnlinkIInv ==
    ASSUME IInv, NEW w \in Caller, Unlink(w)
    PROVE  IInv'
<1>0. PICK t, object, u :
          /\ t = Mine(w) /\ object = namespace[t.name]
          /\ u = [task |-> t, at |-> call[w].unlinked,
                  measured |-> call[w].object.file, removed |-> object.file]
    OBVIOUS
<1> DEFINE i == t.id
<1>1. /\ pc[w] = "unlink" /\ pc[w] \in Owning /\ pc[w] \in Measuring
      /\ UNCHANGED <<now, files, journal, observations>> /\ now \in Time
    BY DEF Unlink, Owning, Measuring, IInv, StoreType
<1>2. /\ call[w] \in FrameType /\ t \in Task /\ i \in Id /\ t.name \in Name
      /\ unlinks[i] = <<>> /\ Measured(w) /\ Owns(w) /\ journal[i] # None
      /\ call[w].unlinked \in Time /\ Authorized(t, call[w].unlinked)
    BY <1>0, <1>1, Owned DEF Owns, Stage, IInv, Measures
<1>3. CASE /\ object = None /\ UNCHANGED <<namespace, unlinks>>
           /\ Goto(w, "persist", [call[w] EXCEPT !.result = "OUTCOME_UNKNOWN"])
    <2> DEFINE frame == [call[w] EXCEPT !.result = "OUTCOME_UNKNOWN"]
    <2>1. /\ frame \in FrameType /\ frame.task = call[w].task
          /\ frame.object = call[w].object /\ frame.result = "OUTCOME_UNKNOWN"
        BY <1>2 DEF FrameType, Terminal
    <2> HIDE DEF frame
    <2>2. Goto(w, "persist", frame) /\ UNCHANGED <<now, stores>>
        BY <1>1, <1>3 DEF frame, stores
    <2> QED
        BY <1>1, <2>1, <2>2, OwnerGoto DEF Owning, Measuring, Terminal
<1>4. CASE /\ object # None
           /\ namespace' = [namespace EXCEPT ![t.name] = None]
           /\ unlinks' = [unlinks EXCEPT ![i] = Append(@, u)]
           /\ Goto(w, "confirm", call[w])
    <2>1. object \in Object /\ call[w].object \in Object
        BY <1>0, <1>2, <1>4 DEF IInv, StoreType, Measured
    <2>2. u \in Unlinking
        BY <1>0, <1>2, <2>1 DEF Unlinking, Object
    <2>3. unlinks'[i] = <<u>> /\ \A j \in Id \ {i} : unlinks'[j] = unlinks[j]
        <3>1. unlinks'[i] = Append(<<>>, u)
            BY <1>2, <1>4 DEF IInv, StoreType
        <3> QED
            BY <3>1, <1>4 DEF IInv, StoreType
    <2>4. /\ Unlinked(i) = {} /\ Unlinked(i)' = {u}
          /\ \A j \in Id \ {i} : Unlinked(j)' = Unlinked(j)
        <3>1. Unlinked(i)' = {u}
            BY <2>3 DEF Unlinked
        <3>2. Unlinked(i) = {}
            BY <1>2 DEF Unlinked
        <3>3. \A j \in Id \ {i} : Unlinked(j)' = Unlinked(j)
            BY <2>3 DEF Unlinked
        <3> QED
            BY <3>1, <3>2, <3>3
    <2>5. \A m : Gone(m) => Gone(m)'
        BY <2>4, <1>2 DEF Gone
    <2>6. /\ CallType' /\ pc'[w] = "confirm" /\ call'[w] = call[w] /\ report'[w] = None
          /\ \A v \in Caller \ {w} :
                pc'[v] = pc[v] /\ call'[v] = call[v] /\ report'[v] = report[v]
        BY <1>2, <1>4, GotoType DEF IInv, Step
    <2>7. StoreType'
        <3>1. unlinks' \in [Id -> Seq(Unlinking)]
            BY <1>2, <1>4, <2>2 DEF IInv, StoreType
        <3>2. namespace' \in [Name -> Object \cup {None}]
            BY <1>4 DEF IInv, StoreType
        <3> QED
            BY <1>1, <3>1, <3>2 DEF IInv, StoreType
    <2>8. Owners'
        <3> SUFFICES ASSUME NEW v \in Caller, pc'[v] \in Owning PROVE Owns(v)'
            BY DEF Owners
        <3>1. /\ pc[v] \in Owning /\ call'[v] = call[v] /\ Owns(v) /\ Mine(v).id \in Id
              /\ \A x \in Caller : pc'[x] \in Owning => pc[x] \in Owning /\ call'[x] = call[x]
            BY <1>1, <2>6, Owned
        <3>2. CASE v = w
            <4>1. Did(w)'
                <5>1. unlinks'[call'[w].task.id] = <<u>> /\ call'[w] = call[w] /\ t = call[w].task
                    BY <1>0, <2>3, <2>6 DEF Mine
                <5>2. Len(<<u>>) = 1 /\ <<u>>[1] = u
                    OBVIOUS
                <5>3. u.task = t /\ u.at = call[w].unlinked
                    BY <1>0
                <5> QED
                    BY <5>1, <5>2, <5>3 DEF Did, Mine
            <4> QED
                BY <1>0, <1>1, <2>6, <3>1, <3>2, <4>1 DEF Owns, Stage, Mine, RowOf
        <3>3. CASE v # w
            <4>1. unlinks'[Mine(v).id] = unlinks[Mine(v).id] /\ pc'[v] = pc[v]
                BY <1>0, <1>1, <1>2, <2>3, <2>6, <3>1, <3>3 DEF Owns
            <4>2. Stage(v)'
                BY <3>1, <4>1 DEF Owns, Stage, Did, Mine
            <4> QED
                BY <1>1, <3>1, <4>2 DEF Owns, Mine, RowOf
        <3> QED
            BY <3>2, <3>3
    <2>9. Measures'
        <3> SUFFICES ASSUME NEW v \in Caller, pc'[v] \in Measuring PROVE Measured(v)'
            BY DEF Measures
        <3>1. /\ pc[v] \in Measuring /\ call'[v] = call[v] /\ Measured(v) /\ Mine(v).name \in Name
            BY <2>6, IdOfTask DEF Measuring, IInv, Measures, CallType, FrameType, Mine
        <3>2. CASE Mine(v).name = t.name
            <4>1. namespace'[t.name] = None
                BY <1>2, <1>4 DEF IInv, StoreType
            <4>2. Gone(object.file)'
                BY <1>0, <1>2, <2>4 DEF Gone
            <4>3. Gone(call[v].object.file)'
                BY <1>0, <3>1, <3>2, <4>2, <2>5 DEF Measured
            <4> QED
                BY <1>1, <3>1, <3>2, <4>1, <4>3 DEF Measured, Mine
        <3>3. CASE Mine(v).name # t.name
            <4>1. namespace'[Mine(v).name] = namespace[Mine(v).name]
                BY <1>4, <3>1, <3>3 DEF IInv, StoreType
            <4> QED
                BY <1>1, <2>5, <3>1, <4>1 DEF Measured, Mine
        <3> QED
            BY <3>2, <3>3
    <2>10. Rows' /\ Files'
        <3>1. Rows'
            BY <1>1, <1>2, <2>3 DEF IInv, Rows
        <3>2. Files'
            BY <1>1, <1>2, <1>4 DEF IInv, Files, StoreType
        <3> QED
            BY <3>1, <3>2
    <2>11. \A c : Happened(c) => Happened(c)'
        <3> SUFFICES ASSUME NEW c, Happened(c) PROVE Happened(c)'
            OBVIOUS
        <3>1. c.task.id \in Id /\ c.task.id # i
            BY <2>4, HappenedRow DEF Happened
        <3> QED
            BY <1>1, <2>4, <3>1 DEF Happened
    <2>12. ReportsTrue' /\ ObservationsTrue'
        <3>1. ReportsTrue'
            BY <2>6, <2>11 DEF IInv, ReportsTrue
        <3>2. ObservationsTrue'
            BY <1>1, <2>11 DEF IInv, ObservationsTrue
        <3> QED
            BY <3>1, <3>2
    <2>13. WhatWasRemoved'
        <3>1. u.removed # u.measured =>
                  u.removed > u.measured /\ \E j \in Id \ {i} : \E v \in Unlinked(j) : v.removed = u.measured
            BY <1>0, <1>2, <1>4, <2>4 DEF Measured, Gone
        <3>2. /\ journal[i] # None /\ journal[i].task = u.task /\ Authorized(u.task, u.at)
            BY <1>0, <1>2 DEF Owns, RowOf
        <3> SUFFICES ASSUME NEW k \in Id, NEW x \in Unlinked(k)'
                     PROVE  /\ journal'[k] # None /\ journal'[k].task = x.task
                            /\ Authorized(x.task, x.at)
                            /\ x.removed # x.measured =>
                                 /\ x.removed > x.measured
                                 /\ \E j \in Id \ {k} : \E v \in Unlinked(j)' : v.removed = x.measured
            BY DEF WhatWasRemoved, Authorized, KeyValid
        <3>3. \A j \in Id : Unlinked(j) \subseteq Unlinked(j)'
            BY <2>4
        <3>4. CASE k = i
            BY <1>1, <2>4, <3>1, <3>2, <3>3, <3>4
        <3>5. CASE k # i
            BY <1>1, <2>4, <3>3, <3>5 DEF IInv, WhatWasRemoved
        <3> QED
            BY <3>4, <3>5
    <2> QED
        BY <2>6, <2>7, <2>8, <2>9, <2>10, <2>12, <2>13 DEF IInv
<1> QED
    BY <1>0, <1>3, <1>4 DEF Unlink

\* A result is recorded over the caller's own intent; a confirmation is one of an unlink.
LEMMA PersistIInv ==
    ASSUME IInv, NEW w \in Caller, Persist(w)
    PROVE  IInv'
<1>0. PICK t, result : t = Mine(w) /\ result = call[w].result
    OBVIOUS
<1> DEFINE i == t.id
           row == [task |-> t, state |-> result]
<1>1. /\ pc[w] = "persist" /\ pc[w] \in Owning
      /\ UNCHANGED <<now, namespace, files, observations, unlinks>> /\ now \in Time
    BY DEF Persist, Owning, IInv, StoreType
<1>2. /\ call[w] \in FrameType /\ t \in Task /\ i \in Id
      /\ Owns(w) /\ journal[i] # None /\ result \in Terminal
      /\ result = "LOCAL_UNLINK_CONFIRMED" => Did(w)
    BY <1>0, <1>1, Owned DEF Owns, Stage
<1>3. CASE UNCHANGED journal /\ \E j \in CurrentState(t) : Return(w, call[w], "OUTCOME_UNKNOWN", j)
    <2>1. "OUTCOME_UNKNOWN" \in Answer \ {"LOCAL_UNLINK_CONFIRMED"} /\ CurrentState(t) \subseteq Told
        BY <1>2, CurrentTold DEF Answer, Terminal
    <2> QED
        BY <1>1, <1>2, <1>3, <2>1, QuietReturn DEF stores
<1>4. ASSUME SetRow(t, result), NEW s \in {result, "OUTCOME_UNKNOWN"},
             NEW told \in {result, "UNAVAILABLE"}, Return(w, call[w], s, told)
      PROVE  IInv'
    <2>1. row \in Row /\ row # None /\ journal' = [journal EXCEPT ![i] = row]
        BY <1>2, <1>4 DEF SetRow, Row
    <2>2. StoreType' /\ Files' /\ journal'[i] = row
        BY <1>1, <1>2, <2>1 DEF IInv, StoreType, Files
    <2>3. /\ CallType' /\ pc'[w] = "idle"
          /\ s # "LOCAL_UNLINK_CONFIRMED" => report'[w].completion = None
          /\ s = "LOCAL_UNLINK_CONFIRMED" => report'[w].completion =
               [task |-> t, unlinked |-> call[w].unlinked, at |-> call[w].completed]
          /\ \A v \in Caller \ {w} :
                pc'[v] = pc[v] /\ call'[v] = call[v] /\ report'[v] = report[v]
        <3>1. s \in Answer /\ told \in Told
            BY <1>2 DEF Answer, Told, Terminal
        <3> QED
            BY <1>2, <1>4, <3>1, <1>0, ReturnType DEF IInv, Mine
    <2>4. Owners'
        <3> SUFFICES ASSUME NEW v \in Caller, pc'[v] \in Owning PROVE Owns(v)'
            BY DEF Owners
        <3>1. v # w /\ pc[v] \in Owning /\ call'[v] = call[v] /\ pc'[v] = pc[v]
            BY <2>3 DEF Owning
        <3>2. Owns(v) /\ Mine(v).id \in Id /\ Mine(v).id # i
            BY <1>0, <1>1, <1>2, <3>1, Owned DEF Owns
        <3>3. journal'[Mine(v).id] = journal[Mine(v).id]
            BY <2>1, <3>2 DEF IInv, StoreType
        <3>4. \A x \in Caller : pc'[x] \in Owning => pc[x] \in Owning /\ call'[x] = call[x]
            BY <2>3 DEF Owning
        <3>5. Stage(v)'
            BY <1>1, <3>1, <3>2 DEF Owns, Stage, Did, Mine
        <3> QED
            BY <3>1, <3>2, <3>3, <3>4, <3>5 DEF Owns, Mine, RowOf
    <2>5. Measures'
        BY <2>3, <1>1 DEF IInv, Measures, Measured, Measuring, Mine, Gone, Unlinked
    <2>6. Rows'
        BY <1>1, <2>1 DEF IInv, Rows, StoreType
    <2>7. \A c : Happened(c) => Happened(c)'
        <3> SUFFICES ASSUME NEW c, Happened(c) PROVE Happened(c)'
            OBVIOUS
        <3>1. c.task.id \in Id /\ c.task.id # i
            BY <1>0, <1>2, HappenedRow DEF Happened, Owns, RowOf
        <3> QED
            BY <1>1, <2>1, <3>1 DEF Happened, Unlinked, IInv, StoreType
    <2>8. s = "LOCAL_UNLINK_CONFIRMED" => (Happened(report[w].completion))'
        <3> SUFFICES ASSUME s = "LOCAL_UNLINK_CONFIRMED" PROVE (Happened(report[w].completion))'
            OBVIOUS
        <3> DEFINE c == [task |-> t, unlinked |-> call[w].unlinked, at |-> call[w].completed]
        <3>1. result = "LOCAL_UNLINK_CONFIRMED" /\ Did(w) /\ report'[w].completion = c
            BY <1>2, <2>3
        <3>2. unlinks[i][1] \in Unlinked(i)
            BY <1>0, <1>2, <3>1 DEF Did, Unlinked, IInv, StoreType
        <3>3. \E u \in Unlinked(i)' : u.task = t /\ u.at = call[w].unlinked
            BY <1>0, <1>1, <3>1, <3>2 DEF Did, Unlinked
        <3> QED
            BY <1>2, <2>2, <3>1, <3>3 DEF Happened
    <2>9. ReportsTrue' /\ ObservationsTrue'
        <3>1. ReportsTrue'
            BY <2>3, <2>7, <2>8 DEF IInv, ReportsTrue
        <3>2. ObservationsTrue'
            BY <1>1, <2>7 DEF IInv, ObservationsTrue
        <3> QED
            BY <3>1, <3>2
    <2>10. WhatWasRemoved'
        <3> SUFFICES ASSUME NEW k \in Id, NEW u \in Unlinked(k)'
                     PROVE  /\ journal'[k] # None /\ journal'[k].task = u.task
                            /\ Authorized(u.task, u.at)
                            /\ u.removed # u.measured =>
                                 /\ u.removed > u.measured
                                 /\ \E j \in Id \ {k} : \E v \in Unlinked(j)' : v.removed = u.measured
            BY DEF WhatWasRemoved, Authorized, KeyValid
        <3>1. \A j : Unlinked(j)' = Unlinked(j)
            BY <1>1 DEF Unlinked
        <3>2. journal'[k] # None /\ journal'[k].task = journal[k].task
            BY <1>0, <1>2, <2>1, <2>2, <3>1 DEF IInv, StoreType, WhatWasRemoved, Owns, RowOf
        <3> QED
            BY <3>1, <3>2 DEF IInv, WhatWasRemoved
    <2> QED
        BY <2>2, <2>3, <2>4, <2>5, <2>6, <2>9, <2>10 DEF IInv
<1> QED
    BY <1>0, <1>3, <1>4 DEF Persist

-----------------------------------------------------------------------------
(* Theorems.                                                               *)

\* Every step of callers, of others, of the observer and of the clock keeps the invariant.
LEMMA NextIInv == IInv /\ [Next]_vars => IInv'
<1> SUFFICES ASSUME IInv, [Next]_vars PROVE IInv'
    OBVIOUS
<1>1. CASE \E w \in Caller, t \in Task, a \in BOOLEAN : Delete(w, t, a)
    BY <1>1, DeleteIInv
<1>2. CASE \E w \in Caller : Authorize(w) \/ Measure(w) \/ Resolve(w) \/ Claim(w)
    BY <1>2, AuthorizeIInv, MeasureIInv, ResolveIInv, ClaimIInv
<1>3. CASE \E w \in Caller : Acknowledge(w) \/ FinalCheck(w) \/ Unlink(w)
    BY <1>3, AcknowledgeIInv, FinalCheckIInv, UnlinkIInv
<1>4. CASE \E w \in Caller : Confirm(w) \/ Attest(w) \/ Persist(w) \/ Crash(w)
    BY <1>4, ConfirmIInv, AttestIInv, PersistIInv, CrashIInv
<1>5. CASE \E n \in Name, content \in Content : Create(n, content)
    BY <1>5, CreateIInv
<1>6. CASE \E t \in Task, phase \in {"before", "after"}, previous \in observations \cup {None},
             completion \in Completions \cup {None} : Observe(t, phase, previous, completion)
    BY <1>6, ObserveIInv
<1>7. CASE \E t \in Time : SetClock(t)
    BY <1>7, SetClockIInv
<1>8. CASE UNCHANGED vars
    <2>1. now' \in Time /\ UNCHANGED <<stores, pc, call, report>>
        BY <1>8 DEF vars, stores, callerVars, IInv, StoreType
    <2> QED
        BY <2>1, SameIInv
<1> QED
    BY <1>1, <1>2, <1>3, <1>4, <1>5, <1>6, <1>7, <1>8 DEF Next

\* The inductive invariant of the erasure pilot holds for any callers, tasks and times.
LEMMA Invariance == Spec => []IInv
<1> QED
    BY InitIInv, NextIInv, PTL DEF Spec

\* What an unlink removes was authorized at the last check, and is the measured file or
\* one that took its place after another request removed that.
THEOREM RemovedAsAuthorized == Spec => []WhatWasRemoved
<1>1. IInv => WhatWasRemoved
    BY DEF IInv
<1> QED
    BY <1>1, Invariance, PTL

\* A verified bundle speaks of an observed removal only if this task's unlink was done
\* and recorded, and the empty name was seen after it.
THEOREM ObservedRemovals == Spec => []RemovalObserved
<1>1. IInv => RemovalObserved
    <2> SUFFICES ASSUME IInv, NEW w \in Caller, NEW before \in observations,
                        NEW after \in observations, NEW asOf \in Time,
                        report[w] # None,
                        VerifyBundle(after.task, report[w], before, after, asOf),
                        Local(after.task, report[w], before, after)
                          = "REMOVAL_OBSERVED_SAME_CONTROLLER"
                 PROVE  /\ after.unlinked
                        /\ \E u \in Unlinked(after.task.id) :
                              u.task = after.task /\ u.at = report[w].completion.unlinked
                        /\ journal[after.task.id] =
                             [task |-> after.task, state |-> "LOCAL_UNLINK_CONFIRMED"]
        BY Zenon DEF RemovalObserved
    <2>1. report[w].completion # None /\ after.completion = report[w].completion
        BY DEF Local
    <2>2. Happened(after.completion) /\ after.unlinked
        BY <2>1 DEF IInv, ObservationsTrue
    <2>3. after.completion.task = after.task
        BY <2>1 DEF VerifyBundle, CompletionHolds
    <2> QED
        BY <2>1, <2>2, <2>3 DEF Happened
<1> QED
    BY <1>1, Invariance, PTL

-----------------------------------------------------------------------------
(* What callers are told.                                                  *)

\* What a caller that is answered j about the task t may rely on.
Says(w, t, j) ==
    /\ t \in Task
    /\ j = "NOT_CLAIMED" =>
         journal[t.id] = None \/ (pc[w] = "authorize" /\ ~Authorized(Mine(w), now))
    /\ j \in Terminal => journal'[t.id] # None /\ journal'[t.id].state = j
Tells(w) ==
    report'[w] # report[w] /\ report'[w] # None => Says(w, report'[w].task, report'[w].journal)

\* One call is answered at a time.
LEMMA ReturnTells ==
    ASSUME IInv, NEW w \in Caller, NEW frame \in FrameType, NEW s \in Answer, NEW j \in Told,
           Return(w, frame, s, j), Says(w, frame.task, j)
    PROVE  \A v \in Caller : Tells(v)
<1>1. CallType
    BY DEF IInv
<1>2. /\ report'[w].task = frame.task /\ report'[w].journal = j
      /\ \A v \in Caller \ {w} : report'[v] = report[v]
    BY <1>1, ReturnType, Zenon
<1> QED
    BY <1>2 DEF Tells

\* A call that goes on is not answered yet.
LEMMA GotoTells ==
    ASSUME IInv, NEW w \in Caller, NEW l, NEW frame, Goto(w, l, frame)
    PROVE  \A v \in Caller : Tells(v)
BY DEF IInv, CallType, Goto, Tells

\* What another look at the journal tells may be relied on, and is one of the words.
LEMMA CurrentSays ==
    ASSUME IInv, NEW w \in Caller, NEW t \in Task, NEW j \in CurrentState(t), UNCHANGED journal
    PROVE  Says(w, t, j) /\ j \in Told
<1>1. t.id \in Id /\ j \in Told
    BY IdOfTask, CurrentTold
<1>2. journal[t.id] # None => journal[t.id].state \in Terminal \cup {"deletion_intent"}
    BY <1>1 DEF IInv, StoreType, Row
<1> QED
    BY <1>1, <1>2 DEF CurrentState, Says, Terminal

\* A replay tells the state of the row.
LEMMA ReplaySays ==
    ASSUME IInv, NEW w \in Caller, NEW frame \in FrameType, Replay(w, frame), UNCHANGED journal
    PROVE  \A v \in Caller : Tells(v)
<1>1. PICK row : row = journal[frame.task.id]
    OBVIOUS
<1>2. frame.task \in Task /\ frame.task.id \in Id
    BY IdOfTask DEF FrameType
<1>3. row # None /\ row.state \in Terminal \cup {"deletion_intent"}
    BY <1>1, <1>2 DEF Replay, IInv, StoreType, Row
<1>4. PICK s \in {"REPLAY_NO_ACTION", "REQUEST_ID_CONFLICT"} : Return(w, frame, s, row.state)
    BY <1>1 DEF Replay
<1>5. s \in Answer /\ row.state \in Told
    BY <1>3 DEF Answer, Told
<1>6. Says(w, frame.task, row.state)
    BY <1>1, <1>2, <1>3 DEF Says, Terminal
<1> QED
    BY <1>4, <1>5, <1>6, ReturnTells

\* Every answer is read from the journal in the step that gives it, or comes from an
\* acknowledged record; only a refusal at the clock repeats an earlier look.
LEMMA StepTells ==
    ASSUME IInv, [Next]_vars
    PROVE  \A w \in Caller : Tells(w)
<1>1. /\ "BLOCKED" \in Answer /\ "OUTCOME_UNKNOWN" \in Answer /\ "UNAVAILABLE" \in Told
      /\ "NOT_CLAIMED" \in Told /\ "deletion_intent" \in Told
      /\ Terminal \subseteq Answer \cap Told
      /\ "UNAVAILABLE" \notin Terminal /\ "NOT_CLAIMED" \notin Terminal
      /\ "deletion_intent" \notin Terminal
    BY DEF Answer, Told, Terminal
<1>2. \A w \in Caller, t \in Task : Says(w, t, "UNAVAILABLE") /\ Says(w, t, "deletion_intent")
    BY <1>1 DEF Says
<1>3. \A w \in Caller : pc[w] # "idle" => call[w] \in FrameType /\ Mine(w) \in Task
    BY DEF IInv, CallType, FrameType, Mine
<1>4. ASSUME NEW w \in Caller, NEW t \in Task, NEW a \in BOOLEAN, Delete(w, t, a)
      PROVE  \A v \in Caller : Tells(v)
    <2>1. Frame(t, a) \in FrameType /\ Frame(t, a).task = t /\ UNCHANGED journal
        BY <1>4 DEF Frame, FrameType, MaybeTime, Delete
    <2>2. CASE Replay(w, Frame(t, a))
        BY <2>1, <2>2, ReplaySays
    <2>3. CASE Return(w, Frame(t, a), "BLOCKED", "UNAVAILABLE")
        BY <1>1, <1>2, <2>1, <2>3, ReturnTells
    <2>4. CASE Goto(w, "authorize", Frame(t, a))
        BY <2>4, GotoTells
    <2> QED
        BY <1>4, <2>2, <2>3, <2>4 DEF Delete
<1>5. ASSUME NEW w \in Caller, Authorize(w)
      PROVE  \A v \in Caller : Tells(v)
    <2>1. CASE /\ ~Authorized(Mine(w), now)
               /\ Return(w, call[w], "BLOCKED", "NOT_CLAIMED")
        <3>1. call[w] \in FrameType /\ Says(w, call[w].task, "NOT_CLAIMED")
            BY <1>1, <1>3, <1>5, <2>1 DEF Authorize, Says, Mine
        <3> QED
            BY <1>1, <2>1, <3>1, ReturnTells
    <2>2. CASE Goto(w, "measure", [call[w] EXCEPT !.proposed = now])
        BY <2>2, GotoTells
    <2> QED
        BY <1>5, <2>1, <2>2 DEF Authorize
<1>6. ASSUME NEW w \in Caller, pc[w] # "idle", UNCHANGED journal,
             NEW s \in {"BLOCKED", "OUTCOME_UNKNOWN"}, NEW j \in CurrentState(Mine(w)),
             Return(w, call[w], s, j)
      PROVE  \A v \in Caller : Tells(v)
    <2>1. call[w] \in FrameType /\ Mine(w) \in Task /\ Mine(w) = call[w].task
        BY <1>3, <1>6 DEF Mine
    <2>2. Says(w, call[w].task, j) /\ j \in Told /\ s \in Answer
        BY <1>1, <1>6, <2>1, CurrentSays
    <2> QED
        BY <1>6, <2>1, <2>2, ReturnTells
<1>7. ASSUME NEW w \in Caller, Measure(w)
      PROVE  \A v \in Caller : Tells(v)
    <2>1. pc[w] # "idle" /\ UNCHANGED journal
        BY <1>7 DEF Measure
    <2> QED
        BY <1>6, <1>7, <2>1, GotoTells DEF Measure
<1>8. ASSUME NEW w \in Caller, Resolve(w)
      PROVE  \A v \in Caller : Tells(v)
    <2>1. pc[w] # "idle" /\ UNCHANGED journal /\ call[w] \in FrameType
        BY <1>3, <1>8 DEF Resolve
    <2>2. CASE Replay(w, call[w])
        BY <2>1, <2>2, ReplaySays
    <2>3. CASE RowOf(w) = None /\ Return(w, call[w], "BLOCKED", "NOT_CLAIMED")
        BY <1>6, <2>1, <2>3 DEF CurrentState, RowOf
    <2>4. CASE Return(w, call[w], "BLOCKED", "UNAVAILABLE")
        BY <1>6, <2>1, <2>4 DEF CurrentState
    <2> QED
        BY <1>8, <2>2, <2>3, <2>4 DEF Resolve
<1>9. ASSUME NEW w \in Caller, Claim(w)
      PROVE  \A v \in Caller : Tells(v)
    <2>1. pc[w] # "idle" /\ call[w] \in FrameType /\ Mine(w) \in Task /\ Mine(w) = call[w].task
        BY <1>3, <1>9 DEF Claim, Mine
    <2>2. CASE UNCHANGED journal /\ Replay(w, call[w])
        BY <2>1, <2>2, ReplaySays
    <2>3. CASE UNCHANGED journal
               /\ \E j \in CurrentState(Mine(w)) : Return(w, call[w], "BLOCKED", j)
        BY <1>6, <2>1, <2>3
    <2>4. CASE Goto(w, "acknowledge", call[w])
        BY <2>4, GotoTells
    <2>5. ASSUME NEW j \in {"deletion_intent", "UNAVAILABLE"}, Return(w, call[w], "BLOCKED", j)
          PROVE  \A v \in Caller : Tells(v)
        BY <1>1, <1>2, <2>1, <2>5, ReturnTells
    <2> QED
        BY <1>9, <2>2, <2>3, <2>4, <2>5 DEF Claim
<1>10. ASSUME NEW w \in Caller, Persist(w)
       PROVE  \A v \in Caller : Tells(v)
    <2>0. PICK result : result = call[w].result
        OBVIOUS
    <2>1. /\ pc[w] # "idle" /\ call[w] \in FrameType /\ Mine(w) \in Task /\ Mine(w).id \in Id
          /\ Mine(w) = call[w].task /\ journal[Mine(w).id] # None /\ result \in Terminal
        BY <1>10, <2>0, Owned DEF Persist, Owning, Owns, Stage, Mine
    <2>2. CASE /\ UNCHANGED journal
               /\ \E j \in CurrentState(Mine(w)) : Return(w, call[w], "OUTCOME_UNKNOWN", j)
        BY <1>6, <2>1, <2>2
    <2>3. ASSUME SetRow(Mine(w), result), NEW s \in {result, "OUTCOME_UNKNOWN"},
                 NEW j \in {result, "UNAVAILABLE"}, Return(w, call[w], s, j)
          PROVE  \A v \in Caller : Tells(v)
        <3>1. PICK row : row = [task |-> Mine(w), state |-> result]
            OBVIOUS
        <3>2. row \in Row /\ row # None /\ row.state = result
            BY <2>1, <3>1 DEF Row
        <3>3. journal'[Mine(w).id] = row
            BY <2>1, <2>3, <3>1 DEF SetRow, IInv, StoreType
        <3>4. Says(w, call[w].task, j) /\ s \in Answer /\ j \in Told
            BY <1>1, <2>1, <3>2, <3>3 DEF Says
        <3> QED
            BY <2>1, <2>3, <3>4, ReturnTells
    <2> QED
        BY <1>10, <2>0, <2>2, <2>3 DEF Persist
<1>11. ASSUME NEW w \in Caller,
              Acknowledge(w) \/ FinalCheck(w) \/ Unlink(w) \/ Confirm(w) \/ Attest(w)
       PROVE  \A v \in Caller : Tells(v)
    BY <1>11, GotoTells DEF Acknowledge, FinalCheck, Unlink, Confirm, Attest
<1>12. ASSUME NEW w \in Caller, Crash(w)
       PROVE  \A v \in Caller : Tells(v)
    BY <1>12 DEF Crash, IInv, CallType, Tells
<1>13. CASE UNCHANGED report
    BY <1>13 DEF Tells
<1>14. CASE report' # report
    BY <1>14, <1>4, <1>5, <1>7, <1>8, <1>9, <1>10, <1>11, <1>12
       DEF Next, Create, Observe, SetClock, callerVars, vars
<1> QED
    BY <1>13, <1>14

\* A caller that finds its object gone or fails to claim it is told NOT_CLAIMED only while
\* there is no row of its request; a row that another caller made may be passed over only
\* when the task is refused at the clock.
THEOREM ClaimedTold == Spec => ClaimedIsTold
<1> DEFINE Right(w) ==
        /\ report'[w] # report[w] /\ report'[w] # None
        /\ report'[w].journal = "NOT_CLAIMED"
        => \/ journal[report'[w].task.id] = None
           \/ pc[w] = "authorize" /\ ~Authorized(Mine(w), now)
<1>1. IInv /\ [Next]_vars => \A w \in Caller : Right(w)
    BY StepTells DEF Tells, Says
<1> QED
    BY <1>1, Invariance, PTL DEF Spec, ClaimedIsTold, vars

\* The journal changes with a claim or a recorded result only, and unlinks with an unlink.
LEMMA WritingSteps ==
    ASSUME [Next]_vars
    PROVE  UNCHANGED <<journal, unlinks>> \/ \E w \in Caller :
              (Claim(w) /\ journal' # journal) \/ (Unlink(w) /\ unlinks' # unlinks)
              \/ (Persist(w) /\ journal' # journal)
<1>1. ASSUME NEW w \in Caller,
             \/ \E t \in Task, a \in BOOLEAN : Delete(w, t, a)
             \/ Authorize(w) \/ Measure(w) \/ Resolve(w) \/ Acknowledge(w)
             \/ FinalCheck(w) \/ Confirm(w) \/ Attest(w) \/ Crash(w)
      PROVE  UNCHANGED <<journal, unlinks>>
    BY <1>1 DEF Delete, Authorize, Measure, Resolve, Acknowledge, FinalCheck,
           Confirm, Attest, Crash
<1>2. ASSUME NEW w \in Caller, Claim(w) \/ Persist(w)
      PROVE  unlinks' = unlinks
    BY <1>2 DEF Claim, Persist
<1>3. ASSUME NEW w \in Caller, Unlink(w)
      PROVE  journal' = journal
    BY <1>3 DEF Unlink
<1>4. ASSUME \/ \E n \in Name, content \in Content : Create(n, content)
             \/ \E t \in Task, phase \in {"before", "after"},
                   previous \in observations \cup {None},
                   completion \in Completions \cup {None} :
                      Observe(t, phase, previous, completion)
             \/ \E t \in Time : SetClock(t)
             \/ UNCHANGED vars
      PROVE  UNCHANGED <<journal, unlinks>>
    BY <1>4 DEF Create, Observe, SetClock, vars
<1> QED
    BY <1>1, <1>2, <1>3, <1>4 DEF Next

\* An outcome that is recorded stays.
LEMMA OutcomeStays ==
    ASSUME IInv, [Next]_vars, NEW i \in Id, journal[i] # None, journal[i].state \in Terminal
    PROVE  journal'[i] = journal[i]
<1>1. ASSUME NEW w \in Caller, pc[w] # "idle", NEW state, SetRow(Mine(w), state),
             journal[Mine(w).id] = None \/ journal[Mine(w).id].state = "deletion_intent"
      PROVE  journal'[i] = journal[i]
    <2>1. Mine(w).id \in Id
        BY <1>1, IdOfTask DEF IInv, CallType, FrameType, Mine
    <2>2. Mine(w).id # i
        BY <1>1 DEF Terminal
    <2> QED
        BY <1>1, <2>1, <2>2 DEF SetRow, IInv, StoreType
<1>2. ASSUME NEW w \in Caller, Claim(w), journal' # journal PROVE journal'[i] = journal[i]
    BY <1>1, <1>2 DEF Claim, RowOf
<1>3. ASSUME NEW w \in Caller, Persist(w), journal' # journal PROVE journal'[i] = journal[i]
    BY <1>1, <1>3 DEF Persist, RowOf
<1>4. ASSUME NEW w \in Caller, Unlink(w) PROVE journal'[i] = journal[i]
    BY <1>4 DEF Unlink
<1> QED
    BY <1>2, <1>3, <1>4, WritingSteps

\* Whatever is lost on the way, an outcome that a caller is told to be recorded is what the
\* journal says from then on: it is told after its record was acknowledged or read.
THEOREM ToldKept == Spec => []ToldIsKept
<1>1. Init => ToldIsKept
    BY DEF Init, ToldIsKept
<1>2. IInv /\ ToldIsKept /\ [Next]_vars => ToldIsKept'
    <2> SUFFICES ASSUME IInv, ToldIsKept, [Next]_vars, NEW w \in Caller,
                        report'[w] # None, report'[w].journal \in Terminal
                 PROVE  /\ journal'[report'[w].task.id] # None
                        /\ journal'[report'[w].task.id].state = report'[w].journal
        BY DEF ToldIsKept
    <2>1. CASE report'[w] = report[w]
        <3>1. PICK i : i = report[w].task.id
            OBVIOUS
        <3>2. i \in Id
            BY <2>1, <3>1, IdOfTask DEF IInv, CallType, Reports
        <3>3. journal[i] # None /\ journal[i].state = report[w].journal
            BY <2>1, <3>1 DEF ToldIsKept
        <3> QED
            BY <2>1, <3>1, <3>2, <3>3, OutcomeStays
    <2>2. CASE report'[w] # report[w]
        BY <2>2, StepTells DEF Tells, Says
    <2> QED
        BY <2>1, <2>2
<1> QED
    BY <1>1, <1>2, Invariance, PTL DEF Spec

\* What OneEffect sees of the journal.
Intents == [i \in Id |-> IF journal[i] = None THEN None ELSE journal[i].task]
Effects == [i \in Id |-> Len(unlinks[i])]
Outcomes == [i \in Id |-> OutcomeOf(journal[i])]

\* Of a row, OneEffect sees the task and what its state means.
LEMMA RowSeen ==
    ASSUME StoreType, NEW i \in Id, NEW row \in Row, journal' = [journal EXCEPT ![i] = row]
    PROVE  /\ row # None
           /\ Intents' = [Intents EXCEPT ![i] = row.task]
           /\ Outcomes' = [Outcomes EXCEPT ![i] = OutcomeOf(row)]
<1>1. row # None /\ journal'[i] = row /\ \A j \in Id \ {i} : journal'[j] = journal[j]
    BY DEF StoreType
<1>2. Intents' = [Intents EXCEPT ![i] = row.task]
    <2>1. \A j \in Id : (IF journal'[j] = None THEN None ELSE journal'[j].task)
                        = [Intents EXCEPT ![i] = row.task][j]
        BY <1>1 DEF Intents
    <2> QED
        BY <2>1 DEF Intents
<1>3. Outcomes' = [Outcomes EXCEPT ![i] = OutcomeOf(row)]
    <2>1. \A j \in Id : OutcomeOf(journal'[j]) = [Outcomes EXCEPT ![i] = OutcomeOf(row)][j]
        BY <1>1 DEF Outcomes
    <2>2. Outcomes' = [j \in Id |-> OutcomeOf(journal'[j])]
        BY DEF Outcomes, OutcomeOf
    <2>3. [Outcomes EXCEPT ![i] = OutcomeOf(row)] =
          [j \in Id |-> [Outcomes EXCEPT ![i] = OutcomeOf(row)][j]]
        BY DEF Outcomes
    <2> QED
        BY <2>1, <2>2, <2>3
<1> QED
    BY <1>1, <1>2, <1>3

\* What a state means.
LEMMA Meaning ==
    ASSUME NEW row \in Row
    PROVE  /\ row.state = "deletion_intent" => OutcomeOf(row) = None
           /\ row.state \in Terminal => OutcomeOf(row) \in {"blocked", "confirmed", "unknown"}
           /\ OutcomeOf(row) = "blocked" => row.state \in {"BLOCKED", "ACKNOWLEDGED_ONLY"}
           /\ OutcomeOf(row) = "confirmed" => row.state = "LOCAL_UNLINK_CONFIRMED"
BY DEF OutcomeOf, Row, Terminal

\* The steps that OneEffect sees are the claim, the unlink and the recording of a result.
LEMMA AbstractStep ==
    ASSUME IInv, [Next]_vars
    PROVE  [Abstract!Next]_(Abstract!vars)
<1>0. /\ Len(<<>>) = 0
      /\ \A i \in Id : /\ Intents[i] = IF journal[i] = None THEN None ELSE journal[i].task
                       /\ Effects[i] = Len(unlinks[i])
                       /\ Outcomes[i] = OutcomeOf(journal[i])
    BY DEF Intents, Effects, Outcomes
<1>1. CASE UNCHANGED <<journal, unlinks>>
    BY <1>1 DEF Abstract!vars, OutcomeOf
<1>2. ASSUME NEW w \in Caller, Claim(w), journal' # journal
      PROVE  Abstract!Next
    <2>0. PICK t, row : t = Mine(w) /\ row = [task |-> t, state |-> "deletion_intent"]
        OBVIOUS
    <2>1. /\ t \in Task /\ t.id \in Id /\ journal[t.id] = None /\ UNCHANGED unlinks
          /\ journal' = [journal EXCEPT ![t.id] = row]
        BY <1>2, <2>0, IdOfTask DEF Claim, SetRow, RowOf, IInv, CallType, FrameType, Mine
    <2>2. row \in Row /\ row.task = t /\ row.state = "deletion_intent"
        BY <2>0, <2>1 DEF Row
    <2>3. Intents' = [Intents EXCEPT ![t.id] = t] /\ UNCHANGED Effects
        BY <2>1, <2>2, RowSeen DEF Effects, IInv
    <2>4. UNCHANGED Outcomes
        <3>1. Outcomes' = [Outcomes EXCEPT ![t.id] = None]
            <4>1. OutcomeOf(row) = None
                BY <2>2, Meaning
            <4>2. Outcomes' = [Outcomes EXCEPT ![t.id] = OutcomeOf(row)]
                BY <2>1, <2>2, RowSeen DEF IInv
            <4> QED
                BY <4>1, <4>2
        <3>2. Outcomes[t.id] = None
            BY <1>0, <2>1 DEF OutcomeOf
        <3> QED
            BY <2>1, <3>1, <3>2 DEF Outcomes
    <2>5. Abstract!Commit(t.id, t)
        BY <1>0, <2>1, <2>3, <2>4 DEF Abstract!Commit, Intents, Effects, Outcomes
    <2> QED
        BY <2>1, <2>5 DEF Abstract!Next
<1>3. ASSUME NEW w \in Caller, Unlink(w), unlinks' # unlinks
      PROVE  Abstract!Next
    <2>0. PICK t, u : t = Mine(w) /\ UNCHANGED journal
                      /\ unlinks' = [unlinks EXCEPT ![t.id] = Append(@, u)]
        BY <1>3 DEF Unlink
    <2>1. pc[w] = "unlink" /\ pc[w] \in Owning
        BY <1>3 DEF Unlink, Owning
    <2>2. /\ t \in Task /\ t.id \in Id /\ unlinks[t.id] = <<>> /\ journal[t.id] # None
          /\ journal[t.id] = [task |-> t, state |-> "deletion_intent"]
        BY <2>0, <2>1, Owned DEF Owns, Stage, RowOf
    <2>3. Effects[t.id] = 0 /\ Effects' = [Effects EXCEPT ![t.id] = 1]
        <3>1. unlinks'[t.id] = Append(<<>>, u) /\ Append(<<>>, u) = <<u>>
            BY <2>0, <2>2 DEF IInv, StoreType
        <3>2. Len(<<u>>) = 1
            OBVIOUS
        <3>3. \A i \in Id \ {t.id} : unlinks'[i] = unlinks[i]
            BY <2>0 DEF IInv, StoreType
        <3>4. \A i \in Id : Len(unlinks'[i]) = [Effects EXCEPT ![t.id] = 1][i]
            BY <2>2, <3>1, <3>2, <3>3 DEF Effects
        <3>5. Effects' = [i \in Id |-> Len(unlinks'[i])]
            BY DEF Effects
        <3>6. [Effects EXCEPT ![t.id] = 1] = [i \in Id |-> [Effects EXCEPT ![t.id] = 1][i]]
            BY DEF Effects
        <3>7. Effects' = [Effects EXCEPT ![t.id] = 1]
            BY <3>4, <3>5, <3>6
        <3> QED
            BY <1>0, <2>2, <3>7
    <2>4. Intents[t.id] # None /\ Outcomes[t.id] = None
        BY <1>0, <2>2 DEF OutcomeOf
    <2>5. UNCHANGED <<Intents, Outcomes>>
        BY <2>0 DEF Intents, Outcomes, OutcomeOf
    <2>6. Abstract!Effect(t.id)
        BY <2>3, <2>4, <2>5 DEF Abstract!Effect, Intents, Effects, Outcomes
    <2> QED
        BY <2>2, <2>6 DEF Abstract!Next
<1>4. ASSUME NEW w \in Caller, Persist(w), journal' # journal
      PROVE  Abstract!Next
    <2>0. PICK t, row : t = Mine(w) /\ row = [task |-> t, state |-> call[w].result]
        OBVIOUS
    <2>1. pc[w] = "persist" /\ pc[w] \in Owning
        BY <1>4 DEF Persist, Owning
    <2>2. /\ t \in Task /\ t.id \in Id /\ journal[t.id] # None /\ Stage(w)
          /\ journal[t.id] = [task |-> t, state |-> "deletion_intent"]
        BY <2>0, <2>1, Owned DEF Owns, RowOf
    <2>3. /\ row \in Row /\ row.task = t /\ row.state \in Terminal
          /\ row.state \in {"BLOCKED", "ACKNOWLEDGED_ONLY"} => unlinks[t.id] = <<>>
          /\ row.state = "LOCAL_UNLINK_CONFIRMED" => Len(unlinks[t.id]) = 1
        BY <2>0, <2>1, <2>2 DEF Stage, Did, Row
    <2>4. journal' = [journal EXCEPT ![t.id] = row] /\ UNCHANGED unlinks
        BY <1>4, <2>0 DEF Persist, SetRow
    <2>5. PICK o \in {"blocked", "confirmed", "unknown"} : o = OutcomeOf(row)
        BY <2>3, Meaning
    <2>6. Intents' = [Intents EXCEPT ![t.id] = t] /\ Outcomes' = [Outcomes EXCEPT ![t.id] = o]
        BY <2>2, <2>3, <2>4, <2>5, RowSeen DEF IInv
    <2>7. /\ o = "blocked" => Effects[t.id] = 0
          /\ o = "confirmed" => Effects[t.id] = 1
        BY <1>0, <2>2, <2>3, <2>5, Meaning
    <2>8. Intents[t.id] = t /\ t # None /\ Outcomes[t.id] = None
        <3>1. OutcomeOf(journal[t.id]) = None /\ journal[t.id].task = t
            BY <2>2 DEF OutcomeOf
        <3> QED
            BY <1>0, <2>2, <3>1
    <2>9. UNCHANGED <<Intents, Effects>>
        BY <2>4, <2>6, <2>8 DEF Intents, Effects
    <2>10. Abstract!Conclude(t.id, o)
        BY <2>6, <2>7, <2>8, <2>9 DEF Abstract!Conclude, Intents, Effects, Outcomes
    <2> QED
        BY <2>2, <2>5, <2>10 DEF Abstract!Next
<1>5. UNCHANGED <<journal, unlinks>> \/ \E w \in Caller :
         (Claim(w) /\ journal' # journal) \/ (Unlink(w) /\ unlinks' # unlinks)
         \/ (Persist(w) /\ journal' # journal)
    BY WritingSteps
<1> QED
    BY <1>1, <1>2, <1>3, <1>4, <1>5

\* Across callers, crashes and lost acknowledgements, a request unlinks at most once,
\* between its intent and its outcome, and never when its outcome is "blocked".
THEOREM OneUnlink == Spec => Implements
<1>1. Init => Abstract!Init
    <2>1. Len(<<>>) = 0
        OBVIOUS
    <2> QED
        BY <2>1 DEF Init, Abstract!Init, OutcomeOf
<1>2. IInv /\ [Next]_vars => [Abstract!Next]_(Abstract!vars)
    BY AbstractStep
<1> QED
    BY <1>1, <1>2, Invariance, PTL DEF Spec, Implements, Abstract!Spec

=============================================================================
