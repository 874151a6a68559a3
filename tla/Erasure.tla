------------------------------- MODULE Erasure -------------------------------
(***************************************************************************)
(* The erasure pilot: a provider that unlinks one authorized object of a    *)
(* local namespace, once per request, an observer that reads the namespace, *)
(* and the verifier of the evidence both leave                             *)
(* (incident-erasure-pilot/erasure_pilot: provider.py, observer.py,         *)
(* adapter.py).                                                            *)
(*                                                                         *)
(* A task is [id, name, content, from, until]: a signed request for an      *)
(* object (its name is made of provider, tenant, object and version, not of *)
(* its content) and an authorization for the time from up to until.  An     *)
(* object is [content, file]; file stands for the identity that stat        *)
(* reports, and is never used twice.  Callers may share the provider's root.*)
(* One action is one look at the journal or the namespace, or one clock     *)
(* reading, with two exceptions.  The final check is one action: a file is   *)
(* never used twice, so the file its last stat finds was also there at its   *)
(* last clock reading.  And an observation window is one instant.           *)
(***************************************************************************)
EXTENDS Integers, Sequences, FiniteSets

CONSTANTS
    Caller,
    Task,
    Time,
    KeyFrom, KeyUntil,   \* the validity of the pinned keys
    MaxFile,             \* bound: objects ever created
    MaxObservations,     \* bound: observations ever signed
    None

ASSUME TimeAssumption == Time \subseteq Int /\ {KeyFrom, KeyUntil} \subseteq Int
ASSUME TaskAssumption == \A t \in Task : t.from \in Int /\ t.until \in Int

Id == {t.id : t \in Task}
Name == {t.name : t \in Task}
Content == {t.content : t \in Task}
Terminal == {"LOCAL_UNLINK_CONFIRMED", "ACKNOWLEDGED_ONLY", "BLOCKED", "OUTCOME_UNKNOWN"}
Row == [task : Task, state : Terminal \cup {"deletion_intent"}]
ASSUME NoneAssumption == None \notin Task \cup Row \cup {"blocked", "confirmed", "unknown"}

VARIABLES
    now,              \* the wall clock of the host
    namespace,        \* per name: None or the object
    files,            \* how many objects were created so far
    journal,          \* erasure_journal: per id, None or [task, state]
    pc, call,         \* per caller: the step of delete, and its frame
    report,           \* per caller: the result of its last delete; None
    observations,     \* every observation the observer signed
    unlinks           \* observation only: per id, the unlinks made so far

callerVars == <<pc, call, report>>
vars == <<now, namespace, files, journal, callerVars, observations, unlinks>>

Init ==
    /\ now \in Time
    /\ namespace = [n \in Name |-> None]
    /\ files = 0
    /\ journal = [i \in Id |-> None]
    /\ pc = [w \in Caller |-> "idle"]
    /\ call = [w \in Caller |-> None]
    /\ report = [w \in Caller |-> None]
    /\ observations = {}
    /\ unlinks = [i \in Id |-> <<>>]

-----------------------------------------------------------------------------
(* Authorization, and the steps of a call.                                 *)

KeyValid(at) == KeyFrom <= at /\ at < KeyUntil

\* validate_task, on the times.
Authorized(t, at) == t.from <= at /\ at < t.until /\ KeyValid(at)

Frame(t, acknowledgeOnly) ==
    [task |-> t, acknowledgeOnly |-> acknowledgeOnly, proposed |-> None, object |-> None,
     acknowledged |-> None, unlinked |-> None, attempted |-> FALSE, result |-> None,
     completed |-> None]

Mine(w) == call[w].task
RowOf(w) == journal[Mine(w).id]
SetRow(t, s) == journal' = [journal EXCEPT ![t.id] = [task |-> t, state |-> s]]

\* The file is the one that was measured, and what the task authorizes.
AsBound(t, object) == object # None /\ object.content = t.content

Goto(w, l, frame) ==
    /\ pc' = [pc EXCEPT ![w] = l]
    /\ call' = [call EXCEPT ![w] = frame]
    /\ report' = [report EXCEPT ![w] = None]

\* The attestation and the receipt go out with a confirmation only.
Return(w, frame, state, inJournal) ==
    /\ pc' = [pc EXCEPT ![w] = "idle"]
    /\ call' = [call EXCEPT ![w] = None]
    /\ report' = [report EXCEPT ![w] =
         [task |-> frame.task, state |-> state, attempted |-> frame.attempted,
          journal |-> inJournal, acknowledged |-> frame.acknowledged,
          completion |-> IF state = "LOCAL_UNLINK_CONFIRMED"
                         THEN [task |-> frame.task, unlinked |-> frame.unlinked,
                               at |-> frame.completed]
                         ELSE None]]

\* _current_state: what another look at the journal tells.
CurrentState(t) ==
    {IF journal[t.id] = None THEN "NOT_CLAIMED" ELSE journal[t.id].state, "UNAVAILABLE"}

\* A row under the id: the task is not carried out again, another one is refused.
Replay(w, frame) ==
    LET row == journal[frame.task.id] IN
    /\ row # None
    /\ Return(w, frame, IF row.task = frame.task THEN "REPLAY_NO_ACTION"
                        ELSE "REQUEST_ID_CONFLICT", row.state)

\* delete, up to its first look at the journal, which may be unavailable.
Delete(w, t, acknowledgeOnly) ==
    LET frame == Frame(t, acknowledgeOnly) IN
    /\ pc[w] = "idle"
    /\ \/ Replay(w, frame)
       \/ Return(w, frame, "BLOCKED", "UNAVAILABLE")
       \/ journal[t.id] = None /\ Goto(w, "authorize", frame)
    /\ UNCHANGED <<now, namespace, files, journal, observations, unlinks>>

\* The authorization at the clock.  Who is refused here is told what that look found.
Authorize(w) ==
    /\ pc[w] = "authorize"
    /\ IF Authorized(Mine(w), now) THEN Goto(w, "measure", [call[w] EXCEPT !.proposed = now])
       ELSE Return(w, call[w], "BLOCKED", "NOT_CLAIMED")
    /\ UNCHANGED <<now, namespace, files, journal, observations, unlinks>>

\* _measure, before the claim; it may fail, and the directory may not open at all.
Measure(w) ==
    LET object == namespace[Mine(w).name] IN
    /\ pc[w] = "measure"
    /\ \/ AsBound(Mine(w), object) /\ Goto(w, "claim", [call[w] EXCEPT !.object = object])
       \/ Goto(w, "resolve", call[w])
       \/ \E s \in CurrentState(Mine(w)) : Return(w, call[w], "BLOCKED", s)
    /\ UNCHANGED <<now, namespace, files, journal, observations, unlinks>>

\* MUTANT: an object that is not there is reported without another look at the journal.
ResolveBlocked(w) ==
    /\ pc[w] = "resolve"
    /\ Return(w, call[w], "BLOCKED", "NOT_CLAIMED")
    /\ UNCHANGED <<now, namespace, files, journal, observations, unlinks>>

\* The object is not as bound: another caller may have claimed this request since.
Resolve(w) ==
    /\ pc[w] = "resolve"
    /\ \/ Replay(w, call[w])
       \/ RowOf(w) = None /\ Return(w, call[w], "BLOCKED", "NOT_CLAIMED")
       \/ Return(w, call[w], "BLOCKED", "UNAVAILABLE")
    /\ UNCHANGED <<now, namespace, files, journal, observations, unlinks>>

\* MUTANT: an intent that another caller left behind is carried out.
ClaimResumes(w) ==
    /\ pc[w] = "claim"
    /\ \/ RowOf(w) # None /\ RowOf(w).state # "deletion_intent" /\ Replay(w, call[w])
              /\ UNCHANGED journal
       \/ RowOf(w) \in {None, [task |-> Mine(w), state |-> "deletion_intent"]}
              /\ SetRow(Mine(w), "deletion_intent") /\ Goto(w, "acknowledge", call[w])
    /\ UNCHANGED <<now, namespace, files, observations, unlinks>>

\* _claim: one transaction; only its acknowledgement gives the right to unlink.
Claim(w) ==
    /\ pc[w] = "claim"
    /\ \/ Replay(w, call[w]) /\ UNCHANGED journal
       \/ /\ \E s \in CurrentState(Mine(w)) : Return(w, call[w], "BLOCKED", s)
          /\ UNCHANGED journal
       \/ /\ RowOf(w) = None /\ SetRow(Mine(w), "deletion_intent")
          /\ \/ Goto(w, "acknowledge", call[w])
             \/ \E s \in {"deletion_intent", "UNAVAILABLE"} : Return(w, call[w], "BLOCKED", s)
    /\ UNCHANGED <<now, namespace, files, observations, unlinks>>

\* The signed acknowledgement, at a clock that did not go back; a task may end here.
Acknowledge(w) ==
    LET acknowledged == [call[w] EXCEPT !.acknowledged = now] IN
    /\ pc[w] = "acknowledge"
    /\ IF call[w].proposed <= now /\ KeyValid(now)
       THEN IF call[w].acknowledgeOnly
            THEN Goto(w, "persist", [acknowledged EXCEPT !.result = "ACKNOWLEDGED_ONLY"])
            ELSE \/ Goto(w, "final", acknowledged)
                 \/ Goto(w, "persist", [acknowledged EXCEPT !.result = "OUTCOME_UNKNOWN"])
       ELSE Goto(w, "persist", [call[w] EXCEPT !.result = "OUTCOME_UNKNOWN"])
    /\ UNCHANGED <<now, namespace, files, journal, observations, unlinks>>

\* MUTANT: the authorization found at the start is not asked again.
FinalCheckStale(w) ==
    LET object == namespace[Mine(w).name] IN
    /\ pc[w] = "final"
    /\ IF AsBound(Mine(w), object) /\ object = call[w].object
       THEN Goto(w, "unlink", [call[w] EXCEPT !.unlinked = now, !.attempted = TRUE])
       ELSE Goto(w, "persist", [call[w] EXCEPT !.result = "BLOCKED"])
    /\ UNCHANGED <<now, namespace, files, journal, observations, unlinks>>

\* The authorization and the object once more: the same file, with the same content.
FinalCheck(w) ==
    LET object == namespace[Mine(w).name] IN
    /\ pc[w] = "final"
    /\ \/ /\ call[w].acknowledged <= now /\ Authorized(Mine(w), now)
          /\ AsBound(Mine(w), object) /\ object = call[w].object
          /\ Goto(w, "unlink", [call[w] EXCEPT !.unlinked = now, !.attempted = TRUE])
       \/ Goto(w, "persist", [call[w] EXCEPT !.result = "BLOCKED"])
    /\ UNCHANGED <<now, namespace, files, journal, observations, unlinks>>

\* os.unlink removes what the name is bound to by now.
Unlink(w) ==
    LET t == Mine(w)
        object == namespace[t.name] IN
    /\ pc[w] = "unlink"
    /\ IF object # None
       THEN /\ namespace' = [namespace EXCEPT ![t.name] = None]
            /\ unlinks' = [unlinks EXCEPT ![t.id] =
                 Append(@, [task |-> t, at |-> call[w].unlinked,
                            measured |-> call[w].object.file, removed |-> object.file])]
            /\ Goto(w, "confirm", call[w])
       ELSE /\ UNCHANGED <<namespace, unlinks>>
            /\ Goto(w, "persist", [call[w] EXCEPT !.result = "OUTCOME_UNKNOWN"])
    /\ UNCHANGED <<now, files, journal, observations>>

\* The flush, and the look at the empty name.
Confirm(w) ==
    /\ pc[w] = "confirm"
    /\ \/ namespace[Mine(w).name] = None /\ Goto(w, "attest", call[w])
       \/ Goto(w, "persist", [call[w] EXCEPT !.result = "OUTCOME_UNKNOWN"])
    /\ UNCHANGED <<now, namespace, files, journal, observations, unlinks>>

\* The receipt and the attestation, at a clock that did not go back.
Attest(w) ==
    /\ pc[w] = "attest"
    /\ \/ /\ call[w].unlinked <= now /\ KeyValid(now)
          /\ Goto(w, "persist", [call[w] EXCEPT !.completed = now,
                                                !.result = "LOCAL_UNLINK_CONFIRMED"])
       \/ Goto(w, "persist", [call[w] EXCEPT !.result = "OUTCOME_UNKNOWN"])
    /\ UNCHANGED <<now, namespace, files, journal, observations, unlinks>>

\* MUTANT: the state that was to be recorded is told although it was not.
PersistForgets(w) ==
    LET result == call[w].result IN
    /\ pc[w] = "persist"
    /\ \/ RowOf(w).state = "deletion_intent" /\ SetRow(Mine(w), result)
       \/ UNCHANGED journal
    /\ \E s \in {result, "OUTCOME_UNKNOWN"} : Return(w, call[w], s, result)
    /\ UNCHANGED <<now, namespace, files, observations, unlinks>>

\* _persist and _finish: recorded over an intent only; what is not acknowledged as
\* recorded is unknown, its evidence is not handed out, and the journal is asked again.
Persist(w) ==
    LET result == call[w].result IN
    /\ pc[w] = "persist"
    /\ \/ /\ RowOf(w).state = "deletion_intent" /\ SetRow(Mine(w), result)
          /\ \/ Return(w, call[w], result, result)
             \/ \E s \in {result, "UNAVAILABLE"} : Return(w, call[w], "OUTCOME_UNKNOWN", s)
       \/ /\ UNCHANGED journal
          /\ \E s \in CurrentState(Mine(w)) : Return(w, call[w], "OUTCOME_UNKNOWN", s)
    /\ UNCHANGED <<now, namespace, files, observations, unlinks>>

\* The process dies at any step of a delete.
Crash(w) ==
    /\ pc[w] # "idle"
    /\ pc' = [pc EXCEPT ![w] = "idle"]
    /\ call' = [call EXCEPT ![w] = None]
    /\ report' = [report EXCEPT ![w] = None]
    /\ UNCHANGED <<now, namespace, files, journal, observations, unlinks>>

\* create: a new file, under a name that is free (again).
Create(n, content) ==
    /\ files < MaxFile
    /\ namespace[n] = None
    /\ files' = files + 1
    /\ namespace' = [namespace EXCEPT ![n] = [content |-> content, file |-> files']]
    /\ UNCHANGED <<now, journal, callerVars, observations, unlinks>>

-----------------------------------------------------------------------------
(* The observer.                                                           *)

Completions == {report[w].completion : w \in {v \in Caller : report[v] # None}}

\* The core record of a completion binds the subject, not the times of the task.
SameSubject(t, u) == t.id = u.id /\ t.name = u.name /\ t.content = u.content

\* observe: what it links to must be of the same task, a completion of the same subject,
\* and not later than its clock.
\* unlinked is not part of the message: it says whether the task had unlinked by then.
Observe(t, phase, previous, completion) ==
    LET content == IF namespace[t.name] = None THEN None ELSE namespace[t.name].content IN
    /\ phase = "before" => previous = None /\ completion = None
    /\ previous # None => previous.phase = "before" /\ previous.task = t
                          /\ previous.at <= now
    /\ completion # None => SameSubject(completion.task, t) /\ completion.at <= now
    /\ t.from <= now /\ KeyValid(now)
    /\ Cardinality(observations) < MaxObservations
    /\ observations' = observations \cup
         {[task |-> t, phase |-> phase, at |-> now, previous |-> previous,
           completion |-> completion, content |-> content,
           unlinked |-> unlinks[t.id] # <<>>]}
    /\ UNCHANGED <<now, namespace, files, journal, callerVars, unlinks>>

SetClock(t) ==
    /\ now' = t
    /\ UNCHANGED <<namespace, files, journal, callerVars, observations, unlinks>>

Next ==
    \/ \E w \in Caller, t \in Task, acknowledgeOnly \in BOOLEAN : Delete(w, t, acknowledgeOnly)
    \/ \E w \in Caller :
         \/ Authorize(w) \/ Measure(w) \/ Resolve(w) \/ Claim(w) \/ Acknowledge(w)
         \/ FinalCheck(w) \/ Unlink(w) \/ Confirm(w) \/ Attest(w) \/ Persist(w) \/ Crash(w)
    \/ \E n \in Name, content \in Content : Create(n, content)
    \/ \E t \in Task, phase \in {"before", "after"}, previous \in observations \cup {None},
          completion \in Completions \cup {None} : Observe(t, phase, previous, completion)
    \/ \E t \in Time : SetClock(t)

Spec == Init /\ [][Next]_vars

-----------------------------------------------------------------------------
(* verify_bundle: a result and two observations, put together by anybody.   *)

\* _provider_result, on a result that hands out a completion.
CompletionHolds(r, asOf) ==
    LET c == r.completion IN
    /\ r.state = "LOCAL_UNLINK_CONFIRMED" /\ r.attempted /\ r.journal = r.state
    /\ c.task = r.task
    /\ r.acknowledged <= c.unlinked /\ c.unlinked <= c.at /\ c.at <= asOf
    /\ Authorized(c.task, c.unlinked) /\ KeyValid(c.at)

\* _observation
ObservationHolds(o, phase, t, asOf) ==
    /\ o.phase = phase /\ o.task = t
    /\ t.from <= o.at /\ o.at <= asOf /\ KeyValid(o.at)

VerifyBundle(t, r, before, after, asOf) ==
    /\ r # None => r.task = t /\ (r.completion # None => CompletionHolds(r, asOf))
    /\ before # None => ObservationHolds(before, "before", t, asOf)
    /\ after # None => ObservationHolds(after, "after", t, asOf)
    /\ before # None /\ r # None /\ r.completion # None => before.at <= r.completion.unlinked
    /\ before # None /\ after # None =>
         after.previous \in {None, before} /\ before.at <= after.at
    /\ after # None /\ r # None /\ r.completion # None =>
         after.completion \in {None, r.completion} /\ r.completion.at <= after.at

\* MUTANT: the later observation need not name the completion it came after.
LocalUnlinked(t, r, before, after) ==
    IF after = None THEN IF before = None THEN "NOT_OBSERVED" ELSE "NOT_ESTABLISHED"
    ELSE IF after.content # None THEN "PRESENT_AT_OBSERVATION"
    ELSE IF /\ before # None /\ before.content = t.content
            /\ r # None /\ r.completion # None
            /\ after.previous = before
         THEN "REMOVAL_OBSERVED_SAME_CONTROLLER" ELSE "ABSENCE_ONLY"

\* local_observation
Local(t, r, before, after) ==
    IF after = None THEN IF before = None THEN "NOT_OBSERVED" ELSE "NOT_ESTABLISHED"
    ELSE IF after.content # None THEN "PRESENT_AT_OBSERVATION"
    ELSE IF /\ before # None /\ before.content = t.content
            /\ r # None /\ r.completion # None
            /\ after.previous = before
            /\ after.completion = r.completion
         THEN "REMOVAL_OBSERVED_SAME_CONTROLLER" ELSE "ABSENCE_ONLY"

-----------------------------------------------------------------------------
(* Properties.                                                             *)

Unlinked(i) == {unlinks[i][n] : n \in DOMAIN unlinks[i]}

\* What an unlink removes was authorized at the last check before it, and it is the file
\* that was measured for the task.  The code says that its last stat and the unlink are
\* not atomic; the only file it can then remove instead is one created after another
\* request had removed the measured one, so a confirmed task's file is gone in any case.
WhatWasRemoved ==
    \A i \in Id : \A u \in Unlinked(i) :
        /\ journal[i] # None /\ journal[i].task = u.task
        /\ Authorized(u.task, u.at)
        /\ u.removed # u.measured =>
             /\ u.removed > u.measured
             /\ \E j \in Id \ {i} : \E v \in Unlinked(j) : v.removed = u.measured

\* Whatever results and observations are put together: the verifier speaks of an observed
\* removal only if the provider unlinked the name for this very task while it was
\* authorized, and the empty name was read after that unlink, whatever the clock did.
RemovalObserved ==
    \A w \in Caller, before, after \in observations, asOf \in Time :
        LET r == report[w]
            t == after.task IN
        /\ r # None
        /\ VerifyBundle(t, r, before, after, asOf)
        /\ Local(t, r, before, after) = "REMOVAL_OBSERVED_SAME_CONTROLLER"
        => /\ after.unlinked
           /\ \E u \in Unlinked(t.id) : u.task = t /\ u.at = r.completion.unlinked
           /\ journal[t.id] = [task |-> t, state |-> "LOCAL_UNLINK_CONFIRMED"]

\* A caller that finds its object gone, or fails to claim it, is not misled about callers
\* of the same request that overtook it: it is told that the request was not claimed only
\* while there is no row of it.  A row may exist already only when the task is refused at
\* the clock: the code does not ask the journal again there.
ClaimedIsTold ==
    [][\A w \in Caller :
          /\ report'[w] # report[w] /\ report'[w] # None
          /\ report'[w].journal = "NOT_CLAIMED"
          => \/ journal[report'[w].task.id] = None
             \/ pc[w] = "authorize" /\ ~Authorized(Mine(w), now)]_vars

\* Whatever is lost on the way and whoever asks: an outcome that a caller is told to be
\* recorded is what the journal says, and goes on to say.
ToldIsKept ==
    \A w \in Caller :
        report[w] # None /\ report[w].journal \in Terminal =>
            LET row == journal[report[w].task.id] IN
            row # None /\ row.state = report[w].journal

OutcomeOf(row) ==
    IF row = None THEN None
    ELSE CASE row.state = "deletion_intent" -> None
           [] row.state \in {"BLOCKED", "ACKNOWLEDGED_ONLY"} -> "blocked"
           [] row.state = "LOCAL_UNLINK_CONFIRMED" -> "confirmed"
           [] row.state = "OUTCOME_UNKNOWN" -> "unknown"

Abstract == INSTANCE OneEffect WITH
    Request <- Id, Action <- Task,
    intent <- [i \in Id |-> IF journal[i] = None THEN None ELSE journal[i].task],
    effects <- [i \in Id |-> Len(unlinks[i])],
    outcome <- [i \in Id |-> OutcomeOf(journal[i])]

\* Across callers, crashes and lost acknowledgements a request unlinks at most once and
\* only between its intent and its outcome; blocked and acknowledged requests never do.
Implements == Abstract!Spec

=============================================================================
