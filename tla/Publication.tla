----------------------------- MODULE Publication -----------------------------
(***************************************************************************)
(* The publication pilot: a gate that releases one measured page, approved  *)
(* by a reviewer, to a local directory, once                               *)
(* (incident-publication-pilot/publication_pilot: gate.py, store.py).       *)
(*                                                                         *)
(* A candidate stands for its digest; what it contains is                   *)
(*   [id, source, disclosure, html, subject, prepared, manifest,           *)
(*    activities, from, policy]                                            *)
(* with a snapshot of an editing session (EditorHistory), the activities    *)
(* its notice names, the page, and the signed records made when it was      *)
(* prepared; policy is [from, until, prohibited].  An approval is           *)
(* [candidate, at, until].  Callers share one publisher root.  Several      *)
(* callers, crashes, a clock that is set back and files that others put     *)
(* into the visible directory are modelled; a publisher with a wrong key    *)
(* and malformed clock readings are not.                                   *)
(***************************************************************************)
EXTENDS EditorHistory

CONSTANTS
    Caller,
    Candidate, Contents,
    Approval,
    Time,
    CollectorFrom, CollectorUntil,  \* the validity of the editor's signing key
    ReviewerFrom, ReviewerUntil,    \* and of the reviewer's
    None

ASSUME CandidateAssumption == Candidate \subseteq DOMAIN Contents
ASSUME ClockAssumption == Time \subseteq Int /\ {CollectorFrom, CollectorUntil} \subseteq Int
                          /\ {ReviewerFrom, ReviewerUntil} \subseteq Int

IdOf(c) == Contents[c].id
HtmlOf(c) == Contents[c].html
Id == {IdOf(c) : c \in Candidate}
Terminal == {"blocked_after_intent", "local_output_confirmed", "outcome_unknown"}
\* A row of the journal, what release answers (STATES), and a file of our own.
Row == [candidate : Candidate, state : Terminal \cup {"publication_intent"}]
Answer == {"BLOCKED_WITHOUT_PUBLICATION", "REPLAY_NO_PUBLICATION", "REQUEST_ID_CONFLICT",
           "LOCAL_OUTPUT_CONFIRMED", "OUTCOME_UNKNOWN"}
OurFile == [html : {HtmlOf(c) : c \in Candidate}, ours : {TRUE}]
ASSUME NoneAssumption ==
    None \notin Candidate \cup Row \cup Time \cup OurFile \cup Answer
                \cup {"blocked", "confirmed", "unknown"}

VARIABLES
    now,              \* the wall clock of the host
    journal,          \* publication_journal: per id, None or [candidate, state]
    visible,          \* the visible directory: per id, None or [html, ours]
    pc, call,         \* per caller: the step of release, and its frame
    report,           \* per caller: what its last release reported; None
    links             \* observation only: per id, the hard links made so far

callerVars == <<pc, call, report>>
vars == <<now, journal, visible, callerVars, links>>

Init ==
    /\ now \in Time
    /\ journal = [i \in Id |-> None]
    /\ visible = [i \in Id |-> None]
    /\ pc = [w \in Caller |-> "idle"]
    /\ call = [w \in Caller |-> None]
    /\ report = [w \in Caller |-> None]
    /\ links = [i \in Id |-> <<>>]

-----------------------------------------------------------------------------
(* Gate.check, a pure function of the candidate, the approval and a time.   *)

Within(from, t, until) == from <= t /\ t < until

\* The source: a verified session, signed while the editor's key was valid, and closed
\* before the candidate was prepared.
Traceable(c) ==
    /\ Verified(c.source)
    /\ \A n \in DOMAIN c.source.operations :
         Within(CollectorFrom, c.source.operations[n].at, CollectorUntil)
    /\ Within(CollectorFrom, c.source.checkpoint.at, CollectorUntil)
    /\ c.source.checkpoint.at <= c.prepared

\* The notice names exactly the AI activities recorded in the session.
Discloses(c) == c.disclosure = Observed(c.source)

\* The page is the rendering of the source and the notice, and every record made of it
\* says what a new measurement finds.
Measured(c) ==
    LET adopted == Adopted(c.source) IN
    /\ c.html = Rendered(c.source, c.disclosure)
    /\ c.subject = c.html
    /\ c.manifest = {[block |-> a.block, revision |-> a.revision] : a \in adopted}
    /\ c.activities = adopted
    /\ c.from = c.source.operations[1].at

PolicyPermits(c, at) ==
    /\ Within(c.policy.from, at, c.policy.until)
    /\ Observed(c.source) \cap c.policy.prohibited = {}

\* _approval
Approved(candidate, approval, at) ==
    /\ approval.candidate = candidate
    /\ Contents[candidate].prepared <= approval.at
    /\ Within(approval.at, at, approval.until)
    /\ Within(ReviewerFrom, approval.at, ReviewerUntil)

\* check, of one candidate, approval and time.
Permits(candidate, approval, at) ==
    LET c == Contents[candidate] IN
    /\ c.prepared <= at
    /\ Traceable(c) /\ Measured(c) /\ Discloses(c)
    /\ PolicyPermits(c, at)
    /\ Approved(candidate, approval, at)

\* What check permits, and when.
Authorized == {x \in Candidate \X Approval \X Time : Permits(x[1], x[2], x[3])}
Check(candidate, approval, at) == <<candidate, approval, at>> \in Authorized

-----------------------------------------------------------------------------
(* The release: Gate.release and LocalPublisher.publish.                   *)

Frame(c, approval) ==
    [candidate |-> c, approval |-> approval, at |-> now, final |-> None, permitted |-> FALSE,
     attempted |-> FALSE, result |-> None, receipt |-> None]

Mine(w) == call[w].candidate
SetRow(c, s) == journal' = [journal EXCEPT ![IdOf(c)] = [candidate |-> c, state |-> s]]

Goto(w, l, frame) ==
    /\ pc' = [pc EXCEPT ![w] = l]
    /\ call' = [call EXCEPT ![w] = frame]
    /\ report' = [report EXCEPT ![w] = None]

\* verify_receipt, on the times.
ReceiptHolds(receipt, final, post) == final <= receipt /\ receipt <= post

\* What release makes of the publisher's result: a confirmation needs the final check's
\* permission, the journal's word and a receipt between the final check and now.
Concluded(frame, published, inJournal) ==
    IF published # "LOCAL_OUTPUT_CONFIRMED" THEN published
    ELSE IF /\ frame.attempted /\ frame.permitted
            /\ ReceiptHolds(frame.receipt, frame.final, now)
            /\ inJournal = "local_output_confirmed"
         THEN published ELSE "OUTCOME_UNKNOWN"

Return(w, frame, published, inJournal) ==
    LET state == Concluded(frame, published, inJournal)
        receipt == IF state = "LOCAL_OUTPUT_CONFIRMED" THEN frame.receipt ELSE None IN
    /\ pc' = [pc EXCEPT ![w] = "idle"]
    /\ call' = [call EXCEPT ![w] = None]
    /\ report' = [report EXCEPT ![w] =
         [candidate |-> frame.candidate, approval |-> frame.approval, preflight |-> TRUE,
          at |-> frame.at, final |-> frame.final, permitted |-> frame.permitted,
          attempted |-> frame.attempted, published |-> published, journal |-> inJournal,
          state |-> state, receipt |-> receipt, post |-> now]]

\* The report of a preflight that was denied: the publisher is not called.
Deny(w, c, approval) ==
    /\ report' = [report EXCEPT ![w] =
         [candidate |-> c, approval |-> approval, preflight |-> FALSE, at |-> now,
          final |-> None, permitted |-> FALSE, attempted |-> FALSE, published |-> None,
          journal |-> None, state |-> "BLOCKED_WITHOUT_PUBLICATION", receipt |-> None,
          post |-> now]]
    /\ UNCHANGED <<pc, call>>

\* A row under the same id: nothing is published for it a second time.
Replay(w, frame) ==
    LET row == journal[IdOf(frame.candidate)] IN
    /\ row # None
    /\ Return(w, frame, IF row.candidate = frame.candidate THEN "REPLAY_NO_PUBLICATION"
                        ELSE "REQUEST_ID_CONFLICT", row.state)
Block(w, frame) == Return(w, frame, "BLOCKED_WITHOUT_PUBLICATION", None)

\* release, up to the claim: the preflight, a look at the journal, and the private stage;
\* the journal or the stage may fail.
Release(w, c, approval) ==
    /\ pc[w] = "idle"
    /\ IF Check(c, approval, now)
       THEN \/ Block(w, Frame(c, approval))
            \/ Replay(w, Frame(c, approval))
            \/ journal[IdOf(c)] = None /\ Goto(w, "claim", Frame(c, approval))
       ELSE Deny(w, c, approval)
    /\ UNCHANGED <<now, journal, visible, links>>

\* MUTANT: an intent that another caller left behind is carried out.
ClaimResumes(w) ==
    LET c == Mine(w) IN
    /\ pc[w] = "claim"
    /\ \/ journal[IdOf(c)] # None /\ journal[IdOf(c)].state # "publication_intent"
              /\ Replay(w, call[w]) /\ UNCHANGED journal
       \/ journal[IdOf(c)] \in {None, [candidate |-> c, state |-> "publication_intent"]}
              /\ SetRow(c, "publication_intent") /\ Goto(w, "final", call[w])
    /\ UNCHANGED <<now, visible, links>>

\* _claim: one transaction; only its acknowledgement gives the right to publish.
Claim(w) ==
    LET c == Mine(w) IN
    /\ pc[w] = "claim"
    /\ \/ Replay(w, call[w]) /\ UNCHANGED journal
       \/ Block(w, call[w]) /\ UNCHANGED journal
       \/ journal[IdOf(c)] = None /\ SetRow(c, "publication_intent")
              /\ (Goto(w, "final", call[w]) \/ Block(w, call[w]))
    /\ UNCHANGED <<now, visible, links>>

\* MUTANT: the check after the commit is made for the time of the preflight.
FinalGateStale(w) ==
    /\ pc[w] = "final"
    /\ Goto(w, "link", [call[w] EXCEPT !.final = now, !.permitted = TRUE, !.attempted = TRUE])
    /\ UNCHANGED <<now, journal, visible, links>>

\* before_link: the gate checks everything again at a new reading of the clock; or the
\* callback fails.
FinalGate(w) ==
    /\ pc[w] = "final"
    /\ LET permitted == Check(Mine(w), call[w].approval, now) /\ call[w].at <= now
           checked == [call[w] EXCEPT !.final = now, !.permitted = permitted] IN
       \/ permitted /\ Goto(w, "link", [checked EXCEPT !.attempted = TRUE])
       \/ ~ permitted /\ Goto(w, "persist", [checked EXCEPT !.result = "blocked_after_intent"])
       \/ Goto(w, "persist", [call[w] EXCEPT !.result = "outcome_unknown"])
    /\ UNCHANGED <<now, journal, visible, links>>

\* Our own hard link, at the name that the id determines.
MakeLink(w) ==
    /\ visible' = [visible EXCEPT ![IdOf(Mine(w))] = [html |-> HtmlOf(Mine(w)), ours |-> TRUE]]
    /\ links' = [links EXCEPT ![IdOf(Mine(w))] =
                    Append(@, [candidate |-> Mine(w), approval |-> call[w].approval,
                               admitted |-> call[w].at, final |-> call[w].final, at |-> now])]

\* os.link creates the name or fails because it exists; after another failure it is not
\* known whether it did.
Link(w) ==
    LET there == visible[IdOf(Mine(w))] # None IN
    /\ pc[w] = "link"
    /\ \/ ~ there /\ MakeLink(w) /\ Goto(w, "readback", call[w])
       \/ /\ there /\ UNCHANGED <<visible, links>>
          /\ Goto(w, "persist", [call[w] EXCEPT !.result = "blocked_after_intent"])
       \/ /\ ~ there /\ (MakeLink(w) \/ UNCHANGED <<visible, links>>)
          /\ Goto(w, "persist", [call[w] EXCEPT !.result = "outcome_unknown"])
    /\ UNCHANGED <<now, journal>>

\* The flush, the read-back and the signed receipt; any of them may fail.
ReadBack(w) ==
    /\ pc[w] = "readback"
    /\ \/ /\ visible[IdOf(Mine(w))] = [html |-> HtmlOf(Mine(w)), ours |-> TRUE]
          /\ Goto(w, "persist", [call[w] EXCEPT !.receipt = now,
                                                !.result = "local_output_confirmed"])
       \/ Goto(w, "persist", [call[w] EXCEPT !.result = "outcome_unknown"])
    /\ UNCHANGED <<now, journal, visible, links>>

PublishedAs(result) ==
    CASE result = "blocked_after_intent" -> "BLOCKED_WITHOUT_PUBLICATION"
      [] result = "local_output_confirmed" -> "LOCAL_OUTPUT_CONFIRMED"
      [] result = "outcome_unknown" -> "OUTCOME_UNKNOWN"

\* MUTANT: a failure to record a confirmation does not take it back.
PersistBestEffort(w) ==
    LET c == Mine(w)
        result == call[w].result IN
    /\ pc[w] = "persist"
    /\ \/ journal[IdOf(c)].state = "publication_intent" /\ SetRow(c, result)
       \/ UNCHANGED journal
    /\ Return(w, call[w], PublishedAs(result), result)
    /\ UNCHANGED <<now, visible, links>>

\* _persist and _finish: a result is recorded over an intent only; one whose recording
\* is not acknowledged is unknown, whatever the journal says.
Persist(w) ==
    LET c == Mine(w)
        result == call[w].result IN
    /\ pc[w] = "persist"
    /\ \/ /\ journal[IdOf(c)].state = "publication_intent" /\ SetRow(c, result)
          /\ \/ Return(w, call[w], PublishedAs(result), result)
             \/ Return(w, call[w], "OUTCOME_UNKNOWN", result)
       \/ /\ UNCHANGED journal
          /\ Return(w, call[w], "OUTCOME_UNKNOWN", journal[IdOf(c)].state)
    /\ UNCHANGED <<now, visible, links>>

\* The process dies at any step of a release; only the private stage file is left over.
Crash(w) ==
    /\ pc[w] # "idle"
    /\ pc' = [pc EXCEPT ![w] = "idle"]
    /\ call' = [call EXCEPT ![w] = None]
    /\ report' = [report EXCEPT ![w] = None]
    /\ UNCHANGED <<now, journal, visible, links>>

-----------------------------------------------------------------------------
(* The surroundings.                                                       *)

\* Somebody else puts a file under the name of an id.
Put(i) ==
    /\ visible[i] = None
    /\ visible' = [visible EXCEPT ![i] = [html |-> None, ours |-> FALSE]]
    /\ UNCHANGED <<now, journal, callerVars, links>>

SetClock(t) ==
    /\ now' = t
    /\ UNCHANGED <<journal, visible, callerVars, links>>

Next ==
    \/ \E w \in Caller, c \in Candidate, approval \in Approval : Release(w, c, approval)
    \/ \E w \in Caller :
         Claim(w) \/ FinalGate(w) \/ Link(w) \/ ReadBack(w) \/ Persist(w) \/ Crash(w)
    \/ \E i \in Id : Put(i)
    \/ \E t \in Time : SetClock(t)

Spec == Init /\ [][Next]_vars

-----------------------------------------------------------------------------
(* verify_report: what a reader of a report recomputes.                     *)

VerifyReport(r) ==
    /\ r.preflight = Check(r.candidate, r.approval, r.at)
    /\ r.final # None =>
         /\ r.at <= r.final
         /\ r.permitted = Check(r.candidate, r.approval, r.final)
    /\ r.attempted => r.preflight /\ r.final # None /\ r.permitted /\ r.published # None
    /\ (IF r.final # None THEN r.final ELSE r.at) <= r.post
    /\ r.published # None => r.preflight /\ r.state \in {r.published, "OUTCOME_UNKNOWN"}
    /\ IF r.state = "LOCAL_OUTPUT_CONFIRMED"
       THEN /\ r.attempted /\ r.receipt # None
            /\ ReceiptHolds(r.receipt, r.final, r.post)
            /\ r.published = r.state /\ r.journal = "local_output_confirmed"
       ELSE r.receipt = None
    /\ ~ r.preflight => /\ r.state = "BLOCKED_WITHOUT_PUBLICATION"
                        /\ r.published = None /\ r.final = None

-----------------------------------------------------------------------------
(* Properties.                                                             *)

\* What stands at the name is what was approved, and is so by the row of its id.
LinkTrue(file, row, l) ==
    LET c == Contents[l.candidate] IN
    /\ file = [html |-> c.html, ours |-> TRUE]
    /\ row # None /\ row.candidate = l.candidate
    /\ l.approval.candidate = l.candidate
    /\ Within(l.approval.at, l.final, l.approval.until)
    /\ Within(c.policy.from, l.final, c.policy.until)
    /\ l.admitted <= l.final
    /\ \A k \in DOMAIN c.source.operations :
         LET a == c.source.operations[k].activity IN
         a \in AiActivity => a \in c.html.notice /\ a \notin c.policy.prohibited

\* Whatever stands at a visible name by a link of ours is the page of a candidate whose
\* intent was committed, approved by the reviewer for exactly that page, at the check
\* after the commit (not only at admission), by an approval and a policy in force at that
\* time; its notice names every AI activity of the session, also of text that did not
\* stay, and no prohibited one is among them.
OutputAsApproved ==
    \A i \in Id : \A n \in DOMAIN links[i] : LinkTrue(visible[i], journal[i], links[i][n])

\* A final check is not overtaken by the clock of another caller's: the reading at the
\* check decides, and a report stands up to verify_report, which computes it again from
\* the candidate and the approval alone: every confirmation, and every other report of a
\* call during which the clock did not go back.  A confirmation is durable.
ReportsVerify ==
    \A w \in Caller :
        LET r == report[w] IN
        r # None =>
            /\ \/ r.state = "LOCAL_OUTPUT_CONFIRMED"
               \/ r.at <= (IF r.final # None THEN r.final ELSE r.at)
                  /\ (IF r.final # None THEN r.final ELSE r.at) <= r.post
               => VerifyReport(r)
            /\ r.state = "LOCAL_OUTPUT_CONFIRMED" =>
                 journal[IdOf(r.candidate)] = [candidate |-> r.candidate,
                                            state |-> "local_output_confirmed"]

OutcomeOf(row) ==
    IF row = None THEN None
    ELSE CASE row.state = "publication_intent" -> None
           [] row.state = "blocked_after_intent" -> "blocked"
           [] row.state = "local_output_confirmed" -> "confirmed"
           [] row.state = "outcome_unknown" -> "unknown"

Abstract == INSTANCE OneEffect WITH
    Request <- Id, Action <- Candidate,
    intent <- [i \in Id |-> IF journal[i] = None THEN None ELSE journal[i].candidate],
    effects <- [i \in Id |-> Len(links[i])],
    outcome <- [i \in Id |-> OutcomeOf(journal[i])]

\* The journal keeps the promise of OneEffect: across callers, crashes and lost
\* acknowledgements an id is linked at most once and only between its intent and its
\* outcome, and a recorded outcome is final and true.
Implements == Abstract!Spec

=============================================================================
