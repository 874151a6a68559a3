----------------------------- MODULE EvidenceReview -----------------------------
(***************************************************************************)
(* One case is reviewed again and again while its evidence comes in and time   *)
(* passes: the evaluators are pure, so all that a later report can differ by    *)
(* is what was supplied in between and the caller's evaluation time.           *)
(*                                                                         *)
(* Statements arrive in any order; what is in the file stays in it.  A case   *)
(* has a workflow, what it is about, and the statements that exist about it.   *)
(***************************************************************************)
EXTENDS Integers, FiniteSets

CONSTANTS
    Cases,            \* name -> [workflow, base, stock: identity -> statement]
    FirstAt, LastAt,  \* bounds: the evaluation times
    PaymentKeys, Identity, PaymentAge, Absent, WalletKeys, WalletAge,
    ScopeKeys, EventSigners, PinnedScope, RegisterId, Simulate,
    Keys, Authorities, OperationAt, Unknown, Document

VARIABLES case, file, now, report
vars == <<case, file, now, report>>

Wallet == INSTANCE WalletEvidence
Scope == INSTANCE ScopeVerifier
Transfer == INSTANCE AssessTransfer
Erasure == INSTANCE AssessErasure
Publication == INSTANCE AssessPublication
Response == INSTANCE AssessResponse

Workflow == Cases[case].workflow
Stock == Cases[case].stock
Slotted == {"payment", "wallet", "scope"}

\* Times are integers: evaluation times, the times of recording, and those of events,
\* deadlines and cutoffs in a statement of the right shape.
TimesOf(workflow, r) ==
    CASE workflow \in {"payment", "wallet"} ->
            r.slot # "policy" /\ r.signed.bound => r.signed.body.at \in Int
      [] workflow = "scope" ->
            LET body == r.signed.body
                dated(obligations) == \A o \in obligations :
                    o.type = "notification_receipt" => o.notification.deadline \in Int IN
            r.signed.bound =>
                CASE r.slot \in {"anchor_receipt", "scope_receipt"} ->
                        body.accepted \in Int /\ body.uncertainty \in Int
                  [] r.slot \in {"closure", "timing_register"} -> body.closedAt \in Int
                  [] r.slot = "manifest" -> body.finalizedAt \in Int
                  [] r.slot = "inventory" -> dated(body.obligations)
                  [] r.slot = "scope" -> dated(body.individuals)
                  [] OTHER -> TRUE
      [] OTHER ->
            /\ r.recorded \in Int
            /\ r.kind \in {"transfer.dispatch", "transfer.egress"} => r.data.at \in Int
            /\ r.kind = "info_request" => r.data.until \in Int
ASSUME TimeAssumption ==
    /\ FirstAt \in Int /\ LastAt \in Int /\ OperationAt \in Int
    /\ \A c \in DOMAIN Cases : \A i \in DOMAIN Cases[c].stock :
          TimesOf(Cases[c].workflow, Cases[c].stock[i])

\* An input with other slots or other parts is refused before it is evaluated.
ASSUME ShapeAssumption ==
    \A c \in DOMAIN Cases :
        /\ Cases[c].workflow = "payment" =>
              \A i \in DOMAIN Cases[c].stock :
                  Cases[c].stock[i].slot \in Wallet!PaymentSlots
        /\ Cases[c].workflow = "scope" =>
              DOMAIN Cases[c].base =
                  {"policy", "anchor", "index", "events", "proofs", "delivery", "x"}

-----------------------------------------------------------------------------
(* The input of an evaluator: a statement per slot, or a list of records, of   *)
(* what case c has in file f.                                                *)

Supplied(c, f) ==
    LET stock == Cases[c].stock IN
    [s \in {stock[i].slot : i \in f} |-> stock[CHOOSE i \in f : stock[i].slot = s].signed]
Bundle(c, f) == [op |-> Cases[c].base, evidence |-> Supplied(c, f)]
ScopePackage(c, f) == [Cases[c].base EXCEPT !.x = Supplied(c, f)]
Package(c, f, t) ==
    [rules |-> Cases[c].base, managed |-> TRUE, asOf |-> t,
     records |-> {Cases[c].stock[i] : i \in f}]

\* The part of VALIDATORS and WORKFLOWS that the workflow of the package selects.
DataFits(workflow, r) ==
    CASE workflow = "transfer" -> Transfer!TransferData(r)
      [] workflow = "erasure" -> Erasure!ErasureData(r)
      [] workflow = "publication" -> Publication!PublicationData(r)
      [] workflow = "response" -> Response!ResponseData(r)
      [] workflow = "cross" -> Transfer!CrossData(r)
Assessment(workflow, p) ==
    CASE workflow = "transfer" -> Transfer!TransferReport(p)
      [] workflow = "erasure" -> Erasure!ErasureReport(p)
      [] workflow = "publication" -> Publication!PublicationReport(p)
      [] workflow = "response" -> Response!ResponseReport(p)
      [] workflow = "cross" -> [attribution |-> Transfer!Attribution(p)]

\* What the callers run on it.
Report(c, f, t) ==
    LET workflow == Cases[c].workflow IN
    CASE workflow = "payment" -> Wallet!PaymentReport(Bundle(c, f), t)
      [] workflow = "wallet" -> Wallet!WalletReport(Bundle(c, f), t)
      [] workflow = "scope" -> [scope |-> Scope!ScopeFulfillment(ScopePackage(c, f), t)]
      [] OTHER -> [integrity |-> Transfer!EvidenceIntegrity(Package(c, f, t)),
                   assessment |-> Assessment(workflow, Package(c, f, t))]

-----------------------------------------------------------------------------
Init ==
    /\ Transfer!TrustFits
    /\ case \in DOMAIN Cases
    /\ file = {} /\ now = FirstAt
    /\ report = Report(case, {}, FirstAt)

Fits(i) ==
    IF Workflow \in Slotted THEN \A j \in file : Stock[j].slot # Stock[i].slot
    ELSE DataFits(Workflow, Stock[i]) /\ Transfer!Admissible(Package(case, file \cup {i}, now))

\* One more statement is supplied, and the case is reviewed again.
Supply ==
    \E i \in DOMAIN Stock \ file :
        /\ Fits(i)
        /\ file' = file \cup {i}
        /\ report' = Report(case, file', now)
        /\ UNCHANGED <<case, now>>

\* The same file is reviewed at a later evaluation time.
ReviewLater ==
    /\ now < LastAt
    /\ now' = now + 1
    /\ report' = Report(case, file, now')
    /\ UNCHANGED <<case, file>>

Next == Supply \/ ReviewLater
Spec == Init /\ [][Next]_vars

-----------------------------------------------------------------------------
(* Properties.                                                             *)

Stays(claims, verdict) == \A c \in claims : report[c] = verdict => report'[c] = verdict

\* "The verifier retains known contradictions even if some other evidence is missing",
\* and no later statement or date lifts one; what was established stays so too.  Two
\* verdicts are excepted: the wallet's authorization is one at the caller's time, and
\* its execution consults a policy only once one was supplied.
VerdictsSettle ==
    [][/\ Workflow = "payment" =>
             /\ Stays({"integrity", "authorization", "control"}, "INVALID")
             /\ Stays({"authorization", "control"}, "VALID")
             /\ report.execution.verdict # "INDETERMINATE" => report'.execution = report.execution
       /\ Workflow = "wallet" =>
             /\ Stays({"integrity", "execution", "chain"}, "INVALID")
             /\ Stays({"chain"}, "VALID")
             /\ (\E i \in file : Stock[i].slot = "policy") => Stays({"execution"}, "VALID")]_vars

\* The one thing that takes the ground from under a closure: an inventory arrives that
\* lists other obligations than the closure does.
ClosureContradicted ==
    LET was == Supplied(case, file)
        is == Supplied(case, file') IN
    /\ {"closure", "inventory"} \subseteq DOMAIN is /\ "inventory" \notin DOMAIN was
    /\ is["closure"].body.expected # is["inventory"].body.obligations

\* A scope found met is never found otherwise by a sidecar that arrives afterwards, nor by
\* the passing of time.  One found not met may turn out to be in error, but is not excused:
\* what is missing or late is a violation only once nothing that is still to come could
\* explain it.  Only the absence of a notification rests on a closure, and falls with it.
ScopeSettles ==
    [][Workflow = "scope" =>
          /\ report.scope = "met" => report'.scope = "met"
          /\ report.scope = "not_met" =>
                report'.scope \in {"not_met", "error"} \/ ClosureContradicted]_vars

\* The records that count now and did not before.
Arrived ==
    LET count(f, t) == {r \in Package(case, f, t).records : Transfer!Eligible(Package(case, f, t), r)} IN
    count(file', now') \ count(file, now)

\* Nothing that was recorded after the operation, or after a request's cutoff, changes
\* what was authorized, approved or answered by then, however it is dated: only a check
\* of the collector at the operation may still come in later.
NotBackdated ==
    [][/\ (Workflow \in {"transfer", "publication"} /\ \A r \in Arrived :
              r.recorded > OperationAt /\ r.kind # "transfer.collector_health") =>
             IF Workflow = "transfer" THEN report'.assessment.proposed = report.assessment.proposed
             ELSE report'.assessment.approval = report.assessment.approval /\ report'.assessment.applicable = report.assessment.applicable
       /\ Workflow = "response" => \A q \in Response!Asked(Package(case, file, now)) :
             (/\ q.data.until <= now
              /\ \A r \in Arrived : r.kind # "info_request" /\ r.recorded > q.data.until)
             => report'.assessment.response = report.assessment.response /\ report'.assessment.delivered = report.assessment.delivered]_vars

\* An action that was observed against a denial stays a violation, whatever arrives about
\* the coverage, other actions or the time: only a decision that had been recorded by the
\* time of an observed action can still explain it.
ViolationStands ==
    [][(/\ Workflow = "transfer" /\ report.assessment.control = "VIOLATION"
        /\ \A r \in Arrived : r.kind = "transfer.decision" =>
              \A e \in Transfer!Egresses(Package(case, file, now)) \cup Transfer!Dispatches(Package(case, file, now)) :
                 r.recorded > e.data.at)
       => report'.assessment.control = "VIOLATION" /\ report'.assessment.authorization = "DENY"]_vars

\* The evidence of a deletion builds up: no statement about another object or by another
\* party takes back what was established, except that an independent review which is
\* inconclusive withholds what another review supported.  Nor is a forged signature
\* made good by other records, or the attribution of a statement taken back.
EvidenceBuilds ==
    [][/\ Workflow \notin Slotted /\ report.integrity = "FAILED" => report'.integrity = "FAILED"
       /\ Workflow = "cross" /\ report.assessment.attribution = "ESTABLISHED" =>
             report'.assessment.attribution = "ESTABLISHED"
       /\ Workflow = "erasure" =>
             LET was == report.assessment
                 is == report'.assessment IN
             /\ \/ Erasure!Levels[was.deletion] <= Erasure!Levels[is.deletion]
                \/ /\ was.deletion = "REVIEWED" /\ is.deletion = "ATTESTED"
                   /\ "inconclusive" \in is.reviews
             /\ was.receipt = "MATCHED" => is.receipt = "MATCHED"]_vars

=============================================================================
