------------------------ MODULE EvidenceReviewProofs ------------------------
(* How two reports of one growing file compare, for every case, every set of *)
(* statements and every order in which they arrive.                          *)
EXTENDS EvidenceReview, FiniteSetTheorems, TLAPS

\* What is on record of a case: a report of the file as it is, of statements that the
\* validation lets in.
ReviewInv ==
    /\ case \in DOMAIN Cases /\ file \subseteq DOMAIN Stock /\ now \in Int
    /\ report = Report(case, file, now)
    /\ Workflow \in Slotted => \A i, j \in file : Stock[i].slot = Stock[j].slot => i = j
    /\ Workflow \notin Slotted => \A i \in file : DataFits(Workflow, Stock[i])

\* Of a later report: the file has grown, or time has passed.
Continued ==
    /\ case' = case /\ report' = Report(case, file', now')
    /\ file \subseteq file' /\ file' \subseteq DOMAIN Stock
    /\ now \in Int /\ now' \in Int /\ now <= now'
    /\ Workflow \in Slotted => \A i, j \in file' : Stock[i].slot = Stock[j].slot => i = j
    /\ Workflow \notin Slotted => \A i \in file' : DataFits(Workflow, Stock[i])

\* An empty file is a start.
LEMMA ReviewInit == Init => ReviewInv
BY TimeAssumption DEF Init, ReviewInv

\* Every step goes on from there.
LEMMA ReviewContinues == ReviewInv /\ [Next]_vars => Continued
<1> SUFFICES ASSUME ReviewInv, [Next]_vars PROVE Continued
    OBVIOUS
<1>1. CASE Supply
    <2>1. PICK i \in DOMAIN Stock \ file :
            /\ Fits(i) /\ file' = file \cup {i} /\ report' = Report(case, file', now)
            /\ case' = case /\ now' = now
        BY <1>1 DEF Supply
    <2>2. Workflow \in Slotted => \A j \in file : Stock[j].slot # Stock[i].slot
        BY <2>1 DEF Fits
    <2>3. Workflow \notin Slotted => DataFits(Workflow, Stock[i])
        BY <2>1 DEF Fits
    <2> QED
        BY <2>1, <2>2, <2>3 DEF ReviewInv, Continued
<1>2. CASE ReviewLater
    BY <1>2 DEF ReviewLater, ReviewInv, Continued
<1>3. CASE UNCHANGED vars
    BY <1>3 DEF vars, ReviewInv, Continued
<1> QED
    BY <1>1, <1>2, <1>3 DEF Next

\* So there is always such a report.
LEMMA Reviewed == Spec => []ReviewInv
<1>1. ReviewInv /\ Continued => ReviewInv'
    <2> SUFFICES ASSUME Continued, case \in DOMAIN Cases PROVE ReviewInv'
        BY DEF ReviewInv
    <2>1. Workflow' = Workflow /\ Stock' = Stock
        BY DEF Continued, Workflow, Stock
    <2> QED
        BY <2>1 DEF Continued, ReviewInv
<1> QED
    BY <1>1, ReviewInit, ReviewContinues, PTL DEF Spec

-----------------------------------------------------------------------------
(* Records that count.                                                      *)

\* What the assessor's files are to each other.
Grows(p, q) ==
    /\ p.records \subseteq q.records /\ p.rules = q.rules /\ p.managed = q.managed
    /\ p.asOf \in Int /\ q.asOf \in Int /\ p.asOf <= q.asOf
    /\ \A r \in q.records : r.recorded \in Int

\* A file that is continued has grown.
LEMMA PackageGrows ==
    ASSUME ReviewInv, Continued, Workflow \notin Slotted
    PROVE  Grows(Package(case, file, now), Package(case, file', now'))
<1>1. ASSUME NEW r \in Package(case, file', now').records PROVE r.recorded \in Int
    <2>1. PICK i \in file' : r = Cases[case].stock[i]
        BY DEF Package
    <2>2. TimesOf(Cases[case].workflow, r)
        BY <2>1, TimeAssumption DEF Continued, ReviewInv, Stock
    <2> QED
        BY <2>2 DEF TimesOf, Workflow, Slotted
<1> QED
    BY <1>1 DEF Package, Grows, Continued

\* The workflows' modules read records alike.
LEMMA SameEligible ==
    ASSUME NEW p, NEW r
    PROVE  /\ Erasure!Eligible(p, r) = Transfer!Eligible(p, r)
           /\ Publication!Eligible(p, r) = Transfer!Eligible(p, r)
           /\ Response!Eligible(p, r) = Transfer!Eligible(p, r)
BY Zenon DEF Erasure!Eligible, Transfer!Eligible, Publication!Eligible, Response!Eligible,
       Erasure!RequiredRole, Transfer!RequiredRole, Publication!RequiredRole, Response!RequiredRole,
       Erasure!KindsOf, Transfer!KindsOf, Publication!KindsOf, Response!KindsOf,
       Erasure!Covers, Transfer!Covers, Publication!Covers, Response!Covers

\* A record that counts goes on to count.
LEMMA EligibleStays ==
    ASSUME NEW p, NEW q, Grows(p, q), NEW r \in p.records, Transfer!Eligible(p, r)
    PROVE  r \in q.records /\ Transfer!Eligible(q, r)
<1>1. r.recorded \in Int /\ p.asOf \in Int /\ q.asOf \in Int /\ p.asOf <= q.asOf /\ r \in q.records
    BY DEF Grows
<1>2. r.recorded <= p.asOf => r.recorded <= q.asOf
    BY <1>1
<1> QED
    BY <1>1, <1>2 DEF Transfer!Eligible

\* and so do the records of a kind.
LEMMA BoundStays ==
    ASSUME NEW p, NEW q, Grows(p, q), NEW kind
    PROVE  /\ Transfer!Bound(p, kind) \subseteq Transfer!Bound(q, kind)
           /\ Erasure!Bound(p, kind) \subseteq Erasure!Bound(q, kind)
BY EligibleStays, SameEligible
   DEF Transfer!Bound, Transfer!Records, Erasure!Bound, Erasure!Records

-----------------------------------------------------------------------------
(* The evidence of a deletion.                                              *)

\* A forged statement is not made good by others.
LEMMA ForgeryStays ==
    ASSUME NEW p, NEW q, Grows(p, q), Transfer!EvidenceIntegrity(p) = "FAILED"
    PROVE  Transfer!EvidenceIntegrity(q) = "FAILED"
<1>1. PICK r \in p.records : r.key \in DOMAIN Keys /\ ~ r.genuine
    BY DEF Transfer!EvidenceIntegrity
<1>2. r \in q.records /\ ~ Transfer!Eligible(q, r)
    BY <1>1 DEF Grows, Transfer!Eligible
<1> QED
    BY <1>1, <1>2 DEF Transfer!EvidenceIntegrity

\* An attribution stays.
LEMMA AttributionStays ==
    ASSUME NEW p, NEW q, Grows(p, q), Transfer!Attribution(p) = "ESTABLISHED"
    PROVE  Transfer!Attribution(q) = "ESTABLISHED"
BY BoundStays DEF Transfer!Attribution

\* Requests and receipts are only added to.
LEMMA ReceiptsStay ==
    ASSUME NEW p, NEW q, Grows(p, q)
    PROVE  /\ Erasure!Requests(p) \subseteq Erasure!Requests(q)
           /\ Erasure!Acknowledgements(p) \subseteq Erasure!Acknowledgements(q)
           /\ Erasure!Attestations(p) \subseteq Erasure!Attestations(q)
           /\ Erasure!Receipts(p) \subseteq Erasure!Receipts(q)
<1>1. Erasure!Requests(p) \subseteq Erasure!Requests(q)
    BY BoundStays DEF Erasure!Requests
<1>2. Erasure!Acknowledgements(p) \subseteq Erasure!Acknowledgements(q)
    <2>1. ASSUME NEW r, NEW s PROVE Erasure!Answered(p, r, s) <=> Erasure!Answered(q, r, s)
        BY DEF Erasure!Answered
    <2> QED
        BY <1>1, <2>1, BoundStays DEF Erasure!Acknowledgements
<1>3. Erasure!Attestations(p) \subseteq Erasure!Attestations(q)
    <2>1. ASSUME NEW r, NEW s PROVE Erasure!Answered(p, r, s) <=> Erasure!Answered(q, r, s)
        BY DEF Erasure!Answered
    <2> QED
        BY <1>1, <2>1, BoundStays DEF Erasure!Attestations
<1> QED
    BY <1>1, <1>2, <1>3 DEF Erasure!Receipts

\* A review goes on to bear on its attestation: all that it cites stays established.
LEMMA ReviewsStay ==
    ASSUME NEW p, NEW q, Grows(p, q)
    PROVE  Erasure!Conclusions(p) \subseteq Erasure!Conclusions(q)
<1>1. ASSUME NEW review, Erasure!Bearing(p, review)
      PROVE  Erasure!Bearing(q, review)
    <2>1. PICK rq \in Erasure!Requests(p), at \in Erasure!Attestations(p) :
            /\ review.data.request = rq.id /\ review.data.attestation = at.id
            /\ at.data.request = rq.id
            /\ Erasure!Independent(review, rq, at)
            /\ OperationAt <= review.data.from /\ review.data.from <= at.data.at
            /\ at.data.at < review.data.until /\ review.data.until <= review.recorded
            /\ {rq.id, at.id} \subseteq review.data.cited
            /\ \A id \in review.data.cited :
                  \E r \in Erasure!Requests(p) \cup Erasure!Receipts(p) :
                     r.id = id /\ r.recorded <= review.data.until
            /\ review.data.locations \subseteq at.data.locations
        BY <1>1 DEF Erasure!Bearing
    <2>2. \A id \in review.data.cited :
            \E r \in Erasure!Requests(q) \cup Erasure!Receipts(q) :
               r.id = id /\ r.recorded <= review.data.until
        BY <2>1, ReceiptsStay
    <2>3. rq \in Erasure!Requests(q) /\ at \in Erasure!Attestations(q)
        BY ReceiptsStay
    <2> QED
        BY <2>1, <2>2, <2>3 DEF Erasure!Bearing
<1> QED
    BY <1>1, BoundStays DEF Erasure!Conclusions

\* So the level of a deletion goes down only where reviews of two minds meet.
LEMMA DeletionBuilds ==
    ASSUME NEW p, NEW q, Grows(p, q),
           \A r \in q.records : Erasure!ErasureData(r)
    PROVE  \/ Erasure!Levels[Erasure!DeletionEvidence(p)]
                <= Erasure!Levels[Erasure!DeletionEvidence(q)]
           \/ /\ Erasure!DeletionEvidence(p) = "REVIEWED"
              /\ Erasure!DeletionEvidence(q) = "ATTESTED"
              /\ "inconclusive" \in Erasure!Conclusions(q)
<1> USE DEF Erasure!DeletionEvidence, Erasure!Reviewed
<1>1. CASE Erasure!Conclusions(p) # {"deletion-observed"}
    BY <1>1, ReceiptsStay DEF Erasure!Levels
<1>2. CASE /\ Erasure!Conclusions(p) = {"deletion-observed"}
           /\ Erasure!Conclusions(q) = {"deletion-observed"}
    BY <1>2 DEF Erasure!Levels
<1>3. CASE /\ Erasure!Conclusions(p) = {"deletion-observed"}
           /\ Erasure!Conclusions(q) # {"deletion-observed"}
    <2>1. Erasure!Attestations(q) # {}
        BY <1>3, ReceiptsStay DEF Erasure!Conclusions, Erasure!Bearing
    <2>2. "deletion-observed" \in Erasure!Conclusions(q)
        BY <1>3, ReviewsStay
    <2>3. Erasure!Conclusions(q) \subseteq {"deletion-observed", "inconclusive"}
        <3> SUFFICES ASSUME NEW r \in Erasure!Bound(q, "erasure.review")
                     PROVE  r.data.conclusion \in {"deletion-observed", "inconclusive"}
            BY DEF Erasure!Conclusions
        <3>1. r \in q.records /\ r.kind = "erasure.review"
            BY DEF Erasure!Bound, Erasure!Records
        <3> QED
            BY <3>1 DEF Erasure!ErasureData
    <2> QED
        BY <1>3, <2>1, <2>2, <2>3
<1> QED
    BY <1>1, <1>2, <1>3

\* No statement takes back what the evidence of a deletion has established; a forgery
\* stays one, and a statement attributed stays attributed.
THEOREM DeletionEvidenceBuilds == Spec => EvidenceBuilds
<1>1. ASSUME ReviewInv, Continued
      PROVE  /\ Workflow \notin Slotted /\ report.integrity = "FAILED" => report'.integrity = "FAILED"
             /\ Workflow = "cross" /\ report.assessment.attribution = "ESTABLISHED" =>
                   report'.assessment.attribution = "ESTABLISHED"
             /\ Workflow = "erasure" =>
                   LET was == report.assessment
                       is == report'.assessment IN
                   /\ \/ Erasure!Levels[was.deletion] <= Erasure!Levels[is.deletion]
                      \/ /\ was.deletion = "REVIEWED" /\ is.deletion = "ATTESTED"
                         /\ "inconclusive" \in is.reviews
                   /\ was.receipt = "MATCHED" => is.receipt = "MATCHED"
    <2> SUFFICES ASSUME Workflow \notin Slotted
                 PROVE  /\ report.integrity = "FAILED" => report'.integrity = "FAILED"
                        /\ Workflow = "cross" /\ report.assessment.attribution = "ESTABLISHED" =>
                              report'.assessment.attribution = "ESTABLISHED"
                        /\ Workflow = "erasure" =>
                              LET was == report.assessment
                                  is == report'.assessment IN
                              /\ \/ Erasure!Levels[was.deletion] <= Erasure!Levels[is.deletion]
                                 \/ /\ was.deletion = "REVIEWED" /\ is.deletion = "ATTESTED"
                                    /\ "inconclusive" \in is.reviews
                              /\ was.receipt = "MATCHED" => is.receipt = "MATCHED"
        BY DEF Slotted
    <2>1. PICK p : p = Package(case, file, now)
        OBVIOUS
    <2>2. PICK q : q = Package(case, file', now')
        OBVIOUS
    <2>3. Grows(p, q)
        BY <1>1, <2>1, <2>2, PackageGrows
    <2>4. /\ report = [integrity |-> Transfer!EvidenceIntegrity(p),
                       assessment |-> Assessment(Workflow, p)]
          /\ report' = [integrity |-> Transfer!EvidenceIntegrity(q),
                        assessment |-> Assessment(Workflow, q)]
        BY <1>1, <2>1, <2>2 DEF ReviewInv, Continued, Report, Workflow, Slotted
    <2>5. CASE Workflow = "cross"
        <3>1. /\ Assessment(Workflow, p) = [attribution |-> Transfer!Attribution(p)]
              /\ Assessment(Workflow, q) = [attribution |-> Transfer!Attribution(q)]
            BY <2>5 DEF Assessment
        <3> QED
            BY <2>3, <2>4, <2>5, <3>1, ForgeryStays, AttributionStays
    <2>6. CASE Workflow = "erasure"
        <3>1. /\ Assessment(Workflow, p) = Erasure!ErasureReport(p)
              /\ Assessment(Workflow, q) = Erasure!ErasureReport(q)
            BY <2>6 DEF Assessment
        <3>2. \A r \in q.records : Erasure!ErasureData(r)
            BY <1>1, <2>2, <2>6 DEF Continued, Package, DataFits, Stock, Slotted
        <3>3. Erasure!Applicability(p) = "MATCHED" => Erasure!Applicability(q) = "MATCHED"
            BY <2>3, ReceiptsStay DEF Erasure!Applicability
        <3> QED
            BY <2>3, <2>4, <2>6, <3>1, <3>2, <3>3, ForgeryStays, DeletionBuilds
               DEF Erasure!ErasureReport
    <2>7. CASE Workflow \notin {"cross", "erasure"}
        BY <2>3, <2>4, <2>7, ForgeryStays
    <2> QED
        BY <2>5, <2>6, <2>7
<1> QED
    BY <1>1, Reviewed, ReviewContinues, PTL DEF Spec, EvidenceBuilds

-----------------------------------------------------------------------------
(* What was recorded by a certain time.                                     *)

\* The records of q that count and did not in p.
New(p, q) ==
    {r \in q.records : Transfer!Eligible(q, r)} \ {r \in p.records : Transfer!Eligible(p, r)}

\* A record of a kind is an old one or has arrived.
LEMMA OldOrNew ==
    ASSUME NEW p, NEW q, Grows(p, q), NEW kind, NEW r
    PROVE  /\ r \in Transfer!Records(p, kind) => r \in Transfer!Records(q, kind)
           /\ r \in Transfer!Records(q, kind) =>
                 (r \in Transfer!Records(p, kind) \/ r \in New(p, q))
BY EligibleStays DEF Transfer!Records, New

\* Of a kind of which only later records arrive, what was recorded by then stays the same.
LEMMA RecordedByThen ==
    ASSUME NEW p, NEW q, Grows(p, q), NEW kind, NEW at \in Int,
           \A r \in New(p, q) : r.kind = kind => r.recorded > at,
           NEW r
    PROVE  r \in Transfer!Records(p, kind) /\ r.recorded <= at
              <=> r \in Transfer!Records(q, kind) /\ r.recorded <= at
<1>1. r \in Transfer!Records(q, kind) => r.recorded \in Int /\ r.kind = kind
    BY DEF Transfer!Records, Grows
<1>2. r \in New(p, q) /\ r \in Transfer!Records(q, kind) => ~ (r.recorded <= at)
    BY <1>1
<1> QED
    BY <1>2, OldOrNew

\* So what is in force then, of records bound to the target in any way, stays the same.
LEMMA InForceThen ==
    ASSUME NEW p, NEW q, Grows(p, q), NEW at \in Int, NEW kind,
           \A r \in New(p, q) : r.kind = kind => r.recorded > at,
           NEW r
    PROVE  r \in Transfer!Records(p, kind) /\ Transfer!Within(r, at)
              <=> r \in Transfer!Records(q, kind) /\ Transfer!Within(r, at)
BY RecordedByThen DEF Transfer!Within

\* The decisions that applied at a time are those that had been recorded.
LEMMA DecisionsThen ==
    ASSUME NEW p, NEW q, Grows(p, q), NEW at \in Int,
           \A r \in New(p, q) : r.kind = "transfer.decision" => r.recorded > at
    PROVE  Transfer!DecisionsAt(p, at) = Transfer!DecisionsAt(q, at)
<1>1. {r \in Transfer!Bound(p, "transfer.decision") : Transfer!Within(r, at)}
        = {r \in Transfer!Bound(q, "transfer.decision") : Transfer!Within(r, at)}
    BY InForceThen DEF Transfer!Bound
<1> QED
    BY <1>1, Zenon DEF Transfer!DecisionsAt

\* The policy that was in force goes on to have been;
LEMMA PolicyStays ==
    ASSUME NEW p, NEW q, Grows(p, q), NEW at, Transfer!PolicyAt(p, at)
    PROVE  Transfer!PolicyAt(q, at)
BY OldOrNew DEF Transfer!PolicyAt, Transfer!BoundIn, Grows

\* and is none but one that had been recorded.
LEMMA PolicyThen ==
    ASSUME NEW p, NEW q, Grows(p, q), NEW at \in Int,
           \A r \in New(p, q) : r.kind = "transfer.policy" => r.recorded > at
    PROVE  Transfer!PolicyAt(p, at) <=> Transfer!PolicyAt(q, at)
<1>1. ASSUME Transfer!PolicyAt(q, at) PROVE Transfer!PolicyAt(p, at)
    BY <1>1, InForceThen DEF Transfer!PolicyAt, Transfer!BoundIn, Grows
<1> QED
    BY <1>1, PolicyStays

\* The checks of the collector are those that were made, recorded whenever.
LEMMA HealthThen ==
    ASSUME NEW p, NEW q, Grows(p, q), NEW at
    PROVE  /\ Transfer!HealthAt(p, at) \subseteq Transfer!HealthAt(q, at)
           /\ (\A r \in New(p, q) : r.kind # "transfer.collector_health") =>
                 Transfer!HealthAt(q, at) = Transfer!HealthAt(p, at)
<1>1. Transfer!Bound(p, "transfer.collector_health")
        \subseteq Transfer!Bound(q, "transfer.collector_health")
    BY BoundStays
<1>2. ASSUME \A r \in New(p, q) : r.kind # "transfer.collector_health"
      PROVE  Transfer!Bound(q, "transfer.collector_health")
               \subseteq Transfer!Bound(p, "transfer.collector_health")
    BY <1>2, OldOrNew DEF Transfer!Bound, Transfer!Records
<1> QED
    BY <1>1, <1>2 DEF Transfer!HealthAt

\* What was proposed is judged by what was recorded before it.
LEMMA ProposedThen ==
    ASSUME NEW p, NEW q, Grows(p, q),
           \A r \in New(p, q) :
              r.recorded > OperationAt /\ r.kind # "transfer.collector_health"
    PROVE  Transfer!Proposed(p) = Transfer!Proposed(q)
<1> USE TimeAssumption
<1>1. Transfer!PolicyAt(p, OperationAt) <=> Transfer!PolicyAt(q, OperationAt)
    BY PolicyThen
<1>2. Transfer!DecisionsAt(p, OperationAt) = Transfer!DecisionsAt(q, OperationAt)
    BY DecisionsThen
<1>3. Transfer!HealthAt(p, OperationAt) = Transfer!HealthAt(q, OperationAt)
    BY HealthThen
<1>4. Transfer!PermitsOtherBytes(p) <=> Transfer!PermitsOtherBytes(q)
    BY InForceThen DEF Transfer!PermitsOtherBytes
<1>5. p.rules = q.rules
    BY DEF Grows
<1>6. Transfer!FromDecision(p) = Transfer!FromDecision(q)
    BY <1>1, <1>2, <1>5, Zenon DEF Transfer!FromDecision, Transfer!RegistryDenies
<1>7. Transfer!Unavailable(p, OperationAt) <=> Transfer!Unavailable(q, OperationAt)
    BY <1>3, Zenon DEF Transfer!Unavailable
<1>8. Transfer!CollectorRequired(p, OperationAt) <=> Transfer!CollectorRequired(q, OperationAt)
    BY <1>1, <1>5, Zenon DEF Transfer!CollectorRequired
<1> QED
    BY <1>3, <1>4, <1>6, <1>7, <1>8 DEF Transfer!Proposed

\* A denial at the time of an observed action stays one.
LEMMA DenialStays ==
    ASSUME NEW p, NEW q, Grows(p, q), NEW at \in Int,
           \A r \in New(p, q) : r.kind = "transfer.decision" => r.recorded > at,
           Transfer!EventAuthorization(p, at) = "DENY"
    PROVE  Transfer!EventAuthorization(q, at) = "DENY"
<1>1. Transfer!DecisionsAt(p, at) = Transfer!DecisionsAt(q, at)
    BY DecisionsThen
<1>2. Transfer!RegistryDenies(p, at) => Transfer!RegistryDenies(q, at)
    BY PolicyStays DEF Transfer!RegistryDenies, Grows
<1>3. Transfer!CollectorRequired(p, at) => Transfer!CollectorRequired(q, at)
    BY PolicyStays DEF Transfer!CollectorRequired, Grows
<1>4. Transfer!Unavailable(p, at) => Transfer!Unavailable(q, at)
    BY HealthThen DEF Transfer!Unavailable
<1> QED
    BY <1>1, <1>2, <1>3, <1>4 DEF Transfer!EventAuthorization

\* An observed action was an action, and goes on to be one.
LEMMA ObservedStays ==
    ASSUME NEW p, NEW q, Grows(p, q)
    PROVE  Transfer!Egresses(p) \cup Transfer!Dispatches(p)
             \subseteq Transfer!Egresses(q) \cup Transfer!Dispatches(q)
BY BoundStays DEF Transfer!Egresses, Transfer!Dispatches, Transfer!Events

\* The records of a workflow's modules are the same.
LEMMA SameRecords ==
    ASSUME NEW p, NEW kind
    PROVE  /\ Publication!Records(p, kind) = Transfer!Records(p, kind)
           /\ Response!Bound(p, kind) = Transfer!Bound(p, kind)
BY SameEligible
   DEF Publication!Records, Response!Records, Response!Bound, Transfer!Records, Transfer!Bound

\* The approval and the stage's policy are those recorded by the operation.
LEMMA ApprovedThen ==
    ASSUME NEW p, NEW q, Grows(p, q), \A r \in New(p, q) : r.recorded > OperationAt
    PROVE  /\ Publication!Approved(p) = Publication!Approved(q)
           /\ Publication!Applicable(p) = Publication!Applicable(q)
<1>1. ASSUME NEW kind, NEW r
      PROVE  r \in Publication!Records(p, kind) /\ Publication!Available(r)
                <=> r \in Publication!Records(q, kind) /\ Publication!Available(r)
    BY RecordedByThen, SameRecords, TimeAssumption DEF Publication!Available
<1>2. {r \in Publication!Records(p, "publication_approval") : Publication!Available(r)}
        = {r \in Publication!Records(q, "publication_approval") : Publication!Available(r)}
    BY <1>1
<1>3. Publication!StagePolicy(p) <=> Publication!StagePolicy(q)
    BY <1>1 DEF Publication!StagePolicy, Publication!BoundIn, Grows
<1>4. Publication!Applicable(p) = Publication!Applicable(q)
    BY <1>3 DEF Publication!Applicable, Grows
<1> QED
    BY <1>2, <1>4, Zenon DEF Publication!Approved

\* What had been answered by a cutoff that is past is what had been recorded by it.
LEMMA AnsweredThen ==
    ASSUME NEW p, NEW q, Grows(p, q), NEW asked \in Response!Asked(p),
           asked.data.until \in Int, asked.data.until <= p.asOf,
           \A r \in New(p, q) : r.kind # "info_request" /\ r.recorded > asked.data.until
    PROVE  /\ Response!Asked(p) = {asked} /\ Response!Asked(q) = {asked}
           /\ Response!ResponseStatus(p, asked) = Response!ResponseStatus(q, asked)
           /\ Response!DeliveryOf(p, asked) = Response!DeliveryOf(q, asked)
<1> DEFINE until == asked.data.until
<1>1. /\ Response!Cutoff(p, asked) = until /\ Response!Cutoff(q, asked) = until
      /\ until <= q.asOf
    BY DEF Response!Cutoff, Response!Earlier, Grows
<1>2. Response!InfoRequests(p) = Response!InfoRequests(q)
    <2>1. Transfer!Bound(p, "info_request") = Transfer!Bound(q, "info_request")
        <3>1. ASSUME NEW r \in Transfer!Bound(q, "info_request")
              PROVE  r \in Transfer!Bound(p, "info_request")
            BY OldOrNew DEF Transfer!Bound, Transfer!Records
        <3> QED
            BY <3>1, BoundStays
    <2> QED
        BY <2>1, SameRecords DEF Response!InfoRequests
<1>3. /\ Response!InfoRequests(p) = {asked}
      /\ asked.recorded <= until
    BY <1>1 DEF Response!Asked
<1>4. Response!Asked(p) = {asked} /\ Response!Asked(q) = {asked}
    BY <1>1, <1>2, <1>3 DEF Response!Asked
<1>5. ASSUME NEW kind, NEW r
      PROVE  r \in Response!Replies(p, asked, kind) /\ Response!InTime(p, asked, r)
                <=> r \in Response!Replies(q, asked, kind) /\ Response!InTime(q, asked, r)
    <2>1. Response!InTime(p, asked, r) <=> r.data.at <= until /\ r.recorded <= until
        BY <1>1 DEF Response!InTime
    <2>2. Response!InTime(q, asked, r) <=> r.data.at <= until /\ r.recorded <= until
        BY <1>1 DEF Response!InTime
    <2>3. r \in Transfer!Bound(p, kind) /\ r.recorded <= until
            <=> r \in Transfer!Bound(q, kind) /\ r.recorded <= until
        BY RecordedByThen DEF Transfer!Bound
    <2> QED
        BY <2>1, <2>2, <2>3, SameRecords DEF Response!Replies
<1>6. Response!DeliveryOf(p, asked) = Response!DeliveryOf(q, asked)
    BY <1>5 DEF Response!DeliveryOf
<1>7. {r \in Response!Responses(p, asked) : Response!InTime(p, asked, r)}
        = {r \in Response!Responses(q, asked) : Response!InTime(q, asked, r)}
    BY <1>5 DEF Response!Responses
<1>8. Response!ResponseStatus(p, asked) = Response!ResponseStatus(q, asked)
    BY <1>1, <1>7 DEF Response!ResponseStatus
<1> QED
    BY <1>4, <1>6, <1>8

\* The report of a file in one of the assessor's workflows.
LEMMA Assessed ==
    ASSUME ReviewInv, Continued, Workflow \notin Slotted
    PROVE  \E p, q :
              /\ p = Package(case, file, now) /\ q = Package(case, file', now')
              /\ Grows(p, q) /\ Arrived = New(p, q)
              /\ report = [integrity |-> Transfer!EvidenceIntegrity(p),
                           assessment |-> Assessment(Workflow, p)]
              /\ report' = [integrity |-> Transfer!EvidenceIntegrity(q),
                            assessment |-> Assessment(Workflow, q)]
<1>1. PICK p : p = Package(case, file, now)
    OBVIOUS
<1>2. PICK q : q = Package(case, file', now')
    OBVIOUS
<1>3. Grows(p, q)
    BY <1>1, <1>2, PackageGrows
<1>4. /\ report = [integrity |-> Transfer!EvidenceIntegrity(p),
                   assessment |-> Assessment(Workflow, p)]
      /\ report' = [integrity |-> Transfer!EvidenceIntegrity(q),
                    assessment |-> Assessment(Workflow, q)]
    BY <1>1, <1>2 DEF ReviewInv, Continued, Report, Workflow, Slotted
<1>5. Arrived = New(p, q)
    BY <1>1, <1>2 DEF Arrived, New
<1> QED
    BY <1>1, <1>2, <1>3, <1>4, <1>5

\* The times of the events and cutoffs of a case.
LEMMA StatementTimes ==
    ASSUME ReviewInv, NEW r \in Package(case, file, now).records
    PROVE  TimesOf(Workflow, r)
<1>1. PICK i \in file : r = Cases[case].stock[i]
    BY DEF Package
<1> QED
    BY <1>1, TimeAssumption DEF ReviewInv, Stock, Workflow

\* What was authorized, approved or answered by a time rests on what was recorded by then:
\* nothing recorded later changes it, whatever date it gives itself.
THEOREM NothingBackdated == Spec => NotBackdated
<1>1. ASSUME ReviewInv, Continued
      PROVE  /\ (Workflow \in {"transfer", "publication"} /\ \A r \in Arrived :
                    r.recorded > OperationAt /\ r.kind # "transfer.collector_health") =>
                   IF Workflow = "transfer" THEN report'.assessment.proposed = report.assessment.proposed
                   ELSE report'.assessment.approval = report.assessment.approval /\ report'.assessment.applicable = report.assessment.applicable
             /\ Workflow = "response" => \A q \in Response!Asked(Package(case, file, now)) :
                   (/\ q.data.until <= now
                    /\ \A r \in Arrived : r.kind # "info_request" /\ r.recorded > q.data.until)
                   => report'.assessment.response = report.assessment.response /\ report'.assessment.delivered = report.assessment.delivered
    <2>1. CASE Workflow = "transfer"
        <3>1. PICK p, q : /\ Grows(p, q) /\ Arrived = New(p, q)
                          /\ report.assessment = Assessment(Workflow, p)
                          /\ report'.assessment = Assessment(Workflow, q)
            BY <1>1, <2>1, Assessed DEF Slotted
        <3>2. /\ report.assessment.proposed = Transfer!Proposed(p)
              /\ report'.assessment.proposed = Transfer!Proposed(q)
            BY <2>1, <3>1 DEF Assessment, Transfer!TransferReport
        <3> QED
            BY <2>1, <3>1, <3>2, ProposedThen
    <2>2. CASE Workflow = "publication"
        <3>1. PICK p, q : /\ Grows(p, q) /\ Arrived = New(p, q)
                          /\ report.assessment = Assessment(Workflow, p)
                          /\ report'.assessment = Assessment(Workflow, q)
            BY <1>1, <2>2, Assessed DEF Slotted
        <3>2. /\ report.assessment.approval = Publication!Approved(p)
              /\ report'.assessment.approval = Publication!Approved(q)
              /\ report.assessment.applicable = Publication!Applicable(p)
              /\ report'.assessment.applicable = Publication!Applicable(q)
            BY <2>2, <3>1 DEF Assessment, Publication!PublicationReport
        <3> QED
            BY <2>2, <3>1, <3>2, ApprovedThen
    <2>3. CASE Workflow = "response"
        <3> SUFFICES ASSUME NEW asked \in Response!Asked(Package(case, file, now)),
                            asked.data.until <= now,
                            \A r \in Arrived : r.kind # "info_request" /\ r.recorded > asked.data.until
                     PROVE  /\ report'.assessment.response = report.assessment.response
                            /\ report'.assessment.delivered = report.assessment.delivered
            BY <2>3
        <3>1. PICK p, q : /\ p = Package(case, file, now)
                          /\ Grows(p, q) /\ Arrived = New(p, q)
                          /\ report.assessment = Assessment(Workflow, p)
                          /\ report'.assessment = Assessment(Workflow, q)
            BY <1>1, <2>3, Assessed DEF Slotted
        <3>2. /\ asked \in Package(case, file, now).records /\ asked.kind = "info_request"
              /\ p.asOf = now
            BY <3>1 DEF Response!Asked, Response!InfoRequests, Response!Bound, Response!Records, Package
        <3>3. asked.data.until \in Int
            BY <1>1, <2>3, <3>2, StatementTimes DEF TimesOf
        <3>4. /\ Response!Asked(p) = {asked} /\ Response!Asked(q) = {asked}
              /\ Response!ResponseStatus(p, asked) = Response!ResponseStatus(q, asked)
              /\ Response!DeliveryOf(p, asked) = Response!DeliveryOf(q, asked)
            BY <3>1, <3>2, <3>3, AnsweredThen
        <3>5. /\ report.assessment = Response!ResponseReport(p)
              /\ report'.assessment = Response!ResponseReport(q)
            BY <2>3, <3>1 DEF Assessment
        <3> QED
            BY <3>4, <3>5 DEF Response!ResponseReport
    <2> QED
        BY <2>1, <2>2, <2>3
<1> QED
    BY <1>1, Reviewed, ReviewContinues, PTL DEF Spec, NotBackdated

\* An action observed against a denial stays a violation, unless a decision comes in that
\* had been recorded by the time of an observed action.
THEOREM ViolationsStand == Spec => ViolationStands
<1>1. ASSUME ReviewInv, Continued,
             Workflow = "transfer", report.assessment.control = "VIOLATION",
             \A r \in Arrived : r.kind = "transfer.decision" =>
                \A e \in Transfer!Egresses(Package(case, file, now)) \cup Transfer!Dispatches(Package(case, file, now)) :
                   r.recorded > e.data.at
      PROVE  report'.assessment.control = "VIOLATION" /\ report'.assessment.authorization = "DENY"
    <2>1. PICK p, q : /\ p = Package(case, file, now)
                      /\ Grows(p, q) /\ Arrived = New(p, q)
                      /\ report.assessment = Assessment(Workflow, p)
                      /\ report'.assessment = Assessment(Workflow, q)
        BY <1>1, Assessed DEF Slotted
    <2>2. /\ report.assessment.control = Transfer!Control(p)
          /\ report'.assessment.control = Transfer!Control(q)
          /\ report'.assessment.authorization = Transfer!Authorized(q)
        BY <1>1, <2>1 DEF Assessment, Transfer!TransferReport
    <2>3. PICK e \in Transfer!Egresses(p) \cup Transfer!Dispatches(p) :
             Transfer!EventAuthorization(p, e.data.at) = "DENY"
        BY <1>1, <2>2 DEF Transfer!Control, Transfer!ObservedAuthorizations
    <2>4. /\ e \in p.records /\ e.kind \in {"transfer.dispatch", "transfer.egress"}
        BY DEF Transfer!Egresses, Transfer!Dispatches, Transfer!Events, Transfer!Bound, Transfer!Records
    <2>5. e.data.at \in Int
        BY <1>1, <2>1, <2>4, StatementTimes DEF TimesOf
    <2>6. Transfer!EventAuthorization(q, e.data.at) = "DENY"
        BY <1>1, <2>1, <2>3, <2>5, DenialStays
    <2>7. "DENY" \in Transfer!ObservedAuthorizations(q)
        BY <2>1, <2>6, ObservedStays DEF Transfer!ObservedAuthorizations
    <2> QED
        BY <2>2, <2>7 DEF Transfer!Control, Transfer!Authorized
<1> QED
    BY <1>1, Reviewed, ReviewContinues, PTL DEF Spec, ViolationStands

-----------------------------------------------------------------------------
(* Bundles of slots.                                                        *)

\* What is supplied in a slot stays there, and is a statement on file.
LEMMA SuppliedGrows ==
    ASSUME ReviewInv, Continued, Workflow \in Slotted
    PROVE  LET was == Supplied(case, file)
               is == Supplied(case, file') IN
           /\ DOMAIN was \subseteq DOMAIN is
           /\ \A s \in DOMAIN was : is[s] = was[s]
           /\ \A s \in DOMAIN was : \E i \in file : Stock[i].slot = s
           /\ \A i \in file : Stock[i].slot \in DOMAIN was
           /\ \A s \in DOMAIN is : \E i \in file' : Stock[i].slot = s /\ is[s] = Stock[i].signed
<1> DEFINE slot(i) == Stock[i].slot
           held(f, s) == CHOOSE i \in f : slot(i) = s
<1>1. file \subseteq file' /\ \A i, j \in file' : slot(i) = slot(j) => i = j
    BY DEF Continued
<1>2. ASSUME NEW f PROVE Supplied(case, f) = [s \in {slot(i) : i \in f} |-> Stock[held(f, s)].signed]
    BY DEF Supplied, Stock
<1> HIDE DEF slot
<1>3. ASSUME NEW f, NEW s \in {slot(i) : i \in f} PROVE held(f, s) \in f /\ slot(held(f, s)) = s
    OBVIOUS
<1>4. ASSUME NEW s \in {slot(i) : i \in file} PROVE held(file, s) = held(file', s)
    <2>1. s \in {slot(i) : i \in file'}
        BY <1>1
    <2> HIDE DEF held
    <2>2. /\ held(file, s) \in file /\ slot(held(file, s)) = s
          /\ held(file', s) \in file' /\ slot(held(file', s)) = s
        BY <2>1, <1>3
    <2> QED
        BY <1>1, <2>2
<1> HIDE DEF held
<1>5. DOMAIN Supplied(case, file) = {slot(i) : i \in file}
      /\ DOMAIN Supplied(case, file') = {slot(i) : i \in file'}
    BY <1>2
<1>6. ASSUME NEW s \in {slot(i) : i \in file} PROVE Supplied(case, file')[s] = Supplied(case, file)[s]
    <2>1. s \in {slot(i) : i \in file'}
        BY <1>1
    <2>2. Supplied(case, file)[s] = Stock[held(file, s)].signed
        BY <1>2
    <2>3. Supplied(case, file')[s] = Stock[held(file', s)].signed
        BY <1>2, <2>1
    <2> QED
        BY <1>4, <2>2, <2>3
<1>7. ASSUME NEW s \in {slot(i) : i \in file'}
      PROVE  \E i \in file' : slot(i) = s /\ Supplied(case, file')[s] = Stock[i].signed
    <2>1. held(file', s) \in file' /\ slot(held(file', s)) = s
        BY <1>3
    <2>2. Supplied(case, file')[s] = Stock[held(file', s)].signed
        BY <1>2
    <2> QED
        BY <2>1, <2>2
<1>8. DOMAIN Supplied(case, file) \subseteq DOMAIN Supplied(case, file')
    BY <1>1, <1>5
<1> QED
    BY <1>5, <1>6, <1>7, <1>8 DEF slot

\* What the bundles of a payment's or a wallet's file are to each other.
BundleGrows(b, d, at, then) ==
    /\ d.op = b.op /\ DOMAIN b.evidence \subseteq DOMAIN d.evidence
    /\ \A s \in DOMAIN b.evidence : d.evidence[s] = b.evidence[s]
    /\ at \in Int /\ then \in Int /\ at <= then
    /\ \A s \in DOMAIN d.evidence :
          s # "policy" /\ d.evidence[s].bound => d.evidence[s].body.at \in Int

\* A bundle of a continued file has grown.
LEMMA BundlesGrow ==
    ASSUME ReviewInv, Continued, Workflow \in {"payment", "wallet"}
    PROVE  BundleGrows(Bundle(case, file), Bundle(case, file'), now, now')
<1>1. Workflow \in Slotted
    BY DEF Slotted
<1>2. PICK was : was = Supplied(case, file)
    OBVIOUS
<1>3. PICK is : is = Supplied(case, file')
    OBVIOUS
<1>4. /\ DOMAIN was \subseteq DOMAIN is /\ \A s \in DOMAIN was : is[s] = was[s]
      /\ \A s \in DOMAIN is : \E i \in file' : Stock[i].slot = s /\ is[s] = Stock[i].signed
    BY <1>1, <1>2, <1>3, SuppliedGrows
<1>5. ASSUME NEW s \in DOMAIN is, s # "policy", is[s].bound PROVE is[s].body.at \in Int
    <2>1. PICK i \in file' : Stock[i].slot = s /\ is[s] = Stock[i].signed
        BY <1>4
    <2>2. case \in DOMAIN Cases /\ i \in DOMAIN Cases[case].stock
        BY DEF ReviewInv, Continued, Stock
    <2>3. TimesOf(Workflow, Stock[i])
        BY <2>2, TimeAssumption DEF Workflow, Stock
    <2> QED
        BY <1>5, <2>1, <2>3 DEF TimesOf
<1> QED
    BY <1>2, <1>3, <1>4, <1>5 DEF BundleGrows, Bundle, Continued

\* A statement that counts goes on to count.
LEMMA CountingGrows ==
    ASSUME NEW b, NEW d, NEW at, NEW then, BundleGrows(b, d, at, then)
    PROVE  Wallet!Counting(b, at) \subseteq Wallet!Counting(d, then)
<1> SUFFICES ASSUME NEW s \in Wallet!Counting(b, at) PROVE s \in Wallet!Counting(d, then)
    OBVIOUS
<1>1. /\ s \in DOMAIN b.evidence /\ Wallet!Verified(b, s)
      /\ s = "policy" \/ b.evidence[s].body.at <= at
    BY DEF Wallet!Counting
<1>2. s \in DOMAIN d.evidence /\ d.evidence[s] = b.evidence[s]
    BY <1>1 DEF BundleGrows
<1>3. Wallet!Verified(d, s)
    BY <1>1, <1>2 DEF Wallet!Verified, Wallet!Trusted
<1>4. s # "policy" => d.evidence[s].body.at \in Int
    BY <1>2, <1>3 DEF BundleGrows, Wallet!Verified
<1>5. s = "policy" \/ d.evidence[s].body.at <= then
    BY <1>1, <1>2, <1>4 DEF BundleGrows
<1> QED
    BY <1>2, <1>3, <1>5 DEF Wallet!Counting

\* What contradicts a payment's authorization goes on to.
LEMMA RefusalStays ==
    ASSUME NEW b, NEW d, NEW at, NEW then, BundleGrows(b, d, at, then)
    PROVE  /\ Wallet!PaymentIntegrity(b) = "INVALID" => Wallet!PaymentIntegrity(d) = "INVALID"
           /\ Wallet!Authorization(b, at) = "INVALID" => Wallet!Authorization(d, then) = "INVALID"
           /\ Wallet!Control(b, at) = "INVALID" => Wallet!Control(d, then) = "INVALID"
<1>1. ASSUME NEW S, NEW T, S \subseteq T, T \subseteq DOMAIN d.evidence, S \subseteq DOMAIN b.evidence,
             NEW ref, NEW s, Wallet!Breaks(b, S, ref, s)
      PROVE  Wallet!Breaks(d, T, ref, s)
    BY <1>1 DEF Wallet!Breaks, BundleGrows
<1>2. Wallet!PaymentIntegrity(b) = "INVALID" => Wallet!PaymentIntegrity(d) = "INVALID"
    BY DEF Wallet!PaymentIntegrity, Wallet!Verdict, Wallet!Trusted, BundleGrows
<1>3. PICK S : S = Wallet!Counting(b, at)
    OBVIOUS
<1>4. PICK T : T = Wallet!Counting(d, then)
    OBVIOUS
<1>5. /\ S \subseteq T /\ S \subseteq DOMAIN b.evidence /\ T \subseteq DOMAIN d.evidence
      /\ \A s \in S : d.evidence[s] = b.evidence[s]
      /\ d.op = b.op
    BY <1>3, <1>4, CountingGrows DEF Wallet!Counting, BundleGrows
<1>6. \A ref, s : Wallet!Breaks(b, S, ref, s) => Wallet!Breaks(d, T, ref, s)
    BY <1>1, <1>5
<1>7. ASSUME NEW a \in S, NEW body
      PROVE  Wallet!ApprovalHolds(b, a, body) <=> Wallet!ApprovalHolds(d, a, body)
    BY <1>5 DEF Wallet!ApprovalHolds
<1>8. Wallet!Approvals \subseteq S => (Wallet!ApproversDiffer(b) <=> Wallet!ApproversDiffer(d))
    BY <1>5 DEF Wallet!ApproversDiffer, Wallet!Approvals
<1>9. ASSUME NEW st, NEW body, ~ Wallet!StatusHolds(b, S, st, body)
      PROVE  ~ Wallet!StatusHolds(d, T, st, body)
    BY <1>5, <1>6, <1>9 DEF Wallet!StatusHolds
<1>10. Wallet!Authorization(b, at) = "INVALID" => Wallet!Authorization(d, then) = "INVALID"
    BY <1>3, <1>4, <1>5, <1>6, <1>7, <1>8, <1>9 DEF Wallet!Authorization, Wallet!Verdict
<1>11. Wallet!Control(b, at) = "INVALID" => Wallet!Control(d, then) = "INVALID"
    BY <1>3, <1>4, <1>5, <1>6 DEF Wallet!Control, Wallet!Verdict
<1> QED
    BY <1>2, <1>10, <1>11

\* A statement that counts and is referred to is referred to alike in both.
LEMMA SameReferences ==
    ASSUME NEW b, NEW d, NEW at, NEW then, BundleGrows(b, d, at, then),
           NEW s \in Wallet!Counting(b, at), NEW ref
    PROVE  Wallet!Breaks(b, Wallet!Counting(b, at), ref, s)
              <=> Wallet!Breaks(d, Wallet!Counting(d, then), ref, s)
BY CountingGrows DEF Wallet!Breaks, Wallet!Counting, BundleGrows

\* What was authorized, with every statement that this takes, stays so.
LEMMA ApprovalStays ==
    ASSUME NEW b, NEW d, NEW at, NEW then, BundleGrows(b, d, at, then),
           Wallet!Authorization(b, at) = "VALID"
    PROVE  Wallet!Authorization(d, then) = "VALID"
<1>3. PICK S : S = Wallet!Counting(b, at)
    OBVIOUS
<1>4. PICK T : T = Wallet!Counting(d, then)
    OBVIOUS
<1>5. /\ S \subseteq T /\ \A s \in S : d.evidence[s] = b.evidence[s]
      /\ d.op = b.op
    BY <1>3, <1>4, CountingGrows DEF Wallet!Counting, BundleGrows
<1>6. "dispatch" \in S /\ Wallet!Approvals \cup {"policy", "status"} \subseteq S
    BY <1>3 DEF Wallet!Authorization, Wallet!Verdict
<1>7. \A ref : \A s \in S : Wallet!Breaks(b, S, ref, s) <=> Wallet!Breaks(d, T, ref, s)
    BY <1>3, <1>4, SameReferences
<1>8. ASSUME NEW a \in S, NEW body
      PROVE  Wallet!ApprovalHolds(b, a, body) <=> Wallet!ApprovalHolds(d, a, body)
    BY <1>5 DEF Wallet!ApprovalHolds
<1>9. Wallet!ApproversDiffer(b) <=> Wallet!ApproversDiffer(d)
    BY <1>5, <1>6 DEF Wallet!ApproversDiffer, Wallet!Approvals
<1>10. ASSUME NEW st, NEW body
       PROVE  Wallet!StatusHolds(b, S, st, body) <=> Wallet!StatusHolds(d, T, st, body)
    BY <1>5, <1>6, <1>7 DEF Wallet!StatusHolds
<1> QED
    BY <1>3, <1>4, <1>5, <1>6, <1>7, <1>8, <1>9, <1>10
       DEF Wallet!Authorization, Wallet!Verdict

\* and so does a control for which every slot was on record;
LEMMA ControlStays ==
    ASSUME NEW b, NEW d, NEW at, NEW then, BundleGrows(b, d, at, then),
           DOMAIN d.evidence \subseteq Wallet!PaymentSlots,
           Wallet!Control(b, at) = "VALID"
    PROVE  Wallet!Control(d, then) = "VALID"
<1>1. Wallet!Counting(b, at) = Wallet!PaymentSlots
    BY DEF Wallet!Control, Wallet!Verdict
<1>2. Wallet!Counting(d, then) = Wallet!PaymentSlots
    BY <1>1, CountingGrows DEF Wallet!Counting
<1>3. /\ \A s \in Wallet!PaymentSlots : d.evidence[s] = b.evidence[s]
      /\ d.op = b.op
    BY <1>1 DEF Wallet!Counting, BundleGrows
<1>4. \A ref : \A s \in Wallet!PaymentSlots :
         Wallet!Breaks(b, Wallet!PaymentSlots, ref, s) <=> Wallet!Breaks(d, Wallet!PaymentSlots, ref, s)
    BY <1>3 DEF Wallet!Breaks
<1>5. {"policy", "control", "dispatch", "collector"} \subseteq Wallet!PaymentSlots
    BY DEF Wallet!PaymentSlots
<1>6. /\ d.evidence["policy"] = b.evidence["policy"] /\ d.evidence["control"] = b.evidence["control"]
      /\ d.evidence["dispatch"] = b.evidence["dispatch"]
      /\ d.evidence["collector"] = b.evidence["collector"]
    BY <1>3, <1>5
<1>7. /\ Wallet!Breaks(b, Wallet!PaymentSlots, b.op.policy, "policy")
           <=> Wallet!Breaks(d, Wallet!PaymentSlots, b.op.policy, "policy")
      /\ \A ref : Wallet!Breaks(b, Wallet!PaymentSlots, ref, "control")
                     <=> Wallet!Breaks(d, Wallet!PaymentSlots, ref, "control")
    BY <1>4, <1>5
<1> DEFINE S == Wallet!PaymentSlots
           seen(c, route) == IF route \in DOMAIN c.routes THEN c.routes[route] ELSE "unobserved"
           atRoutes(c, op) == \/ c.op # op \/ c.scope # op.scope
                              \/ \E r \in DOMAIN Wallet!Routes :
                                    seen(c, r) \notin {"unobserved", Wallet!Routes[r]}
           atCollector(bb, k) == \/ k.op # bb.op \/ k.scope # bb.op.scope
                                 \/ \E s \in (DOMAIN k.retained \cap S) \ {"collector"} :
                                       \/ k.retained[s] # bb.evidence[s].digest
                                       \/ s # "policy" /\ k.at < bb.evidence[s].body.at
           contradicted(bb) ==
               \/ bb.evidence["dispatch"].body.actual.scope # bb.op.scope
               \/ Wallet!Breaks(bb, S, bb.op.policy, "policy")
               \/ bb.evidence["policy"].body.routes # DOMAIN Wallet!Routes
               \/ atRoutes(bb.evidence["control"].body, bb.op)
               \/ Wallet!Breaks(bb, S, bb.evidence["dispatch"].body.refs.control, "control")
               \/ atCollector(bb, bb.evidence["collector"].body)
           open(c, disp, k) ==
               \/ ~ Wallet!Fresh(c.at, disp.at, PaymentAge)
               \/ DOMAIN c.routes # DOMAIN Wallet!Routes
               \/ \E r \in DOMAIN Wallet!Routes : seen(c, r) = "unobserved"
               \/ k.gap \/ DOMAIN k.retained # S \ {"collector"}
           judged(bb) == Wallet!Verdict(contradicted(bb),
                            open(bb.evidence["control"].body, bb.evidence["dispatch"].body,
                                 bb.evidence["collector"].body))
<1>8. /\ {"control", "dispatch"} \subseteq S /\ "dispatch" \in S /\ "policy" \in S
      /\ "control" \in S /\ "collector" \in S
    BY <1>5
<1>9. Wallet!Control(b, at) = judged(b)
    BY <1>1, <1>8 DEF Wallet!Control
<1>10. Wallet!Control(d, then) = judged(d)
    BY <1>2, <1>8 DEF Wallet!Control
<1>11. \A k : atCollector(b, k) <=> atCollector(d, k)
    BY <1>3
<1> HIDE DEF S, atRoutes, atCollector, open
<1>12. contradicted(b) <=> contradicted(d)
    BY <1>3, <1>6, <1>7, <1>11 DEF S
<1> HIDE DEF contradicted
<1>13. judged(b) = judged(d)
    BY <1>6, <1>12 DEF Wallet!Verdict
<1> QED
    BY <1>9, <1>10, <1>13

\* and an execution that was decided.
LEMMA ExecutionStays ==
    ASSUME NEW b, NEW d, NEW at, NEW then, BundleGrows(b, d, at, then),
           Wallet!Execution(b, at).verdict # "INDETERMINATE"
    PROVE  Wallet!Execution(d, then) = Wallet!Execution(b, at)
<1>3. PICK S : S = Wallet!Counting(b, at)
    OBVIOUS
<1>4. PICK T : T = Wallet!Counting(d, then)
    OBVIOUS
<1>5. /\ S \subseteq T /\ \A s \in S : d.evidence[s] = b.evidence[s]
      /\ d.op = b.op
    BY <1>3, <1>4, CountingGrows DEF Wallet!Counting, BundleGrows
<1>6. "dispatch" \in S
    BY <1>3 DEF Wallet!Execution
<1>7. \A ref : \A s \in S : Wallet!Breaks(b, S, ref, s) <=> Wallet!Breaks(d, T, ref, s)
    BY <1>3, <1>4, SameReferences
<1>8. \A ref, s : Wallet!Breaks(b, S, ref, s) => Wallet!Breaks(d, T, ref, s)
    BY <1>7 DEF Wallet!Breaks
<1>9. ASSUME NEW r, NEW body
      PROVE  /\ ~ Wallet!ReceiptHolds(b, S, r, body) => ~ Wallet!ReceiptHolds(d, T, r, body)
             /\ "policy" \in S =>
                   (Wallet!ReceiptHolds(b, S, r, body) <=> Wallet!ReceiptHolds(d, T, r, body))
    BY <1>5, <1>6, <1>7 DEF Wallet!ReceiptHolds
<1> DEFINE needed == Wallet!Approvals \cup {"policy", "status", "control"}
           contradicted(bb, SS) ==
               \/ ~ Wallet!DispatchMatches(bb.evidence["dispatch"].body, bb.op)
               \/ Wallet!Breaks(bb, SS, bb.op.policy, "policy")
               \/ \E s \in needed : Wallet!Breaks(bb, SS, bb.evidence["dispatch"].body.refs[s], s)
               \/ "receipt" \in SS /\ ~ Wallet!ReceiptHolds(bb, SS, bb.evidence["receipt"].body,
                                                          bb.evidence["dispatch"].body)
           open(SS) == "receipt" \notin SS \/ ~ needed \subseteq SS
           pending(bb) == bb.evidence["receipt"].body.status \notin {"settled", "failed", "reversed"}
           outcome(bb, SS) == IF contradicted(bb, SS) \/ open(SS) THEN "unknown"
                              ELSE bb.evidence["receipt"].body.status
           verdict(bb, SS) == Wallet!Verdict(contradicted(bb, SS), open(SS) \/ pending(bb))
<1>10. /\ Wallet!Execution(b, at) =
              [verdict |-> verdict(b, S), outcome |-> outcome(b, S),
               settled |-> verdict(b, S) = "VALID" /\ outcome(b, S) = "settled"]
       /\ Wallet!Execution(d, then) =
              [verdict |-> verdict(d, T), outcome |-> outcome(d, T),
               settled |-> verdict(d, T) = "VALID" /\ outcome(d, T) = "settled"]
    BY <1>3, <1>4, <1>5, <1>6 DEF Wallet!Execution
<1>11. contradicted(b, S) => contradicted(d, T)
    BY <1>5, <1>6, <1>8, <1>9
<1>12. ~ open(S) => ~ open(T) /\ (contradicted(d, T) => contradicted(b, S)) /\ pending(d) = pending(b)
                    /\ d.evidence["receipt"] = b.evidence["receipt"]
    BY <1>5, <1>6, <1>7, <1>9
<1> HIDE DEF contradicted, open, pending
<1>13. contradicted(b, S) \/ (~ open(S) /\ ~ pending(b))
    <2>1. Wallet!Execution(b, at).verdict = verdict(b, S)
        BY <1>10
    <2> QED
        BY <2>1 DEF Wallet!Verdict
<1>14. verdict(d, T) = verdict(b, S) /\ outcome(d, T) = outcome(b, S)
    BY <1>11, <1>12, <1>13 DEF Wallet!Verdict
<1> QED
    BY <1>10, <1>14

\* A wallet's statement that can be read goes on to be.
LEMMA ReadableGrows ==
    ASSUME NEW b, NEW d, NEW at, NEW then, BundleGrows(b, d, at, then)
    PROVE  /\ Wallet!Readable(b) \subseteq Wallet!Readable(d)
           /\ \A s \in DOMAIN b.evidence :
                 s \in Wallet!Readable(d) <=> s \in Wallet!Readable(b)
           /\ \A s \in Wallet!Readable(b) : d.evidence[s] = b.evidence[s]
           /\ d.op = b.op
           /\ \A Q : Wallet!Misplaced(b, Q) => Wallet!Misplaced(d, Q)
           /\ \A s \in Wallet!Readable(b) : Wallet!Misplaced(d, {s}) <=> Wallet!Misplaced(b, {s})
BY DEF Wallet!Readable, Wallet!WalletTrusted, Wallet!Misplaced, BundleGrows

\* What contradicts a wallet's execution or chain goes on to.
LEMMA WalletContradicted ==
    ASSUME NEW b, NEW d, NEW at, NEW then, BundleGrows(b, d, at, then)
    PROVE  /\ Wallet!WalletIntegrity(b) = "INVALID" => Wallet!WalletIntegrity(d) = "INVALID"
           /\ Wallet!WalletExecution(b, at) = "INVALID" => Wallet!WalletExecution(d, then) = "INVALID"
           /\ Wallet!WalletChain(b, at) = "INVALID" => Wallet!WalletChain(d, then) = "INVALID"
<1>1. Wallet!WalletIntegrity(b) = "INVALID" => Wallet!WalletIntegrity(d) = "INVALID"
    BY DEF Wallet!WalletIntegrity, Wallet!Verdict, Wallet!WalletTrusted, BundleGrows
<1>2. PICK R : R = Wallet!Readable(b)
    OBVIOUS
<1>3. PICK Q : Q = Wallet!Readable(d)
    OBVIOUS
<1>4. /\ R \subseteq Q /\ \A s \in R : d.evidence[s] = b.evidence[s]
      /\ d.op = b.op /\ \A X : Wallet!Misplaced(b, X) => Wallet!Misplaced(d, X)
    BY <1>2, <1>3, ReadableGrows
<1>5. Wallet!WalletExecution(b, at) = "INVALID" => Wallet!WalletExecution(d, then) = "INVALID"
    BY <1>2, <1>3, <1>4 DEF Wallet!WalletExecution, Wallet!Verdict, Wallet!Digest
<1>6. Wallet!WalletChain(b, at) = "INVALID" => Wallet!WalletChain(d, then) = "INVALID"
    BY <1>2, <1>3, <1>4 DEF Wallet!WalletChain, Wallet!Verdict, Wallet!Digest
<1> QED
    BY <1>1, <1>5, <1>6

\* A chain that was found to show the operation goes on to.
LEMMA ChainStays ==
    ASSUME NEW b, NEW d, NEW at, NEW then, BundleGrows(b, d, at, then),
           Wallet!WalletChain(b, at) = "VALID"
    PROVE  Wallet!WalletChain(d, then) = "VALID"
<1>1. PICK R : R = Wallet!Readable(b)
    OBVIOUS
<1>2. PICK Q : Q = Wallet!Readable(d)
    OBVIOUS
<1>3. {"chain", "execution", "policy"} \subseteq R
    BY <1>1 DEF Wallet!WalletChain, Wallet!Verdict
<1>4. /\ R \subseteq Q /\ \A s \in R : d.evidence[s] = b.evidence[s]
      /\ d.op = b.op /\ (Wallet!Misplaced(b, {"chain"}) <=> Wallet!Misplaced(d, {"chain"}))
    BY <1>1, <1>2, <1>3, ReadableGrows
<1>5. ~ (then < d.evidence["chain"].body.at)
    <2>1. ~ Wallet!Misplaced(b, {"chain"}) /\ ~ (at < b.evidence["chain"].body.at)
        BY <1>1 DEF Wallet!WalletChain, Wallet!Verdict
    <2>2. b.evidence["chain"].bound /\ "chain" \in DOMAIN b.evidence
        BY <1>1, <1>3, <2>1 DEF Wallet!Misplaced, Wallet!Readable
    <2>3. d.evidence["chain"].body.at \in Int /\ d.evidence["chain"] = b.evidence["chain"]
        BY <2>2 DEF BundleGrows
    <2> QED
        BY <2>1, <2>3 DEF BundleGrows
<1> QED
    BY <1>1, <1>2, <1>3, <1>4, <1>5 DEF Wallet!WalletChain, Wallet!Verdict, Wallet!Digest

\* An execution goes on to be what it was, once a policy was supplied to judge it by.
LEMMA WalletExecutionStays ==
    ASSUME NEW b, NEW d, NEW at, NEW then, BundleGrows(b, d, at, then),
           "policy" \in DOMAIN b.evidence,
           Wallet!WalletExecution(b, at) = "VALID"
    PROVE  Wallet!WalletExecution(d, then) = "VALID"
<1>1. PICK R : R = Wallet!Readable(b)
    OBVIOUS
<1>2. PICK Q : Q = Wallet!Readable(d)
    OBVIOUS
<1>3. {"execution", "approval", "revocation", "control"} \subseteq R
    BY <1>1 DEF Wallet!WalletExecution, Wallet!Verdict, Wallet!Before
<1>4. /\ R \subseteq Q /\ \A s \in R : d.evidence[s] = b.evidence[s]
      /\ d.op = b.op /\ (Wallet!Misplaced(b, {"execution"}) <=> Wallet!Misplaced(d, {"execution"}))
      /\ "policy" \in R <=> "policy" \in Q
    BY <1>1, <1>2, <1>3, ReadableGrows
<1>5. ~ (then < d.evidence["execution"].body.at)
    <2>1. ~ Wallet!Misplaced(b, {"execution"}) /\ ~ (at < b.evidence["execution"].body.at)
        BY <1>1 DEF Wallet!WalletExecution, Wallet!Verdict
    <2>2. b.evidence["execution"].bound /\ "execution" \in DOMAIN b.evidence
        BY <1>1, <1>3, <2>1 DEF Wallet!Misplaced, Wallet!Readable
    <2>3. d.evidence["execution"].body.at \in Int /\ d.evidence["execution"] = b.evidence["execution"]
        BY <2>2 DEF BundleGrows
    <2> QED
        BY <2>1, <2>3 DEF BundleGrows
<1>6. Wallet!Before \ {"policy"} = {"approval", "revocation", "control"}
    BY DEF Wallet!Before
<1> QED
    BY <1>1, <1>2, <1>3, <1>4, <1>5, <1>6
       DEF Wallet!WalletExecution, Wallet!Verdict, Wallet!Digest

\* A known contradiction is retained, whatever else is missing or comes in, and what was
\* established stays so, but for the wallet's authorization at the caller's time.
THEOREM VerdictsAreFinal == Spec => VerdictsSettle
<1>1. ASSUME ReviewInv, Continued
      PROVE  /\ Workflow = "payment" =>
                   /\ Stays({"integrity", "authorization", "control"}, "INVALID")
                   /\ Stays({"authorization", "control"}, "VALID")
                   /\ report.execution.verdict # "INDETERMINATE" => report'.execution = report.execution
             /\ Workflow = "wallet" =>
                   /\ Stays({"integrity", "execution", "chain"}, "INVALID")
                   /\ Stays({"chain"}, "VALID")
                   /\ (\E i \in file : Stock[i].slot = "policy") => Stays({"execution"}, "VALID")
    <2>1. PICK b : b = Bundle(case, file)
        OBVIOUS
    <2>2. PICK d : d = Bundle(case, file')
        OBVIOUS
    <2>3. CASE Workflow = "payment"
        <3>1. BundleGrows(b, d, now, now')
            BY <1>1, <2>1, <2>2, <2>3, BundlesGrow
        <3>2. /\ report = Wallet!PaymentReport(b, now)
              /\ report' = Wallet!PaymentReport(d, now')
            BY <1>1, <2>1, <2>2, <2>3 DEF ReviewInv, Continued, Report, Workflow
        <3>3. DOMAIN d.evidence \subseteq Wallet!PaymentSlots
            <4>1. ASSUME NEW s \in DOMAIN Supplied(case, file') PROVE s \in Wallet!PaymentSlots
                <5>1. PICK i \in file' : Stock[i].slot = s
                    BY <1>1, <2>3, SuppliedGrows DEF Slotted
                <5>2. case \in DOMAIN Cases /\ i \in DOMAIN Cases[case].stock
                    BY <1>1 DEF ReviewInv, Continued, Stock
                <5> QED
                    BY <2>3, <5>1, <5>2, ShapeAssumption DEF Workflow, Stock
            <4> QED
                BY <2>2, <4>1 DEF Bundle
        <3>4. /\ report.integrity = Wallet!PaymentIntegrity(b) /\ report'.integrity = Wallet!PaymentIntegrity(d)
              /\ report.authorization = Wallet!Authorization(b, now)
              /\ report'.authorization = Wallet!Authorization(d, now')
              /\ report.execution = Wallet!Execution(b, now)
              /\ report'.execution = Wallet!Execution(d, now')
              /\ report.control = Wallet!Control(b, now)
              /\ report'.control = Wallet!Control(d, now')
            BY <3>2 DEF Wallet!PaymentReport
        <3>5. Stays({"integrity", "authorization", "control"}, "INVALID")
            BY <3>1, <3>2, RefusalStays DEF Stays, Wallet!PaymentReport
        <3>6. Stays({"authorization", "control"}, "VALID")
            BY <3>1, <3>2, <3>3, ApprovalStays, ControlStays DEF Stays, Wallet!PaymentReport
        <3>7. report.execution.verdict # "INDETERMINATE" => report'.execution = report.execution
            BY <3>1, <3>4, ExecutionStays
        <3> QED
            BY <2>3, <3>5, <3>6, <3>7
    <2>4. CASE Workflow = "wallet"
        <3>1. BundleGrows(b, d, now, now')
            BY <1>1, <2>1, <2>2, <2>4, BundlesGrow
        <3>2. /\ report = Wallet!WalletReport(b, now)
              /\ report' = Wallet!WalletReport(d, now')
            BY <1>1, <2>1, <2>2, <2>4 DEF ReviewInv, Continued, Report, Workflow
        <3>3. b.op = d.op
            BY <3>1 DEF BundleGrows
        <3>4. (\E i \in file : Stock[i].slot = "policy") => "policy" \in DOMAIN b.evidence
            BY <1>1, <2>1, <2>4, SuppliedGrows DEF Slotted, Bundle
        <3>5. CASE ~ Wallet!OperationFits(b.op)
            BY <2>4, <3>2, <3>3, <3>5 DEF Stays, Wallet!WalletReport
        <3>6. CASE Wallet!OperationFits(b.op)
            <4>1. /\ report.integrity = Wallet!WalletIntegrity(b) /\ report'.integrity = Wallet!WalletIntegrity(d)
                  /\ report.execution = Wallet!WalletExecution(b, now)
                  /\ report'.execution = Wallet!WalletExecution(d, now')
                  /\ report.chain = Wallet!WalletChain(b, now)
                  /\ report'.chain = Wallet!WalletChain(d, now')
                BY <3>2, <3>3, <3>6 DEF Wallet!WalletReport
            <4>2. Stays({"integrity", "execution", "chain"}, "INVALID")
                <5>1. /\ report.integrity = "INVALID" => report'.integrity = "INVALID"
                      /\ report.execution = "INVALID" => report'.execution = "INVALID"
                      /\ report.chain = "INVALID" => report'.chain = "INVALID"
                    BY <3>1, <4>1, WalletContradicted
                <5> QED
                    BY <5>1 DEF Stays
            <4>3. Stays({"chain"}, "VALID")
                BY <3>1, <4>1, ChainStays DEF Stays
            <4>4. (\E i \in file : Stock[i].slot = "policy") => Stays({"execution"}, "VALID")
                BY <3>1, <3>4, <4>1, WalletExecutionStays DEF Stays
            <4> QED
                BY <2>4, <4>2, <4>3, <4>4
        <3> QED
            BY <3>5, <3>6
    <2> QED
        BY <2>3, <2>4
<1> QED
    BY <1>1, Reviewed, ReviewContinues, PTL DEF Spec, VerdictsSettle

-----------------------------------------------------------------------------
(* Scopes.                                                                  *)

\* What the packages of a scope's file are to each other.
ScopeGrows(p, q, at, then) ==
    /\ q.policy = p.policy /\ q.anchor = p.anchor /\ q.index = p.index /\ q.events = p.events
    /\ q.proofs = p.proofs /\ q.delivery = p.delivery
    /\ DOMAIN p.x \subseteq DOMAIN q.x /\ \A n \in DOMAIN p.x : q.x[n] = p.x[n]
    /\ at \in Int /\ then \in Int /\ at <= then
    /\ \A n \in DOMAIN q.x : TimesOf("scope", [slot |-> n, signed |-> q.x[n]])

\* A package of a continued file has grown.
LEMMA ScopesGrow ==
    ASSUME ReviewInv, Continued, Workflow = "scope"
    PROVE  ScopeGrows(ScopePackage(case, file), ScopePackage(case, file'), now, now')
<1>1. PICK was : was = Supplied(case, file)
    OBVIOUS
<1>2. PICK is : is = Supplied(case, file')
    OBVIOUS
<1>3. /\ DOMAIN was \subseteq DOMAIN is /\ \A s \in DOMAIN was : is[s] = was[s]
      /\ \A s \in DOMAIN is : \E i \in file' : Stock[i].slot = s /\ is[s] = Stock[i].signed
    BY <1>1, <1>2, SuppliedGrows DEF Slotted
<1>4. case \in DOMAIN Cases
    BY DEF ReviewInv
<1>5. ASSUME NEW s \in DOMAIN is PROVE TimesOf("scope", [slot |-> s, signed |-> is[s]])
    <2>1. PICK i \in file' : Stock[i].slot = s /\ is[s] = Stock[i].signed
        BY <1>3
    <2>2. i \in DOMAIN Cases[case].stock
        BY <2>1 DEF Continued, Stock
    <2>3. TimesOf("scope", Stock[i])
        BY <1>4, <2>2, TimeAssumption DEF Workflow, Stock
    <2> QED
        BY <2>1, <2>3 DEF TimesOf
<1>6. DOMAIN Cases[case].base = {"policy", "anchor", "index", "events", "proofs", "delivery", "x"}
    BY <1>4, ShapeAssumption DEF Workflow
<1>7. /\ ScopePackage(case, file) = [Cases[case].base EXCEPT !.x = was]
      /\ ScopePackage(case, file') = [Cases[case].base EXCEPT !.x = is]
    BY <1>1, <1>2 DEF ScopePackage
<1> QED
    BY <1>3, <1>5, <1>6, <1>7 DEF ScopeGrows, Continued

\* A receipt that is accepted goes on to be.
LEMMA ReceiptStays ==
    ASSUME NEW at \in Int, NEW then \in Int, at <= then,
           NEW receipt, NEW target, NEW purpose,
           receipt.bound => receipt.body.accepted \in Int /\ receipt.body.uncertainty \in Int,
           Scope!ReceiptOk(receipt, target, purpose, at)
    PROVE  Scope!ReceiptOk(receipt, target, purpose, then)
BY DEF Scope!ReceiptOk, Scope!Latest, Scope!Signed

\* The batch stays anchored, and its events and proofs stay what they are.
LEMMA BatchStays ==
    ASSUME NEW p, NEW q, NEW at, NEW then, ScopeGrows(p, q, at, then)
    PROVE  /\ Scope!AnchorOk(p, at) => Scope!AnchorOk(q, then)
           /\ Scope!IndexGood(p) <=> Scope!IndexGood(q)
           /\ \A e : Scope!EventChecked(p, e) <=> Scope!EventChecked(q, e)
           /\ \A i, e, path : Scope!Included(p, i, e, path) <=> Scope!Included(q, i, e, path)
           /\ \A id : Scope!Records(p, id) = Scope!Records(q, id) /\ Scope!Proofs(p, id) = Scope!Proofs(q, id)
<1>1. ASSUME Scope!AnchorOk(p, at) PROVE Scope!AnchorOk(q, then)
    <2>1. /\ "anchor_receipt" \in DOMAIN q.x /\ q.x["anchor_receipt"] = p.x["anchor_receipt"]
          /\ q.anchor = p.anchor /\ at \in Int /\ then \in Int /\ at <= then
        BY <1>1 DEF Scope!AnchorOk, ScopeGrows
    <2>2. TimesOf("scope", [slot |-> "anchor_receipt", signed |-> q.x["anchor_receipt"]])
        BY <2>1 DEF ScopeGrows
    <2>3. q.x["anchor_receipt"].bound =>
            q.x["anchor_receipt"].body.accepted \in Int /\ q.x["anchor_receipt"].body.uncertainty \in Int
        BY <2>2 DEF TimesOf
    <2>4. Scope!ReceiptOk(q.x["anchor_receipt"], q.anchor.digest, "anchor", at)
        BY <1>1, <2>1 DEF Scope!AnchorOk
    <2>5. Scope!ReceiptOk(q.x["anchor_receipt"], q.anchor.digest, "anchor", then)
        BY <2>1, <2>3, <2>4, ReceiptStays
    <2>6. Scope!AnchorSigned(q)
        BY <1>1 DEF Scope!AnchorOk, Scope!AnchorSigned, ScopeGrows
    <2> QED
        BY <2>1, <2>5, <2>6 DEF Scope!AnchorOk
<1>2. \A i, e, path : Scope!Included(p, i, e, path) <=> Scope!Included(q, i, e, path)
    BY DEF Scope!Included, ScopeGrows
<1>3. \A e : Scope!EventChecked(p, e) <=> Scope!EventChecked(q, e)
    BY <1>2 DEF Scope!EventChecked
<1>4. Scope!IndexGood(p) <=> Scope!IndexGood(q)
    BY DEF Scope!IndexGood, ScopeGrows
<1>5. \A id : Scope!Records(p, id) = Scope!Records(q, id) /\ Scope!Proofs(p, id) = Scope!Proofs(q, id)
    BY DEF Scope!Records, Scope!Proofs, ScopeGrows
<1> QED
    BY <1>1, <1>2, <1>3, <1>4, <1>5

\* So records and proofs that were found valid stay so.
LEMMA ValidStays ==
    ASSUME NEW p, NEW q, NEW at, NEW then, ScopeGrows(p, q, at, then)
    PROVE  /\ \A id : Scope!RecordsValid(p, at, id) => Scope!RecordsValid(q, then, id)
           /\ \A id : Scope!Single(p, at, id) => Scope!Single(q, then, id)
           /\ \A proof : Scope!ProofValid(p, at, proof) => Scope!ProofValid(q, then, proof)
           /\ Scope!Prerequisites(p, at) => Scope!Prerequisites(q, then)
<1>1. /\ Scope!AnchorOk(p, at) => Scope!AnchorOk(q, then)
      /\ Scope!IndexGood(p) <=> Scope!IndexGood(q)
      /\ \A e : Scope!EventChecked(p, e) <=> Scope!EventChecked(q, e)
      /\ \A i, e, path : Scope!Included(p, i, e, path) <=> Scope!Included(q, i, e, path)
      /\ \A id : Scope!Records(p, id) = Scope!Records(q, id)
    BY BatchStays
<1>2. p.events = q.events /\ p.proofs = q.proofs
    BY DEF ScopeGrows
<1>3. \A id : Scope!RecordsValid(p, at, id) => Scope!RecordsValid(q, then, id)
    BY <1>1, <1>2 DEF Scope!RecordsValid, Scope!EventValid
<1>4. \A id : Scope!Single(p, at, id) => Scope!Single(q, then, id)
    BY <1>1, <1>3, Zenon DEF Scope!Single
<1>5. \A proof : Scope!ProofValid(p, at, proof) => Scope!ProofValid(q, then, proof)
    BY <1>1 DEF Scope!ProofValid
<1>6. Scope!Prerequisites(p, at) => Scope!Prerequisites(q, then)
    BY <1>1, <1>2 DEF Scope!Prerequisites
<1> QED
    BY <1>3, <1>4, <1>5, <1>6

\* A sidecar of the scope stays one, with what it says.
LEMMA SidecarStays ==
    ASSUME NEW p, NEW q, NEW at, NEW then, ScopeGrows(p, q, at, then), "scope" \in DOMAIN p.x,
           NEW n
    PROVE  /\ Scope!Sidecar(p, n) => Scope!Sidecar(q, n) /\ q.x[n] = p.x[n]
           /\ n \in DOMAIN p.x => (Scope!Sidecar(p, n) <=> Scope!Sidecar(q, n)) /\ q.x[n] = p.x[n]
           /\ Scope!ScopeBody(p) = Scope!ScopeBody(q)
           /\ Scope!ScopeOk(p) <=> Scope!ScopeOk(q)
BY DEF Scope!Sidecar, Scope!ScopeBody, Scope!ScopeOk, ScopeGrows

\* The manifest, the closure and the inventory, once in order, stay so;
LEMMA SidecarsStay ==
    ASSUME NEW p, NEW q, NEW at, NEW then, ScopeGrows(p, q, at, then), "scope" \in DOMAIN p.x
    PROVE  /\ Scope!ManifestOk(p) => Scope!ManifestOk(q) /\ q.x["manifest"] = p.x["manifest"]
           /\ Scope!Final(p, at) => Scope!Final(q, then)
           /\ Scope!ClosureFits(p) => Scope!ClosureFits(q) /\ q.x["closure"] = p.x["closure"]
           /\ Scope!Closed(p, at) => Scope!Closed(q, then)
           /\ Scope!InventoryOk(p, at) =>
                 Scope!InventoryOk(q, then) /\ q.x["inventory"] = p.x["inventory"]
<1>1. Scope!ScopeBody(p) = Scope!ScopeBody(q)
    BY SidecarStays
<1>2. Scope!ManifestOk(p) => Scope!ManifestOk(q) /\ q.x["manifest"] = p.x["manifest"]
    BY SidecarStays DEF Scope!ManifestOk, ScopeGrows
<1>3. ASSUME Scope!Final(p, at) PROVE Scope!Final(q, then)
    <2>1. Scope!ManifestOk(p) /\ Scope!ManifestOk(q) /\ q.x["manifest"] = p.x["manifest"]
        BY <1>2, <1>3 DEF Scope!Final
    <2>2. "manifest" \in DOMAIN q.x /\ q.x["manifest"].bound
        BY <2>1 DEF Scope!ManifestOk, Scope!Sidecar, Scope!Signed
    <2>3. TimesOf("scope", [slot |-> "manifest", signed |-> q.x["manifest"]])
        BY <2>2 DEF ScopeGrows
    <2>4. q.x["manifest"].body.finalizedAt \in Int
        BY <2>2, <2>3 DEF TimesOf
    <2>5. q.x["manifest"].body.finalizedAt <= at
        BY <1>3, <2>1 DEF Scope!Final
    <2>6. q.x["manifest"].body.finalizedAt <= then
        BY <2>4, <2>5 DEF ScopeGrows
    <2> QED
        BY <1>1, <1>3, <2>1, <2>6 DEF Scope!Final
<1>4. Scope!ClosureFits(p) => Scope!ClosureFits(q) /\ q.x["closure"] = p.x["closure"]
    BY <1>1, SidecarStays DEF Scope!ClosureFits
<1>5. ASSUME Scope!Closed(p, at) PROVE Scope!Closed(q, then)
    <2>1. Scope!ClosureFits(p) /\ Scope!ClosureFits(q) /\ q.x["closure"] = p.x["closure"]
        BY <1>4, <1>5 DEF Scope!Closed
    <2>2. "closure" \in DOMAIN q.x /\ q.x["closure"].bound
        BY <2>1 DEF Scope!ClosureFits, Scope!Sidecar, Scope!Signed
    <2>3. TimesOf("scope", [slot |-> "closure", signed |-> q.x["closure"]])
        BY <2>2 DEF ScopeGrows
    <2>4. q.x["closure"].body.closedAt \in Int
        BY <2>2, <2>3 DEF TimesOf
    <2>5. q.x["closure"].body.closedAt <= at
        BY <1>5, <2>1 DEF Scope!Closed
    <2>6. q.x["closure"].body.closedAt <= then
        BY <2>4, <2>5 DEF ScopeGrows
    <2> QED
        BY <1>1, <1>5, <2>1, <2>6 DEF Scope!Closed
<1>6. ASSUME Scope!InventoryOk(p, at)
      PROVE  Scope!InventoryOk(q, then) /\ q.x["inventory"] = p.x["inventory"]
    <2>1. Scope!Sidecar(q, "inventory") /\ q.x["inventory"] = p.x["inventory"]
        BY <1>6, SidecarStays DEF Scope!InventoryOk
    <2>2. CASE Scope!ScopeBody(p).mode = "fixed"
        BY <1>1, <1>6, <2>1, <2>2 DEF Scope!InventoryOk
    <2>3. CASE Scope!ScopeBody(p).mode # "fixed"
        <3>1. Scope!Closed(q, then) /\ q.x["closure"] = p.x["closure"]
            BY <1>4, <1>5, <1>6, <2>3 DEF Scope!InventoryOk, Scope!Closed
        <3>2. "source_records" \in DOMAIN q.x /\ q.x["source_records"] = p.x["source_records"]
            BY <1>6, <2>3 DEF Scope!InventoryOk, ScopeGrows
        <3> QED
            BY <1>1, <1>6, <2>1, <2>3, <3>1, <3>2 DEF Scope!InventoryOk
    <2> QED
        BY <2>2, <2>3
<1> QED
    BY <1>2, <1>3, <1>4, <1>5, <1>6

\* An inventory has come in that lists other obligations than the closure.
Overturned(p, q) ==
    /\ {"closure", "inventory"} \subseteq DOMAIN q.x /\ "inventory" \notin DOMAIN p.x
    /\ q.x["closure"].body.expected # q.x["inventory"].body.obligations

\* and but for that so does a source whose closure was in order.
LEMMA SourceStays ==
    ASSUME NEW p, NEW q, NEW at, NEW then, ScopeGrows(p, q, at, then), "scope" \in DOMAIN p.x
    PROVE  /\ Scope!SourceReady(p, at) =>
                 q.x["closure"] = p.x["closure"] /\ (Scope!SourceReady(q, then) \/ Overturned(p, q))
           /\ Scope!SourceReady(p, at) /\ Scope!InventoryOk(p, at) => Scope!SourceReady(q, then)
<1> SUFFICES ASSUME Scope!SourceReady(p, at)
             PROVE  /\ q.x["closure"] = p.x["closure"] /\ (Scope!SourceReady(q, then) \/ Overturned(p, q))
                    /\ Scope!InventoryOk(p, at) => Scope!SourceReady(q, then)
    OBVIOUS
<1>1. /\ Scope!ClosureFits(q) /\ q.x["closure"] = p.x["closure"]
      /\ Scope!Closed(q, then) /\ q.x["closure"].body.gaps = {}
    BY SidecarsStay DEF Scope!SourceReady, Scope!ClosureOk
<1>2. ASSUME Scope!InventoryOk(p, at) PROVE Scope!SourceReady(q, then)
    <2>1. q.x["inventory"] = p.x["inventory"]
        BY <1>2, SidecarsStay
    <2>2. p.x["closure"].body.expected = p.x["inventory"].body.obligations
        BY <1>2 DEF Scope!SourceReady, Scope!ClosureOk
    <2> QED
        BY <1>1, <2>1, <2>2 DEF Scope!SourceReady, Scope!ClosureOk
<1>3. ASSUME ~ Scope!SourceReady(q, then) PROVE Overturned(p, q)
    <2>1. /\ Scope!InventoryOk(q, then)
          /\ q.x["closure"].body.expected # q.x["inventory"].body.obligations
        BY <1>1, <1>3 DEF Scope!SourceReady, Scope!ClosureOk
    <2>2. Scope!ScopeBody(q).mode = "fixed"
        BY <2>1 DEF Scope!InventoryOk
    <2>3. {"closure", "inventory"} \subseteq DOMAIN q.x
        BY <1>1, <2>1 DEF Scope!InventoryOk, Scope!ClosureFits, Scope!Sidecar
    <2>4. "inventory" \notin DOMAIN p.x
        <3>1. SUFFICES ASSUME "inventory" \in DOMAIN p.x PROVE Scope!InventoryOk(p, at)
            BY <1>2, <1>3
        <3>2. Scope!Sidecar(p, "inventory") /\ q.x["inventory"] = p.x["inventory"]
            BY <2>1, <3>1, SidecarStays DEF Scope!InventoryOk
        <3>3. Scope!ScopeBody(p) = Scope!ScopeBody(q)
            BY SidecarStays
        <3> QED
            BY <2>1, <2>2, <3>2, <3>3 DEF Scope!InventoryOk
    <2> QED
        BY <2>1, <2>3, <2>4 DEF Overturned
<1> QED
    BY <1>1, <1>2, <1>3

\* The two findings on timing that say something go on to be the finding.
LEMMA TimingStays ==
    ASSUME NEW p, NEW q, NEW at, NEW then, ScopeGrows(p, q, at, then), "scope" \in DOMAIN p.x,
           Scope!Timing(p, at) \in {"advance_commitment", "late_first_acceptance"}
    PROVE  Scope!Timing(q, then) = Scope!Timing(p, at)
<1>1. /\ "scope_receipt" \in DOMAIN p.x /\ Scope!ScopeOk(p) /\ Scope!ScopeBody(p).timed
      /\ Scope!ReceiptOk(p.x["scope_receipt"], p.x["scope"].digest, "scope", at)
    BY DEF Scope!Timing
<1>2. /\ "scope_receipt" \in DOMAIN q.x /\ q.x["scope_receipt"] = p.x["scope_receipt"]
      /\ q.x["scope"] = p.x["scope"] /\ Scope!ScopeBody(q) = Scope!ScopeBody(p)
      /\ Scope!ScopeOk(q) /\ at \in Int /\ then \in Int /\ at <= then
    BY <1>1, SidecarStays DEF ScopeGrows
<1>3. TimesOf("scope", [slot |-> "scope_receipt", signed |-> q.x["scope_receipt"]])
    BY <1>2 DEF ScopeGrows
<1>4. q.x["scope_receipt"].bound =>
        q.x["scope_receipt"].body.accepted \in Int /\ q.x["scope_receipt"].body.uncertainty \in Int
    BY <1>3 DEF TimesOf
<1>5. Scope!ReceiptOk(q.x["scope_receipt"], q.x["scope"].digest, "scope", then)
    BY <1>1, <1>2, <1>4, ReceiptStays
<1>6. CASE Scope!Timing(p, at) = "advance_commitment"
    BY <1>1, <1>2, <1>5, <1>6 DEF Scope!Timing
<1>7. CASE Scope!Timing(p, at) = "late_first_acceptance"
    <2>1. /\ ~ (Scope!Latest(p.x["scope_receipt"]) <= Scope!ScopeBody(p).cutoff)
          /\ "timing_register" \in DOMAIN p.x /\ Scope!Signed(p.x["timing_register"], "register")
          /\ Scope!FirstAcceptanceLate(p, at)
        BY <1>1, <1>7 DEF Scope!Timing
    <2>2. "timing_register" \in DOMAIN q.x /\ q.x["timing_register"] = p.x["timing_register"]
        BY <2>1 DEF ScopeGrows
    <2>3. TimesOf("scope", [slot |-> "timing_register", signed |-> q.x["timing_register"]])
        BY <2>2 DEF ScopeGrows
    <2>4. q.x["timing_register"].body.closedAt \in Int
        BY <2>1, <2>2, <2>3 DEF TimesOf, Scope!Signed
    <2>5. q.x["timing_register"].body.closedAt <= then
        BY <1>2, <2>1, <2>2, <2>4 DEF Scope!FirstAcceptanceLate
    <2>6. Scope!FirstAcceptanceLate(q, then)
        BY <1>2, <2>1, <2>2, <2>5 DEF Scope!FirstAcceptanceLate
    <2> QED
        BY <1>1, <1>2, <1>5, <1>7, <2>1, <2>2, <2>6 DEF Scope!Timing
<1> QED
    BY <1>6, <1>7

\* The obligations and what is due when.
LEMMA ObligationsStay ==
    ASSUME NEW p, NEW q, NEW at, NEW then, ScopeGrows(p, q, at, then), "scope" \in DOMAIN p.x,
           Scope!ScopeOk(p)
    PROVE  /\ Scope!InventoryOk(p, at) => Scope!Expected(q, then) = Scope!Expected(p, at)
           /\ Scope!Expected(p, at) \subseteq Scope!Expected(q, then)
           /\ \A o \in Scope!Expected(p, at) \cup Scope!ScopeBody(p).individuals :
                 Scope!IsNotification(o) => o.notification.deadline \in Int
<1>1. Scope!InventoryOk(p, at) => Scope!Expected(q, then) = Scope!Expected(p, at)
    BY SidecarsStay DEF Scope!Expected
<1>2. Scope!Expected(p, at) \subseteq Scope!Expected(q, then)
    BY <1>1 DEF Scope!Expected
<1>3. ASSUME NEW o \in Scope!Expected(p, at), Scope!IsNotification(o)
      PROVE  o.notification.deadline \in Int
    <2>1. /\ "inventory" \in DOMAIN p.x /\ p.x["inventory"].bound
          /\ o \in p.x["inventory"].body.obligations
        BY <1>3 DEF Scope!Expected, Scope!InventoryOk, Scope!Sidecar, Scope!Signed
    <2>2. "inventory" \in DOMAIN q.x /\ q.x["inventory"] = p.x["inventory"]
        BY <2>1 DEF ScopeGrows
    <2>3. TimesOf("scope", [slot |-> "inventory", signed |-> q.x["inventory"]])
        BY <2>2 DEF ScopeGrows
    <2> QED
        BY <1>3, <2>1, <2>2, <2>3 DEF TimesOf, Scope!IsNotification
<1>4. ASSUME NEW o \in Scope!ScopeBody(p).individuals, Scope!IsNotification(o)
      PROVE  o.notification.deadline \in Int
    <2>1. "scope" \in DOMAIN q.x /\ q.x["scope"] = p.x["scope"] /\ q.x["scope"].bound
        BY DEF ScopeGrows, Scope!ScopeOk, Scope!Signed
    <2>2. TimesOf("scope", [slot |-> "scope", signed |-> q.x["scope"]])
        BY <2>1 DEF ScopeGrows
    <2> QED
        BY <1>4, <2>1, <2>2 DEF TimesOf, Scope!IsNotification, Scope!ScopeBody
<1> QED
    BY <1>1, <1>2, <1>3, <1>4

\* What is found of a withheld obligation stays.
LEMMA WithheldStays ==
    ASSUME NEW p, NEW q, NEW at, NEW then, ScopeGrows(p, q, at, then), NEW o,
           Scope!OfWithheld(p, at, o) # "commitment_unverified"
    PROVE  Scope!OfWithheld(q, then, o) = Scope!OfWithheld(p, at, o)
<1>1. Scope!Proofs(p, o.id) = Scope!Proofs(q, o.id) /\ p.proofs = q.proofs
    BY BatchStays DEF ScopeGrows
<1>2. \A proof : Scope!ProofValid(p, at, proof) => Scope!ProofValid(q, then, proof)
    BY ValidStays
<1> QED
    BY <1>1, <1>2, Zenon DEF Scope!OfWithheld

\* What is missing stays missing, unless the closure is overturned.
LEMMA MissingStays ==
    ASSUME NEW p, NEW q, NEW at, NEW then, ScopeGrows(p, q, at, then), "scope" \in DOMAIN p.x,
           NEW o, Scope!Missing(p, at, o) = "missing_delivery"
    PROVE  Scope!Missing(q, then, o) = "missing_delivery" \/ Overturned(p, q)
BY SourceStays DEF Scope!Missing

\* A set has as many elements in the verifier's module.
LEMMA SameCardinality == \A S : Scope!Cardinality(S) = Cardinality(S)
BY Zenon DEF Scope!Cardinality, Cardinality

\* What is found of a delivered obligation stays.
LEMMA IncludedStays ==
    ASSUME NEW p, NEW q, NEW at, NEW then, ScopeGrows(p, q, at, then), "scope" \in DOMAIN p.x,
           NEW o, Scope!OfIncluded(p, at, o) \in Scope!ViolationCodes \cup {"satisfied"}
    PROVE  Scope!OfIncluded(q, then, o) = Scope!OfIncluded(p, at, o) \/ Overturned(p, q)
<1>0. PICK held : held = Scope!Records(p, o.id)
    OBVIOUS
<1>1. /\ Scope!Records(p, o.id) = held /\ Scope!Records(q, o.id) = held
      /\ p.events = q.events
    BY <1>0, BatchStays DEF ScopeGrows
<1>2. Scope!Final(p, at) => Scope!Final(q, then)
    BY SidecarsStay
<1>3. /\ Scope!Single(p, at, o.id) => Scope!Single(q, then, o.id)
      /\ Scope!RecordsValid(p, at, o.id) => Scope!RecordsValid(q, then, o.id)
    BY ValidStays
<1>4. Scope!Single(q, then, o.id) => Scope!Cardinality(held) = 1
    BY <1>1 DEF Scope!Single
<1>5. CASE Scope!Single(p, at, o.id)
    <2>1. Scope!OfDelivered(p, at, o) = Scope!OfDelivered(q, then, o)
        BY <1>1, Zenon DEF Scope!OfDelivered
    <2> QED
        BY <1>3, <1>5, <2>1 DEF Scope!OfIncluded
<1>6. CASE /\ ~ Scope!Single(p, at, o.id)
           /\ Scope!Cardinality(held) > 1 /\ Scope!RecordsValid(p, at, o.id) /\ Scope!Final(p, at)
    BY <1>1, <1>2, <1>3, <1>4, <1>6 DEF Scope!OfIncluded
<1>7. CASE /\ ~ Scope!Single(p, at, o.id)
           /\ ~ (Scope!Cardinality(held) > 1 /\ Scope!RecordsValid(p, at, o.id) /\ Scope!Final(p, at))
    <2>1. /\ held = {} /\ Scope!Final(p, at)
          /\ Scope!OfIncluded(p, at, o) = Scope!Missing(p, at, o)
        BY <1>1, <1>7 DEF Scope!OfIncluded, Scope!ViolationCodes
    <2>2. Scope!Cardinality(held) = 0
        BY <2>1, FS_EmptySet, SameCardinality
    <2>3. Scope!Missing(p, at, o) = "missing_delivery"
        BY <2>1 DEF Scope!Missing, Scope!ViolationCodes
    <2>4. Scope!OfIncluded(q, then, o) = Scope!Missing(q, then, o)
        BY <1>1, <1>2, <1>4, <2>1, <2>2 DEF Scope!OfIncluded
    <2> QED
        BY <2>1, <2>3, <2>4, MissingStays
<1> QED
    BY <1>5, <1>6, <1>7

\* A finding on an obligation that decides it stays, unless the closure is overturned.
LEMMA DispositionStays ==
    ASSUME NEW p, NEW q, NEW at, NEW then, ScopeGrows(p, q, at, then), "scope" \in DOMAIN p.x,
           NEW o, Scope!IsNotification(o) => o.notification.deadline \in Int,
           Scope!Disposition(p, at, o) \in Scope!ViolationCodes \cup {"satisfied"}
    PROVE  Scope!Disposition(q, then, o) = Scope!Disposition(p, at, o) \/ Overturned(p, q)
<1> USE DEF Scope!ViolationCodes
<1> DEFINE code == Scope!Disposition(p, at, o)
           full == o.disclosure = "full"
<1>1. PICK state : state = Scope!State(p, o)
    OBVIOUS
<1>2. /\ ~ (Scope!IsNotification(o) /\ o.notification.stage \notin Scope!Stages)
      /\ ~ (Scope!IsNotification(o) /\ (~ Scope!ScopeBody(p).timed \/ o.notification.deadline > at))
      /\ o.disclosure \in {"full", "commitment"}
      /\ ~ (state # "included" /\ Scope!Records(p, o.id) # {})
    BY <1>1 DEF Scope!Disposition
<1>3. /\ Scope!ScopeBody(q) = Scope!ScopeBody(p) /\ Scope!Records(q, o.id) = Scope!Records(p, o.id)
      /\ Scope!Final(p, at) => Scope!Final(q, then)
      /\ Scope!ManifestOk(p) => Scope!ManifestOk(q) /\ q.x["manifest"] = p.x["manifest"]
    BY SidecarStays, SidecarsStay, BatchStays
<1>4. ~ (Scope!IsNotification(o) /\ (~ Scope!ScopeBody(q).timed \/ o.notification.deadline > then))
    BY <1>2, <1>3 DEF ScopeGrows
<1>5. Scope!ManifestOk(p)
    <2>1. SUFFICES ASSUME ~ Scope!ManifestOk(p) PROVE FALSE
        OBVIOUS
    <2>2. state = "unaccounted" /\ ~ Scope!Final(p, at)
        BY <1>1, <2>1 DEF Scope!State, Scope!Final
    <2>3. code = "delivery_unresolved"
        BY <1>1, <1>2, <2>2 DEF Scope!Disposition
    <2> QED
        BY <2>3
<1>6. Scope!State(q, o) = state
    BY <1>1, <1>3, <1>5 DEF Scope!State
<1> DEFINE rest(pp, tt) ==
        IF state \in {"withheld", "unavailable"} /\ full /\ Scope!Final(pp, tt)
        THEN IF state = "withheld" THEN "required_evidence_withheld"
                                   ELSE "required_evidence_unavailable"
        ELSE IF state = "withheld" /\ ~ full THEN Scope!OfWithheld(pp, tt, o)
        ELSE IF state = "included" THEN Scope!OfIncluded(pp, tt, o)
        ELSE IF state = "unaccounted" /\ Scope!Final(pp, tt) THEN Scope!Missing(pp, tt, o)
        ELSE "delivery_unresolved"
<1>7. Scope!Disposition(p, at, o) = rest(p, at)
    BY <1>1, <1>2 DEF Scope!Disposition
<1>8. Scope!Disposition(q, then, o) = rest(q, then)
    BY <1>2, <1>3, <1>4, <1>6 DEF Scope!Disposition
<1>9. CASE state = "included"
    BY <1>7, <1>8, <1>9, IncludedStays
<1>10. CASE state = "withheld" /\ ~ full
    BY <1>7, <1>8, <1>10, WithheldStays
<1>11. CASE state \in {"withheld", "unavailable"} /\ full
    BY <1>3, <1>7, <1>8, <1>11
<1>12. CASE state = "unaccounted"
    <2>1. Scope!Final(p, at) /\ Scope!Missing(p, at, o) = "missing_delivery"
        BY <1>7, <1>12 DEF Scope!Missing
    <2> QED
        BY <1>3, <1>7, <1>8, <1>12, <2>1, MissingStays
<1> QED
    BY <1>7, <1>9, <1>10, <1>11, <1>12

\* Two sources that were compared stay compared.
LEMMA RelationStays ==
    ASSUME NEW p, NEW q, NEW at, NEW then, ScopeGrows(p, q, at, then), NEW r,
           Scope!Relation(p, at, r) # "relationship_unverified"
    PROVE  Scope!Relation(q, then, r) = Scope!Relation(p, at, r)
<1>1. /\ Scope!Single(p, at, r.left) => Scope!Single(q, then, r.left)
      /\ Scope!Single(p, at, r.right) => Scope!Single(q, then, r.right)
    BY ValidStays
<1>2. /\ p.events = q.events
      /\ Scope!Records(p, r.left) = Scope!Records(q, r.left)
      /\ Scope!Records(p, r.right) = Scope!Records(q, r.right)
    BY BatchStays DEF ScopeGrows
<1> QED
    BY <1>1, <1>2, Zenon DEF Scope!Relation

\* A package without an open finding about its sources has none later.
LEMMA SourcesStay ==
    ASSUME NEW p, NEW q, NEW at, NEW then, ScopeGrows(p, q, at, then), "scope" \in DOMAIN p.x,
           Scope!Sources(p, at) = {}
    PROVE  Scope!Sources(q, then) = {} /\ Scope!InventoryOk(p, at) /\ ~ Overturned(p, q)
<1>1. /\ Scope!InventoryOk(p, at)
      /\ Scope!ClosureOk(p, at) /\ Scope!Closed(p, at) /\ p.x["closure"].body.gaps = {}
      /\ Scope!ManifestOk(p) /\ Scope!Final(p, at) /\ Scope!Prerequisites(p, at)
    <2> DEFINE open(code) ==
            CASE code = "expected_set_unknown" -> ~ Scope!InventoryOk(p, at)
              [] code = "source_unclosed" -> ~ (Scope!ClosureOk(p, at) /\ Scope!Closed(p, at))
              [] code = "observation_gap" ->
                    Scope!ClosureOk(p, at) /\ Scope!Closed(p, at) /\ p.x["closure"].body.gaps # {}
              [] code = "manifest_unknown" -> ~ Scope!ManifestOk(p)
              [] code = "delivery_pending" -> ~ Scope!Final(p, at)
              [] code = "cryptographic_prerequisite" -> ~ Scope!Prerequisites(p, at)
    <2>1. \A code \in {"expected_set_unknown", "source_unclosed", "observation_gap",
                      "manifest_unknown", "delivery_pending", "cryptographic_prerequisite"} :
             ~ open(code)
        BY DEF Scope!Sources
    <2>2. /\ ~ open("expected_set_unknown") /\ ~ open("source_unclosed") /\ ~ open("observation_gap")
          /\ ~ open("manifest_unknown") /\ ~ open("delivery_pending")
          /\ ~ open("cryptographic_prerequisite")
        BY <2>1
    <2> QED
        BY <2>2
<1>2. Scope!SourceReady(p, at) /\ Scope!SourceReady(q, then)
    BY <1>1, SourceStays DEF Scope!SourceReady
<1>3. /\ Scope!InventoryOk(q, then) /\ Scope!ManifestOk(q) /\ Scope!Final(q, then)
      /\ Scope!Prerequisites(q, then)
    BY <1>1, SidecarsStay, ValidStays
<1>4. Scope!Sources(q, then) = {}
    <2>1. Scope!ClosureOk(q, then) /\ Scope!Closed(q, then) /\ q.x["closure"].body.gaps = {}
        BY <1>2 DEF Scope!SourceReady
    <2> QED
        BY <1>3, <2>1 DEF Scope!Sources
<1>5. ~ Overturned(p, q)
    BY <1>1 DEF Overturned, Scope!InventoryOk, Scope!Sidecar
<1> QED
    BY <1>1, <1>4, <1>5

\* So a scope that was met is met,
LEMMA MetStays ==
    ASSUME NEW p, NEW q, NEW at, NEW then, ScopeGrows(p, q, at, then),
           Scope!ScopeFulfillment(p, at) = "met"
    PROVE  Scope!ScopeFulfillment(q, then) = "met"
<1>1. /\ "scope" \in DOMAIN p.x /\ Scope!ScopeOk(p) /\ ~ Scope!Conflicting(p, at)
      /\ Scope!Codes(p, at) \subseteq Scope!SettledCodes
    BY DEF Scope!ScopeFulfillment
<1>2. /\ "scope" \in DOMAIN q.x /\ Scope!ScopeOk(q) /\ Scope!ScopeBody(q) = Scope!ScopeBody(p)
    BY <1>1, SidecarStays DEF ScopeGrows
<1>3. Scope!Sources(p, at) = {}
    BY <1>1 DEF Scope!Codes, Scope!Sources, Scope!SettledCodes
<1>4. Scope!Sources(q, then) = {} /\ Scope!InventoryOk(p, at) /\ ~ Overturned(p, q)
    BY <1>1, <1>3, SourcesStay
<1>5. Scope!Timing(p, at) \in Scope!Codes(p, at)
    BY DEF Scope!Codes
<1>6. Scope!Timing(p, at) = "advance_commitment"
    BY <1>1, <1>5 DEF Scope!SettledCodes, Scope!Timing
<1>7. Scope!Timing(q, then) = "advance_commitment"
    BY <1>1, <1>6, TimingStays
<1>8. Scope!Expected(q, then) = Scope!Expected(p, at)
    BY <1>1, <1>4, ObligationsStay
<1>9. ASSUME NEW o \in Scope!Expected(p, at) \cup Scope!ScopeBody(p).individuals
      PROVE  Scope!Disposition(q, then, o) \in Scope!SettledCodes
    <2>1. Scope!Disposition(p, at, o) \in Scope!SettledCodes
        BY <1>1 DEF Scope!Codes
    <2>2. Scope!Disposition(p, at, o) = "satisfied"
        BY <2>1 DEF Scope!Disposition, Scope!SettledCodes, Scope!OfWithheld, Scope!OfIncluded,
                    Scope!OfDelivered, Scope!Missing
    <2>3. Scope!IsNotification(o) => o.notification.deadline \in Int
        BY <1>1, ObligationsStay
    <2>4. Scope!Disposition(q, then, o) = "satisfied"
        BY <1>1, <1>4, <2>2, <2>3, DispositionStays
    <2> QED
        BY <2>4 DEF Scope!SettledCodes
<1>10. ASSUME NEW r \in Scope!ScopeBody(p).relationships
       PROVE  Scope!Relation(q, then, r) \in Scope!SettledCodes
    <2>1. Scope!Relation(p, at, r) \in Scope!SettledCodes
        BY <1>1 DEF Scope!Codes
    <2>2. Scope!Relation(q, then, r) = Scope!Relation(p, at, r)
        BY <2>1, RelationStays DEF Scope!SettledCodes
    <2> QED
        BY <2>1, <2>2
<1>11. ~ Scope!ScopeBody(p).amended
    BY <1>1 DEF Scope!Codes, Scope!SettledCodes
<1>12. Scope!Codes(q, then) \subseteq Scope!SettledCodes
    BY <1>2, <1>4, <1>7, <1>8, <1>9, <1>10, <1>11 DEF Scope!Codes, Scope!SettledCodes
<1>13. ~ Scope!Conflicting(q, then)
    BY <1>1, <1>2, <1>8 DEF Scope!Conflicting
<1>14. Scope!SettledCodes \cap Scope!ViolationCodes = {}
    BY DEF Scope!SettledCodes, Scope!ViolationCodes
<1> QED
    BY <1>2, <1>12, <1>13, <1>14 DEF Scope!ScopeFulfillment

\* and one that was not met is not met, unless the closure is overturned.
LEMMA NotMetStays ==
    ASSUME NEW p, NEW q, NEW at, NEW then, ScopeGrows(p, q, at, then),
           Scope!ScopeFulfillment(p, at) = "not_met"
    PROVE  Scope!ScopeFulfillment(q, then) \in {"not_met", "error"} \/ Overturned(p, q)
<1>1. /\ "scope" \in DOMAIN p.x /\ Scope!ScopeOk(p)
      /\ Scope!Codes(p, at) \cap Scope!ViolationCodes # {}
    BY DEF Scope!ScopeFulfillment
<1>2. /\ "scope" \in DOMAIN q.x /\ Scope!ScopeOk(q) /\ Scope!ScopeBody(q) = Scope!ScopeBody(p)
    BY <1>1, SidecarStays DEF ScopeGrows
<1>3. PICK code \in Scope!Codes(p, at) : code \in Scope!ViolationCodes
    BY <1>1
<1>4. code \in Scope!Codes(q, then) \/ Overturned(p, q)
    <2>1. CASE code = Scope!Timing(p, at)
        <3>1. code = "late_first_acceptance"
            BY <1>3, <2>1 DEF Scope!Timing, Scope!ViolationCodes
        <3>2. Scope!Timing(p, at) \in {"advance_commitment", "late_first_acceptance"}
            BY <2>1, <3>1
        <3>3. Scope!Timing(q, then) = Scope!Timing(p, at)
            BY <1>1, <3>2, TimingStays
        <3> QED
            BY <2>1, <3>3 DEF Scope!Codes
    <2>2. CASE \E o \in Scope!Expected(p, at) \cup Scope!ScopeBody(p).individuals :
                  code = Scope!Disposition(p, at, o)
        <3>1. PICK o \in Scope!Expected(p, at) \cup Scope!ScopeBody(p).individuals :
                  code = Scope!Disposition(p, at, o)
            BY <2>2
        <3>2. Scope!IsNotification(o) => o.notification.deadline \in Int
            BY <1>1, ObligationsStay
        <3>3. Scope!Disposition(q, then, o) = code \/ Overturned(p, q)
            BY <1>1, <1>3, <3>1, <3>2, DispositionStays
        <3>4. o \in Scope!Expected(q, then) \cup Scope!ScopeBody(q).individuals
            BY <1>1, <1>2, ObligationsStay
        <3> QED
            BY <3>3, <3>4 DEF Scope!Codes
    <2>3. CASE \E r \in Scope!ScopeBody(p).relationships : code = Scope!Relation(p, at, r)
        <3>1. PICK r \in Scope!ScopeBody(p).relationships : code = Scope!Relation(p, at, r)
            BY <2>3
        <3>2. Scope!Relation(q, then, r) = code
            BY <1>3, <3>1, RelationStays DEF Scope!ViolationCodes
        <3> QED
            BY <1>2, <3>1, <3>2 DEF Scope!Codes
    <2>4. code \notin Scope!Sources(p, at) /\ code # "amendment_unsupported"
        BY <1>3 DEF Scope!Sources, Scope!ViolationCodes
    <2> QED
        BY <1>3, <2>1, <2>2, <2>3, <2>4 DEF Scope!Codes
<1> QED
    BY <1>2, <1>3, <1>4 DEF Scope!ScopeFulfillment

\* What is found of a scope stays: nothing that is still to come explains a violation, and
\* nothing that comes in takes back that it was met; only the absence of a notification
\* falls with the closure that it rests on.
THEOREM ScopeIsSettled == Spec => ScopeSettles
<1>1. ASSUME ReviewInv, Continued, Workflow = "scope"
      PROVE  /\ report.scope = "met" => report'.scope = "met"
             /\ report.scope = "not_met" =>
                   report'.scope \in {"not_met", "error"} \/ ClosureContradicted
    <2>1. PICK p : p = ScopePackage(case, file)
        OBVIOUS
    <2>2. PICK q : q = ScopePackage(case, file')
        OBVIOUS
    <2>3. ScopeGrows(p, q, now, now')
        BY <1>1, <2>1, <2>2, ScopesGrow
    <2>4. /\ report.scope = Scope!ScopeFulfillment(p, now)
          /\ report'.scope = Scope!ScopeFulfillment(q, now')
        BY <1>1, <2>1, <2>2 DEF ReviewInv, Continued, Report, Workflow
    <2>5. Overturned(p, q) => ClosureContradicted
        <3>1. DOMAIN Cases[case].base = {"policy", "anchor", "index", "events", "proofs", "delivery", "x"}
            BY <1>1, ShapeAssumption DEF ReviewInv, Workflow
        <3>2. p.x = Supplied(case, file) /\ q.x = Supplied(case, file')
            BY <2>1, <2>2, <3>1 DEF ScopePackage
        <3> QED
            BY <3>2 DEF Overturned, ClosureContradicted
    <2> QED
        BY <1>1, <2>3, <2>4, <2>5, MetStays, NotMetStays
<1> QED
    BY <1>1, Reviewed, ReviewContinues, PTL DEF Spec, ScopeSettles

=============================================================================
