---------------------------- MODULE EditorHistory ----------------------------
(***************************************************************************)
(* The signed history of a document, and what a reader of a snapshot makes  *)
(* of it (incident-publication-pilot/publication_pilot/editor.py).  A       *)
(* digest stands for what it digests: an operation names its predecessor,   *)
(* and the documents before and after it, by value.                        *)
(***************************************************************************)
EXTENDS Integers, Sequences, FiniteSets

CONSTANTS
    AiActivity,       \* AI_ACTIVITIES
    MaxOperations, MaxBlocks,
    Genesis           \* what the first operation names as its predecessor

\* The last of the first n operations that wrote block b.
LastWrite(operations, n, b) ==
    LET writes == {k \in 1..n : operations[k].block = b} IN
    CHOOSE k \in writes : \A l \in writes : l <= k

\* The document that the first n operations leave: a function from blocks to texts.
Document(operations, n) ==
    [b \in {operations[k].block : k \in 1..n} |->
        operations[LastWrite(operations, n, b)].text]

Previous(operations, n) == IF n = 1 THEN Genesis ELSE operations[n - 1]

\* MUTANT: an operation is not held to its predecessor, only to the document before it.
ReplaysUnchained(document, operations) ==
    /\ Len(operations) \in 1..MaxOperations
    /\ \A n \in DOMAIN operations :
         LET op == operations[n] IN
         /\ op.document = document /\ op.sequence = n
         /\ op.before = Document(operations, n - 1)
         /\ op.after = Document(operations, n)
         /\ Cardinality(DOMAIN op.after) <= MaxBlocks
         /\ n > 1 => operations[n - 1].at <= op.at

\* verify_snapshot, the loop over the operations.
Replays(document, operations) ==
    /\ Len(operations) \in 1..MaxOperations
    /\ \A n \in DOMAIN operations :
         LET op == operations[n] IN
         /\ op.document = document /\ op.sequence = n
         /\ op.previous = Previous(operations, n)
         /\ op.before = Document(operations, n - 1)
         /\ op.after = Document(operations, n)
         /\ Cardinality(DOMAIN op.after) <= MaxBlocks
         /\ n > 1 => operations[n - 1].at <= op.at

\* verify_snapshot, the checkpoint.
Closes(checkpoint, document, operations) ==
    /\ checkpoint.document = document
    /\ checkpoint.sequence = Len(operations)
    /\ checkpoint.head = operations[Len(operations)]
    /\ checkpoint.content = Document(operations, Len(operations))
    /\ operations[Len(operations)].at <= checkpoint.at

Verified(snapshot) ==
    /\ Replays(snapshot.document, snapshot.operations)
    /\ Closes(snapshot.checkpoint, snapshot.document, snapshot.operations)

\* observed_activities: every AI activity of the session, also one whose text was
\* replaced since.
Observed(snapshot) ==
    {snapshot.operations[n].activity : n \in DOMAIN snapshot.operations} \cap AiActivity

\* adopted: the blocks whose last writer was an AI activity, with that write.
Adopted(snapshot) ==
    LET n == Len(snapshot.operations)
        last(b) == snapshot.operations[LastWrite(snapshot.operations, n, b)] IN
    {[block |-> b, activity |-> last(b).activity, at |-> last(b).at,
      revision |-> last(b).sequence] :
        b \in {c \in DOMAIN Document(snapshot.operations, n) : last(c).activity \in AiActivity}}

-----------------------------------------------------------------------------
(* The page.                                                               *)

\* disclosure_text: the notice names what is disclosed, or that nothing is.
Notice(disclosure) == IF disclosure = {} THEN {"none declared"} ELSE disclosure

\* render_html: the document, its revision and blocks, and the notice.
Rendered(snapshot, disclosure) ==
    [document |-> snapshot.document,
     revision |-> [sequence |-> Len(snapshot.operations), content |-> snapshot.checkpoint.content],
     content |-> snapshot.checkpoint.content, notice |-> Notice(disclosure)]

=============================================================================
