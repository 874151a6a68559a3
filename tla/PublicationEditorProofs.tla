---------------------- MODULE PublicationEditorProofs ----------------------
(* A snapshot that verifies is one session's history: for any number of      *)
(* sessions, documents, blocks, texts and operations.                        *)
EXTENDS PublicationEditor, WellFoundedInduction, TLAPS

USE EditorAssumption, SessionAssumption

\* What a session has signed: a sequence of operations, each of which names its
\* predecessor.
Entries(q) == {q[n] : n \in DOMAIN q}

Linked(q, length) == \A n \in 1..length : q[n].previous = Previous(q, n)

Chained(q) == q \in Seq(Entries(q)) /\ Linked(q, Len(q))

\* A checkpoint was signed at what was then the end of a session's history; histories
\* only grow.
Anchored(c) ==
    \E s \in Session :
        /\ c.document = DocumentOf[s]
        /\ c.sequence \in 1..Len(operations[s])
        /\ c.head = operations[s][c.sequence]

EditorInv ==
    /\ DOMAIN operations = Session
    /\ operations = [s \in Session |-> operations[s]]
    /\ \A s \in Session : Chained(operations[s])
    /\ \A s \in Session : blocks[s] # NoBlocks => Len(operations[s]) > 0
    /\ \A c \in checkpoints : Anchored(c)

-----------------------------------------------------------------------------
(* Histories are chains.                                                     *)

\* Appending an operation that names the last one keeps a chain and every entry of it.
LEMMA Extended ==
    ASSUME NEW q, Chained(q), NEW op, op.previous = Previous(q, Len(q) + 1)
    PROVE  /\ Chained(Append(q, op))
           /\ Len(Append(q, op)) = Len(q) + 1
           /\ \A n \in 1..Len(q) : Append(q, op)[n] = q[n]
<1>1. PICK E : E = Entries(q)
    OBVIOUS
<1>2. q \in Seq(E) /\ Len(q) \in Nat /\ DOMAIN q = 1..Len(q)
    BY <1>1 DEF Chained, Linked
<1>3. q \in Seq(E \cup {op})
    BY <1>2, SMT
<1>4. PICK t : t = Append(q, op)
    OBVIOUS
<1>5. /\ t \in Seq(E \cup {op})
      /\ Len(t) = Len(q) + 1
      /\ \A n \in 1..Len(q) : t[n] = q[n]
      /\ t[Len(q) + 1] = op
    BY <1>3, <1>4
<1>6. Entries(t) = E \cup {op}
    <2>1. DOMAIN t = 1..(Len(q) + 1)
        BY <1>5
    <2>2. ASSUME NEW e \in Entries(t) PROVE e \in E \cup {op}
        BY <1>2, <1>5, <2>1 DEF Entries
    <2>3. ASSUME NEW e \in E PROVE e \in Entries(t)
        BY <1>1, <1>2, <1>5, <2>1, <2>3 DEF Entries
    <2>4. op \in Entries(t)
        BY <1>2, <1>5, <2>1 DEF Entries
    <2> QED
        BY <2>2, <2>3, <2>4
<1>7. ASSUME NEW n \in 1..Len(t)
      PROVE  t[n].previous = Previous(t, n)
    <2>1. CASE n \in 1..Len(q)
        <3>1. t[n] = q[n] /\ (n # 1 => t[n - 1] = q[n - 1])
            BY <1>2, <1>5, <2>1
        <3>2. q[n].previous = Previous(q, n)
            BY <2>1 DEF Chained, Linked
        <3> QED
            BY <3>1, <3>2 DEF Previous
    <2>2. CASE n = Len(q) + 1
        <3>1. t[n] = op /\ (n # 1 => t[n - 1] = q[n - 1])
            BY <1>2, <1>5, <2>2
        <3> QED
            BY <2>2, <3>1 DEF Previous
    <2> QED
        BY <1>2, <1>5, <2>1, <2>2
<1>8. Chained(t)
    BY <1>5, <1>6, <1>7 DEF Chained, Linked
<1> QED
    BY <1>4, <1>5, <1>8

\* Steps that leave the histories alone.
LEMMA HistoriesKept ==
    ASSUME EditorInv, UNCHANGED <<operations, blocks>>, \A c \in checkpoints' : Anchored(c)
    PROVE  EditorInv'
<1>1. /\ DOMAIN operations' = Session
      /\ operations' = [s \in Session |-> operations'[s]]
    BY DEF EditorInv
<1>2. \A s \in Session : Chained(operations'[s])
    BY DEF EditorInv
<1>3. \A s \in Session : blocks'[s] # NoBlocks => Len(operations'[s]) > 0
    BY DEF EditorInv
<1>4. \A c \in checkpoints' : Anchored(c)'
    BY DEF Anchored
<1> QED
    BY <1>1, <1>2, <1>3, <1>4 DEF EditorInv, Chained, Entries, Linked

\* Nothing is signed at first.
LEMMA EditorInit == Init => EditorInv
<1> SUFFICES ASSUME Init PROVE EditorInv
    OBVIOUS
<1>1. ASSUME NEW s \in Session PROVE operations[s] = <<>> /\ blocks[s] = NoBlocks
    BY DEF Init
<1>2. Chained(<<>>)
    BY DEF Chained, Linked
<1> QED
    BY <1>1, <1>2 DEF Init, EditorInv

\* An edit extends one history; what was anchored stays anchored.
LEMMA SetBlockKeeps ==
    ASSUME EditorInv, NEW s \in Session, NEW b \in Block, NEW t \in Text,
           NEW a \in Activity, SetBlock(s, b, t, a)
    PROVE  EditorInv'
<1>1. PICK op : /\ operations' = [operations EXCEPT ![s] = Append(operations[s], op)]
                /\ op.previous = Previous(operations[s], Len(operations[s]) + 1)
    <2>1. PICK after : operations' = [operations EXCEPT ![s] = Append(@, Operation(s, b, t, a, after))]
        BY DEF SetBlock
    <2>2. Operation(s, b, t, a, after).previous = Previous(operations[s], Len(operations[s]) + 1)
        BY DEF Operation
    <2> QED
        BY <2>1, <2>2
<1>2. /\ Chained(operations'[s])
      /\ Len(operations'[s]) = Len(operations[s]) + 1
      /\ \A n \in 1..Len(operations[s]) : operations'[s][n] = operations[s][n]
    BY <1>1, Extended DEF EditorInv
<1>3. \A r \in Session : r # s => operations'[r] = operations[r]
    BY <1>1 DEF EditorInv
<1>4. \A r \in Session : Len(operations[r]) \in Nat
    BY DEF EditorInv, Chained, Linked
<1>5. ASSUME NEW c \in checkpoints' PROVE Anchored(c)'
    <2>1. PICK r \in Session :
            /\ c.document = DocumentOf[r]
            /\ c.sequence \in 1..Len(operations[r])
            /\ c.head = operations[r][c.sequence]
        BY DEF SetBlock, EditorInv, Anchored
    <2>2. c.sequence \in 1..Len(operations'[r])
        BY <1>2, <1>3, <1>4, <2>1
    <2>3. c.head = operations'[r][c.sequence]
        BY <1>2, <1>3, <2>1
    <2> QED
        BY <2>1, <2>2, <2>3 DEF Anchored
<1>6. ASSUME NEW r \in Session, blocks'[r] # NoBlocks PROVE Len(operations'[r]) > 0
    <2>1. CASE r = s
        BY <1>2, <1>4, <2>1
    <2>2. CASE r # s
        <3>1. blocks'[r] = blocks[r]
            BY <2>2 DEF SetBlock
        <3> QED
            BY <1>3, <1>6, <2>2, <3>1 DEF EditorInv
    <2> QED
        BY <2>1, <2>2
<1>7. \A r \in Session : Chained(operations'[r])
    BY <1>2, <1>3 DEF EditorInv
<1>8. DOMAIN operations' = Session /\ operations' = [r \in Session |-> operations'[r]]
    BY <1>1 DEF EditorInv
<1> QED
    BY <1>5, <1>6, <1>7, <1>8 DEF EditorInv, Chained, Entries, Linked

\* A snapshot anchors its checkpoint at the end of its session's history: a session with
\* blocks has one.
LEMMA SnapshotKeeps ==
    ASSUME EditorInv, NEW s \in Session, Snapshot(s)
    PROVE  EditorInv'
<1>1. UNCHANGED <<operations, blocks>> /\ checkpoints' = checkpoints \cup {Checkpoint(s)}
    BY DEF Snapshot
<1>2. Anchored(Checkpoint(s))
    <2>1. Len(operations[s]) \in Nat /\ Len(operations[s]) > 0
        BY DEF EditorInv, Chained, Snapshot, NoBlocks
    <2>2. Len(operations[s]) \in 1..Len(operations[s])
        BY <2>1
    <2> QED
        BY <2>2 DEF Checkpoint, Anchored
<1>3. \A c \in checkpoints' : Anchored(c)
    BY <1>1, <1>2 DEF EditorInv
<1> QED
    BY <1>1, <1>3, HistoriesKept

\* Every step keeps the invariant.
LEMMA EditorStep == EditorInv /\ [Next]_vars => EditorInv'
<1> SUFFICES ASSUME EditorInv, [Next]_vars PROVE EditorInv'
    OBVIOUS
<1>1. CASE UNCHANGED <<operations, blocks, checkpoints>>
    <2>1. \A c \in checkpoints' : Anchored(c)
        BY <1>1 DEF EditorInv
    <2> QED
        BY <1>1, <2>1, HistoriesKept
<1>2. CASE UNCHANGED vars
    BY <1>1, <1>2 DEF vars
<1>3. CASE \E t \in Time : SetClock(t)
    BY <1>1, <1>3 DEF SetClock
<1> QED
    BY <1>2, <1>3, SetBlockKeeps, SnapshotKeeps DEF Next

\* So it holds always.
LEMMA EditorInvariance == Spec => []EditorInv
BY EditorInit, EditorStep, PTL DEF Spec

-----------------------------------------------------------------------------
(* A chain is determined by its last entry.                                  *)

\* Induction over numbers, from the least one that fails.
LEMMA SmallestNumber ==
    ASSUME NEW T \in SUBSET Nat, T # {}
    PROVE  \E n \in T : \A m \in T : n <= m
<1>1. IsWellFoundedOn({p \in Nat \X Nat : p[1] < p[2]}, Nat)
    BY NatLessThanWellFounded DEF OpToRel
<1>2. PICK n \in T : \A m \in T : ~ (<<m, n>> \in {p \in Nat \X Nat : p[1] < p[2]})
    BY <1>1, WFMin
<1>3. \A m \in T : ~ (m < n)
    BY <1>2
<1> QED
    BY <1>3

\* Two chains that agree at one place agree at all places before it, whoever signed them.
LEMMA SamePast ==
    ASSUME NEW p, NEW q, NEW length \in Nat, length # 0,
           Linked(p, length), Linked(q, length), p[length] = q[length]
    PROVE  \A n \in 1..length : p[n] = q[n]
<1>1. PICK B : B = {k \in 0..(length - 1) : p[length - k] # q[length - k]}
    OBVIOUS
<1>2. B = {}
    <2> SUFFICES ASSUME B # {} PROVE FALSE
        OBVIOUS
    <2>1. PICK k \in B : \A m \in B : k <= m
        <3>1. B \in SUBSET Nat
            BY <1>1
        <3> QED
            BY <3>1, SmallestNumber
    <2>2. k \in 0..(length - 1) /\ p[length - k] # q[length - k]
        BY <1>1, <2>1
    <2>3. k # 0
        BY <2>2
    <2>4. PICK n : n = length - k
        OBVIOUS
    <2>5. n \in 1..length /\ n + 1 \in 1..length /\ n + 1 # 1 /\ n + 1 - 1 = n
        BY <2>2, <2>3, <2>4
    <2>6. k - 1 \in 0..(length - 1) /\ k - 1 \notin B /\ length - (k - 1) = n + 1
        BY <2>1, <2>2, <2>3, <2>4
    <2>7. p[n + 1] = q[n + 1]
        BY <1>1, <2>6
    <2>8. p[n + 1].previous = p[n] /\ q[n + 1].previous = q[n]
        BY <2>5 DEF Previous, Linked
    <2> QED
        BY <2>2, <2>4, <2>7, <2>8
<1>3. ASSUME NEW n \in 1..length PROVE p[n] = q[n]
    <2>1. length - n \in 0..(length - 1) /\ length - (length - n) = n
        OBVIOUS
    <2> QED
        BY <1>1, <1>2, <2>1
<1> QED
    BY <1>3

\* A snapshot that verifies is numbered by its length, and is a chain.
LEMMA VerifiedChain ==
    ASSUME NEW snapshot, Verified(snapshot), NEW length \in Nat,
           snapshot.operations \in [1..length -> Signed]
    PROVE  /\ Linked(snapshot.operations, length)
           /\ snapshot.checkpoint.document = snapshot.document
           /\ snapshot.checkpoint.sequence = length
           /\ snapshot.checkpoint.head = snapshot.operations[length]
<1>1. PICK ops : ops = snapshot.operations
    OBVIOUS
<1>2. DOMAIN ops = 1..length /\ Len(ops) = length
    BY <1>1
<1>3. \A n \in DOMAIN ops : ops[n].previous = Previous(ops, n)
    BY <1>1 DEF Verified, Replays
<1>4. /\ snapshot.checkpoint.document = snapshot.document
      /\ snapshot.checkpoint.sequence = Len(ops)
      /\ snapshot.checkpoint.head = ops[Len(ops)]
    BY <1>1 DEF Verified, Closes
<1> QED
    BY <1>1, <1>2, <1>3, <1>4 DEF Linked

\* Operations of several sessions on one document, all genuinely signed, cannot be mixed,
\* reordered, dropped or cut short: verify_snapshot accepts only one session's history up
\* to one of its checkpoints.
THEOREM HistoriesWhole == Spec => []NoSplice
<1>1. ASSUME EditorInv, NEW length \in 1..MaxOperations, NEW snapshot \in Assembled(length),
             Verified(snapshot)
      PROVE  \E s \in Session :
                /\ DocumentOf[s] = snapshot.document
                /\ length <= Len(operations[s])
                /\ snapshot.operations = History(s, length)
                /\ snapshot.checkpoint.head = operations[s][length]
    <2>1. /\ snapshot.operations \in [1..length -> Signed]
          /\ snapshot.checkpoint \in checkpoints
        BY DEF Assembled
    <2>2. length \in Nat /\ length # 0
        OBVIOUS
    <2>3. PICK p : p = snapshot.operations
        OBVIOUS
    <2>4. /\ Linked(p, length)
          /\ snapshot.checkpoint.document = snapshot.document
          /\ snapshot.checkpoint.sequence = length
          /\ snapshot.checkpoint.head = p[length]
        BY <1>1, <2>1, <2>2, <2>3, VerifiedChain
    <2>5. PICK s \in Session :
            /\ snapshot.checkpoint.document = DocumentOf[s]
            /\ snapshot.checkpoint.sequence \in 1..Len(operations[s])
            /\ snapshot.checkpoint.head = operations[s][snapshot.checkpoint.sequence]
        BY <1>1, <2>1 DEF EditorInv, Anchored
    <2>6. PICK q : q = operations[s]
        OBVIOUS
    <2>7. q \in Seq(Entries(q)) /\ Len(q) \in Nat /\ Linked(q, Len(q))
        BY <1>1, <2>6 DEF EditorInv, Chained
    <2>8. length <= Len(q) /\ p[length] = q[length]
        BY <2>4, <2>5, <2>6
    <2>9. \A n \in 1..length : p[n] = q[n]
        <3>1. Linked(q, length)
            BY <2>2, <2>7, <2>8 DEF Linked
        <3> QED
            BY <2>2, <2>4, <2>8, <3>1, SamePast
    <2>10. p = SubSeq(q, 1, length)
        <3>1. SubSeq(q, 1, length) = [n \in 1..length |-> q[n]]
            BY <2>2, <2>7, <2>8
        <3>2. p = [n \in 1..length |-> p[n]]
            BY <2>1, <2>3
        <3> QED
            BY <2>9, <3>1, <3>2
    <2> QED
        BY <2>3, <2>4, <2>5, <2>6, <2>8, <2>10 DEF History
<1>2. EditorInv => NoSplice
    BY <1>1 DEF NoSplice
<1> QED
    BY <1>2, EditorInvariance, PTL

=============================================================================
