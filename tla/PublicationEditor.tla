-------------------------- MODULE PublicationEditor --------------------------
(***************************************************************************)
(* Editing sessions of the publication pilot, which sign each operation and *)
(* hand out snapshots (publication_pilot/editor.py, class Editor).          *)
(*                                                                         *)
(* A session is an Editor object.  Its history lives in memory, so a        *)
(* process that starts again opens a new, empty session, maybe on the same  *)
(* document and under the same key; all operations ever signed under that   *)
(* key remain valid signatures.  Every method holds the object's lock, and  *)
(* is one action.  The limit on the JSON size is left out: it refuses an    *)
(* operation and changes nothing.                                          *)
(***************************************************************************)
EXTENDS EditorHistory

CONSTANTS
    Session, DocumentOf,
    Block, Text, Activity,
    Time,
    None

ASSUME EditorAssumption == AiActivity \subseteq Activity /\ Time \subseteq Int
                           /\ MaxOperations \in Nat /\ MaxBlocks \in Nat
ASSUME SessionAssumption == Session \subseteq DOMAIN DocumentOf

VARIABLES
    now,              \* what the sessions' clock shows
    blocks,           \* _blocks: per session, a partial function to texts
    operations,       \* _operations, per session
    lastTime,         \* _last_time: None or a time, per session
    checkpoints       \* every checkpoint signed

vars == <<now, blocks, operations, lastTime, checkpoints>>

NoBlocks == [b \in {} |-> None]

Init ==
    /\ now \in Time
    /\ blocks = [s \in Session |-> NoBlocks]
    /\ operations = [s \in Session |-> <<>>]
    /\ lastTime = [s \in Session |-> None]
    /\ checkpoints = {}

\* _now: within a session the clock must not go back.
ClockAdvances(s) == lastTime[s] # None => lastTime[s] <= now

Operation(s, b, t, a, after) ==
    [document |-> DocumentOf[s],
     sequence |-> Len(operations[s]) + 1,
     previous |-> Previous(operations[s], Len(operations[s]) + 1),
     before |-> blocks[s], after |-> after,
     block |-> b, text |-> t, activity |-> a, at |-> now]

SetBlock(s, b, t, a) ==
    /\ Len(operations[s]) < MaxOperations
    /\ b \in DOMAIN blocks[s] \/ Cardinality(DOMAIN blocks[s]) < MaxBlocks
    /\ ClockAdvances(s)
    /\ LET after == [c \in DOMAIN blocks[s] \cup {b} |-> IF c = b THEN t ELSE blocks[s][c]] IN
       /\ operations' = [operations EXCEPT ![s] = Append(@, Operation(s, b, t, a, after))]
       /\ blocks' = [blocks EXCEPT ![s] = after]
    /\ lastTime' = [lastTime EXCEPT ![s] = now]
    /\ UNCHANGED <<now, checkpoints>>

Checkpoint(s) ==
    [document |-> DocumentOf[s], sequence |-> Len(operations[s]),
     head |-> operations[s][Len(operations[s])],
     content |-> blocks[s], at |-> now]

Snapshot(s) ==
    /\ DOMAIN blocks[s] # {}
    /\ ClockAdvances(s)
    /\ checkpoints' = checkpoints \cup {Checkpoint(s)}
    /\ lastTime' = [lastTime EXCEPT ![s] = now]
    /\ UNCHANGED <<now, blocks, operations>>

SetClock(t) ==
    /\ now' = t
    /\ UNCHANGED <<blocks, operations, lastTime, checkpoints>>

Next ==
    \/ \E s \in Session, b \in Block, t \in Text, a \in Activity : SetBlock(s, b, t, a)
    \/ \E s \in Session : Snapshot(s)
    \/ \E t \in Time : SetClock(t)

Spec == Init /\ [][Next]_vars

-----------------------------------------------------------------------------
(* Properties.                                                             *)

Signed == UNION {{operations[s][n] : n \in DOMAIN operations[s]} : s \in Session}

\* Whatever can be put together from what was ever signed under the key.
Assembled(length) ==
    [document : {DocumentOf[s] : s \in Session}, operations : [1..length -> Signed],
     checkpoint : checkpoints]

History(s, n) == SubSeq(operations[s], 1, n)

\* Genuine operations of several sessions cannot be mixed, reordered, dropped or cut
\* short: a snapshot that verifies is the whole history of one session up to one of its
\* checkpoints, so that no AI activity of that session is missing from it.
NoSplice ==
    \A length \in 1..MaxOperations : \A snapshot \in Assembled(length) :
        Verified(snapshot) =>
            \E s \in Session :
                /\ DocumentOf[s] = snapshot.document
                /\ length <= Len(operations[s])
                /\ snapshot.operations = History(s, length)
                /\ snapshot.checkpoint.head = operations[s][length]

=============================================================================
