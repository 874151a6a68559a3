------------------------------ MODULE MCErasure ------------------------------
(* A small instance of Erasure: two requests for one object, and a second task *)
(* under the first one's id; the object may be created again after it went.    *)
EXTENDS Erasure, TLC

CONSTANTS w1, w2

First == [id |-> "r1", name |-> "o", content |-> "a", from |-> 1, until |-> 2]
Longer == [First EXCEPT !.until = 3]
Second == [Longer EXCEPT !.id = "r2"]
MCTask == {First, Longer, Second}

InUse(t) ==
    \/ \E i \in Id : journal[i] # None /\ journal[i].task = t
    \/ \E w \in Caller : \/ call[w] # None /\ call[w].task = t
                         \/ report[w] # None /\ report[w].task = t

\* Bounds: the second task under the first one's id is used without the second request and
\* with one file.  One task is observed, before and then after, and while observations are
\* kept, one caller at a time is explored.
Bounds ==
    /\ InUse(Longer) => ~InUse(Second) /\ files <= 1
    /\ \A o \in observations : o.task = First
    /\ observations # {} => \E o \in observations : o.phase = "before"
    /\ Cardinality(observations) = 2 => \E o \in observations : o.previous # None
    /\ observations # {} =>
         Cardinality({w \in Caller : pc[w] # "idle" \/ report[w] # None}) <= 1
MCSymmetry == Permutations({w1, w2})
=============================================================================
