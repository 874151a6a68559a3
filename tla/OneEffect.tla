------------------------------ MODULE OneEffect ------------------------------
(***************************************************************************)
(* What the pilots' journals promise of an action outside the program (an   *)
(* upload, a publication, an unlink): under a request id, one action is     *)
(* committed to, it is carried out at most once and only while no outcome   *)
(* is recorded, and a recorded outcome is final and true of the past AND of *)
(* the future: blocked means never, confirmed means done.                  *)
(***************************************************************************)
EXTENDS Naturals

CONSTANTS Request, Action, None

VARIABLES intent, effects, outcome
vars == <<intent, effects, outcome>>

Init ==
    /\ intent = [r \in Request |-> None]
    /\ effects = [r \in Request |-> 0]
    /\ outcome = [r \in Request |-> None]

Commit(r, a) ==
    /\ intent[r] = None
    /\ intent' = [intent EXCEPT ![r] = a]
    /\ UNCHANGED <<effects, outcome>>

Effect(r) ==
    /\ intent[r] # None /\ outcome[r] = None /\ effects[r] = 0
    /\ effects' = [effects EXCEPT ![r] = 1]
    /\ UNCHANGED <<intent, outcome>>

Conclude(r, o) ==
    /\ intent[r] # None /\ outcome[r] = None
    /\ o = "blocked" => effects[r] = 0
    /\ o = "confirmed" => effects[r] = 1
    /\ outcome' = [outcome EXCEPT ![r] = o]
    /\ UNCHANGED <<intent, effects>>

Next ==
    \E r \in Request :
        \/ \E a \in Action : Commit(r, a)
        \/ Effect(r)
        \/ \E o \in {"blocked", "confirmed", "unknown"} : Conclude(r, o)

Spec == Init /\ [][Next]_vars

=============================================================================
