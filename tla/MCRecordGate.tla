----------------------------- MODULE MCRecordGate -----------------------------
(* Small instances of RecordGate for TLC: one operation id, requested as        *)
(* approved, with other tokens, and with other arguments.                      *)
EXTENDS RecordGate, TLC

CONSTANTS g1, g2, i1

Asked == [intent |-> [id |-> i1, args |-> "a"], tokens |-> "t1"]
OtherTokens == [Asked EXCEPT !.tokens = "t2"]
OtherArguments == [Asked EXCEPT !.intent.args = "b"]

MCRequest == {Asked, OtherTokens, OtherArguments}
MCTwo == {Asked, OtherArguments}
MCSymmetry == Permutations({g1, g2})
=============================================================================
