--------------------------- MODULE MCCollectorPilot ---------------------------
(* Two gateways on one collector and receiver, with one journal or with two:   *)
(* an upload whose permit expires, and another one under the same request id.  *)
EXTENDS CollectorPilot, TLC

CONSTANTS g1, g2, j1, j2

Asked == [id |-> "i1", evaluation |-> "e1", content |-> "a", from |-> 0, until |-> 2]
Other == [Asked EXCEPT !.content = "b", !.until = 3]

MCUpload == {Asked, Other}
MCLayout == [{g1, g2} -> {j1, j2}]
MCSymmetry == Permutations({g1, g2}) \cup Permutations({j1, j2})
=============================================================================
