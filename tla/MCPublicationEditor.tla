------------------------- MODULE MCPublicationEditor -------------------------
(* Two sessions on one document: the second one is opened after a restart.    *)
EXTENDS PublicationEditor, TLC

CONSTANTS s1, s2, b1, b2, x, y

MCDocumentOf == (s1 :> "article") @@ (s2 :> "article")
MCSymmetry == Permutations({s1, s2}) \cup Permutations({b1, b2}) \cup Permutations({x, y})
=============================================================================
