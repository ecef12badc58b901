--------------------------- MODULE MCSessionStore ---------------------------
(* Values for model checking SessionStore. *)
EXTENDS SessionStore, TLC

CONSTANTS s1, s2, none

Symmetry == Permutations(Sid)
=============================================================================
