--------------------------- MODULE MCSessionTask ---------------------------
(* Values for model checking SessionTask. *)
EXTENDS SessionTask, TLC

CONSTANTS u1, u2, p1, k1, k2, c1, c2, bad

\* The valid calls are interchangeable: no action and no property names one.
CallSymmetry == Permutations(Call \cap ValidCall)
=============================================================================
