-------------------------- MODULE MCSessionMailbox --------------------------
(* Values for model checking SessionMailbox. *)
EXTENDS SessionMailbox, TLC

CONSTANTS u1, u2, p1, k1, k2, c1, c2, bad
=============================================================================
