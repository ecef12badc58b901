-------------------------- MODULE MCEngineSessions --------------------------
(* Values for model checking EngineSessions. *)
EXTENDS EngineSessions, TLC

CONSTANTS s1, s2, a1, a2, t1, closer

\* The sessions are interchangeable, and so are the users of App.
SidSymmetry == Permutations(Sid)
Symmetry == SidSymmetry \cup Permutations(AppCaller)
=============================================================================
