--------------------------- MODULE MCFileRollback ---------------------------
(* Values for model checking FileRollback. *)
EXTENDS FileRollback, TLC

CONSTANTS f1, f2, absent, text

Symmetry == Permutations(File)
=============================================================================
