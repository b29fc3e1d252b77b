------------------------- MODULE MCFileLogAppender --------------------------
(***************************************************************************)
(* Instances of FileLogAppender for TLC; the cfg gives the sets.           *)
(***************************************************************************)
EXTENDS FileLogAppender, TLC

Symmetry == Permutations(Callers)
=============================================================================
