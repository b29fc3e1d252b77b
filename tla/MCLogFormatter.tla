--------------------------- MODULE MCLogFormatter ---------------------------
(***************************************************************************)
(* Instances of LogFormatter for TLC; the cfg gives the sets.              *)
(***************************************************************************)
EXTENDS LogFormatter
=============================================================================
