------------------------------ MODULE MCThread ------------------------------
(***************************************************************************)
(* Instances of Thread for TLC; each cfg gives the sets.                   *)
(***************************************************************************)
EXTENDS Thread
=============================================================================
