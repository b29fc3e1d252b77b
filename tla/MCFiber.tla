------------------------------- MODULE MCFiber -------------------------------
(***************************************************************************)
(* Instances of Fiber for TLC; each cfg gives the sets.                    *)
(***************************************************************************)
EXTENDS Fiber
=============================================================================
