----------------------------- MODULE MCScheduler -----------------------------
(***************************************************************************)
(* Instances of Scheduler for TLC; each cfg gives the sets.                *)
(***************************************************************************)
EXTENDS Scheduler

\* Workers, host fibers and callbacks are interchangeable: Init, Next and the
\* invariants never choose among them, and Pins names no single worker.
Symmetry ==
  Permutations(Workers) \cup Permutations(HostFibers) \cup Permutations(Cbs)
=============================================================================
