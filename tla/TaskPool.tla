------------------------------ MODULE TaskPool ------------------------------
(***************************************************************************)
(* What a client may expect of Scheduler (scheduler.h:23-54), without      *)
(* threads, queue or fibers: a body that is handed over is executed while  *)
(* the pool is open, in one or more slices, to its end exactly once, and   *)
(* stop() closes the pool only when nothing that was handed over is left.  *)
(* Scheduler implements this specification (Scheduler!ImplementsTaskPool). *)
(***************************************************************************)
EXTENDS Naturals

CONSTANT Bodies

VARIABLES
  place,      \* where each body is
  phase       \* "closed" before start() and after stop(), else "open"

poolVars == <<place, phase>>

Place == {"new", "waiting", "running", "finished"}

PoolInit ==
  /\ place = [b \in Bodies |-> "new"]
  /\ phase = "closed"

Move(S, from, to) ==
  /\ \A b \in S : place[b] = from
  /\ place' = [b \in Bodies |-> IF b \in S THEN to ELSE place[b]]
  /\ UNCHANGED phase

Submit(S) == Move(S, "new", "waiting")
Resume(b) == phase = "open" /\ Move({b}, "waiting", "running")
Pause(b)  == Move({b}, "running", "waiting")
Complete(b) == Move({b}, "running", "finished")

Open ==
  /\ phase = "closed"
  /\ phase' = "open"
  /\ UNCHANGED place

Close ==
  /\ phase = "open"
  /\ \A b \in Bodies : place[b] \in {"new", "finished"}
  /\ phase' = "closed"
  /\ UNCHANGED place

PoolNext ==
  \/ \E S \in SUBSET Bodies : Submit(S)
  \/ \E b \in Bodies : Resume(b) \/ Pause(b) \/ Complete(b)
  \/ Open
  \/ Close

PoolSpec == PoolInit /\ [][PoolNext]_poolVars

=============================================================================
