-------------------------------- MODULE Fiber --------------------------------
(***************************************************************************)
(* Fiber's context switching on one thread (fiber.cpp): which stack runs,  *)
(* which fiber t_fiber says is running, and what each ucontext_t would     *)
(* resume.  swapIn()/swapOut() switch between a fiber and the scheduler's  *)
(* main fiber (Scheduler::GetMainFiber()), call()/back() between a fiber   *)
(* and the thread's main fiber (t_threadFiber).  A switch saves the        *)
(* running stack into the context the code NAMES, not into that of the     *)
(* fiber that happens to run.                                              *)
(*                                                                         *)
(* The module Scheduler abstracts this bookkeeping and models how fibers   *)
(* move between threads instead.                                           *)
(***************************************************************************)
EXTENDS Naturals

CONSTANTS
  Fibers,       \* fibers made with MainFunc(), for swapIn()
  ThreadMain,   \* the thread's main fiber, which GetThis() makes
  Root,         \* the use_caller fiber made with CallerMainFunc(), for call()
  RunFibers,    \* which of ThreadMain and Root may execute Scheduler::run()
  MaxYields,    \* bound: yields of all fibers together
  Null

All == Fibers \cup {ThreadMain, Root}

ASSUME FiberAssumption ==
  /\ ThreadMain # Root /\ {ThreadMain, Root} \cap Fibers = {}
  /\ Null \notin All
  /\ RunFibers \subseteq {ThreadMain, Root}
  /\ MaxYields \in Nat

VARIABLES
  running,              \* the stack on the CPU, named by its fiber
  t_fiber,              \* the thread-local current fiber
  t_threadFiber,        \* the thread-local main fiber, or Null
  t_scheduler_fiber,    \* Scheduler::GetMainFiber()
  m_state,
  m_ctx,                \* the stack each context resumes, and at which point
  cur,                  \* MainFunc()'s local cur on each stack
  yieldsLeft,
  failed                \* what aborted the process, or Null

vars == <<running, t_fiber, t_threadFiber, t_scheduler_fiber, m_state, m_ctx,
          cur, yieldsLeft, failed>>
threadVars == <<t_threadFiber, t_scheduler_fiber>>

\* Points at which a context resumes: before MainFunc(), inside a switch, or
\* in the last switch, behind which MainFunc() asserts false.
Context == [stack : All, point : {"begin", "switch", "end"}]
Finished == {"TERM", "EXCEPT"}

TypeOK ==
  /\ running \in All
  /\ t_fiber \in All \cup {Null}
  /\ t_threadFiber \in {ThreadMain, Null}
  /\ t_scheduler_fiber \in {ThreadMain, Root, Null}
  /\ m_state \in [All -> {"NONE", "INIT", "HOLD", "EXEC", "READY", "TERM",
                          "EXCEPT"}]
  /\ m_ctx \in [All -> Context \cup {Null}]
  /\ cur \in [All -> All \cup {Null}]
  /\ yieldsLeft \in 0..MaxYields
  /\ failed \in {"null", "assert", "neverReach", Null}

\* A new thread: code on its own stack, no fiber yet.
Init ==
  /\ running = ThreadMain
  /\ t_fiber = Null
  /\ t_threadFiber = Null
  /\ t_scheduler_fiber = Null
  /\ m_state = [f \in All |-> "NONE"]
  /\ m_ctx = [f \in All |-> Null]
  /\ cur = [f \in All |-> Null]
  /\ yieldsLeft = MaxYields
  /\ failed = Null

-----------------------------------------------------------------------------

On(stack) == failed = Null /\ running = stack

Fail(what) ==
  /\ failed' = what
  /\ UNCHANGED <<running, t_fiber, threadVars, m_state, m_ctx, cur, yieldsLeft>>

\* SetThis(this), swapcontext(&from->m_ctx, &to->m_ctx): the running stack is
\* saved in from at the given point, the stack saved in to goes on.
Switch(this, from, to, point) ==
  IF from = Null \/ to = Null THEN Fail("null")
  ELSE IF m_ctx[to].point = "end" THEN Fail("neverReach")
  ELSE LET next == m_ctx[to] IN
       /\ t_fiber' = this
       /\ m_ctx' = [m_ctx EXCEPT ![from] = [stack |-> running, point |-> point]]
       /\ running' = next.stack
       /\ cur' = IF next.point = "begin" THEN [cur EXCEPT ![next.stack] = this]
                                         ELSE cur
       /\ UNCHANGED <<threadVars, failed>>

SetState(f, s) == m_state' = [m_state EXCEPT ![f] = s]

\* GetThis() on a thread without a fiber: Fiber() takes the running context.
GetThis ==
  /\ On(ThreadMain)
  /\ t_fiber = Null
  /\ t_fiber' = ThreadMain
  /\ t_threadFiber' = ThreadMain
  /\ SetState(ThreadMain, "EXEC")
  /\ m_ctx' = [m_ctx EXCEPT ![ThreadMain] =
                           [stack |-> ThreadMain, point |-> "switch"]]
  /\ UNCHANGED <<running, t_scheduler_fiber, cur, yieldsLeft, failed>>

Fresh(f) == m_ctx' = [m_ctx EXCEPT ![f] = [stack |-> f, point |-> "begin"]]

\* Fiber(cb, stacksize, use_caller).
New(f) ==
  /\ failed = Null
  /\ t_threadFiber # Null
  /\ m_state[f] = "NONE"
  /\ SetState(f, "INIT")
  /\ Fresh(f)
  /\ UNCHANGED <<running, t_fiber, threadVars, cur, yieldsLeft, failed>>

\* Scheduler() with use_caller names its root fiber, run() on a worker thread
\* the thread's main fiber: the fiber that executes run().
SetScheduler(f) ==
  /\ On(ThreadMain)
  /\ t_scheduler_fiber = Null
  /\ m_state[f] # "NONE"
  /\ t_scheduler_fiber' = f
  /\ UNCHANGED <<running, t_fiber, t_threadFiber, m_state, m_ctx, cur,
                 yieldsLeft, failed>>

\* reset(cb) of a finished fiber.
reset(f) ==
  /\ On(t_scheduler_fiber)
  /\ m_state[f] \in Finished
  /\ SetState(f, "INIT")
  /\ Fresh(f)
  /\ UNCHANGED <<running, t_fiber, threadVars, cur, yieldsLeft, failed>>

\* ~Fiber() of a fiber with a stack, as run() lets go of it.
Delete(f) ==
  /\ On(t_scheduler_fiber)
  /\ m_state[f] \in Finished \cup {"INIT"}
  /\ SetState(f, "NONE")
  /\ m_ctx' = [m_ctx EXCEPT ![f] = Null]
  /\ UNCHANGED <<running, t_fiber, threadVars, cur, yieldsLeft, failed>>

\* Mutant of swapIn: a finished fiber is swapped in once more.
swapInFinished(f) ==
  /\ On(IF RunFibers = {} THEN ThreadMain ELSE t_scheduler_fiber)
  /\ m_state[f] \in {"INIT", "HOLD", "READY"} \cup Finished
  /\ Switch(f, t_scheduler_fiber, f, "switch")
  /\ IF failed' = Null THEN SetState(f, "EXEC") ELSE UNCHANGED m_state
  /\ UNCHANGED yieldsLeft

\* swapIn(), called by the code that schedules: run(), which passes over fibers
\* that execute or have finished, or a program without a scheduler.
swapIn(f) ==
  /\ On(IF RunFibers = {} THEN ThreadMain ELSE t_scheduler_fiber)
  /\ m_state[f] \in {"INIT", "HOLD", "READY"}
  /\ Switch(f, t_scheduler_fiber, f, "switch")
  /\ IF failed' = Null THEN SetState(f, "EXEC") ELSE UNCHANGED m_state
  /\ UNCHANGED yieldsLeft

\* Mutants of swapOut: t_fiber is not set back; nothing is saved in f.
swapOutKeepsThis(f, point) == Switch(t_fiber, f, t_scheduler_fiber, point)
swapOutSavesElsewhere(f, point) ==
  Switch(t_scheduler_fiber, t_scheduler_fiber, t_scheduler_fiber, point)

\* swapOut() of fiber f.
swapOut(f, point) == Switch(t_scheduler_fiber, f, t_scheduler_fiber, point)

\* YieldToReady() and YieldToHold() in the fiber on the running stack.
Yield(f, s) ==
  /\ On(f)
  /\ yieldsLeft > 0
  /\ IF m_state[t_fiber] # "EXEC"
     THEN Fail("assert")
     ELSE /\ swapOut(t_fiber, "switch")
          /\ SetState(t_fiber, s)
          /\ yieldsLeft' = yieldsLeft - 1

\* Mutant of MainFunc: the state stays EXEC.
MainFuncKeepsState(f, s) ==
  /\ On(f)
  /\ swapOut(cur[f], "end")
  /\ UNCHANGED <<m_state, yieldsLeft>>

\* MainFunc() behind m_cb(): TERM or EXCEPT, then the last swapOut().
MainFunc(f, s) ==
  /\ On(f)
  /\ swapOut(cur[f], "end")
  /\ SetState(cur[f], s)
  /\ UNCHANGED yieldsLeft

\* call() of m_rootFiber, by stop().
call ==
  /\ On(ThreadMain)
  /\ m_state[Root] = "INIT"
  /\ t_scheduler_fiber = Root
  /\ Switch(Root, t_threadFiber, Root, "switch")
  /\ SetState(Root, "EXEC")
  /\ UNCHANGED yieldsLeft

\* CallerMainFunc() behind run(): TERM or EXCEPT, then back().
CallerMainFunc(s) ==
  /\ On(Root)
  /\ Switch(t_threadFiber, cur[Root], t_threadFiber, "end")
  /\ SetState(cur[Root], s)
  /\ UNCHANGED yieldsLeft

Next ==
  \/ GetThis \/ call
  \/ \E f \in RunFibers : SetScheduler(f)
  \/ \E f \in Fibers \cup {Root} : New(f)
  \/ \E f \in Fibers : reset(f) \/ Delete(f) \/ swapIn(f)
  \/ \E f \in Fibers, s \in {"READY", "HOLD"} : Yield(f, s)
  \/ \E f \in Fibers, s \in Finished : MainFunc(f, s)
  \/ \E s \in Finished : CallerMainFunc(s)

Spec == Init /\ [][Next]_vars

-----------------------------------------------------------------------------

\* GetThis() tells the truth: once the thread has a fiber, t_fiber is the
\* fiber whose stack executes, behind every switch.
ThisIsRunning == t_fiber # Null => t_fiber = running

\* A fiber that can be resumed resumes on its own stack, at its beginning or in
\* the switch in which it left, whatever was saved in between.
OwnContext ==
  \A f \in Fibers \cup {Root} :
    m_state[f] \in {"INIT", "HOLD", "READY"} =>
      /\ m_ctx[f].stack = f
      /\ m_ctx[f].point = IF m_state[f] = "INIT" THEN "begin" ELSE "switch"

\* EXEC are the main fiber, the root fiber while it waits for the fiber it
\* swapped in, and the fiber that runs: no fiber is left in EXEC.
ExecIsRunning ==
  {f \in All : m_state[f] = "EXEC"} \ {ThreadMain}
    = {running, IF running = ThreadMain THEN ThreadMain ELSE t_scheduler_fiber}
        \ {ThreadMain}

\* No assertion of fiber.cpp fails and no null pointer is used.
NoCrash == failed = Null

=============================================================================
