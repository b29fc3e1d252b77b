---------------------------- MODULE FiberProofs -----------------------------
(***************************************************************************)
(* Theorems about Fiber, for any set of fibers and any number of yields.   *)
(***************************************************************************)
EXTENDS Fiber, TLAPS

\* The thread executes Scheduler::run(), so that there is a fiber to swap to.
HasScheduler == RunFibers # {}

\* Before GetThis() the thread has no fiber at all; afterwards t_fiber names the
\* stack that runs.
ThreadOK ==
  /\ t_fiber = Null =>
       /\ running = ThreadMain /\ t_threadFiber = Null
       /\ t_scheduler_fiber = Null
       /\ \A f \in All : m_state[f] = "NONE"
  /\ t_fiber # Null =>
       /\ t_fiber = running /\ t_threadFiber = ThreadMain
       /\ m_state[ThreadMain] = "EXEC"
  /\ t_scheduler_fiber # Null =>
       t_scheduler_fiber \in RunFibers /\ m_state[t_scheduler_fiber] # "NONE"

Saved(f) == m_ctx[f].stack = f /\ m_ctx[f].point = "switch"

\* A fiber that was swapped in runs on its own stack, and the fiber it came from
\* waits in its switch.
SwappedOK ==
  running \in Fibers =>
    /\ t_scheduler_fiber # Null
    /\ Saved(t_scheduler_fiber)
    /\ m_state[running] = "EXEC"

\* The root fiber is active from call() to back(), with the thread's main fiber
\* waiting in its switch.
RootActive ==
  running = Root \/ (running \in Fibers /\ t_scheduler_fiber = Root)

RootOK ==
  /\ RootActive => /\ t_scheduler_fiber = Root
                   /\ m_state[Root] = "EXEC"
                   /\ Saved(ThreadMain)
  /\ m_state[Root] = "EXEC" => RootActive
  /\ m_state[Root] \notin {"HOLD", "READY"}

\* MainFunc()'s cur is the fiber itself once the fiber has begun.
CurOK ==
  \A f \in Fibers \cup {Root} : m_state[f] \in {"EXEC", "HOLD", "READY"} => cur[f] = f

\* Only the fiber that runs is in EXEC, besides the main and the root fiber.
ExecOK == \A f \in Fibers : m_state[f] = "EXEC" => f = running

Inv == ThreadOK /\ SwappedOK /\ RootOK /\ CurOK /\ ExecOK /\ OwnContext

IInv == TypeOK /\ Inv

-----------------------------------------------------------------------------

\* The fibers are distinct from each other and from Null.
LEMMA Distinct ==
  /\ ThreadMain # Root /\ ThreadMain \notin Fibers /\ Root \notin Fibers
  /\ \A f \in All : f # Null
  /\ Fibers \subseteq All /\ ThreadMain \in All /\ Root \in All
  BY FiberAssumption DEF All

\* A new thread satisfies the invariant.
LEMMA InitIInv == Init => IInv
  BY Distinct, FiberAssumption
     DEF Init, IInv, Inv, TypeOK, ThreadOK, SwappedOK, RootOK, RootActive, CurOK,
         ExecOK, OwnContext, All

\* What a switch does that meets neither a null pointer nor the end of a fiber:
\* it saves the running stack in from, and to's stack goes on.
LEMMA SwitchStep ==
  ASSUME TypeOK, NEW this \in All, NEW from \in All, NEW to \in All,
         NEW point \in {"switch", "end"},
         m_ctx[to].stack \in All, m_ctx[to].point \in {"begin", "switch"},
         Switch(this, from, to, point)
  PROVE  /\ t_fiber' = this
         /\ m_ctx' = [m_ctx EXCEPT ![from] = [stack |-> running, point |-> point]]
         /\ running' = m_ctx[to].stack
         /\ cur' = IF m_ctx[to].point = "begin"
                   THEN [cur EXCEPT ![m_ctx[to].stack] = this] ELSE cur
         /\ UNCHANGED <<t_threadFiber, t_scheduler_fiber, failed>>
         /\ m_ctx' \in [All -> Context \cup {Null}]
         /\ cur' \in [All -> All \cup {Null}]
<1>1. from # Null /\ to # Null
  BY Distinct
<1>2. /\ t_fiber' = this
      /\ m_ctx' = [m_ctx EXCEPT ![from] = [stack |-> running, point |-> point]]
      /\ running' = m_ctx[to].stack
      /\ cur' = IF m_ctx[to].point = "begin"
                THEN [cur EXCEPT ![m_ctx[to].stack] = this] ELSE cur
      /\ UNCHANGED <<t_threadFiber, t_scheduler_fiber, failed>>
  BY <1>1 DEF Switch, threadVars
<1>3. [stack |-> running, point |-> point] \in Context
  BY DEF TypeOK, Context
<1>. QED
  BY <1>2, <1>3 DEF TypeOK

\* swapIn() preserves the invariant.
LEMMA SwapInIInv ==
  ASSUME IInv, NEW f \in Fibers, swapIn(f)
  PROVE  IInv'
<1>. USE Distinct DEF IInv, Inv
<1>1. CASE t_scheduler_fiber = Null
  <2>1. Fail("null")
    BY <1>1 DEF swapIn, Switch
  <2>. QED
    BY <1>1, <2>1
       DEF swapIn, Fail, threadVars, TypeOK, ThreadOK, SwappedOK, Saved, RootOK,
           RootActive, CurOK, ExecOK, OwnContext
<1>2. CASE t_scheduler_fiber # Null
  <2>. DEFINE s == t_scheduler_fiber
  <2>1. s \in {ThreadMain, Root} /\ s \in All /\ f \in All /\ f # s
    BY <1>2 DEF TypeOK
  <2>2. /\ m_state[f] \in {"INIT", "HOLD", "READY"}
        /\ m_ctx[f].stack = f /\ m_ctx[f].point \in {"begin", "switch"}
        /\ m_ctx[f].point = "switch" => cur[f] = f
    BY DEF swapIn, OwnContext, CurOK
  <2>3. Switch(f, s, f, "switch")
    BY DEF swapIn
  <2>4. /\ t_fiber' = f /\ running' = f
        /\ m_ctx' = [m_ctx EXCEPT ![s] = [stack |-> running, point |-> "switch"]]
        /\ cur' = IF m_ctx[f].point = "begin" THEN [cur EXCEPT ![f] = f] ELSE cur
        /\ UNCHANGED <<t_threadFiber, t_scheduler_fiber, failed>>
        /\ m_ctx' \in [All -> Context \cup {Null}]
        /\ cur' \in [All -> All \cup {Null}]
    BY <2>1, <2>2, <2>3, SwitchStep
  <2>5. running = s /\ failed = Null
    BY <1>2 DEF swapIn, On, ThreadOK
  <2>6. m_state' = [m_state EXCEPT ![f] = "EXEC"] /\ UNCHANGED yieldsLeft
    BY <2>4, <2>5 DEF swapIn, SetState
  <2>7. m_ctx'[s].stack = s /\ m_ctx'[s].point = "switch"
    BY <2>1, <2>4, <2>5 DEF TypeOK
  <2>8. \A g \in All \ {s} : m_ctx'[g] = m_ctx[g]
    BY <2>1, <2>4 DEF TypeOK
  <2>9. cur'[f] = f /\ \A g \in All \ {f} : cur'[g] = cur[g]
    BY <2>1, <2>2, <2>4 DEF TypeOK
  <2>10. m_state'[f] = "EXEC" /\ \A g \in All \ {f} : m_state'[g] = m_state[g]
    BY <2>1, <2>6 DEF TypeOK
  <2>11. TypeOK'
    BY <2>1, <2>4, <2>6 DEF TypeOK
  <2>12. t_fiber # Null
    BY <1>2 DEF ThreadOK
  <2>13. ThreadOK'
    BY <2>1, <2>4, <2>10, <2>12 DEF ThreadOK
  <2>14. SwappedOK'
    BY <2>1, <2>4, <2>7, <2>10 DEF SwappedOK, Saved
  <2>15. RootOK'
    <3>1. CASE s = Root
      BY <2>1, <2>4, <2>5, <2>8, <2>10, <3>1 DEF RootOK, RootActive, Saved
    <3>2. CASE s = ThreadMain
      BY <2>1, <2>4, <2>5, <2>8, <2>10, <3>2 DEF RootOK, RootActive, Saved
    <3>. QED
      BY <2>1, <3>1, <3>2
  <2>16. CurOK'
    BY <2>9, <2>10 DEF CurOK
  <2>17. ExecOK'
    BY <2>1, <2>4, <2>5, <2>10 DEF ExecOK
  <2>18. OwnContext'
    <3>1. m_state'[s] \notin {"INIT", "HOLD", "READY"}
      BY <2>1, <2>5, <2>10, <2>12 DEF ThreadOK, RootOK, RootActive
    <3>. QED
      BY <2>8, <2>10, <3>1 DEF OwnContext
  <2>. QED
    BY <2>11, <2>13, <2>14, <2>15, <2>16, <2>17, <2>18
<1>. QED
  BY <1>1, <1>2

\* swapOut() of the running fiber preserves the invariant, if its state becomes
\* one in which it waits at this point, or one in which it has finished.
LEMMA SwapOutIInv ==
  ASSUME IInv, NEW f \in Fibers, On(f), NEW point \in {"switch", "end"},
         swapOut(f, point), NEW st,
         \/ st \in {"READY", "HOLD"} /\ point = "switch"
         \/ st \in Finished,
         SetState(f, st), yieldsLeft' \in 0..MaxYields
  PROVE  IInv'
<1>. USE Distinct DEF IInv, Inv
<1>. DEFINE s == t_scheduler_fiber
<1>1. /\ s # Null /\ s \in {ThreadMain, Root} /\ s \in All /\ f \in All /\ f # s
      /\ Saved(s) /\ m_state[f] = "EXEC" /\ running = f
  BY DEF On, SwappedOK, TypeOK
<1>2. /\ t_fiber' = s /\ running' = s
      /\ m_ctx' = [m_ctx EXCEPT ![f] = [stack |-> f, point |-> point]]
      /\ cur' = cur
      /\ UNCHANGED <<t_threadFiber, t_scheduler_fiber, failed>>
      /\ m_ctx' \in [All -> Context \cup {Null}]
      /\ cur' \in [All -> All \cup {Null}]
  BY <1>1, SwitchStep DEF swapOut, Saved
<1>3. m_ctx'[f].stack = f /\ m_ctx'[f].point = point
  BY <1>1, <1>2 DEF TypeOK
<1>4. \A g \in All \ {f} : m_ctx'[g] = m_ctx[g]
  BY <1>1, <1>2 DEF TypeOK
<1>5. m_state'[f] = st /\ \A g \in All \ {f} : m_state'[g] = m_state[g]
  BY <1>1 DEF SetState, TypeOK
<1>6. t_fiber # Null
  BY <1>1 DEF ThreadOK
<1>7. TypeOK'
  BY <1>1, <1>2 DEF SetState, TypeOK, Finished
<1>8. ThreadOK'
  BY <1>1, <1>2, <1>5, <1>6 DEF ThreadOK
<1>9. SwappedOK'
  BY <1>1, <1>2 DEF SwappedOK
<1>10. RootOK'
  <2>1. CASE s = Root
    BY <1>1, <1>2, <1>4, <1>5, <2>1 DEF RootOK, RootActive, Saved
  <2>2. CASE s = ThreadMain
    BY <1>1, <1>2, <1>4, <1>5, <2>2 DEF RootOK, RootActive, Saved
  <2>. QED
    BY <1>1, <2>1, <2>2
<1>11. CurOK'
  BY <1>1, <1>2, <1>5 DEF CurOK
<1>12. ExecOK'
  BY <1>1, <1>2, <1>5 DEF ExecOK, Finished
<1>13. OwnContext'
  BY <1>1, <1>3, <1>4, <1>5 DEF OwnContext, Finished
<1>. QED
  BY <1>7, <1>8, <1>9, <1>10, <1>11, <1>12, <1>13

\* YieldToReady() and YieldToHold(): the assertion holds.
LEMMA YieldIInv ==
  ASSUME IInv, NEW f \in Fibers, NEW st \in {"READY", "HOLD"}, Yield(f, st)
  PROVE  IInv' /\ failed' = Null
<1>1. t_fiber = f /\ m_state[f] = "EXEC" /\ On(f)
  BY Distinct DEF Yield, On, IInv, Inv, ThreadOK, SwappedOK
<1>2. /\ swapOut(f, "switch") /\ SetState(f, st)
      /\ yieldsLeft' \in 0..MaxYields
  BY <1>1, FiberAssumption DEF Yield, IInv, TypeOK
<1>3. IInv'
  BY <1>1, <1>2, SwapOutIInv
<1>4. Saved(t_scheduler_fiber) /\ t_scheduler_fiber \in All
  BY <1>1, Distinct DEF On, IInv, Inv, SwappedOK, TypeOK
<1>5. failed' = failed
  BY <1>1, <1>2, <1>4, Distinct DEF swapOut, Switch, Saved
<1>. QED
  BY <1>1, <1>3, <1>5 DEF On

\* The end of MainFunc().
LEMMA MainFuncIInv ==
  ASSUME IInv, NEW f \in Fibers, NEW st \in Finished, MainFunc(f, st)
  PROVE  IInv' /\ failed' = Null
<1>1. On(f) /\ m_state[f] = "EXEC" /\ cur[f] = f
  BY DEF MainFunc, On, IInv, Inv, SwappedOK, CurOK
<1>2. /\ swapOut(f, "end") /\ SetState(f, st)
      /\ yieldsLeft' \in 0..MaxYields
  BY <1>1 DEF MainFunc, IInv, TypeOK
<1>3. IInv'
  BY <1>1, <1>2, SwapOutIInv
<1>4. Saved(t_scheduler_fiber) /\ t_scheduler_fiber \in All
  BY <1>1, Distinct DEF On, IInv, Inv, SwappedOK, TypeOK
<1>5. failed' = failed
  BY <1>1, <1>2, <1>4, Distinct DEF swapOut, Switch, Saved
<1>. QED
  BY <1>1, <1>3, <1>5 DEF On

\* call() of the root fiber.
LEMMA CallIInv ==
  ASSUME IInv, call
  PROVE  IInv' /\ failed' = Null
<1>. USE Distinct DEF IInv, Inv
<1>1. /\ running = ThreadMain /\ failed = Null /\ t_scheduler_fiber = Root
      /\ m_state[Root] = "INIT"
      /\ m_ctx[Root].stack = Root /\ m_ctx[Root].point = "begin"
  BY DEF call, On, OwnContext
<1>2. t_fiber # Null /\ t_threadFiber = ThreadMain
  BY <1>1 DEF ThreadOK
<1>3. /\ t_fiber' = Root /\ running' = Root
      /\ m_ctx' = [m_ctx EXCEPT ![ThreadMain] =
                                [stack |-> ThreadMain, point |-> "switch"]]
      /\ cur' = [cur EXCEPT ![Root] = Root]
      /\ UNCHANGED <<t_threadFiber, t_scheduler_fiber, failed>>
      /\ m_ctx' \in [All -> Context \cup {Null}]
      /\ cur' \in [All -> All \cup {Null}]
  BY <1>1, <1>2, SwitchStep DEF call
<1>4. m_state' = [m_state EXCEPT ![Root] = "EXEC"] /\ UNCHANGED yieldsLeft
  BY DEF call, SetState
<1>5. Saved(ThreadMain)' /\ \A g \in All \ {ThreadMain} : m_ctx'[g] = m_ctx[g]
  BY <1>3 DEF Saved, TypeOK
<1>6. cur'[Root] = Root /\ \A g \in All \ {Root} : cur'[g] = cur[g]
  BY <1>3 DEF TypeOK
<1>7. m_state'[Root] = "EXEC" /\ \A g \in All \ {Root} : m_state'[g] = m_state[g]
  BY <1>4 DEF TypeOK
<1>8. TypeOK'
  BY <1>3, <1>4 DEF TypeOK
<1>9. ThreadOK' /\ SwappedOK'
  BY <1>1, <1>2, <1>3, <1>7 DEF ThreadOK, SwappedOK
<1>10. RootOK'
  BY <1>1, <1>3, <1>5, <1>7 DEF RootOK, RootActive
<1>11. CurOK' /\ ExecOK'
  BY <1>1, <1>3, <1>6, <1>7 DEF CurOK, ExecOK
<1>12. OwnContext'
  BY <1>5, <1>7 DEF OwnContext
<1>. QED
  BY <1>1, <1>3, <1>8, <1>9, <1>10, <1>11, <1>12

\* The end of CallerMainFunc(), with back().
LEMMA CallerMainFuncIInv ==
  ASSUME IInv, NEW st \in Finished, CallerMainFunc(st)
  PROVE  IInv' /\ failed' = Null
<1>. USE Distinct DEF IInv, Inv
<1>1. /\ running = Root /\ failed = Null /\ t_scheduler_fiber = Root
      /\ m_state[Root] = "EXEC" /\ cur[Root] = Root /\ Saved(ThreadMain)
  BY DEF CallerMainFunc, On, RootOK, RootActive, CurOK
<1>2. t_fiber # Null /\ t_threadFiber = ThreadMain
  BY <1>1 DEF ThreadOK
<1>3. /\ t_fiber' = ThreadMain /\ running' = ThreadMain
      /\ m_ctx' = [m_ctx EXCEPT ![Root] = [stack |-> Root, point |-> "end"]]
      /\ cur' = cur
      /\ UNCHANGED <<t_threadFiber, t_scheduler_fiber, failed>>
      /\ m_ctx' \in [All -> Context \cup {Null}]
      /\ cur' \in [All -> All \cup {Null}]
  BY <1>1, <1>2, SwitchStep DEF CallerMainFunc, Saved
<1>4. m_state' = [m_state EXCEPT ![Root] = st] /\ UNCHANGED yieldsLeft
  BY <1>1 DEF CallerMainFunc, SetState
<1>5. \A g \in All \ {Root} : m_ctx'[g] = m_ctx[g]
  BY <1>3 DEF TypeOK
<1>6. m_state'[Root] = st /\ \A g \in All \ {Root} : m_state'[g] = m_state[g]
  BY <1>4 DEF TypeOK
<1>7. TypeOK'
  BY <1>3, <1>4 DEF TypeOK, Finished
<1>8. ThreadOK' /\ SwappedOK' /\ RootOK'
  BY <1>1, <1>2, <1>3, <1>6 DEF ThreadOK, SwappedOK, RootOK, RootActive, Finished
<1>9. CurOK' /\ ExecOK'
  BY <1>1, <1>3, <1>6 DEF CurOK, ExecOK, Finished
<1>10. OwnContext'
  BY <1>5, <1>6 DEF OwnContext, Finished
<1>. QED
  BY <1>1, <1>3, <1>7, <1>8, <1>9, <1>10

\* The steps that do not switch: they never touch a fiber that runs or waits.
LEMMA QuietIInv ==
  ASSUME IInv,
         \/ GetThis
         \/ \E f \in RunFibers : SetScheduler(f)
         \/ \E f \in Fibers \cup {Root} : New(f)
         \/ \E f \in Fibers : reset(f) \/ Delete(f)
  PROVE  IInv' /\ failed' = Null
<1>. USE Distinct DEF IInv, Inv
<1>1. CASE GetThis
  <2>1. [stack |-> ThreadMain, point |-> "switch"] \in Context
    BY DEF Context
  <2>2. TypeOK'
    BY <1>1, <2>1 DEF GetThis, SetState, TypeOK
  <2>3. ThreadOK' /\ SwappedOK' /\ RootOK'
    BY <1>1 DEF GetThis, On, SetState, TypeOK, ThreadOK, SwappedOK, RootOK, RootActive
  <2>4. CurOK' /\ ExecOK' /\ OwnContext'
    BY <1>1 DEF GetThis, On, SetState, TypeOK, CurOK, ExecOK, OwnContext
  <2>. QED
    BY <1>1, <2>2, <2>3, <2>4 DEF GetThis, On
<1>2. ASSUME NEW f \in RunFibers, SetScheduler(f) PROVE IInv' /\ failed' = Null
  <2>1. f \in {ThreadMain, Root} /\ f \in All /\ running = ThreadMain
    BY <1>2, FiberAssumption DEF SetScheduler, On
  <2>2. TypeOK'
    BY <1>2, <2>1 DEF SetScheduler, TypeOK
  <2>3. ThreadOK' /\ SwappedOK' /\ RootOK'
    BY <1>2, <2>1 DEF SetScheduler, ThreadOK, SwappedOK, RootOK, RootActive, Saved
  <2>4. CurOK' /\ ExecOK' /\ OwnContext'
    BY <1>2 DEF SetScheduler, CurOK, ExecOK, OwnContext
  <2>. QED
    BY <1>2, <2>2, <2>3, <2>4 DEF SetScheduler, On
<1>3. ASSUME NEW f \in Fibers \cup {Root}, New(f) \/ (f \in Fibers /\ reset(f))
      PROVE  IInv' /\ failed' = Null
  <2>1. /\ f \in All /\ f # ThreadMain
        /\ m_state[f] \in Finished \cup {"NONE"}
        /\ m_state' = [m_state EXCEPT ![f] = "INIT"]
        /\ m_ctx' = [m_ctx EXCEPT ![f] = [stack |-> f, point |-> "begin"]]
        /\ UNCHANGED <<running, t_fiber, threadVars, cur, yieldsLeft, failed>>
        /\ failed = Null /\ t_fiber # Null
    BY <1>3 DEF New, reset, On, SetState, Fresh, ThreadOK, Finished
  <2>2. [stack |-> f, point |-> "begin"] \in Context
    BY <2>1 DEF Context
  <2>3. m_ctx'[f].stack = f /\ m_ctx'[f].point = "begin" /\ m_state'[f] = "INIT"
    BY <2>1 DEF TypeOK
  <2>4. \A g \in All \ {f} : m_ctx'[g] = m_ctx[g] /\ m_state'[g] = m_state[g]
    BY <2>1 DEF TypeOK
  <2>5. TypeOK'
    BY <2>1, <2>2 DEF TypeOK, threadVars
  <2>6. ThreadOK'
    BY <2>1, <2>3, <2>4 DEF ThreadOK, threadVars, TypeOK
  <2>7. running # f
    BY <2>1 DEF SwappedOK, RootOK, RootActive, Finished
  <2>8. SwappedOK'
    BY <2>1, <2>3, <2>4, <2>7 DEF SwappedOK, Saved, threadVars, TypeOK, RootOK, RootActive,
                                  Finished
  <2>9. RootOK'
    BY <2>1, <2>3, <2>4 DEF RootOK, RootActive, Saved, threadVars, Finished
  <2>10. CurOK' /\ ExecOK' /\ OwnContext'
    BY <2>1, <2>3, <2>4 DEF CurOK, ExecOK, OwnContext
  <2>. QED
    BY <2>1, <2>5, <2>6, <2>8, <2>9, <2>10
<1>4. ASSUME NEW f \in Fibers, Delete(f) PROVE IInv' /\ failed' = Null
  <2>1. /\ f \in All /\ f # ThreadMain /\ f # Root
        /\ m_state[f] \in Finished \cup {"INIT"}
        /\ m_state' = [m_state EXCEPT ![f] = "NONE"]
        /\ m_ctx' = [m_ctx EXCEPT ![f] = Null]
        /\ UNCHANGED <<running, t_fiber, threadVars, cur, yieldsLeft, failed>>
        /\ failed = Null /\ t_fiber # Null
    BY <1>4 DEF Delete, On, SetState, ThreadOK, TypeOK
  <2>2. m_state'[f] = "NONE"
    BY <2>1 DEF TypeOK
  <2>3. \A g \in All \ {f} : m_ctx'[g] = m_ctx[g] /\ m_state'[g] = m_state[g]
    BY <2>1 DEF TypeOK
  <2>4. TypeOK'
    BY <2>1 DEF TypeOK, threadVars
  <2>5. t_scheduler_fiber # f /\ running # f
    BY <2>1 DEF TypeOK, SwappedOK, Finished
  <2>6. ThreadOK' /\ SwappedOK'
    BY <2>1, <2>3, <2>5 DEF ThreadOK, SwappedOK, Saved, threadVars, TypeOK
  <2>7. RootOK'
    BY <2>1, <2>3 DEF RootOK, RootActive, Saved, threadVars
  <2>8. CurOK' /\ ExecOK' /\ OwnContext'
    BY <2>1, <2>2, <2>3 DEF CurOK, ExecOK, OwnContext
  <2>. QED
    BY <2>1, <2>4, <2>6, <2>7, <2>8
<1>. QED
  BY <1>1, <1>2, <1>3, <1>4

\* Every step preserves the invariant.
LEMMA NextIInv == IInv /\ [Next]_vars => IInv'
<1>. SUFFICES ASSUME IInv, [Next]_vars PROVE IInv'
  OBVIOUS
<1>1. CASE UNCHANGED vars
  BY <1>1 DEF vars, IInv, Inv, TypeOK, ThreadOK, SwappedOK, Saved, RootOK, RootActive,
              CurOK, ExecOK, OwnContext
<1>. QED
  BY <1>1, QuietIInv, CallIInv, SwapInIInv, YieldIInv, MainFuncIInv,
     CallerMainFuncIInv
     DEF Next

\* So it holds in every reachable state.
LEMMA Invariance == Spec => []IInv
  BY InitIInv, NextIInv, PTL DEF Spec

-----------------------------------------------------------------------------

\* GetThis() names the fiber that executes (fiber.cpp:124-150).
THEOREM ThisAlwaysRuns == Spec => []ThisIsRunning
<1>1. IInv => ThisIsRunning
  BY DEF IInv, Inv, ThreadOK, ThisIsRunning
<1>. QED
  BY <1>1, Invariance, PTL

\* No switch ever saves one fiber's stack in the context of another that can
\* still be resumed (fiber.cpp:108-140).
THEOREM ContextsStayOwn == Spec => []OwnContext
<1>1. IInv => OwnContext
  BY DEF IInv, Inv
<1>. QED
  BY <1>1, Invariance, PTL

\* No fiber is left in EXEC when it does not execute.
THEOREM ExecMeansRunning == Spec => []ExecIsRunning
<1>1. IInv => ExecIsRunning
  <2>. SUFFICES ASSUME IInv PROVE ExecIsRunning
    OBVIOUS
  <2>. USE Distinct DEF IInv, Inv
  <2>1. CASE running = ThreadMain
    BY <2>1 DEF ExecIsRunning, ExecOK, RootOK, RootActive, All
  <2>2. CASE running = Root
    BY <2>2 DEF ExecIsRunning, ExecOK, RootOK, RootActive, All
  <2>3. CASE running \in Fibers
    BY <2>3 DEF ExecIsRunning, ExecOK, SwappedOK, RootOK, RootActive, All, TypeOK
  <2>. QED
    BY <2>1, <2>2, <2>3 DEF TypeOK, All
<1>. QED
  BY <1>1, Invariance, PTL

\* On a thread that executes Scheduler::run() no assertion of fiber.cpp fails, no
\* finished fiber is resumed and no null pointer is used.
THEOREM NeverCrashes ==
  ASSUME HasScheduler
  PROVE  Spec => []NoCrash
<1>1. Init => NoCrash
  BY DEF Init, NoCrash
<1>2. IInv /\ NoCrash /\ [Next]_vars => NoCrash'
  <2>. SUFFICES ASSUME IInv, NoCrash, [Next]_vars PROVE NoCrash'
    OBVIOUS
  <2>1. ASSUME NEW f \in Fibers, swapIn(f) PROVE NoCrash'
    <3>1. running = t_scheduler_fiber /\ t_scheduler_fiber \in All
      BY <2>1, HasScheduler DEF HasScheduler, swapIn, On, IInv, TypeOK
    <3>2. m_ctx[f].stack = f /\ m_ctx[f].point \in {"begin", "switch"}
      BY <2>1 DEF swapIn, IInv, Inv, OwnContext
    <3>3. failed' = failed
      BY <2>1, <3>1, <3>2, Distinct, SwitchStep DEF swapIn, IInv
    <3>. QED
      BY <3>3 DEF NoCrash
  <2>2. CASE UNCHANGED vars
    BY <2>2 DEF vars, NoCrash
  <2>. QED
    BY <2>1, <2>2, QuietIInv, CallIInv, YieldIInv, MainFuncIInv,
       CallerMainFuncIInv
       DEF Next, NoCrash
<1>. QED
  BY <1>1, <1>2, Invariance, PTL DEF Spec

=============================================================================
