--------------------------- MODULE SchedulerProofs ---------------------------
(***************************************************************************)
(* Theorems about Scheduler, for every number of threads, fibers,          *)
(* callbacks, yields and restarts.                                         *)
(***************************************************************************)
EXTENDS Scheduler, FiniteSetTheorems, SequenceTheorems, TLAPS

\* Labels at which run() on a thread has a current fiber.
HasFiber(t) ==
  pc[t] \in {"swapin", "exec", "hold", "swapout", "after", "post", "sethold",
             "resched"}

\* run()'s locals agree with the place it has reached.
LocalsOK ==
  \A t \in Threads :
    /\ HasFiber(t) => Cur(t) \in Fibers
    /\ pc[t] = "scan" => it[t] >= 1 /\ ft[t] = NoTask

\* Outside of the joins of stop() a worker without a Thread object has no
\* thread either.
WorkersOK ==
  pc[Main] # "joining" =>
    \A w \in Workers : w \notin m_threads => pc[w] = "none"

\* The inductive invariant: decrementing a counter needs CountersExact, which
\* needs the locals of run(), which need the types.
IInv == TypeOK /\ LocalsOK /\ WorkersOK /\ CountersExact

-----------------------------------------------------------------------------
(***************************************************************************)
(* Sequences and sets.                                                     *)
(***************************************************************************)

\* Erasing one element of m_tasks leaves a list of tasks.
LEMMA RemoveAtType ==
  ASSUME NEW S, NEW s \in Seq(S), NEW i \in 1..Len(s)
  PROVE  RemoveAt(s, i) \in Seq(S)
<1>1. SubSeq(s, 1, i-1) \in Seq(S)
  OBVIOUS
<1>2. SubSeq(s, i+1, Len(s)) \in Seq(S)
  OBVIOUS
<1> QED
  BY <1>1, <1>2 DEF RemoveAt

\* An empty ft is not a task, and a task is a fiber or a callback.
LEMMA TaskIsNotEmpty ==
  ASSUME NEW task \in Task
  PROVE  /\ task # NoTask
         /\ task.fiber # Null \/ task.cb # Null
         /\ task.fiber \in Fibers \cup {Null}
         /\ task.cb \in Cbs \cup {Null}
BY ClientAssumption DEF Task, NoTask

\* What schedule() appends is a task.
LEMMA FiberTaskType ==
  ASSUME NEW f \in Fibers, NEW thread \in Threads \cup {AnyThread}
  PROVE  [fiber |-> f, cb |-> Null, thread |-> thread] \in Task
BY DEF Task

\* The same for the two kinds of argument schedule() takes.
LEMMA TaskOfType ==
  ASSUME NEW b \in Bodies, NEW thread \in Threads \cup {AnyThread}
  PROVE  TaskOf(b, thread) \in Task
BY DEF TaskOf, Bodies, Task, Fibers

\* m_tasks.push_back() keeps m_tasks a list of tasks.
LEMMA AppendTask ==
  ASSUME NEW s \in Seq(Task), NEW task \in Task
  PROVE  s \o <<task>> \in Seq(Task)
OBVIOUS

\* The pool has finitely many threads.
LEMMA ThreadsFinite == IsFiniteSet(Threads)
BY ThreadsAssumption, FS_AddElement DEF Threads

-----------------------------------------------------------------------------
(***************************************************************************)
(* How a step changes the counters, given what it does to Busy and Idling. *)
(***************************************************************************)

\* A step that moves no thread in or out of a task or of its idle fiber, and
\* touches no counter, keeps the counters exact.
LEMMA CountersSame ==
  ASSUME CountersExact, UNCHANGED countVars,
         \A u \in Threads : (Busy(u)' <=> Busy(u)) /\ (Idling(u)' <=> Idling(u))
  PROVE  CountersExact'
<1>1. {t \in Threads : Busy(t)}' = {t \in Threads : Busy(t)}
  OBVIOUS
<1>2. {t \in Threads : Idling(t)}' = {t \in Threads : Idling(t)}
  OBVIOUS
<1> QED
  BY <1>1, <1>2 DEF CountersExact, countVars

\* ++m_activeThreadCount by the thread that takes a task (scheduler.cpp:86).
LEMMA ActiveUp ==
  ASSUME CountersExact, NEW t \in Threads, ~Busy(t), Busy(t)',
         m_activeThreadCount' = m_activeThreadCount + 1,
         UNCHANGED m_idleThreadCount,
         \A u \in Threads : /\ u # t => (Busy(u)' <=> Busy(u))
                            /\ Idling(u)' <=> Idling(u)
  PROVE  CountersExact'
<1> DEFINE B == {u \in Threads : Busy(u)}
<1>1. B' = B \cup {t}
  OBVIOUS
<1>2. {u \in Threads : Idling(u)}' = {u \in Threads : Idling(u)}
  OBVIOUS
<1>3. IsFiniteSet(B) /\ t \notin B
  BY ThreadsFinite, FS_Subset
<1>4. Cardinality(B') = Cardinality(B) + 1
  BY <1>1, <1>3, FS_AddElement
<1> QED
  BY <1>2, <1>4 DEF CountersExact

\* --m_activeThreadCount by the thread that is done with one (scheduler.cpp
\* 101, 118, 131); the counter was positive, so it does not wrap around.
LEMMA ActiveDown ==
  ASSUME CountersExact, NEW t \in Threads, Busy(t), ~Busy(t)',
         m_activeThreadCount' = m_activeThreadCount - 1,
         UNCHANGED m_idleThreadCount,
         \A u \in Threads : /\ u # t => (Busy(u)' <=> Busy(u))
                            /\ Idling(u)' <=> Idling(u)
  PROVE  CountersExact' /\ m_activeThreadCount' \in Nat
<1> DEFINE B == {u \in Threads : Busy(u)}
<1>1. B' = B \ {t}
  OBVIOUS
<1>2. {u \in Threads : Idling(u)}' = {u \in Threads : Idling(u)}
  OBVIOUS
<1>3. IsFiniteSet(B) /\ t \in B
  BY ThreadsFinite, FS_Subset
<1>4. IsFiniteSet(B') /\ Cardinality(B') = Cardinality(B) - 1
  BY <1>1, <1>3, FS_RemoveElement
<1>5. Cardinality(B') \in Nat
  BY <1>4, FS_CardinalityType
<1> QED
  BY <1>2, <1>4, <1>5 DEF CountersExact

\* ++m_idleThreadCount before the idle fiber (scheduler.cpp:139).
LEMMA IdleUp ==
  ASSUME CountersExact, NEW t \in Threads, ~Idling(t), Idling(t)',
         m_idleThreadCount' = m_idleThreadCount + 1,
         UNCHANGED m_activeThreadCount,
         \A u \in Threads : /\ u # t => (Idling(u)' <=> Idling(u))
                            /\ Busy(u)' <=> Busy(u)
  PROVE  CountersExact'
<1> DEFINE D == {u \in Threads : Idling(u)}
<1>1. D' = D \cup {t}
  OBVIOUS
<1>2. {u \in Threads : Busy(u)}' = {u \in Threads : Busy(u)}
  OBVIOUS
<1>3. IsFiniteSet(D) /\ t \notin D
  BY ThreadsFinite, FS_Subset
<1>4. Cardinality(D') = Cardinality(D) + 1
  BY <1>1, <1>3, FS_AddElement
<1> QED
  BY <1>2, <1>4 DEF CountersExact

\* --m_idleThreadCount behind it (scheduler.cpp:141), never below zero.
LEMMA IdleDown ==
  ASSUME CountersExact, NEW t \in Threads, Idling(t), ~Idling(t)',
         m_idleThreadCount' = m_idleThreadCount - 1,
         UNCHANGED m_activeThreadCount,
         \A u \in Threads : /\ u # t => (Idling(u)' <=> Idling(u))
                            /\ Busy(u)' <=> Busy(u)
  PROVE  CountersExact' /\ m_idleThreadCount' \in Nat
<1> DEFINE D == {u \in Threads : Idling(u)}
<1>1. D' = D \ {t}
  OBVIOUS
<1>2. {u \in Threads : Busy(u)}' = {u \in Threads : Busy(u)}
  OBVIOUS
<1>3. IsFiniteSet(D) /\ t \in D
  BY ThreadsFinite, FS_Subset
<1>4. IsFiniteSet(D') /\ Cardinality(D') = Cardinality(D) - 1
  BY <1>1, <1>3, FS_RemoveElement
<1>5. Cardinality(D') \in Nat
  BY <1>4, FS_CardinalityType
<1> QED
  BY <1>2, <1>4, <1>5 DEF CountersExact

-----------------------------------------------------------------------------
(***************************************************************************)
(* The inductive step, one conjunct of IInv at a time.                     *)
(***************************************************************************)

\* Every step keeps the two counters exact.
LEMMA CountersStep ==
  ASSUME IInv, Next
  PROVE  CountersExact'
<1> USE DEF queueVars, countVars, stopVars, fiberVars, localVars, clientVars,
            envVars, taskVars, poolVars, GoTo, At, SetState, Fail, scheduleNoLock
<1> USE IInv DEF IInv
<1>1. ASSUME NEW t \in Threads, RunEnter(t) PROVE CountersExact'
  BY <1>1, CountersSame DEF RunEnter, Busy, Idling, TypeOK
<1>2. ASSUME NEW t \in Threads, RunLock(t) PROVE CountersExact'
  BY <1>2, CountersSame DEF RunLock, Busy, Idling, TypeOK
<1>3. ASSUME NEW t \in Threads, RunSkip(t) PROVE CountersExact'
  BY <1>3, CountersSame DEF RunSkip, Busy, Idling, TypeOK
<1>4. ASSUME NEW t \in Threads, RunTake(t) PROVE CountersExact'
  <2>1. ft'[t] # NoTask
    BY <1>4, ElementOfSeq, TaskIsNotEmpty DEF RunTake, TypeOK, LocalsOK
  <2>2. ~Busy(t) /\ Busy(t)'
    BY <1>4, <2>1 DEF RunTake, Busy, Idling, TypeOK
  <2>3. \A u \in Threads \ {t} :
          (Busy(u)' <=> Busy(u)) /\ (Idling(u)' <=> Idling(u))
    BY <1>4 DEF RunTake, Busy, Idling, TypeOK
  <2>4. ~Idling(t) /\ ~Idling(t)'
    BY <1>4 DEF RunTake, Idling, TypeOK
  <2> QED
    BY <1>4, <2>2, <2>3, <2>4, ActiveUp DEF RunTake
<1>5. ASSUME NEW t \in Threads, RunScanEnd(t) PROVE CountersExact'
  BY <1>5, CountersSame DEF RunScanEnd, Busy, Idling, TypeOK, LocalsOK
<1>6. ASSUME NEW t \in Threads, RunFiber(t) PROVE CountersExact'
  <2>1. ft[t] # NoTask
    BY <1>6 DEF RunFiber, HasLiveFiber, NoTask
  <2>2. Busy(t) /\ Busy(t)'
    BY <1>6, <2>1 DEF RunFiber, Busy, Idling, TypeOK
  <2>3. \A u \in Threads \ {t} :
          (Busy(u)' <=> Busy(u)) /\ (Idling(u)' <=> Idling(u))
    BY <1>6 DEF RunFiber, Busy, Idling, TypeOK
  <2>4. ~Idling(t) /\ ~Idling(t)'
    BY <1>6 DEF RunFiber, Idling, TypeOK
  <2> QED
    BY <1>6, <2>2, <2>3, <2>4, CountersSame DEF RunFiber
<1>7. ASSUME NEW t \in Threads, RunDrop(t) PROVE CountersExact'
  <2>1. ft[t] # NoTask
    BY <1>7 DEF RunDrop, NoTask
  <2>2. Busy(t) /\ ~Busy(t)'
    BY <1>7, <2>1 DEF RunDrop, Busy, Idling, TypeOK
  <2>3. \A u \in Threads \ {t} :
          (Busy(u)' <=> Busy(u)) /\ (Idling(u)' <=> Idling(u))
    BY <1>7 DEF RunDrop, Busy, Idling, TypeOK
  <2>4. ~Idling(t) /\ ~Idling(t)'
    BY <1>7 DEF RunDrop, Idling, TypeOK
  <2> QED
    BY <1>7, <2>2, <2>3, <2>4, ActiveDown DEF RunDrop
<1>8. ASSUME NEW t \in Threads, RunIdle(t) PROVE CountersExact'
  <2>1. ft[t] = NoTask
    BY <1>8 DEF RunIdle
  <2>2. /\ ~Busy(t) /\ ~Busy(t)'
        /\ ~Idling(t) /\ Idling(t)'
    BY <1>8, <2>1 DEF RunIdle, Busy, Idling, TypeOK
  <2>3. \A u \in Threads \ {t} :
          (Busy(u)' <=> Busy(u)) /\ (Idling(u)' <=> Idling(u))
    BY <1>8 DEF RunIdle, Busy, Idling, TypeOK
  <2> QED
    BY <1>8, <2>2, <2>3, IdleUp DEF RunIdle
<1>9. ASSUME NEW t \in Threads, RunExit(t) PROVE CountersExact'
  BY <1>9, CountersSame DEF RunExit, Busy, Idling, TypeOK
<1>10. ASSUME NEW t \in Threads, NEW f \in HostFibers, RunCb(t, f)
       PROVE  CountersExact'
  BY <1>10, CountersSame DEF RunCb, Busy, Idling, TypeOK, NoTask
<1>11. ASSUME NEW t \in Threads, Idle(t) PROVE CountersExact'
  BY <1>11, CountersSame DEF Idle, Busy, Idling, TypeOK
<1>12. ASSUME NEW t \in Threads, IdleOut(t) PROVE CountersExact'
  BY <1>12, IdleDown DEF IdleOut, Busy, Idling, TypeOK
<1>13. ASSUME NEW t \in Threads, RunAfter(t) PROVE CountersExact'
  BY <1>13, ActiveDown DEF RunAfter, Busy, Idling, TypeOK
<1>14. ASSUME NEW t \in Threads, RunPostReady(t) PROVE CountersExact'
  BY <1>14, CountersSame DEF RunPostReady, Busy, Idling, TypeOK
<1>15. ASSUME NEW t \in Threads, RunPostFinished(t) PROVE CountersExact'
  BY <1>15, CountersSame DEF RunPostFinished, Busy, Idling, TypeOK
<1>16. ASSUME NEW t \in Threads, RunPostHold(t) PROVE CountersExact'
  BY <1>16, CountersSame DEF RunPostHold, Busy, Idling, TypeOK
<1>17. ASSUME NEW t \in Threads, RunSetHold(t) PROVE CountersExact'
  BY <1>17, CountersSame DEF RunSetHold, Busy, Idling, TypeOK
<1>18. ASSUME NEW t \in Threads, RunResched(t) PROVE CountersExact'
  BY <1>18, CountersSame DEF RunResched, Busy, Idling, TypeOK
<1>19. ASSUME NEW t \in Threads, SwapIn(t) PROVE CountersExact'
  BY <1>19, CountersSame DEF SwapIn, Busy, Idling, TypeOK
<1>20. ASSUME NEW t \in Threads, YieldToReady(t) PROVE CountersExact'
  BY <1>20, CountersSame DEF YieldToReady, Busy, Idling, TypeOK
<1>21. ASSUME NEW t \in Threads, Arm(t) PROVE CountersExact'
  BY <1>21, CountersSame DEF Arm, Busy, Idling, TypeOK
<1>22. ASSUME NEW t \in Threads, YieldToHold(t) PROVE CountersExact'
  BY <1>22, CountersSame DEF YieldToHold, Busy, Idling, TypeOK
<1>23. ASSUME NEW t \in Threads, NEW s \in Finished, Finish(t, s)
       PROVE  CountersExact'
  BY <1>23, CountersSame DEF Finish, Busy, Idling, TypeOK
<1>24. ASSUME NEW t \in Threads, SwapOut(t) PROVE CountersExact'
  BY <1>24, CountersSame DEF SwapOut, Busy, Idling, TypeOK
<1>25. ASSUME NEW w \in Workers, ThreadRun(w) PROVE CountersExact'
  BY <1>25, CountersSame, ThreadsAssumption
     DEF ThreadRun, Busy, Idling, TypeOK, WorkersOK, Threads, vars
<1>26. ASSUME NEW w \in Workers, StartCreate(w) PROVE CountersExact'
  BY <1>26, CountersSame, ThreadsAssumption
     DEF StartCreate, Busy, Idling, TypeOK, WorkersOK, Threads, vars
<1>27. ASSUME StartWait PROVE CountersExact'
  BY <1>27, CountersSame, ThreadsAssumption
     DEF StartWait, Busy, Idling, TypeOK, WorkersOK, Threads, vars
<1>28. ASSUME StartDone PROVE CountersExact'
  BY <1>28, CountersSame, ThreadsAssumption
     DEF StartDone, Busy, Idling, TypeOK, WorkersOK, Threads, vars
<1>29. ASSUME StopEarly PROVE CountersExact'
  BY <1>29, CountersSame, ThreadsAssumption
     DEF StopEarly, Busy, Idling, TypeOK, WorkersOK, Threads, vars
<1>30. ASSUME StopSet PROVE CountersExact'
  BY <1>30, CountersSame, ThreadsAssumption
     DEF StopSet, Busy, Idling, TypeOK, WorkersOK, Threads, vars
<1>31. ASSUME StopRoot PROVE CountersExact'
  BY <1>31, CountersSame, ThreadsAssumption
     DEF StopRoot, Busy, Idling, TypeOK, WorkersOK, Threads, vars
<1>32. ASSUME StopSwap PROVE CountersExact'
  BY <1>32, CountersSame, ThreadsAssumption
     DEF StopSwap, Busy, Idling, TypeOK, WorkersOK, Threads, vars
<1>33. ASSUME StopJoin PROVE CountersExact'
  BY <1>33, CountersSame, ThreadsAssumption
     DEF StopJoin, Busy, Idling, TypeOK, WorkersOK, Threads, vars
<1>34. ASSUME Start PROVE CountersExact'
  BY ZenonT(30), <1>34, CountersSame, ThreadsAssumption
     DEF Start, Busy, Idling, TypeOK, WorkersOK, Threads, vars
<1>35. ASSUME Stop PROVE CountersExact'
  BY <1>35, CountersSame, ThreadsAssumption
     DEF Stop, Busy, Idling, TypeOK, WorkersOK, Threads, vars
<1>36. ASSUME Terminated PROVE CountersExact'
  BY <1>36, CountersSame, ThreadsAssumption
     DEF Terminated, Busy, Idling, TypeOK, WorkersOK, Threads, vars
<1>37. ASSUME NEW t \in Threads, NEW b \in Bodies, NEW thread \in Pins,
              Schedule(t, b, thread)
       PROVE  CountersExact'
  BY <1>37, CountersSame, ThreadsAssumption
     DEF Schedule, Busy, Idling, TypeOK, WorkersOK, Threads, vars
<1>38. ASSUME NEW t \in Threads, NEW b1 \in Bodies, NEW b2 \in Bodies,
              ScheduleRange(t, b1, b2)
       PROVE  CountersExact'
  BY <1>38, CountersSame, ThreadsAssumption
     DEF ScheduleRange, Busy, Idling, TypeOK, WorkersOK, Threads, vars
<1>39. ASSUME NEW f \in Fibers, Wake(f) PROVE CountersExact'
  BY <1>39, CountersSame, ThreadsAssumption
     DEF Wake, Busy, Idling, TypeOK, WorkersOK, Threads, vars
<1> QED
  BY <1>1, <1>2, <1>3, <1>4, <1>5, <1>6, <1>7, <1>8, <1>9, <1>10, <1>11,
     <1>12, <1>13, <1>14, <1>15, <1>16, <1>17, <1>18, <1>19, <1>20, <1>21,
     <1>22, <1>23, <1>24, <1>25, <1>26, <1>27, <1>28, <1>29, <1>30, <1>31,
     <1>32, <1>33, <1>34, <1>35, <1>36, <1>37, <1>38, <1>39
     DEF Next, RunStep, FiberStep, CallStep, ClientStep

\* Every step keeps m_threads and the life of the workers in agreement.
LEMMA WorkersStep ==
  ASSUME IInv, Next
  PROVE  WorkersOK'
<1> USE DEF queueVars, countVars, stopVars, fiberVars, localVars, clientVars,
            envVars, taskVars, poolVars, GoTo, At, SetState, Fail, scheduleNoLock
<1> USE IInv DEF IInv
<1>1. ASSUME NEW t \in Threads, RunEnter(t) PROVE WorkersOK'
  BY <1>1, ThreadsAssumption DEF RunEnter, WorkersOK, Threads, TypeOK, vars
<1>2. ASSUME NEW t \in Threads, RunLock(t) PROVE WorkersOK'
  BY <1>2, ThreadsAssumption DEF RunLock, WorkersOK, Threads, TypeOK, vars
<1>3. ASSUME NEW t \in Threads, RunSkip(t) PROVE WorkersOK'
  BY <1>3, ThreadsAssumption DEF RunSkip, WorkersOK, Threads, TypeOK, vars
<1>4. ASSUME NEW t \in Threads, RunTake(t) PROVE WorkersOK'
  BY <1>4, ThreadsAssumption DEF RunTake, WorkersOK, Threads, TypeOK, vars
<1>5. ASSUME NEW t \in Threads, RunScanEnd(t) PROVE WorkersOK'
  BY <1>5, ThreadsAssumption DEF RunScanEnd, WorkersOK, Threads, TypeOK, vars
<1>6. ASSUME NEW t \in Threads, RunFiber(t) PROVE WorkersOK'
  BY <1>6, ThreadsAssumption DEF RunFiber, WorkersOK, Threads, TypeOK, vars
<1>7. ASSUME NEW t \in Threads, RunDrop(t) PROVE WorkersOK'
  BY <1>7, ThreadsAssumption DEF RunDrop, WorkersOK, Threads, TypeOK, vars
<1>8. ASSUME NEW t \in Threads, RunIdle(t) PROVE WorkersOK'
  BY <1>8, ThreadsAssumption DEF RunIdle, WorkersOK, Threads, TypeOK, vars
<1>9. ASSUME NEW t \in Threads, RunExit(t) PROVE WorkersOK'
  BY <1>9, ThreadsAssumption DEF RunExit, WorkersOK, Threads, TypeOK, vars
<1>10. ASSUME NEW t \in Threads, NEW f \in HostFibers, RunCb(t, f)
       PROVE  WorkersOK'
  BY <1>10, ThreadsAssumption DEF RunCb, WorkersOK, Threads, TypeOK, vars
<1>11. ASSUME NEW t \in Threads, Idle(t) PROVE WorkersOK'
  BY <1>11, ThreadsAssumption DEF Idle, WorkersOK, Threads, TypeOK, vars
<1>12. ASSUME NEW t \in Threads, IdleOut(t) PROVE WorkersOK'
  BY <1>12, ThreadsAssumption DEF IdleOut, WorkersOK, Threads, TypeOK, vars
<1>13. ASSUME NEW t \in Threads, RunAfter(t) PROVE WorkersOK'
  BY <1>13, ThreadsAssumption DEF RunAfter, WorkersOK, Threads, TypeOK, vars
<1>14. ASSUME NEW t \in Threads, RunPostReady(t) PROVE WorkersOK'
  BY <1>14, ThreadsAssumption
     DEF RunPostReady, WorkersOK, Threads, TypeOK, vars
<1>15. ASSUME NEW t \in Threads, RunPostFinished(t) PROVE WorkersOK'
  BY <1>15, ThreadsAssumption
     DEF RunPostFinished, WorkersOK, Threads, TypeOK, vars
<1>16. ASSUME NEW t \in Threads, RunPostHold(t) PROVE WorkersOK'
  BY <1>16, ThreadsAssumption DEF RunPostHold, WorkersOK, Threads, TypeOK, vars
<1>17. ASSUME NEW t \in Threads, RunSetHold(t) PROVE WorkersOK'
  BY <1>17, ThreadsAssumption DEF RunSetHold, WorkersOK, Threads, TypeOK, vars
<1>18. ASSUME NEW t \in Threads, RunResched(t) PROVE WorkersOK'
  BY <1>18, ThreadsAssumption DEF RunResched, WorkersOK, Threads, TypeOK, vars
<1>19. ASSUME NEW t \in Threads, SwapIn(t) PROVE WorkersOK'
  BY <1>19, ThreadsAssumption DEF SwapIn, WorkersOK, Threads, TypeOK, vars
<1>20. ASSUME NEW t \in Threads, YieldToReady(t) PROVE WorkersOK'
  BY <1>20, ThreadsAssumption
     DEF YieldToReady, WorkersOK, Threads, TypeOK, vars
<1>21. ASSUME NEW t \in Threads, Arm(t) PROVE WorkersOK'
  BY <1>21, ThreadsAssumption DEF Arm, WorkersOK, Threads, TypeOK, vars
<1>22. ASSUME NEW t \in Threads, YieldToHold(t) PROVE WorkersOK'
  BY <1>22, ThreadsAssumption DEF YieldToHold, WorkersOK, Threads, TypeOK, vars
<1>23. ASSUME NEW t \in Threads, NEW s \in Finished, Finish(t, s)
       PROVE  WorkersOK'
  BY <1>23, ThreadsAssumption DEF Finish, WorkersOK, Threads, TypeOK, vars
<1>24. ASSUME NEW t \in Threads, SwapOut(t) PROVE WorkersOK'
  BY <1>24, ThreadsAssumption DEF SwapOut, WorkersOK, Threads, TypeOK, vars
<1>25. ASSUME NEW w \in Workers, ThreadRun(w) PROVE WorkersOK'
  BY <1>25, ThreadsAssumption DEF ThreadRun, WorkersOK, Threads, TypeOK, vars
<1>26. ASSUME NEW w \in Workers, StartCreate(w) PROVE WorkersOK'
  BY <1>26, ThreadsAssumption DEF StartCreate, WorkersOK, Threads, TypeOK, vars
<1>27. ASSUME StartWait PROVE WorkersOK'
  BY <1>27, ThreadsAssumption DEF StartWait, WorkersOK, Threads, TypeOK, vars
<1>28. ASSUME StartDone PROVE WorkersOK'
  BY <1>28, ThreadsAssumption DEF StartDone, WorkersOK, Threads, TypeOK, vars
<1>29. ASSUME StopEarly PROVE WorkersOK'
  BY <1>29, ThreadsAssumption DEF StopEarly, WorkersOK, Threads, TypeOK, vars
<1>30. ASSUME StopSet PROVE WorkersOK'
  BY <1>30, ThreadsAssumption DEF StopSet, WorkersOK, Threads, TypeOK, vars
<1>31. ASSUME StopRoot PROVE WorkersOK'
  BY <1>31, ThreadsAssumption DEF StopRoot, WorkersOK, Threads, TypeOK, vars
<1>32. ASSUME StopSwap PROVE WorkersOK'
  BY <1>32, ThreadsAssumption DEF StopSwap, WorkersOK, Threads, TypeOK, vars
<1>33. ASSUME StopJoin PROVE WorkersOK'
  BY <1>33, ThreadsAssumption DEF StopJoin, WorkersOK, Threads, TypeOK, vars
<1>34. ASSUME Start PROVE WorkersOK'
  <2>1. UNCHANGED m_threads /\ \A w \in Workers : pc'[w] = pc[w]
    BY <1>34, ThreadsAssumption DEF Start, Threads, TypeOK
  <2> QED
    BY <1>34, <2>1 DEF Start, WorkersOK
<1>35. ASSUME Stop PROVE WorkersOK'
  BY <1>35, ThreadsAssumption DEF Stop, WorkersOK, Threads, TypeOK, vars
<1>36. ASSUME Terminated PROVE WorkersOK'
  BY <1>36, ThreadsAssumption DEF Terminated, WorkersOK, Threads, TypeOK, vars
<1>37. ASSUME NEW t \in Threads, NEW b \in Bodies, NEW thread \in Pins,
              Schedule(t, b, thread)
       PROVE  WorkersOK'
  BY <1>37, ThreadsAssumption DEF Schedule, WorkersOK, Threads, TypeOK, vars
<1>38. ASSUME NEW t \in Threads, NEW b1 \in Bodies, NEW b2 \in Bodies,
              ScheduleRange(t, b1, b2)
       PROVE  WorkersOK'
  BY <1>38, ThreadsAssumption
     DEF ScheduleRange, WorkersOK, Threads, TypeOK, vars
<1>39. ASSUME NEW f \in Fibers, Wake(f) PROVE WorkersOK'
  BY <1>39, ThreadsAssumption DEF Wake, WorkersOK, Threads, TypeOK, vars
<1> QED
  BY <1>1, <1>2, <1>3, <1>4, <1>5, <1>6, <1>7, <1>8, <1>9, <1>10, <1>11,
     <1>12, <1>13, <1>14, <1>15, <1>16, <1>17, <1>18, <1>19, <1>20, <1>21,
     <1>22, <1>23, <1>24, <1>25, <1>26, <1>27, <1>28, <1>29, <1>30, <1>31,
     <1>32, <1>33, <1>34, <1>35, <1>36, <1>37, <1>38, <1>39
     DEF Next, RunStep, FiberStep, CallStep, ClientStep

\* Every step of run() leaves its locals as its next label needs them.
LEMMA LocalsStep ==
  ASSUME IInv, Next
  PROVE  LocalsOK'
<1> USE DEF queueVars, countVars, stopVars, fiberVars, localVars, clientVars,
            envVars, taskVars, poolVars, GoTo, At, SetState, Fail, scheduleNoLock
<1> USE IInv DEF IInv
<1>1. ASSUME NEW t \in Threads, RunEnter(t) PROVE LocalsOK'
  BY <1>1 DEF RunEnter, LocalsOK, HasFiber, Cur, TypeOK, vars, Threads, Fibers
<1>2. ASSUME NEW t \in Threads, RunLock(t) PROVE LocalsOK'
  BY <1>2 DEF RunLock, LocalsOK, HasFiber, Cur, TypeOK, vars, Threads, Fibers
<1>3. ASSUME NEW t \in Threads, RunSkip(t) PROVE LocalsOK'
  BY <1>3 DEF RunSkip, LocalsOK, HasFiber, Cur, TypeOK, vars, Threads, Fibers
<1>4. ASSUME NEW t \in Threads, RunTake(t) PROVE LocalsOK'
  BY <1>4 DEF RunTake, LocalsOK, HasFiber, Cur, TypeOK, vars, Threads, Fibers
<1>5. ASSUME NEW t \in Threads, RunScanEnd(t) PROVE LocalsOK'
  BY <1>5
     DEF RunScanEnd, LocalsOK, HasFiber, Cur, TypeOK, vars, Threads, Fibers
<1>6. ASSUME NEW t \in Threads, RunFiber(t) PROVE LocalsOK'
  <2>1. ft[t].fiber # Null /\ ft[t] \in Task
    BY <1>6 DEF RunFiber, HasLiveFiber, NoTask, TypeOK
  <2>2. Cur(t)' \in Fibers
    BY <1>6, <2>1, TaskIsNotEmpty DEF RunFiber, Cur
  <2> QED
    BY <1>6, <2>2 DEF RunFiber, LocalsOK, HasFiber, Cur, TypeOK
<1>7. ASSUME NEW t \in Threads, RunDrop(t) PROVE LocalsOK'
  BY <1>7 DEF RunDrop, LocalsOK, HasFiber, Cur, TypeOK, vars, Threads, Fibers
<1>8. ASSUME NEW t \in Threads, RunIdle(t) PROVE LocalsOK'
  BY <1>8 DEF RunIdle, LocalsOK, HasFiber, Cur, TypeOK, vars, Threads, Fibers
<1>9. ASSUME NEW t \in Threads, RunExit(t) PROVE LocalsOK'
  BY <1>9 DEF RunExit, LocalsOK, HasFiber, Cur, TypeOK, vars, Threads, Fibers
<1>10. ASSUME NEW t \in Threads, NEW f \in HostFibers, RunCb(t, f)
       PROVE  LocalsOK'
  BY SMTT(30), <1>10, ClientAssumption
     DEF RunCb, LocalsOK, HasFiber, Cur, TypeOK, vars, Threads, Fibers, NoTask
<1>11. ASSUME NEW t \in Threads, Idle(t) PROVE LocalsOK'
  BY <1>11 DEF Idle, LocalsOK, HasFiber, Cur, TypeOK, vars, Threads, Fibers
<1>12. ASSUME NEW t \in Threads, IdleOut(t) PROVE LocalsOK'
  BY <1>12 DEF IdleOut, LocalsOK, HasFiber, Cur, TypeOK, vars, Threads, Fibers
<1>13. ASSUME NEW t \in Threads, RunAfter(t) PROVE LocalsOK'
  BY <1>13 DEF RunAfter, LocalsOK, HasFiber, Cur, TypeOK, vars, Threads, Fibers
<1>14. ASSUME NEW t \in Threads, RunPostReady(t) PROVE LocalsOK'
  BY <1>14
     DEF RunPostReady, LocalsOK, HasFiber, Cur, TypeOK, vars, Threads, Fibers
<1>15. ASSUME NEW t \in Threads, RunPostFinished(t) PROVE LocalsOK'
  BY <1>15
     DEF RunPostFinished, LocalsOK, HasFiber, Cur, TypeOK, vars, Threads,
         Fibers
<1>16. ASSUME NEW t \in Threads, RunPostHold(t) PROVE LocalsOK'
  BY <1>16
     DEF RunPostHold, LocalsOK, HasFiber, Cur, TypeOK, vars, Threads, Fibers
<1>17. ASSUME NEW t \in Threads, RunSetHold(t) PROVE LocalsOK'
  BY <1>17
     DEF RunSetHold, LocalsOK, HasFiber, Cur, TypeOK, vars, Threads, Fibers
<1>18. ASSUME NEW t \in Threads, RunResched(t) PROVE LocalsOK'
  BY <1>18
     DEF RunResched, LocalsOK, HasFiber, Cur, TypeOK, vars, Threads, Fibers
<1>19. ASSUME NEW t \in Threads, SwapIn(t) PROVE LocalsOK'
  BY <1>19 DEF SwapIn, LocalsOK, HasFiber, Cur, TypeOK, vars, Threads, Fibers
<1>20. ASSUME NEW t \in Threads, YieldToReady(t) PROVE LocalsOK'
  BY <1>20
     DEF YieldToReady, LocalsOK, HasFiber, Cur, TypeOK, vars, Threads, Fibers
<1>21. ASSUME NEW t \in Threads, Arm(t) PROVE LocalsOK'
  BY <1>21 DEF Arm, LocalsOK, HasFiber, Cur, TypeOK, vars, Threads, Fibers
<1>22. ASSUME NEW t \in Threads, YieldToHold(t) PROVE LocalsOK'
  BY <1>22
     DEF YieldToHold, LocalsOK, HasFiber, Cur, TypeOK, vars, Threads, Fibers
<1>23. ASSUME NEW t \in Threads, NEW s \in Finished, Finish(t, s)
       PROVE  LocalsOK'
  BY <1>23 DEF Finish, LocalsOK, HasFiber, Cur, TypeOK, vars, Threads, Fibers
<1>24. ASSUME NEW t \in Threads, SwapOut(t) PROVE LocalsOK'
  BY <1>24 DEF SwapOut, LocalsOK, HasFiber, Cur, TypeOK, vars, Threads, Fibers
<1>25. ASSUME NEW w \in Workers, ThreadRun(w) PROVE LocalsOK'
  BY <1>25
     DEF ThreadRun, LocalsOK, HasFiber, Cur, TypeOK, vars, Threads, Fibers
<1>26. ASSUME NEW w \in Workers, StartCreate(w) PROVE LocalsOK'
  BY <1>26
     DEF StartCreate, LocalsOK, HasFiber, Cur, TypeOK, vars, Threads, Fibers
<1>27. ASSUME StartWait PROVE LocalsOK'
  BY <1>27
     DEF StartWait, LocalsOK, HasFiber, Cur, TypeOK, vars, Threads, Fibers
<1>28. ASSUME StartDone PROVE LocalsOK'
  BY <1>28
     DEF StartDone, LocalsOK, HasFiber, Cur, TypeOK, vars, Threads, Fibers
<1>29. ASSUME StopEarly PROVE LocalsOK'
  BY <1>29
     DEF StopEarly, LocalsOK, HasFiber, Cur, TypeOK, vars, Threads, Fibers
<1>30. ASSUME StopSet PROVE LocalsOK'
  BY <1>30 DEF StopSet, LocalsOK, HasFiber, Cur, TypeOK, vars, Threads, Fibers
<1>31. ASSUME StopRoot PROVE LocalsOK'
  BY <1>31 DEF StopRoot, LocalsOK, HasFiber, Cur, TypeOK, vars, Threads, Fibers
<1>32. ASSUME StopSwap PROVE LocalsOK'
  BY <1>32 DEF StopSwap, LocalsOK, HasFiber, Cur, TypeOK, vars, Threads, Fibers
<1>33. ASSUME StopJoin PROVE LocalsOK'
  BY <1>33 DEF StopJoin, LocalsOK, HasFiber, Cur, TypeOK, vars, Threads, Fibers
<1>34. ASSUME Start PROVE LocalsOK'
  BY ZenonT(30), <1>34 DEF Start, LocalsOK, HasFiber, Cur, TypeOK, vars, Threads, Fibers
<1>35. ASSUME Stop PROVE LocalsOK'
  BY <1>35 DEF Stop, LocalsOK, HasFiber, Cur, TypeOK, vars, Threads, Fibers
<1>36. ASSUME Terminated PROVE LocalsOK'
  BY <1>36
     DEF Terminated, LocalsOK, HasFiber, Cur, TypeOK, vars, Threads, Fibers
<1>37. ASSUME NEW t \in Threads, NEW b \in Bodies, NEW thread \in Pins,
              Schedule(t, b, thread)
       PROVE  LocalsOK'
  BY <1>37 DEF Schedule, LocalsOK, HasFiber, Cur, TypeOK, vars, Threads, Fibers
<1>38. ASSUME NEW t \in Threads, NEW b1 \in Bodies, NEW b2 \in Bodies,
              ScheduleRange(t, b1, b2)
       PROVE  LocalsOK'
  BY <1>38
     DEF ScheduleRange, LocalsOK, HasFiber, Cur, TypeOK, vars, Threads, Fibers
<1>39. ASSUME NEW f \in Fibers, Wake(f) PROVE LocalsOK'
  BY <1>39 DEF Wake, LocalsOK, HasFiber, Cur, TypeOK, vars, Threads, Fibers
<1> QED
  BY <1>1, <1>2, <1>3, <1>4, <1>5, <1>6, <1>7, <1>8, <1>9, <1>10, <1>11,
     <1>12, <1>13, <1>14, <1>15, <1>16, <1>17, <1>18, <1>19, <1>20, <1>21,
     <1>22, <1>23, <1>24, <1>25, <1>26, <1>27, <1>28, <1>29, <1>30, <1>31,
     <1>32, <1>33, <1>34, <1>35, <1>36, <1>37, <1>38, <1>39
     DEF Next, RunStep, FiberStep, CallStep, ClientStep

\* Every step keeps the types; the counters are natural numbers because they
\* are cardinalities.
LEMMA TypeStep ==
  ASSUME IInv, Next
  PROVE  TypeOK'
<1> USE DEF queueVars, countVars, stopVars, fiberVars, localVars, clientVars,
            envVars, taskVars, poolVars, GoTo, At, SetState, Fail, scheduleNoLock
<1> USE IInv DEF IInv
<1>0. m_activeThreadCount' \in Nat /\ m_idleThreadCount' \in Nat
  <2>1. IsFiniteSet({t \in Threads : Busy(t)}') /\ IsFiniteSet({t \in Threads : Idling(t)}')
    BY ThreadsFinite, FS_Subset
  <2> QED
    BY <2>1, CountersStep, FS_CardinalityType DEF CountersExact
<1>1. ASSUME NEW t \in Threads, RunEnter(t) PROVE TypeOK'
  BY <1>1, <1>0
     DEF RunEnter, TypeOK, LocalsOK, HasFiber, RunLabel, MainLabel,
         WorkerLabel, FiberState, Finished, Threads, vars
<1>2. ASSUME NEW t \in Threads, RunLock(t) PROVE TypeOK'
  BY <1>2, <1>0
     DEF RunLock, TypeOK, LocalsOK, HasFiber, RunLabel, MainLabel, WorkerLabel,
         FiberState, Finished, Threads, vars, NoTask
<1>3. ASSUME NEW t \in Threads, RunSkip(t) PROVE TypeOK'
  BY <1>3, <1>0
     DEF RunSkip, TypeOK, LocalsOK, HasFiber, RunLabel, MainLabel, WorkerLabel,
         FiberState, Finished, Threads, vars
<1>4. ASSUME NEW t \in Threads, RunTake(t) PROVE TypeOK'
  BY <1>4, <1>0, RemoveAtType, ElementOfSeq
     DEF RunTake, TypeOK, LocalsOK, HasFiber, RunLabel, MainLabel, WorkerLabel,
         FiberState, Finished, Threads, vars
<1>5. ASSUME NEW t \in Threads, RunScanEnd(t) PROVE TypeOK'
  BY <1>5, <1>0
     DEF RunScanEnd, TypeOK, LocalsOK, HasFiber, RunLabel, MainLabel,
         WorkerLabel, FiberState, Finished, Threads, vars
<1>6. ASSUME NEW t \in Threads, RunFiber(t) PROVE TypeOK'
  BY <1>6, <1>0
     DEF RunFiber, TypeOK, LocalsOK, HasFiber, RunLabel, MainLabel,
         WorkerLabel, FiberState, Finished, Threads, vars
<1>7. ASSUME NEW t \in Threads, RunDrop(t) PROVE TypeOK'
  BY <1>7, <1>0
     DEF RunDrop, TypeOK, LocalsOK, HasFiber, RunLabel, MainLabel, WorkerLabel,
         FiberState, Finished, Threads, vars
<1>8. ASSUME NEW t \in Threads, RunIdle(t) PROVE TypeOK'
  BY <1>8, <1>0
     DEF RunIdle, TypeOK, LocalsOK, HasFiber, RunLabel, MainLabel, WorkerLabel,
         FiberState, Finished, Threads, vars
<1>9. ASSUME NEW t \in Threads, RunExit(t) PROVE TypeOK'
  BY <1>9, <1>0
     DEF RunExit, TypeOK, LocalsOK, HasFiber, RunLabel, MainLabel, WorkerLabel,
         FiberState, Finished, Threads, vars
<1>10. ASSUME NEW t \in Threads, NEW f \in HostFibers, RunCb(t, f)
       PROVE  TypeOK'
  <2>1. CASE m_state[f] \notin Finished \cup {"INIT", "NONE"}
    BY <1>10, <1>0, <2>1 DEF RunCb, TypeOK
  <2>2. CASE m_state[f] \in Finished \cup {"INIT", "NONE"}
    <3>1. ft[t].cb \in Bodies \cup {Null}
      <4>1. ft[t] \in Task
        BY <1>10 DEF RunCb, NoTask, TypeOK
      <4> QED
        BY <4>1, TaskIsNotEmpty DEF Bodies
    <3> QED
      BY ZenonT(30), <1>10, <1>0, <2>2, <3>1
         DEF RunCb, TypeOK, RunLabel, FiberState, Fibers
  <2> QED
    BY <2>1, <2>2
<1>11. ASSUME NEW t \in Threads, Idle(t) PROVE TypeOK'
  BY <1>11, <1>0
     DEF Idle, TypeOK, LocalsOK, HasFiber, RunLabel, MainLabel, WorkerLabel,
         FiberState, Finished, Threads, vars
<1>12. ASSUME NEW t \in Threads, IdleOut(t) PROVE TypeOK'
  BY <1>12, <1>0
     DEF IdleOut, TypeOK, LocalsOK, HasFiber, RunLabel, MainLabel, WorkerLabel,
         FiberState, Finished, Threads, vars
<1>13. ASSUME NEW t \in Threads, RunAfter(t) PROVE TypeOK'
  BY <1>13, <1>0
     DEF RunAfter, TypeOK, LocalsOK, HasFiber, RunLabel, MainLabel,
         WorkerLabel, FiberState, Finished, Threads, vars
<1>14. ASSUME NEW t \in Threads, RunPostReady(t) PROVE TypeOK'
  BY <1>14, <1>0
     DEF RunPostReady, TypeOK, LocalsOK, HasFiber, RunLabel, MainLabel,
         WorkerLabel, FiberState, Finished, Threads, vars
<1>15. ASSUME NEW t \in Threads, RunPostFinished(t) PROVE TypeOK'
  BY <1>15, <1>0
     DEF RunPostFinished, TypeOK, LocalsOK, HasFiber, RunLabel, MainLabel,
         WorkerLabel, FiberState, Finished, Threads, vars
<1>16. ASSUME NEW t \in Threads, RunPostHold(t) PROVE TypeOK'
  BY <1>16, <1>0
     DEF RunPostHold, TypeOK, LocalsOK, HasFiber, RunLabel, MainLabel,
         WorkerLabel, FiberState, Finished, Threads, vars
<1>17. ASSUME NEW t \in Threads, RunSetHold(t) PROVE TypeOK'
  BY <1>17, <1>0
     DEF RunSetHold, TypeOK, LocalsOK, HasFiber, RunLabel, MainLabel,
         WorkerLabel, FiberState, Finished, Threads, vars
<1>18. ASSUME NEW t \in Threads, RunResched(t) PROVE TypeOK'
  <2>1. Cur(t) \in Fibers /\ AnyThread \in Threads \cup {AnyThread}
    BY <1>18 DEF RunResched, LocalsOK, HasFiber
  <2>2. m_tasks' \in Seq(Task)
    BY <1>18, <2>1, FiberTaskType, AppendTask DEF RunResched, TypeOK
  <2> QED
    BY <1>18, <1>0, <2>2 DEF RunResched, TypeOK, RunLabel
<1>19. ASSUME NEW t \in Threads, SwapIn(t) PROVE TypeOK'
  <2>1. CASE m_state[Cur(t)] \in Finished \cup {"EXEC"}
    BY <1>19, <1>0, <2>1 DEF SwapIn, TypeOK
  <2>2. CASE m_state[Cur(t)] \notin Finished \cup {"EXEC"}
    BY <1>19, <1>0, <2>2 DEF SwapIn, TypeOK, RunLabel, FiberState
  <2> QED
    BY <2>1, <2>2
<1>20. ASSUME NEW t \in Threads, YieldToReady(t) PROVE TypeOK'
  <2>1. CASE m_state[Cur(t)] # "EXEC"
    BY <1>20, <1>0, <2>1 DEF YieldToReady, TypeOK
  <2>2. CASE m_state[Cur(t)] = "EXEC"
    <3>1. readyLeft' \in Nat
      BY <1>20, <2>2 DEF YieldToReady, TypeOK
    <3> QED
      BY <1>20, <1>0, <2>2, <3>1 DEF YieldToReady, TypeOK, RunLabel, FiberState
  <2> QED
    BY <2>1, <2>2
<1>21. ASSUME NEW t \in Threads, Arm(t) PROVE TypeOK'
  BY <1>21, <1>0
     DEF Arm, TypeOK, LocalsOK, HasFiber, RunLabel, MainLabel, WorkerLabel,
         FiberState, Finished, Threads, vars
<1>22. ASSUME NEW t \in Threads, YieldToHold(t) PROVE TypeOK'
  BY <1>22, <1>0
     DEF YieldToHold, TypeOK, LocalsOK, HasFiber, RunLabel, MainLabel,
         WorkerLabel, FiberState, Finished, Threads, vars
<1>23. ASSUME NEW t \in Threads, NEW s \in Finished, Finish(t, s) PROVE TypeOK'
  BY <1>23, <1>0
     DEF Finish, TypeOK, LocalsOK, HasFiber, RunLabel, MainLabel, WorkerLabel,
         FiberState, Finished, Threads, vars
<1>24. ASSUME NEW t \in Threads, SwapOut(t) PROVE TypeOK'
  BY <1>24, <1>0
     DEF SwapOut, TypeOK, LocalsOK, HasFiber, RunLabel, MainLabel, WorkerLabel,
         FiberState, Finished, Threads, vars
<1>25. ASSUME NEW w \in Workers, ThreadRun(w) PROVE TypeOK'
  BY <1>25, <1>0
     DEF ThreadRun, TypeOK, LocalsOK, HasFiber, RunLabel, MainLabel,
         WorkerLabel, FiberState, Finished, Threads, vars
<1>26. ASSUME NEW w \in Workers, StartCreate(w) PROVE TypeOK'
  BY <1>26, <1>0
     DEF StartCreate, TypeOK, LocalsOK, HasFiber, RunLabel, MainLabel,
         WorkerLabel, FiberState, Finished, Threads, vars
<1>27. ASSUME StartWait PROVE TypeOK'
  BY <1>27, <1>0
     DEF StartWait, TypeOK, LocalsOK, HasFiber, RunLabel, MainLabel,
         WorkerLabel, FiberState, Finished, Threads, vars
<1>28. ASSUME StartDone PROVE TypeOK'
  BY <1>28, <1>0
     DEF StartDone, TypeOK, LocalsOK, HasFiber, RunLabel, MainLabel,
         WorkerLabel, FiberState, Finished, Threads, vars
<1>29. ASSUME StopEarly PROVE TypeOK'
  BY <1>29, <1>0
     DEF StopEarly, TypeOK, LocalsOK, HasFiber, RunLabel, MainLabel,
         WorkerLabel, FiberState, Finished, Threads, vars
<1>30. ASSUME StopSet PROVE TypeOK'
  BY <1>30, <1>0
     DEF StopSet, TypeOK, LocalsOK, HasFiber, RunLabel, MainLabel, WorkerLabel,
         FiberState, Finished, Threads, vars
<1>31. ASSUME StopRoot PROVE TypeOK'
  BY <1>31, <1>0
     DEF StopRoot, TypeOK, LocalsOK, HasFiber, RunLabel, MainLabel,
         WorkerLabel, FiberState, Finished, Threads, vars
<1>32. ASSUME StopSwap PROVE TypeOK'
  BY <1>32, <1>0
     DEF StopSwap, TypeOK, LocalsOK, HasFiber, RunLabel, MainLabel,
         WorkerLabel, FiberState, Finished, Threads, vars
<1>33. ASSUME StopJoin PROVE TypeOK'
  BY <1>33, <1>0
     DEF StopJoin, TypeOK, LocalsOK, HasFiber, RunLabel, MainLabel,
         WorkerLabel, FiberState, Finished, Threads, vars
<1>34. ASSUME Start PROVE TypeOK'
  <2>1. CASE m_threads # {}
    BY <1>34, <1>0, <2>1 DEF Start, TypeOK
  <2>2. CASE m_threads = {}
    <3>1. starts' \in Nat
      BY <1>34, <2>2 DEF Start, TypeOK
    <3>2. pc' \in [Threads -> RunLabel \cup MainLabel \cup WorkerLabel]
      BY <1>34, <2>2 DEF Start, TypeOK, MainLabel
    <3>3. m_mutex' \in Threads \cup {Null} /\ m_stopping' \in BOOLEAN
      BY <1>34, <2>2 DEF Start, Threads
    <3> QED
      BY <1>34, <1>0, <2>2, <3>1, <3>2, <3>3 DEF Start, TypeOK
  <2> QED
    BY <2>1, <2>2
<1>35. ASSUME Stop PROVE TypeOK'
  BY <1>35, <1>0
     DEF Stop, TypeOK, LocalsOK, HasFiber, RunLabel, MainLabel, WorkerLabel,
         FiberState, Finished, Threads, vars
<1>36. ASSUME Terminated PROVE TypeOK'
  BY <1>36, <1>0
     DEF Terminated, TypeOK, LocalsOK, HasFiber, RunLabel, MainLabel,
         WorkerLabel, FiberState, Finished, Threads, vars
<1>37. ASSUME NEW t \in Threads, NEW b \in Bodies, NEW thread \in Pins,
              Schedule(t, b, thread)
       PROVE  TypeOK'
  <2>1. thread \in Threads \cup {AnyThread}
    BY ClientAssumption
  <2>2. m_tasks' \in Seq(Task)
    BY <1>37, <2>1, TaskOfType, AppendTask DEF Schedule, TypeOK
  <2> QED
    BY <1>37, <1>0, <2>1, <2>2 DEF Schedule, TypeOK
<1>38. ASSUME NEW t \in Threads, NEW b1 \in Bodies, NEW b2 \in Bodies,
              ScheduleRange(t, b1, b2)
       PROVE  TypeOK'
  <2>1. TaskOf(b1, AnyThread) \in Task /\ TaskOf(b2, AnyThread) \in Task
    BY TaskOfType
  <2>2. m_tasks' \in Seq(Task)
    BY <1>38, <2>1 DEF ScheduleRange, TypeOK
  <2> QED
    BY <1>38, <1>0, <2>2 DEF ScheduleRange, TypeOK
<1>39. ASSUME NEW f \in Fibers, Wake(f) PROVE TypeOK'
  <2>1. armed[f] \in Threads \cup {AnyThread} /\ AnyThread \in Threads \cup {AnyThread}
    BY <1>39 DEF Wake, TypeOK
  <2>2. m_tasks' \in Seq(Task)
    BY <1>39, <2>1, FiberTaskType, AppendTask DEF Wake, TypeOK
  <2> QED
    BY <1>39, <1>0, <2>2 DEF Wake, TypeOK
<1> QED
  BY <1>1, <1>2, <1>3, <1>4, <1>5, <1>6, <1>7, <1>8, <1>9, <1>10, <1>11,
     <1>12, <1>13, <1>14, <1>15, <1>16, <1>17, <1>18, <1>19, <1>20, <1>21,
     <1>22, <1>23, <1>24, <1>25, <1>26, <1>27, <1>28, <1>29, <1>30, <1>31,
     <1>32, <1>33, <1>34, <1>35, <1>36, <1>37, <1>38, <1>39
     DEF Next, RunStep, FiberStep, CallStep, ClientStep

-----------------------------------------------------------------------------
(***************************************************************************)
(* Theorems.                                                               *)
(***************************************************************************)

\* A freshly constructed Scheduler satisfies the inductive invariant.
LEMMA InitIInv ==
  ASSUME Init
  PROVE  IInv
<1>1. TypeOK
  <2>1. <<>> \in Seq(Task) /\ NoTask \in Task \cup {NoTask}
    OBVIOUS
  <2>2. /\ m_state \in [Fibers -> FiberState]
        /\ m_cb \in [Fibers -> Bodies \cup {Null}]
        /\ pc \in [Threads -> RunLabel \cup MainLabel \cup WorkerLabel]
    BY DEF Init, Fibers, Bodies, FiberState, RunLabel, MainLabel, WorkerLabel
  <2> QED
    BY <2>1, <2>2, ClientAssumption, ThreadsAssumption
       DEF Init, TypeOK, FiberState
<1>2. LocalsOK /\ WorkersOK
  BY ThreadsAssumption DEF Init, LocalsOK, HasFiber, WorkersOK, Threads
<1>3. CountersExact
  <2>1. {t \in Threads : Busy(t)} = {} /\ {t \in Threads : Idling(t)} = {}
    BY DEF Init, Busy, Idling
  <2> QED
    BY <2>1, FS_EmptySet DEF Init, CountersExact
<1> QED
  BY <1>1, <1>2, <1>3 DEF IInv

\* The inductive invariant holds in every reachable state.
LEMMA Invariance == Spec => []IInv
<1>1. Init => IInv
  BY InitIInv
<1>2. IInv /\ [Next]_vars => IInv'
  <2> SUFFICES ASSUME IInv, [Next]_vars PROVE IInv'
    OBVIOUS
  <2>1. CASE Next
    BY <2>1, TypeStep, LocalsStep, WorkersStep, CountersStep DEF IInv
  <2>2. CASE UNCHANGED vars
    <3> USE DEF vars, queueVars, countVars, stopVars, fiberVars, localVars,
                clientVars
    <3>1. TypeOK' /\ LocalsOK' /\ WorkersOK'
      BY <2>2 DEF IInv, TypeOK, LocalsOK, HasFiber, Cur, WorkersOK
    <3>2. CountersExact'
      BY <2>2, CountersSame DEF IInv, Busy, Idling
    <3> QED
      BY <3>1, <3>2 DEF IInv
  <2> QED
    BY <2>1, <2>2
<1> QED
  BY <1>1, <1>2, PTL DEF Spec

\* Type correctness: in particular a Task is always a fiber or a callback (the
\* assertion at scheduler.cpp:77) and no counter is decremented below zero.
THEOREM TypeCorrect == Spec => []TypeOK
<1>1. IInv => TypeOK
  BY DEF IInv
<1> QED
  BY <1>1, Invariance, PTL

\* The counters that stopping() trusts are exact in every state, for every
\* number of threads, although no lock orders their updates.
THEOREM CountersCorrect == Spec => []CountersExact
<1>1. IInv => CountersExact
  BY DEF IInv
<1> QED
  BY <1>1, Invariance, PTL

\* idle() returns, which is what lets a thread leave run(), only when nothing is
\* queued and no thread executes a task.
THEOREM IdleEndsOnlyWhenQuiet == Spec => IdleEndsQuiet
<1>1. IInv /\ [Next]_vars =>
        [\A t \in Threads : IdleEnds(t) =>
            m_stopping /\ m_tasks = <<>> /\ \A u \in Threads : ~Busy(u)]_vars
  <2> SUFFICES ASSUME IInv, Next, NEW t \in Threads, IdleEnds(t)
               PROVE  m_stopping /\ m_tasks = <<>> /\ \A u \in Threads : ~Busy(u)
    OBVIOUS
  <2>1. stopping
    BY ZenonT(30) DEF IInv, TypeOK, IdleEnds, Next, RunStep, FiberStep, CallStep,
           ClientStep, RunEnter, RunLock, RunSkip, RunTake, RunScanEnd,
           RunFiber, RunDrop, RunIdle, RunExit, RunCb, Idle, IdleOut, RunAfter,
           RunPostReady, RunPostFinished, RunPostHold, RunSetHold, RunResched,
           SwapIn, YieldToReady, Arm, YieldToHold, Finish, SwapOut, ThreadRun,
           StartCreate, StartWait, StartDone, StopEarly, StopSet, StopRoot,
           StopSwap, StopJoin, Start, Stop, Terminated, Schedule,
           ScheduleRange, Wake, Fail, scheduleNoLock, localVars, envVars,
           taskVars, poolVars, vars
  <2>2. {u \in Threads : Busy(u)} = {}
    <3>1. IsFiniteSet({u \in Threads : Busy(u)})
      BY ThreadsFinite, FS_Subset
    <3>2. Cardinality({u \in Threads : Busy(u)}) = 0
      BY <2>1 DEF IInv, CountersExact, stopping
    <3> QED
      BY <3>1, <3>2, FS_EmptySet
  <2> QED
    BY <2>1, <2>2 DEF stopping
<1> QED
  BY <1>1, Invariance, PTL DEF Spec, IdleEndsQuiet

-----------------------------------------------------------------------------
(***************************************************************************)
(* The fibers: who may know a fiber, and what follows for its stack, its   *)
(* m_state and its body.                                                   *)
(***************************************************************************)

\* The client hands over each fiber once, and a wake-up names the thread on
\* which the fiber held (or nothing ever holds).
OneHandover == ~MayRepeat /\ (WakeHome \/ MaxHold = 0)

\* A use_caller scheduler is started once: its root fiber ends with stop().
RootOnce == UseCaller => MaxStarts <= 1

\* Thread t has taken a fiber off the queue, or made one for a callback.
Carrier(t) == HasFiber(t) \/ (pc[t] = "dispatch" /\ ft[t].fiber # Null)

Has(t, f) == Carrier(t) /\ Cur(t) = f

\* The fiber on t is in, or past, YieldToHold(): a waker may schedule it.
Holding(t) ==
  \/ pc[t] = "hold"
  \/ pc[t] \in {"swapout", "after", "post", "sethold"} /\ m_state[Cur(t)] = "HOLD"

\* m_tasks holds fiber f for the given thread.
Waits(f, thread) ==
  \E i \in 1..Len(m_tasks) : m_tasks[i].fiber = f /\ m_tasks[i].thread = thread

Queued(f) == \E thread \in Threads \cup {AnyThread} : Waits(f, thread)

\* Nobody knows fiber f.
Unused(f) ==
  /\ ~Queued(f) /\ armed[f] = Null
  /\ \A t \in Threads : ~Has(t, f)

Resumable == {"INIT", "READY", "HOLD"}

\* The states a fiber can be in on a thread at the given label.
StatesAt(label) ==
  CASE label \in {"dispatch", "swapin"} -> Resumable
    [] label \in {"exec", "hold"} -> {"EXEC"}
    [] label \in {"swapout", "after", "post"} -> {"READY", "HOLD"} \cup Finished
    [] label = "sethold" -> {"HOLD"}
    [] label = "resched" -> {"READY"}
    [] OTHER -> {}

\* A fiber is at most once in m_tasks.
QueueOK ==
  \A i, j \in 1..Len(m_tasks) :
    m_tasks[i].fiber # Null /\ m_tasks[i].fiber = m_tasks[j].fiber => i = j

\* At most one thread carries it, in a state that fits the label.
CarryOK ==
  /\ \A t, u \in Threads : Carrier(t) /\ Carrier(u) /\ Cur(t) = Cur(u) => t = u
  /\ \A t \in Threads : Carrier(t) => m_state[Cur(t)] \in StatesAt(pc[t])

\* A fiber can be on a thread and in m_tasks, or known to a waker, only while it
\* holds, and then only that thread may take it.
MeetOK ==
  \A t \in Threads : Carrier(t) =>
    /\ \A thread \in Threads \cup {AnyThread} :
         Waits(Cur(t), thread) => thread = t /\ Holding(t)
    /\ armed[Cur(t)] # Null => armed[Cur(t)] = t /\ Holding(t)

\* What is queued or armed can be resumed or is about to be held, and never
\* both.
KnownOK ==
  \A f \in Fibers :
    /\ Queued(f) => m_state[f] \in Resumable \cup {"EXEC"} /\ armed[f] = Null
    /\ armed[f] # Null => m_state[f] \in {"HOLD", "EXEC"}

\* A thread's cb_fiber is its own, and unused unless it hosts a callback there.
SpareOK ==
  \A t \in Threads : cb_fiber[t] # Null =>
    /\ \A u \in Threads : cb_fiber[u] = cb_fiber[t] => u = t
    /\ m_state[cb_fiber[t]] # "NONE"
    /\ ~(HasFiber(t) /\ ft[t].fiber = Null) =>
         /\ Unused(cb_fiber[t])
         /\ m_state[cb_fiber[t]] = "INIT" /\ m_cb[cb_fiber[t]] = Null

\* A fiber that does not exist yet, or that the client has not scheduled yet.
NewOK ==
  /\ \A f \in Fibers : m_state[f] = "NONE" => Unused(f) /\ m_cb[f] = Null
  /\ \A f \in ClientFibers :
       want[f] = Null => Unused(f) /\ m_state[f] = "INIT"

\* Without wake-ups to the home thread nothing ever holds.
HoldsOK == WakeHome \/ (holdLeft = 0 /\ \A f \in Fibers : armed[f] = Null)

Tokens == QueueOK /\ CarryOK /\ MeetOK /\ KnownOK /\ SpareOK /\ NewOK /\ HoldsOK

\* start() and stop(): no thread object outlives stop(), and the root fiber ends
\* in the last stop().
CallsOK ==
  /\ pc[Main] = "client" /\ m_stopping => m_threads = {}
  /\ pc[Main] = "joining" => m_threads = {}
  /\ pc[Main] = "stopearly" => Workers = {}
  /\ pc[Main] \in {"start", "startwait"} => ~m_stopping
  /\ ~m_stopping \/ pc[Main] # "client" => starts >= 1
  /\ pc[Main] \in RunLabel \cup {"stoproot"} => UseCaller /\ m_stopping
  /\ pc[Main] \in {"join", "joining"} => m_stopping
  /\ m_rootFiber = "TERM" =>
       /\ m_stopping /\ starts >= MaxStarts
       /\ pc[Main] \in {"join", "joining", "client"}

-----------------------------------------------------------------------------
(***************************************************************************)
(* The queue.                                                              *)
(***************************************************************************)

\* Every element of m_tasks is a task.
LEMMA ElementIsTask ==
  ASSUME TypeOK, NEW i \in 1..Len(m_tasks)
  PROVE  /\ m_tasks[i] \in Task
         /\ m_tasks[i].fiber \in Fibers \cup {Null}
         /\ m_tasks[i].thread \in Threads \cup {AnyThread}
<1>1. m_tasks[i] \in Task
  BY ElementOfSeq DEF TypeOK
<1>. QED
  BY <1>1 DEF Task

\* The elements of a concatenation.
LEMMA ConcatElements ==
  ASSUME NEW S, NEW A \in Seq(S), NEW B \in Seq(S)
  PROVE  /\ Len(A \o B) = Len(A) + Len(B)
         /\ \A j \in 1..(Len(A) + Len(B)) :
              (A \o B)[j] = IF j <= Len(A) THEN A[j] ELSE B[j - Len(A)]
OBVIOUS

\* What erasing an element leaves of a sequence.
LEMMA RemoveAtElements ==
  ASSUME NEW S, NEW s \in Seq(S), NEW i \in 1..Len(s)
  PROVE  /\ Len(RemoveAt(s, i)) = Len(s) - 1
         /\ \A j \in 1..(Len(s) - 1) :
              RemoveAt(s, i)[j] = IF j < i THEN s[j] ELSE s[j + 1]
<1>. DEFINE A == SubSeq(s, 1, i-1)
            B == SubSeq(s, i+1, Len(s))
<1>1. A \in Seq(S) /\ Len(A) = i - 1 /\ \A j \in 1..(i-1) : A[j] = s[j]
  OBVIOUS
<1>2. /\ B \in Seq(S) /\ Len(B) = Len(s) - i
      /\ \A j \in 1..(Len(s) - i) : B[j] = s[i + j]
  OBVIOUS
<1>3. RemoveAt(s, i) = A \o B
  BY DEF RemoveAt
<1>. HIDE DEF A, B
<1>4. /\ Len(A \o B) = Len(A) + Len(B)
      /\ \A j \in 1..(Len(A) + Len(B)) :
           (A \o B)[j] = IF j <= Len(A) THEN A[j] ELSE B[j - Len(A)]
  <2>1. A \in Seq(S) /\ B \in Seq(S)
    BY <1>1, <1>2
  <2>. QED
    BY <2>1, ConcatElements, Zenon
<1>5. Len(s) \in Nat
  OBVIOUS
<1>6. ASSUME NEW j \in 1..(Len(s) - 1)
      PROVE  (A \o B)[j] = IF j < i THEN s[j] ELSE s[j + 1]
  <2>1. (A \o B)[j] = IF j <= i - 1 THEN A[j] ELSE B[j - (i - 1)]
    <3>1. Len(A) = i - 1 /\ j \in 1..(Len(A) + Len(B))
      BY <1>1, <1>2, <1>5
    <3>. QED
      BY <1>4, <3>1, Zenon
  <2>2. CASE j < i
    BY <1>1, <2>1, <2>2
  <2>3. CASE ~(j < i)
    <3>1. PICK k \in 1..(Len(s) - i) : k = j - (i - 1) /\ i + k = j + 1
      BY <1>5, <2>3
    <3>2. ~(j <= i - 1)
      BY <1>5, <2>3
    <3>3. (A \o B)[j] = B[k]
      BY <2>1, <3>1, <3>2
    <3>4. B[k] = s[j + 1]
      BY <1>2, <3>1
    <3>. QED
      BY <2>3, <3>3, <3>4
  <2>. QED
    BY <2>2, <2>3
<1>7. Len(A \o B) = Len(s) - 1
  BY <1>1, <1>2, <1>4, <1>5
<1>. QED
  BY <1>3, <1>6, <1>7, Zenon

\* run() takes element i: its fiber, if it has one, is queued no longer.
LEMMA TakeWaits ==
  ASSUME TypeOK, QueueOK, NEW i \in 1..Len(m_tasks),
         m_tasks' = RemoveAt(m_tasks, i),
         NEW f \in Fibers, NEW thread \in Threads \cup {AnyThread}
  PROVE  Waits(f, thread)' <=> Waits(f, thread) /\ f # m_tasks[i].fiber
<1>1. m_tasks \in Seq(Task) /\ f # Null
  BY ClientAssumption DEF TypeOK
<1>2. /\ Len(m_tasks') = Len(m_tasks) - 1
      /\ \A j \in 1..(Len(m_tasks) - 1) :
           m_tasks'[j] = IF j < i THEN m_tasks[j] ELSE m_tasks[j + 1]
  BY <1>1, RemoveAtElements
<1>3. ASSUME Waits(f, thread)' PROVE Waits(f, thread) /\ f # m_tasks[i].fiber
  <2>1. PICK j \in 1..Len(m_tasks') :
           m_tasks'[j].fiber = f /\ m_tasks'[j].thread = thread
    BY <1>3 DEF Waits
  <2>2. PICK k \in 1..Len(m_tasks) : k # i /\ m_tasks'[j] = m_tasks[k]
    <3>1. j \in 1..(Len(m_tasks) - 1)
      BY <1>2
    <3>2. CASE j < i
      BY <1>2, <3>1, <3>2
    <3>3. CASE ~(j < i)
      BY <1>2, <3>1, <3>3
    <3>. QED
      BY <3>2, <3>3
  <2>. QED
    BY <1>1, <2>1, <2>2 DEF Waits, QueueOK
<1>4. ASSUME Waits(f, thread), f # m_tasks[i].fiber PROVE Waits(f, thread)'
  <2>1. PICK k \in 1..Len(m_tasks) :
           m_tasks[k].fiber = f /\ m_tasks[k].thread = thread
    BY <1>4 DEF Waits
  <2>2. PICK j \in 1..Len(m_tasks') : m_tasks'[j] = m_tasks[k]
    <3>1. CASE k < i
      BY <1>2, <3>1
    <3>2. CASE k > i
      <4>1. k - 1 \in 1..(Len(m_tasks) - 1) /\ ~(k - 1 < i) /\ (k - 1) + 1 = k
        BY <3>2
      <4>2. m_tasks'[k - 1] = m_tasks[k]
        BY <1>2, <4>1
      <4>. QED
        BY <1>2, <4>1, <4>2
    <3>. QED
      BY <1>4, <2>1, <3>1, <3>2
  <2>. QED
    BY <2>1, <2>2 DEF Waits
<1>. QED
  BY <1>3, <1>4

\* Erasing an element does not make a fiber occur twice.
LEMMA TakeQueueOK ==
  ASSUME TypeOK, QueueOK, NEW i \in 1..Len(m_tasks),
         m_tasks' = RemoveAt(m_tasks, i)
  PROVE  QueueOK'
<1>1. m_tasks \in Seq(Task)
  BY DEF TypeOK
<1>2. /\ Len(m_tasks') = Len(m_tasks) - 1
      /\ \A j \in 1..(Len(m_tasks) - 1) :
           m_tasks'[j] = IF j < i THEN m_tasks[j] ELSE m_tasks[j + 1]
  BY <1>1, RemoveAtElements
<1>. SUFFICES ASSUME NEW j \in 1..Len(m_tasks'), NEW k \in 1..Len(m_tasks'),
                     m_tasks'[j].fiber # Null, m_tasks'[j].fiber = m_tasks'[k].fiber
              PROVE  j = k
  BY DEF QueueOK
<1>. DEFINE Old(n) == IF n < i THEN n ELSE n + 1
<1>3. /\ Old(j) \in 1..Len(m_tasks) /\ m_tasks'[j] = m_tasks[Old(j)]
      /\ Old(k) \in 1..Len(m_tasks) /\ m_tasks'[k] = m_tasks[Old(k)]
  BY <1>2
<1>4. Old(j) = Old(k)
  BY <1>3 DEF QueueOK
<1>. QED
  BY <1>4

\* schedule() appends a task.
LEMMA AppendWaits ==
  ASSUME TypeOK, NEW task \in Task, m_tasks' = m_tasks \o <<task>>
  PROVE  /\ \A f, thread :
              Waits(f, thread)' <=>
                Waits(f, thread) \/ (task.fiber = f /\ task.thread = thread)
         /\ QueueOK /\ (task.fiber # Null => ~Queued(task.fiber)) => QueueOK'
<1>1. m_tasks \in Seq(Task)
  BY DEF TypeOK
<1>2. /\ Len(m_tasks') = Len(m_tasks) + 1
      /\ m_tasks'[Len(m_tasks) + 1] = task
      /\ \A i \in 1..Len(m_tasks) : m_tasks'[i] = m_tasks[i]
  BY <1>1
<1>3. \A f, thread :
         Waits(f, thread)' <=>
           Waits(f, thread) \/ (task.fiber = f /\ task.thread = thread)
  BY <1>1, <1>2 DEF Waits
<1>4. ASSUME QueueOK, task.fiber # Null => ~Queued(task.fiber) PROVE QueueOK'
  <2>1. \A i \in 1..Len(m_tasks) : task.fiber # Null => m_tasks[i].fiber # task.fiber
    BY <1>4, ElementIsTask DEF Queued, Waits
  <2>. QED
    BY <1>1, <1>2, <1>4, <2>1 DEF QueueOK
<1>. QED
  BY <1>3, <1>4

\* schedule(begin, end) appends two.
LEMMA AppendTwoWaits ==
  ASSUME TypeOK, NEW a \in Task, NEW b \in Task, m_tasks' = m_tasks \o <<a, b>>
  PROVE  /\ \A f, thread :
              Waits(f, thread)' <=>
                \/ Waits(f, thread)
                \/ a.fiber = f /\ a.thread = thread
                \/ b.fiber = f /\ b.thread = thread
         /\ /\ QueueOK
            /\ \A f \in {a.fiber, b.fiber} : f # Null => ~Queued(f)
            /\ a.fiber # Null => a.fiber # b.fiber
            => QueueOK'
<1>1. m_tasks \in Seq(Task)
  BY DEF TypeOK
<1>2. /\ Len(m_tasks') = Len(m_tasks) + 2
      /\ m_tasks'[Len(m_tasks) + 1] = a
      /\ m_tasks'[Len(m_tasks) + 2] = b
      /\ \A i \in 1..Len(m_tasks) : m_tasks'[i] = m_tasks[i]
  BY <1>1
<1>3. Len(m_tasks) \in Nat
  BY <1>1
<1>4. \A i \in 1..Len(m_tasks') :
        i \in 1..Len(m_tasks) \/ i = Len(m_tasks) + 1 \/ i = Len(m_tasks) + 2
  BY <1>2, <1>3
<1>5. /\ Len(m_tasks) + 1 \in 1..Len(m_tasks')
      /\ Len(m_tasks) + 2 \in 1..Len(m_tasks')
      /\ \A i \in 1..Len(m_tasks) : i \in 1..Len(m_tasks')
  BY <1>2, <1>3
<1>6. \A f, thread :
         Waits(f, thread)' <=>
           \/ Waits(f, thread)
           \/ a.fiber = f /\ a.thread = thread
           \/ b.fiber = f /\ b.thread = thread
  BY <1>2, <1>4, <1>5 DEF Waits
<1>7. ASSUME QueueOK, \A f \in {a.fiber, b.fiber} : f # Null => ~Queued(f),
             a.fiber # Null => a.fiber # b.fiber
      PROVE  QueueOK'
  <2>1. \A i \in 1..Len(m_tasks) :
          m_tasks[i].fiber # Null => m_tasks[i].fiber \notin {a.fiber, b.fiber}
    BY <1>7, ElementIsTask DEF Queued, Waits
  <2>2. ASSUME NEW i \in 1..Len(m_tasks'), NEW j \in 1..Len(m_tasks'),
               m_tasks'[i].fiber # Null, m_tasks'[i].fiber = m_tasks'[j].fiber
        PROVE  i = j
    BY <1>2, <1>4, <1>7, <2>1, <2>2 DEF QueueOK
  <2>. QED
    BY <2>2 DEF QueueOK
<1>. QED
  BY <1>6, <1>7

-----------------------------------------------------------------------------
(***************************************************************************)
(* The steps of one thread with one fiber.                                 *)
(***************************************************************************)

\* Who carries a fiber carries one.
LEMMA CarrierFiber ==
  ASSUME IInv, NEW t \in Threads, Carrier(t)
  PROVE  Cur(t) \in Fibers /\ Cur(t) # Null
<1>1. ft[t] \in Task \cup {NoTask}
  BY DEF IInv, TypeOK
<1>2. ft[t].fiber # Null => ft[t].fiber \in Fibers
  BY <1>1 DEF Task, NoTask
<1>. QED
  BY <1>2, ClientAssumption DEF Carrier, Cur, IInv, LocalsOK

\* A step that changes nothing about fibers: it moves only threads that carry
\* none.
LEMMA QuietStep ==
  ASSUME IInv, Tokens,
         UNCHANGED <<m_state, m_cb, armed, want, holdLeft>>,
         QueueOK',
         \A f \in Fibers, thread \in Threads \cup {AnyThread} :
           Waits(f, thread)' <=> Waits(f, thread),
         \A u \in Threads :
           /\ Carrier(u)' <=> Carrier(u)
           /\ HasFiber(u)' <=> HasFiber(u)
           /\ Carrier(u) => pc'[u] = pc[u] /\ ft'[u] = ft[u]
           /\ Carrier(u) => cb_fiber'[u] = cb_fiber[u]
           /\ cb_fiber'[u] \in {cb_fiber[u], Null}
  PROVE  Tokens'
<1>. USE DEF Tokens
<1>1. \A u \in Threads : Carrier(u) => Cur(u)' = Cur(u) /\ Cur(u) \in Fibers
  BY CarrierFiber DEF Cur
<1>2. \A u \in Threads : Carrier(u) => (Holding(u)' <=> Holding(u))
  BY <1>1 DEF Holding
<1>3. \A f \in Fibers : Queued(f)' <=> Queued(f)
  BY DEF Queued
<1>4. \A f \in Fibers : Unused(f)' <=> Unused(f)
  BY <1>1, <1>3 DEF Unused, Has
<1>5. CarryOK'
  BY <1>1 DEF CarryOK
<1>6. MeetOK'
  BY <1>1, <1>2 DEF MeetOK
<1>7. KnownOK'
  BY <1>3 DEF KnownOK
<1>8. SpareOK'
  <2>1. ASSUME NEW u \in Threads, cb_fiber'[u] # Null
        PROVE  /\ cb_fiber'[u] = cb_fiber[u] /\ cb_fiber[u] \in Fibers
               /\ HasFiber(u)' /\ ft'[u].fiber = Null <=>
                  HasFiber(u) /\ ft[u].fiber = Null
    BY <2>1 DEF Carrier, IInv, TypeOK, Fibers
  <2>2. ASSUME NEW u \in Threads, cb_fiber'[u] # Null,
               ~(HasFiber(u) /\ ft[u].fiber = Null)
        PROVE  Unused(cb_fiber[u])'
    BY <1>4, <2>1, <2>2 DEF SpareOK
  <2>. QED
    BY <2>1, <2>2 DEF SpareOK
<1>9. NewOK' /\ HoldsOK'
  BY <1>4 DEF NewOK, HoldsOK, Fibers
<1>. QED
  BY <1>5, <1>6, <1>7, <1>8, <1>9

\* A thread goes on with its fiber, which moves to state s.
LEMMA AdvanceStep ==
  ASSUME IInv, Tokens, NEW t \in Threads, NEW label, NEW s \in FiberState,
         Carrier(t),
         pc' = [pc EXCEPT ![t] = label],
         label \in {"swapin", "exec", "hold", "swapout", "after", "post",
                    "sethold", "resched"},
         HasFiber(t) \/ ft[t].fiber # Null,
         s \in StatesAt(label),
         m_state' = [m_state EXCEPT ![Cur(t)] = s],
         Holding(t) => Holding(t)',
         armed' \in {armed, [armed EXCEPT ![Cur(t)] = t]},
         armed' # armed => label = "hold" /\ ~Holding(t),
         holdLeft' <= holdLeft /\ holdLeft' \in Nat,
         armed' # armed => holdLeft > 0,
         \A f \in Fibers : f # Cur(t) => m_cb'[f] = m_cb[f],
         UNCHANGED <<m_tasks, want, ft, cb_fiber>>
  PROVE  Tokens'
<1>. USE DEF Tokens
<1>. DEFINE g == Cur(t)
<1>1. g \in Fibers /\ g # Null
  BY CarrierFiber
<1>2. \A u \in Threads : Cur(u)' = Cur(u)
  BY DEF Cur
<1>3. \A u \in Threads : (Carrier(u)' <=> Carrier(u)) /\ (u # t => pc'[u] = pc[u])
  BY DEF Carrier, HasFiber, IInv, TypeOK
<1>4. /\ m_state'[g] = s
      /\ \A f \in Fibers : f # g => m_state'[f] = m_state[f]
      /\ \A f \in Fibers : f # g => armed'[f] = armed[f]
  BY <1>1 DEF IInv, TypeOK
<1>5. \A u \in Threads : Carrier(u) /\ u # t => Cur(u) \in Fibers /\ Cur(u) # g
  BY CarrierFiber DEF CarryOK
<1>6. \A u \in Threads : Carrier(u) /\ u # t => (Holding(u)' <=> Holding(u))
  BY <1>2, <1>3, <1>4, <1>5 DEF Holding
<1>7. \A f, thread : Waits(f, thread)' <=> Waits(f, thread)
  BY DEF Waits
<1>8. \A f : Queued(f)' <=> Queued(f)
  BY <1>7 DEF Queued
<1>9. ~Unused(g) /\ \A f \in Fibers : f # g => (Unused(f)' <=> Unused(f))
  BY <1>1, <1>2, <1>3, <1>4, <1>8 DEF Unused, Has
<1>10. pc'[t] = label
  BY DEF IInv, TypeOK
<1>11. QueueOK'
  BY DEF QueueOK
<1>12. CarryOK'
  BY <1>2, <1>3, <1>4, <1>5, <1>10 DEF CarryOK
<1>13. Holding(t)' => s \in {"EXEC", "HOLD"}
  BY <1>2, <1>4, <1>10 DEF Holding, StatesAt, Finished
<1>14. MeetOK'
  <2>1. ASSUME NEW u \in Threads, Carrier(u), u # t
        PROVE  /\ \A thread \in Threads \cup {AnyThread} :
                    Waits(Cur(u), thread)' => thread = u /\ Holding(u)'
               /\ armed'[Cur(u)] # Null => armed'[Cur(u)] = u /\ Holding(u)'
    BY <1>2, <1>4, <1>5, <1>6, <1>7, <2>1 DEF MeetOK
  <2>2. /\ \A thread \in Threads \cup {AnyThread} :
             Waits(g, thread)' => thread = t /\ Holding(t)'
        /\ armed'[g] # Null => armed'[g] = t /\ Holding(t)'
    <3>1. CASE armed' = armed
      BY <1>2, <1>7, <3>1 DEF MeetOK
    <3>2. CASE armed' # armed
      <4>1. armed'[g] = t /\ Holding(t)'
        BY <1>1, <1>10, <3>2 DEF IInv, TypeOK, Holding
      <4>. QED
        BY <1>2, <1>7, <3>2, <4>1 DEF MeetOK
    <3>. QED
      BY <3>1, <3>2
  <2>. QED
    BY <1>2, <1>3, <2>1, <2>2 DEF MeetOK
<1>15. Queued(g) \/ armed'[g] # Null => Holding(t)'
  BY <1>2, <1>3, <1>8, <1>14 DEF MeetOK, Queued
<1>16. Queued(g) => armed'[g] = Null
  <2>1. CASE armed' = armed
    BY <1>1, <2>1 DEF KnownOK
  <2>2. CASE armed' # armed
    BY <2>2 DEF MeetOK, Queued
  <2>. QED
    BY <2>1, <2>2
<1>17. KnownOK'
  BY <1>1, <1>4, <1>8, <1>13, <1>15, <1>16 DEF KnownOK, Resumable
<1>18. SpareOK'
  <2>1. s # "NONE"
    BY DEF StatesAt, Resumable, Finished
  <2>2. HasFiber(t)' /\ \A u \in Threads : u # t => (HasFiber(u)' <=> HasFiber(u))
    BY <1>10, <1>3 DEF HasFiber
  <2>3. ASSUME NEW u \in Threads, cb_fiber[u] # Null
        PROVE  /\ m_state'[cb_fiber[u]] # "NONE"
               /\ ~(HasFiber(u)' /\ ft[u].fiber = Null) =>
                    /\ Unused(cb_fiber[u])'
                    /\ m_state'[cb_fiber[u]] = "INIT" /\ m_cb'[cb_fiber[u]] = Null
    <3>1. cb_fiber[u] \in Fibers
      BY <2>3 DEF IInv, TypeOK, Fibers
    <3>2. m_state'[cb_fiber[u]] # "NONE"
      BY <1>4, <2>1, <2>3, <3>1 DEF SpareOK
    <3>3. ASSUME ~(HasFiber(u)' /\ ft[u].fiber = Null)
          PROVE  ~(HasFiber(u) /\ ft[u].fiber = Null)
      BY <2>2, <3>3
    <3>. QED
      BY <1>4, <1>9, <2>3, <3>1, <3>2, <3>3 DEF SpareOK
  <2>. QED
    BY <2>3 DEF SpareOK
<1>19. NewOK'
  <2>1. s # "NONE"
    BY DEF StatesAt, Resumable, Finished
  <2>2. \A f \in Fibers : m_state'[f] = "NONE" => Unused(f)' /\ m_cb'[f] = Null
    BY <1>4, <1>9, <2>1 DEF NewOK
  <2>3. \A f \in ClientFibers : want[f] = Null => Unused(f)' /\ m_state'[f] = "INIT"
    BY <1>4, <1>9 DEF NewOK, Fibers
  <2>. QED
    BY <2>2, <2>3 DEF NewOK
<1>20. HoldsOK'
  BY DEF HoldsOK, IInv, TypeOK
<1>. QED
  BY <1>11, <1>12, <1>14, <1>17, <1>18, <1>19, <1>20

\* A thread lets go of its fiber g, which moves to state s and may be scheduled
\* again.
LEMMA LetGoStep ==
  ASSUME IInv, Tokens, NEW t \in Threads, NEW g \in Fibers, g = Cur(t),
         NEW s \in FiberState \ {"NONE"},
         HasFiber(t),
         pc' = [pc EXCEPT ![t] = "loop"],
         ft' = [ft EXCEPT ![t] = NoTask],
         cb_fiber' \in {cb_fiber, [cb_fiber EXCEPT ![t] = Null]},
         ft[t].fiber # Null => cb_fiber' = cb_fiber,
         m_state' = [m_state EXCEPT ![g] = s],
         \A f \in Fibers : f # g => m_cb'[f] = m_cb[f],
         UNCHANGED <<armed, want, holdLeft>>,
         QueueOK',
         \A f \in Fibers, thread \in Threads \cup {AnyThread} :
           f # g => (Waits(f, thread)' <=> Waits(f, thread)),
         Queued(g)' => s \in Resumable /\ armed[g] = Null,
         armed[g] # Null => s = "HOLD",
         ft[t].fiber = Null /\ cb_fiber' = cb_fiber =>
           ~Queued(g)' /\ armed[g] = Null /\ s = "INIT" /\ m_cb'[g] = Null
  PROVE  Tokens'
<1>. USE DEF Tokens
<1>1. Carrier(t) /\ ~Carrier(t)' /\ ~HasFiber(t)'
  BY DEF Carrier, HasFiber, IInv, TypeOK
<1>2. \A u \in Threads : u # t =>
        /\ pc'[u] = pc[u] /\ ft'[u] = ft[u] /\ cb_fiber'[u] = cb_fiber[u]
        /\ Cur(u)' = Cur(u)
        /\ Carrier(u)' <=> Carrier(u)
        /\ HasFiber(u)' <=> HasFiber(u)
        /\ Carrier(u) => Cur(u) \in Fibers /\ Cur(u) # g
  <2>1. \A u \in Threads : u # t =>
          /\ pc'[u] = pc[u] /\ ft'[u] = ft[u] /\ cb_fiber'[u] = cb_fiber[u]
    BY DEF IInv, TypeOK
  <2>2. \A u \in Threads : Carrier(u) /\ u # t => Cur(u) \in Fibers /\ Cur(u) # g
    BY <1>1, CarrierFiber DEF CarryOK
  <2>. QED
    BY <2>1, <2>2 DEF Cur, Carrier, HasFiber
<1>3. /\ m_state'[g] = s
      /\ \A f \in Fibers : f # g => m_state'[f] = m_state[f]
  BY DEF IInv, TypeOK
<1>4. \A u \in Threads : u # t /\ Carrier(u) => (Holding(u)' <=> Holding(u))
  BY <1>2, <1>3 DEF Holding
<1>5. \A f \in Fibers : f # g => (Queued(f)' <=> Queued(f))
  BY DEF Queued
<1>6. \A f \in Fibers : f # g => (Unused(f)' <=> Unused(f))
  BY <1>1, <1>2, <1>5 DEF Unused, Has
<1>7. CarryOK'
  BY <1>1, <1>2, <1>3 DEF CarryOK
<1>8. MeetOK'
  <2>1. ASSUME NEW u \in Threads, Carrier(u), u # t
        PROVE  /\ \A thread \in Threads \cup {AnyThread} :
                    Waits(Cur(u), thread)' => thread = u /\ Holding(u)'
               /\ armed'[Cur(u)] # Null => armed'[Cur(u)] = u /\ Holding(u)'
    BY <1>2, <1>4, <2>1 DEF MeetOK
  <2>. QED
    BY <1>1, <1>2, <2>1 DEF MeetOK
<1>9. KnownOK'
  BY <1>3, <1>5 DEF KnownOK
<1>10. ~Unused(g)
  BY <1>1 DEF Unused, Has
<1>11. SpareOK'
  <2>1. ASSUME NEW u \in Threads, u # t, cb_fiber[u] # Null
        PROVE  /\ m_state'[cb_fiber[u]] # "NONE"
               /\ ~(HasFiber(u) /\ ft[u].fiber = Null) =>
                    /\ Unused(cb_fiber[u])'
                    /\ m_state'[cb_fiber[u]] = "INIT" /\ m_cb'[cb_fiber[u]] = Null
    <3>1. cb_fiber[u] \in Fibers /\ cb_fiber'[u] = cb_fiber[u]
      BY <1>2, <2>1 DEF IInv, TypeOK, Fibers
    <3>. QED
      BY <1>3, <1>6, <1>10, <2>1, <3>1 DEF SpareOK
  <2>2. ASSUME cb_fiber'[t] # Null
        PROVE  /\ cb_fiber'[t] = cb_fiber[t]
               /\ m_state'[cb_fiber[t]] # "NONE"
               /\ Unused(cb_fiber[t])'
               /\ m_state'[cb_fiber[t]] = "INIT" /\ m_cb'[cb_fiber[t]] = Null
    <3>1. cb_fiber' = cb_fiber /\ cb_fiber[t] \in Fibers
      BY <2>2 DEF IInv, TypeOK, Fibers
    <3>2. CASE ft[t].fiber = Null
      <4>1. cb_fiber[t] = g
        BY <3>2 DEF Cur
      <4>2. Unused(g)'
        BY <1>1, <1>2, <3>1, <3>2 DEF Unused, Has
      <4>. QED
        BY <1>3, <3>1, <3>2, <4>1, <4>2
    <3>3. CASE ft[t].fiber # Null
      BY <1>3, <1>6, <1>10, <2>2, <3>1, <3>3 DEF SpareOK
    <3>. QED
      BY <3>2, <3>3
  <2>3. \A u, v \in Threads :
          cb_fiber'[u] # Null /\ cb_fiber'[u] = cb_fiber'[v] => u = v
    BY <1>2, <2>2 DEF SpareOK
  <2>. QED
    BY <1>1, <1>2, <2>1, <2>2, <2>3 DEF SpareOK
<1>12. NewOK'
  BY <1>3, <1>6, <1>10 DEF NewOK, Fibers
<1>13. HoldsOK'
  BY DEF HoldsOK
<1>. QED
  BY <1>7, <1>8, <1>9, <1>11, <1>12, <1>13

\* A thread that carries nothing gets hold of fiber g: a task of m_tasks, or the
\* fiber that hosts a callback.
LEMMA AcquireStep ==
  ASSUME IInv, Tokens, NEW t \in Threads, NEW g \in Fibers,
         NEW label \in {"dispatch", "swapin"},
         ~Carrier(t), Carrier(t)', Cur(t)' = g,
         pc' = [pc EXCEPT ![t] = label],
         \A u \in Threads \ {t} : ft'[u] = ft[u] /\ cb_fiber'[u] = cb_fiber[u],
         \A u \in Threads : ~Has(u, g),
         \A u \in Threads \ {t} : cb_fiber[u] # g,
         \/ cb_fiber'[t] = g /\ ft'[t].fiber = Null /\ label = "swapin"
         \/ cb_fiber'[t] = cb_fiber[t] /\ cb_fiber[t] # g,
         armed[g] = Null,
         g \in ClientFibers => want[g] # Null,
         m_state'[g] \in Resumable,
         \A f \in Fibers : f # g => m_state'[f] = m_state[f] /\ m_cb'[f] = m_cb[f],
         UNCHANGED <<armed, want, holdLeft>>,
         QueueOK',
         \A f \in Fibers, thread \in Threads \cup {AnyThread} :
           Waits(f, thread)' <=> Waits(f, thread) /\ f # g
  PROVE  Tokens'
<1>. USE DEF Tokens
<1>1. \A u \in Threads : u # t =>
        /\ pc'[u] = pc[u]
        /\ Cur(u)' = Cur(u)
        /\ Carrier(u)' <=> Carrier(u)
        /\ HasFiber(u)' <=> HasFiber(u)
        /\ Carrier(u) => Cur(u) \in Fibers /\ Cur(u) # g
  <2>1. \A u \in Threads : u # t => pc'[u] = pc[u]
    BY DEF IInv, TypeOK
  <2>2. \A u \in Threads : Carrier(u) => Cur(u) \in Fibers /\ Cur(u) # g
    BY CarrierFiber DEF Has
  <2>. QED
    BY <2>1, <2>2 DEF Cur, Carrier, HasFiber
<1>2. pc'[t] = label
  BY DEF IInv, TypeOK
<1>3. \A u \in Threads : u # t /\ Carrier(u) => (Holding(u)' <=> Holding(u))
  BY <1>1 DEF Holding
<1>4. ~Queued(g)' /\ \A f \in Fibers : f # g => (Queued(f)' <=> Queued(f))
  BY DEF Queued
<1>5. \A f \in Fibers : f # g => (Unused(f)' <=> Unused(f))
  BY <1>1, <1>4 DEF Unused, Has
<1>6. CarryOK'
  <2>1. m_state'[g] \in StatesAt(label)
    BY DEF StatesAt
  <2>. QED
    BY <1>1, <1>2, <2>1 DEF CarryOK
<1>7. MeetOK'
  <2>1. ASSUME NEW u \in Threads, Carrier(u), u # t
        PROVE  /\ \A thread \in Threads \cup {AnyThread} :
                    Waits(Cur(u), thread)' => thread = u /\ Holding(u)'
               /\ armed'[Cur(u)] # Null => armed'[Cur(u)] = u /\ Holding(u)'
    BY <1>1, <1>3, <2>1 DEF MeetOK
  <2>2. /\ \A thread \in Threads \cup {AnyThread} : ~Waits(Cur(t), thread)'
        /\ armed'[Cur(t)'] = Null
    OBVIOUS
  <2>. QED
    BY <1>1, <2>1, <2>2 DEF MeetOK
<1>8. KnownOK'
  BY <1>4 DEF KnownOK
<1>9. SpareOK'
  <2>1. ASSUME NEW u \in Threads, cb_fiber[u] # Null, cb_fiber[u] # g,
               cb_fiber'[u] = cb_fiber[u]
        PROVE  /\ m_state'[cb_fiber[u]] # "NONE"
               /\ ~(HasFiber(u) /\ ft[u].fiber = Null) =>
                    /\ Unused(cb_fiber[u])'
                    /\ m_state'[cb_fiber[u]] = "INIT" /\ m_cb'[cb_fiber[u]] = Null
    <3>1. cb_fiber[u] \in Fibers
      BY <2>1 DEF IInv, TypeOK, Fibers
    <3>. QED
      BY <1>5, <2>1, <3>1 DEF SpareOK
  <2>2. ~HasFiber(t)
    BY DEF Carrier
  <2>3. cb_fiber'[t] = g /\ label = "swapin" /\ ft'[t].fiber = Null =>
          /\ m_state'[g] # "NONE"
          /\ HasFiber(t)'
    BY <1>2 DEF Resumable, HasFiber
  <2>4. \A u, v \in Threads :
          cb_fiber'[u] # Null /\ cb_fiber'[u] = cb_fiber'[v] => u = v
    BY DEF SpareOK
  <2>5. ASSUME NEW u \in Threads, u # t, cb_fiber'[u] # Null
        PROVE  /\ m_state'[cb_fiber'[u]] # "NONE"
               /\ ~(HasFiber(u)' /\ ft'[u].fiber = Null) =>
                    /\ Unused(cb_fiber[u])'
                    /\ m_state'[cb_fiber'[u]] = "INIT" /\ m_cb'[cb_fiber'[u]] = Null
    BY <1>1, <2>1, <2>5
  <2>6. ASSUME cb_fiber'[t] # Null
        PROVE  /\ m_state'[cb_fiber'[t]] # "NONE"
               /\ ~(HasFiber(t)' /\ ft'[t].fiber = Null) =>
                    /\ Unused(cb_fiber[t])'
                    /\ m_state'[cb_fiber'[t]] = "INIT" /\ m_cb'[cb_fiber'[t]] = Null
    <3>1. CASE cb_fiber'[t] = g /\ label = "swapin" /\ ft'[t].fiber = Null
      BY <2>3, <3>1
    <3>2. CASE cb_fiber'[t] = cb_fiber[t] /\ cb_fiber[t] # g
      BY <2>1, <2>2, <2>6, <3>2
    <3>. QED
      BY <3>1, <3>2
  <2>. QED
    BY <2>4, <2>5, <2>6 DEF SpareOK
<1>10. NewOK'
  BY <1>5 DEF NewOK, Fibers, Resumable
<1>11. HoldsOK'
  BY DEF HoldsOK
<1>. QED
  BY <1>6, <1>7, <1>8, <1>9, <1>10, <1>11

\* schedule() appends the fibers of G for the given thread.
LEMMA EnqueueStep ==
  ASSUME IInv, Tokens, NEW G \in SUBSET Fibers,
         NEW target \in Threads \cup {AnyThread},
         UNCHANGED <<pc, ft, cb_fiber, m_state, m_cb, holdLeft>>,
         QueueOK',
         \A f \in Fibers, thread \in Threads \cup {AnyThread} :
           Waits(f, thread)' <=> Waits(f, thread) \/ (f \in G /\ thread = target),
         \A f \in Fibers : armed'[f] = IF f \in G THEN Null ELSE armed[f],
         \A f \in G : m_state[f] \in Resumable \cup {"EXEC"},
         \A f \in G, u \in Threads : Has(u, f) => target = u /\ Holding(u),
         \A f \in G, u \in Threads :
           cb_fiber[u] = f => HasFiber(u) /\ ft[u].fiber = Null,
         \A f \in ClientFibers : want'[f] = Null => want[f] = Null /\ f \notin G
  PROVE  Tokens'
<1>. USE DEF Tokens
<1>1. \A u \in Threads :
        /\ Cur(u)' = Cur(u)
        /\ Carrier(u)' <=> Carrier(u)
        /\ HasFiber(u)' <=> HasFiber(u)
        /\ Holding(u)' <=> Holding(u)
        /\ Carrier(u) => Cur(u) \in Fibers
  BY CarrierFiber DEF Cur, Carrier, HasFiber, Holding
<1>2. \A f \in Fibers : /\ f \notin G => (Queued(f)' <=> Queued(f))
                        /\ f \notin G => (Unused(f)' <=> Unused(f))
  BY <1>1 DEF Queued, Unused, Has
<1>3. CarryOK'
  BY <1>1 DEF CarryOK
<1>4. MeetOK'
  <2>1. ASSUME NEW u \in Threads, Carrier(u)
        PROVE  /\ \A thread \in Threads \cup {AnyThread} :
                    Waits(Cur(u), thread)' => thread = u /\ Holding(u)'
               /\ armed'[Cur(u)] # Null => armed'[Cur(u)] = u /\ Holding(u)'
    BY <1>1, <2>1 DEF MeetOK, Has
  <2>. QED
    BY <1>1, <2>1 DEF MeetOK
<1>5. KnownOK'
  BY <1>2 DEF KnownOK
<1>6. SpareOK'
  <2>1. ASSUME NEW u \in Threads, cb_fiber[u] # Null,
               ~(HasFiber(u) /\ ft[u].fiber = Null)
        PROVE  Unused(cb_fiber[u])'
    <3>1. cb_fiber[u] \in Fibers /\ cb_fiber[u] \notin G
      BY <2>1 DEF IInv, TypeOK, Fibers
    <3>. QED
      BY <1>2, <2>1, <3>1 DEF SpareOK
  <2>. QED
    BY <1>1, <2>1 DEF SpareOK
<1>7. NewOK'
  BY <1>2 DEF NewOK, Fibers, Resumable
<1>8. HoldsOK'
  BY DEF HoldsOK
<1>. QED
  BY <1>3, <1>4, <1>5, <1>6, <1>7, <1>8

-----------------------------------------------------------------------------
(***************************************************************************)
(* The inductive step for Tokens, one action at a time.                    *)
(***************************************************************************)

\* A step that leaves the queue alone leaves what waits in it alone.
LEMMA SameQueue ==
  ASSUME QueueOK, UNCHANGED m_tasks
  PROVE  /\ QueueOK'
         /\ \A f, thread : Waits(f, thread)' <=> Waits(f, thread)
BY DEF QueueOK, Waits

\* run() takes a task off the queue.
LEMMA TakeTokens ==
  ASSUME IInv, Tokens, NEW t \in Threads, RunTake(t)
  PROVE  Tokens'
<1>. DEFINE i == it[t]
<1>1. PICK task \in Task : task = m_tasks[i] /\ i \in 1..Len(m_tasks)
  BY ElementIsTask DEF RunTake, At, IInv, TypeOK, LocalsOK
<1>2. /\ task.fiber \in Fibers \cup {Null}
      /\ task.thread \in Threads \cup {AnyThread}
  BY DEF Task
<1>3. /\ QueueOK'
      /\ \A f \in Fibers, thread \in Threads \cup {AnyThread} :
           Waits(f, thread)' <=> Waits(f, thread) /\ f # task.fiber
  BY <1>1, TakeQueueOK, TakeWaits DEF RunTake, IInv, Tokens
<1>4. /\ pc[t] = "scan" /\ pc' = [pc EXCEPT ![t] = "dispatch"]
      /\ ft' = [ft EXCEPT ![t] = task]
      /\ ~MustSkip(t, task)
      /\ UNCHANGED <<m_state, m_cb, armed, want, holdLeft, cb_fiber>>
  BY <1>1 DEF RunTake, At, GoTo, fiberVars, envVars, clientVars
<1>5. /\ pc'[t] = "dispatch" /\ ft'[t] = task
      /\ \A u \in Threads \ {t} : pc'[u] = pc[u] /\ ft'[u] = ft[u]
      /\ ~Carrier(t) /\ ~HasFiber(t) /\ ~HasFiber(t)'
  BY <1>4 DEF Carrier, HasFiber, IInv, TypeOK
<1>6. CASE task.fiber = Null
  <2>1. ~Carrier(t)'
    BY <1>5, <1>6 DEF Carrier, HasFiber
  <2>2. \A u \in Threads :
           /\ Carrier(u)' <=> Carrier(u)
           /\ HasFiber(u)' <=> HasFiber(u)
    BY <1>5, <2>1 DEF Carrier, HasFiber
  <2>3. \A f \in Fibers : f # task.fiber
    BY <1>6, ClientAssumption
  <2>. QED
    BY <1>3, <1>4, <1>5, <2>2, <2>3, QuietStep
<1>7. CASE task.fiber # Null
  <2>1. PICK g \in Fibers : g = task.fiber
    BY <1>2, <1>7
  <2>2. Waits(g, task.thread) /\ Queued(g)
    BY <1>1, <1>2, <2>1 DEF Waits, Queued
  <2>3. ~Unused(g) /\ armed[g] = Null /\ m_state[g] \in Resumable
    BY <1>4, <1>7, <2>1, <2>2 DEF Unused, Tokens, KnownOK, MustSkip
  <2>4. \A u \in Threads : ~Has(u, g)
    <3>. SUFFICES ASSUME NEW u \in Threads, Has(u, g) PROVE FALSE
      OBVIOUS
    <3>1. task.thread = u
      BY <1>2, <2>2 DEF Has, Tokens, MeetOK
    <3>2. u = t
      BY <1>4, <3>1, ThreadsAssumption DEF MustSkip
    <3>. QED
      BY <1>5, <3>2 DEF Has
  <2>5. \A u \in Threads : cb_fiber[u] # g
    <3>. SUFFICES ASSUME NEW u \in Threads, cb_fiber[u] = g PROVE FALSE
      OBVIOUS
    <3>1. HasFiber(u) /\ ft[u].fiber = Null
      BY <2>1, <2>3, <1>7 DEF Tokens, SpareOK
    <3>. QED
      BY <2>4, <3>1 DEF Has, Carrier, Cur
  <2>6. g \in ClientFibers => want[g] # Null
    BY <2>3 DEF Tokens, NewOK
  <2>7. Carrier(t)' /\ Cur(t)' = g
    BY <1>5, <1>7, <2>1 DEF Carrier, Cur
  <2>. QED
    BY <1>3, <1>4, <1>5, <2>1, <2>3, <2>4, <2>5, <2>6, <2>7, AcquireStep
<1>. QED
  BY <1>6, <1>7

\* run() makes or reuses a fiber to host a callback, or aborts in reset().
LEMMA CbTokens ==
  ASSUME IInv, Tokens, NEW t \in Threads, NEW f \in HostFibers, RunCb(t, f)
  PROVE  Tokens' /\ UNCHANGED failed
<1>. USE DEF Tokens
<1>1. ft[t] \in Task /\ ft[t].fiber = Null /\ pc[t] = "dispatch"
  BY ClientAssumption DEF RunCb, At, IInv, TypeOK, Task, NoTask
<1>2. ~Carrier(t) /\ ~HasFiber(t)
  BY <1>1 DEF Carrier, HasFiber
<1>3. f \in Fibers /\ f # Null /\ f \notin ClientFibers
  BY ClientAssumption DEF Fibers
<1>4. /\ Unused(f) /\ m_state[f] \in {"INIT", "NONE"}
      /\ \A u \in Threads \ {t} : cb_fiber[u] # f
  <2>1. CASE f = cb_fiber[t]
    BY <1>2, <1>3, <2>1 DEF SpareOK
  <2>2. CASE m_state[f] = "NONE"
    BY <1>3, <2>2 DEF SpareOK, NewOK
  <2>. QED
    BY <2>1, <2>2 DEF RunCb
<1>5. /\ m_state' = [m_state EXCEPT ![f] = "INIT"]
      /\ m_cb' = [m_cb EXCEPT ![f] = ft[t].cb]
      /\ cb_fiber' = [cb_fiber EXCEPT ![t] = f]
      /\ ft' = [ft EXCEPT ![t] = NoTask]
      /\ pc' = [pc EXCEPT ![t] = "swapin"]
      /\ UNCHANGED <<m_tasks, armed, want, holdLeft, failed>>
  BY <1>4 DEF RunCb, SetState, GoTo, queueVars, envVars, clientVars
<1>6. /\ m_state'[f] = "INIT"
      /\ \A g \in Fibers : g # f => m_state'[g] = m_state[g] /\ m_cb'[g] = m_cb[g]
  BY <1>3, <1>5 DEF IInv, TypeOK
<1>7. /\ pc'[t] = "swapin" /\ ft'[t] = NoTask /\ cb_fiber'[t] = f
      /\ \A u \in Threads \ {t} : ft'[u] = ft[u] /\ cb_fiber'[u] = cb_fiber[u]
  BY <1>5 DEF IInv, TypeOK
<1>8. Carrier(t)' /\ Cur(t)' = f /\ ft'[t].fiber = Null
  BY <1>7 DEF Carrier, HasFiber, Cur, NoTask
<1>9. /\ QueueOK'
      /\ \A g, thread : Waits(g, thread)' <=> Waits(g, thread)
  BY <1>5, SameQueue
<1>10. \A thread \in Threads \cup {AnyThread} : ~Waits(f, thread)
  BY <1>4 DEF Unused, Queued
<1>11. /\ \A u \in Threads : ~Has(u, f)
       /\ armed[f] = Null
  BY <1>4 DEF Unused
<1>12. m_state'[f] \in Resumable
  BY <1>6 DEF Resumable
<1>13. Tokens'
  BY ZenonT(30), <1>2, <1>3, <1>4, <1>5, <1>6, <1>7, <1>8, <1>9, <1>10, <1>11, <1>12,
     AcquireStep
<1>. QED
  BY <1>5, <1>13

\* A thread goes on with its fiber in the same state: RunFiber, SwapOut,
\* RunAfter and the look at m_state behind it.
LEMMA GoOnTokens ==
  ASSUME IInv, Tokens, NEW t \in Threads,
         \/ RunFiber(t) \/ SwapOut(t) \/ RunAfter(t) \/ RunPostReady(t)
         \/ RunPostHold(t)
  PROVE  Tokens'
<1>1. Carrier(t)
  BY DEF RunFiber, SwapOut, RunAfter, RunPostReady, RunPostHold, At, Carrier,
         HasFiber, HasLiveFiber
<1>2. PICK g \in Fibers : g = Cur(t)
  BY <1>1, CarrierFiber
<1>3. PICK label :
        /\ pc' = [pc EXCEPT ![t] = label]
        /\ label \in {"swapin", "after", "post", "sethold", "resched"}
        /\ m_state[g] \in StatesAt(label)
        /\ Holding(t) => label \in {"after", "post", "sethold"}
                         /\ m_state[g] = "HOLD"
  <2>1. m_state[g] \in StatesAt(pc[t])
    BY <1>1, <1>2 DEF Tokens, CarryOK
  <2>2. CASE RunFiber(t)
    BY <1>2, <2>1, <2>2 DEF RunFiber, At, GoTo, StatesAt, Holding
  <2>3. CASE SwapOut(t)
    BY <1>2, <2>1, <2>3 DEF SwapOut, At, GoTo, StatesAt, Holding
  <2>4. CASE RunAfter(t)
    BY <1>2, <2>1, <2>4 DEF RunAfter, At, GoTo, StatesAt, Holding
  <2>5. CASE RunPostReady(t)
    BY <1>2, <2>1, <2>5 DEF RunPostReady, At, GoTo, StatesAt, Holding
  <2>6. CASE RunPostHold(t)
    BY <1>2, <2>1, <2>6 DEF RunPostHold, At, GoTo, StatesAt, Holding
  <2>. QED
    BY <2>2, <2>3, <2>4, <2>5, <2>6
<1>4. UNCHANGED <<m_tasks, m_state, m_cb, armed, want, holdLeft, ft, cb_fiber>>
  BY DEF RunFiber, SwapOut, RunAfter, RunPostReady, RunPostHold, queueVars,
         taskVars, fiberVars, localVars, clientVars
<1>5. PICK s \in FiberState : s = m_state[g]
  BY DEF IInv, TypeOK
<1>6. m_state' = [m_state EXCEPT ![Cur(t)] = s]
  BY <1>2, <1>4, <1>5 DEF IInv, TypeOK
<1>7. HasFiber(t) \/ ft[t].fiber # Null
  BY <1>1 DEF Carrier
<1>8. Holding(t) => Holding(t)'
  <2>1. pc'[t] = label /\ Cur(t)' = g
    BY <1>2, <1>3, <1>4 DEF IInv, TypeOK, Cur
  <2>. QED
    BY <1>2, <1>3, <1>4, <2>1 DEF Holding
<1>9. holdLeft' <= holdLeft /\ holdLeft' \in Nat
  BY <1>4 DEF IInv, TypeOK
<1>. QED
  BY <1>1, <1>2, <1>3, <1>4, <1>5, <1>6, <1>7, <1>8, <1>9, AdvanceStep

\* swapIn() finds a fiber that neither executes nor has ended.
LEMMA SwapInTokens ==
  ASSUME IInv, Tokens, NEW t \in Threads, SwapIn(t)
  PROVE  Tokens' /\ UNCHANGED failed
<1>1. Carrier(t) /\ HasFiber(t) /\ pc[t] = "swapin"
  BY DEF SwapIn, At, Carrier, HasFiber
<1>2. m_state[Cur(t)] \notin Finished \cup {"EXEC"}
  BY <1>1 DEF Tokens, CarryOK, StatesAt, Resumable, Finished
<1>3. /\ m_state' = [m_state EXCEPT ![Cur(t)] = "EXEC"]
      /\ pc' = [pc EXCEPT ![t] = "exec"]
      /\ UNCHANGED <<m_tasks, m_cb, armed, want, holdLeft, ft, cb_fiber, failed>>
  BY <1>2 DEF SwapIn, SetState, GoTo, queueVars, localVars, envVars, clientVars
<1>4. "EXEC" \in StatesAt("exec") /\ "EXEC" \in FiberState
  BY DEF StatesAt, FiberState
<1>5. ~Holding(t)
  BY <1>1 DEF Holding
<1>6. holdLeft' <= holdLeft /\ holdLeft' \in Nat
  BY <1>3 DEF IInv, TypeOK
<1>7. Tokens'
  BY <1>1, <1>3, <1>4, <1>5, <1>6, AdvanceStep
<1>. QED
  BY <1>3, <1>7

\* The yields and the end of a body, in a fiber that executes.
LEMMA YieldTokens ==
  ASSUME IInv, Tokens, NEW t \in Threads,
         \/ YieldToReady(t) \/ YieldToHold(t)
         \/ \E s \in Finished : Finish(t, s)
  PROVE  Tokens' /\ UNCHANGED failed
<1>1. Carrier(t) /\ HasFiber(t) /\ pc[t] \in {"exec", "hold"}
  BY DEF YieldToReady, YieldToHold, Finish, At, Carrier, HasFiber
<1>2. m_state[Cur(t)] = "EXEC"
  BY <1>1 DEF Tokens, CarryOK, StatesAt
<1>3. PICK s \in FiberState :
        /\ m_state' = [m_state EXCEPT ![Cur(t)] = s]
        /\ s \in {"READY", "HOLD"} \cup Finished
        /\ pc[t] = "hold" => s = "HOLD"
  BY <1>2 DEF YieldToReady, YieldToHold, Finish, SetState, FiberState, Finished, At
<1>4. /\ pc' = [pc EXCEPT ![t] = "swapout"]
      /\ UNCHANGED <<m_tasks, armed, want, holdLeft, ft, cb_fiber, failed>>
  BY <1>2 DEF YieldToReady, YieldToHold, Finish, GoTo, queueVars, localVars,
              envVars, clientVars
<1>5. \A f \in Fibers : f # Cur(t) => m_cb'[f] = m_cb[f]
  BY <1>2 DEF YieldToReady, YieldToHold, Finish, IInv, TypeOK
<1>6. s \in StatesAt("swapout")
  BY <1>3 DEF StatesAt
<1>7. Holding(t) => Holding(t)'
  <2>1. Cur(t) \in Fibers /\ Cur(t)' = Cur(t) /\ pc'[t] = "swapout"
    BY <1>1, <1>4, CarrierFiber DEF IInv, TypeOK, Cur
  <2>2. m_state'[Cur(t)] = s
    BY <1>3, <2>1 DEF IInv, TypeOK
  <2>. QED
    BY <1>1, <1>3, <2>1, <2>2 DEF Holding
<1>8. holdLeft' <= holdLeft /\ holdLeft' \in Nat
  BY <1>4 DEF IInv, TypeOK
<1>9. Tokens'
  BY <1>1, <1>3, <1>4, <1>5, <1>6, <1>7, <1>8, AdvanceStep
<1>. QED
  BY <1>4, <1>9

\* A body tells a waker about its fiber.
LEMMA ArmTokens ==
  ASSUME IInv, Tokens, NEW t \in Threads, Arm(t)
  PROVE  Tokens'
<1>1. Carrier(t) /\ HasFiber(t) /\ pc[t] = "exec"
  BY DEF Arm, At, Carrier, HasFiber
<1>2. m_state[Cur(t)] = "EXEC" /\ Cur(t) \in Fibers
  BY <1>1, CarrierFiber DEF Tokens, CarryOK, StatesAt
<1>3. /\ pc' = [pc EXCEPT ![t] = "hold"]
      /\ armed' = [armed EXCEPT ![Cur(t)] = t]
      /\ holdLeft > 0 /\ holdLeft' = holdLeft - 1
      /\ UNCHANGED <<m_tasks, m_state, m_cb, want, ft, cb_fiber>>
  BY DEF Arm, GoTo, queueVars, fiberVars, localVars
<1>4. "EXEC" \in StatesAt("hold") /\ "EXEC" \in FiberState
  BY DEF StatesAt, FiberState
<1>5. ~Holding(t)
  BY <1>1 DEF Holding
<1>6. holdLeft' <= holdLeft /\ holdLeft' \in Nat
  BY <1>3 DEF IInv, TypeOK
<1>7. m_state' = [m_state EXCEPT ![Cur(t)] = "EXEC"]
  BY <1>2, <1>3 DEF IInv, TypeOK
<1>. QED
  BY <1>1, <1>3, <1>4, <1>5, <1>6, <1>7, AdvanceStep

\* run() lets go of a fiber that finished; it keeps the one that hosts callbacks.
LEMMA PostFinishedTokens ==
  ASSUME IInv, Tokens, NEW t \in Threads, RunPostFinished(t)
  PROVE  Tokens'
<1>1. Carrier(t) /\ HasFiber(t) /\ pc[t] = "post"
  BY DEF RunPostFinished, At, Carrier, HasFiber
<1>2. PICK g \in Fibers : g = Cur(t)
  BY <1>1, CarrierFiber
<1>3. m_state[g] \in Finished /\ ~Holding(t)
  BY <1>1, <1>2 DEF RunPostFinished, Holding, Finished
<1>4. ~Queued(g) /\ armed[g] = Null
  BY <1>1, <1>2, <1>3 DEF Tokens, MeetOK, Queued
<1>5. PICK s \in FiberState \ {"NONE"} :
        /\ m_state' = [m_state EXCEPT ![g] = s]
        /\ ft[t].fiber = Null => s = "INIT" /\ m_cb'[g] = Null
  <2>1. CASE ft[t].fiber = Null
    BY <1>2, <2>1 DEF RunPostFinished, SetState, FiberState, IInv, TypeOK
  <2>2. CASE ft[t].fiber # Null
    <3>1. m_state' = [m_state EXCEPT ![g] = m_state[g]]
      BY <2>2 DEF RunPostFinished, fiberVars, IInv, TypeOK
    <3>. QED
      BY <1>3, <2>2, <3>1 DEF FiberState, Finished
  <2>. QED
    BY <2>1, <2>2
<1>6. \A f \in Fibers : f # g => m_cb'[f] = m_cb[f]
  BY <1>2 DEF RunPostFinished, fiberVars, IInv, TypeOK
<1>7. /\ pc' = [pc EXCEPT ![t] = "loop"] /\ ft' = [ft EXCEPT ![t] = NoTask]
      /\ UNCHANGED <<m_tasks, cb_fiber, armed, want, holdLeft>>
  BY DEF RunPostFinished, GoTo, queueVars, envVars, clientVars
<1>8. /\ QueueOK'
      /\ \A f, thread : Waits(f, thread)' <=> Waits(f, thread)
  BY <1>7, SameQueue DEF Tokens
<1>9. ~Queued(g)'
  BY <1>4, <1>8 DEF Queued
<1>. QED
  BY <1>1, <1>2, <1>4, <1>5, <1>6, <1>7, <1>8, <1>9, LetGoStep

\* run() lets go of a fiber that holds: m_state is HOLD already.
LEMMA SetHoldTokens ==
  ASSUME IInv, Tokens, NEW t \in Threads, RunSetHold(t)
  PROVE  Tokens' /\ UNCHANGED m_state
<1>1. Carrier(t) /\ HasFiber(t) /\ pc[t] = "sethold"
  BY DEF RunSetHold, At, Carrier, HasFiber
<1>2. PICK g \in Fibers : g = Cur(t)
  BY <1>1, CarrierFiber
<1>3. m_state[g] = "HOLD"
  BY <1>1, <1>2 DEF Tokens, CarryOK, StatesAt
<1>4. /\ m_state' = [m_state EXCEPT ![g] = "HOLD"]
      /\ pc' = [pc EXCEPT ![t] = "loop"] /\ ft' = [ft EXCEPT ![t] = NoTask]
      /\ cb_fiber' \in {cb_fiber, [cb_fiber EXCEPT ![t] = Null]}
      /\ ft[t].fiber # Null => cb_fiber' = cb_fiber
      /\ ft[t].fiber = Null => cb_fiber' = [cb_fiber EXCEPT ![t] = Null]
      /\ UNCHANGED <<m_tasks, m_cb, armed, want, holdLeft>>
  BY <1>2 DEF RunSetHold, SetState, GoTo, queueVars, envVars, clientVars
<1>5. /\ QueueOK'
      /\ \A f, thread : Waits(f, thread)' <=> Waits(f, thread)
  BY <1>4, SameQueue DEF Tokens
<1>6. Queued(g)' => "HOLD" \in Resumable /\ armed[g] = Null
  BY <1>5 DEF Resumable, Queued, Tokens, KnownOK
<1>7. ft[t].fiber = Null => cb_fiber' # cb_fiber
  BY <1>2, <1>4, ClientAssumption DEF Cur, IInv, TypeOK
<1>8. "HOLD" \in FiberState \ {"NONE"}
  BY DEF FiberState
<1>9. Tokens'
  BY <1>1, <1>2, <1>4, <1>5, <1>6, <1>7, <1>8, LetGoStep
<1>. QED
  BY <1>3, <1>4, <1>9 DEF IInv, TypeOK

\* run() schedules a fiber that yielded to ready, and lets go of it.
LEMMA ReschedTokens ==
  ASSUME IInv, Tokens, NEW t \in Threads, RunResched(t)
  PROVE  Tokens'
<1>1. Carrier(t) /\ HasFiber(t) /\ pc[t] = "resched" /\ ~Holding(t)
  BY DEF RunResched, At, Carrier, HasFiber, Holding
<1>2. PICK g \in Fibers : g = Cur(t)
  BY <1>1, CarrierFiber
<1>3. m_state[g] = "READY" /\ ~Queued(g) /\ armed[g] = Null /\ g # Null
  BY <1>1, <1>2, CarrierFiber DEF Tokens, CarryOK, StatesAt, MeetOK, Queued
<1>4. PICK task \in Task : task = [fiber |-> g, cb |-> Null, thread |-> AnyThread]
  BY FiberTaskType
<1>5. /\ m_tasks' = m_tasks \o <<task>>
      /\ pc' = [pc EXCEPT ![t] = "loop"] /\ ft' = [ft EXCEPT ![t] = NoTask]
      /\ cb_fiber' \in {cb_fiber, [cb_fiber EXCEPT ![t] = Null]}
      /\ ft[t].fiber # Null => cb_fiber' = cb_fiber
      /\ ft[t].fiber = Null => cb_fiber' = [cb_fiber EXCEPT ![t] = Null]
      /\ UNCHANGED <<m_state, m_cb, armed, want, holdLeft>>
  BY <1>2, <1>4 DEF RunResched, scheduleNoLock, GoTo, fiberVars, envVars, clientVars
<1>6. task.fiber = g /\ task.thread = AnyThread
  BY <1>4
<1>7. /\ QueueOK'
      /\ \A f, thread : Waits(f, thread)' <=>
                          Waits(f, thread) \/ (g = f /\ AnyThread = thread)
  BY <1>3, <1>5, <1>6, AppendWaits DEF Tokens, IInv
<1>8. m_state' = [m_state EXCEPT ![g] = "READY"]
  BY <1>3, <1>5 DEF IInv, TypeOK
<1>9. ft[t].fiber = Null => cb_fiber' # cb_fiber
  BY <1>2, <1>5, ClientAssumption DEF Cur, IInv, TypeOK
<1>10. "READY" \in FiberState \ {"NONE"} /\ "READY" \in Resumable
  BY DEF FiberState, Resumable
<1>11. /\ \A f \in Fibers, thread \in Threads \cup {AnyThread} :
            f # g => (Waits(f, thread)' <=> Waits(f, thread))
       /\ \A f \in Fibers : f # g => m_cb'[f] = m_cb[f]
  BY <1>5, <1>7
<1>12. /\ Queued(g)' => "READY" \in Resumable /\ armed[g] = Null
       /\ armed[g] # Null => "READY" = "HOLD"
  BY <1>3, <1>10
<1>. QED
  BY <1>1, <1>2, <1>5, <1>7, <1>8, <1>9, <1>10, <1>11, <1>12, LetGoStep

\* schedule() of a fiber that the client has not scheduled yet, or a callback.
LEMMA ScheduleTokens ==
  ASSUME OneHandover, IInv, Tokens, NEW t \in Threads, NEW b \in Bodies,
         NEW thread \in Pins, Schedule(t, b, thread)
  PROVE  Tokens'
<1>. DEFINE G == {b} \cap ClientFibers
<1>1. thread \in Threads \cup {AnyThread} /\ G \in SUBSET Fibers
  BY ClientAssumption DEF Fibers
<1>2. PICK task \in Task : task = TaskOf(b, thread)
  BY <1>1, TaskOfType
<1>3. /\ task.thread = thread
      /\ task.fiber = IF b \in ClientFibers THEN b ELSE Null
  BY <1>2, ClientAssumption DEF TaskOf, Bodies, Fibers
<1>4. want[b] = Null
  BY DEF Schedule, MaySchedule, OneHandover
<1>5. /\ m_tasks' = m_tasks \o <<task>>
      /\ want' = [want EXCEPT ![b] = thread]
      /\ UNCHANGED <<pc, ft, cb_fiber, m_state, m_cb, armed, holdLeft>>
  BY <1>2 DEF Schedule, scheduleNoLock, poolVars, fiberVars, localVars
<1>6. \A f \in G : /\ Unused(f) /\ m_state[f] = "INIT" /\ f # Null
                   /\ f \in ClientFibers
  BY <1>4, ClientAssumption DEF Tokens, NewOK, Fibers
<1>7. \A f \in Fibers : f # Null
  BY ClientAssumption
<1>8. /\ QueueOK'
      /\ \A f \in Fibers, th \in Threads \cup {AnyThread} :
           Waits(f, th)' <=> Waits(f, th) \/ (f \in G /\ th = thread)
  <2>1. task.fiber # Null => ~Queued(task.fiber)
    BY <1>3, <1>6 DEF Unused
  <2>2. /\ QueueOK'
        /\ \A f, th : Waits(f, th)' <=>
             Waits(f, th) \/ (task.fiber = f /\ task.thread = th)
    BY <1>5, <2>1, AppendWaits DEF Tokens, IInv
  <2>. QED
    BY <1>3, <1>7, <2>2
<1>9. /\ \A f \in Fibers : armed'[f] = IF f \in G THEN Null ELSE armed[f]
      /\ \A f \in G, u \in Threads : ~Has(u, f)
  BY <1>5, <1>6 DEF Unused
<1>10. \A f \in G, u \in Threads : cb_fiber[u] # f
  BY <1>6, ClientAssumption DEF IInv, TypeOK
<1>11. \A f \in ClientFibers : want'[f] = Null => want[f] = Null /\ f \notin G
  BY <1>1, <1>5, ThreadsAssumption DEF IInv, TypeOK, Bodies
<1>12. \A f \in G : m_state[f] \in Resumable \cup {"EXEC"}
  BY <1>6 DEF Resumable
<1>. HIDE DEF G
<1>. QED
  BY <1>1, <1>5, <1>8, <1>9, <1>10, <1>11, <1>12, EnqueueStep

\* The same for a range of two.
LEMMA ScheduleRangeTokens ==
  ASSUME OneHandover, IInv, Tokens, NEW t \in Threads, NEW b1 \in Bodies,
         NEW b2 \in Bodies, ScheduleRange(t, b1, b2)
  PROVE  Tokens'
<1>. DEFINE G == {b1, b2} \cap ClientFibers
<1>1. AnyThread \in Threads \cup {AnyThread} /\ G \in SUBSET Fibers
  BY DEF Fibers
<1>2. PICK x1 \in Task, x2 \in Task :
        x1 = TaskOf(b1, AnyThread) /\ x2 = TaskOf(b2, AnyThread)
  BY TaskOfType
<1>3. /\ x1.thread = AnyThread /\ x2.thread = AnyThread
      /\ x1.fiber = IF b1 \in ClientFibers THEN b1 ELSE Null
      /\ x2.fiber = IF b2 \in ClientFibers THEN b2 ELSE Null
  BY <1>2, ClientAssumption DEF TaskOf, Bodies, Fibers
<1>4. b1 # b2 /\ want[b1] = Null /\ want[b2] = Null
  BY DEF ScheduleRange
<1>5. /\ m_tasks' = m_tasks \o <<x1, x2>>
      /\ want' = [want EXCEPT ![b1] = AnyThread, ![b2] = AnyThread]
      /\ UNCHANGED <<pc, ft, cb_fiber, m_state, m_cb, armed, holdLeft>>
  BY <1>2 DEF ScheduleRange, scheduleNoLock, poolVars, fiberVars, localVars
<1>6. \A f \in G : /\ Unused(f) /\ m_state[f] = "INIT" /\ f # Null
                   /\ f \in ClientFibers
  BY <1>4, ClientAssumption DEF Tokens, NewOK, Fibers
<1>7. \A f \in Fibers : f # Null
  BY ClientAssumption
<1>8. /\ QueueOK'
      /\ \A f \in Fibers, th \in Threads \cup {AnyThread} :
           Waits(f, th)' <=> Waits(f, th) \/ (f \in G /\ th = AnyThread)
  <2>1. \A f \in {x1.fiber, x2.fiber} : f # Null => ~Queued(f)
    BY <1>3, <1>6 DEF Unused
  <2>2. x1.fiber # Null => x1.fiber # x2.fiber
    BY <1>3, <1>4
  <2>3. /\ QueueOK'
        /\ \A f, th : Waits(f, th)' <=>
             \/ Waits(f, th)
             \/ x1.fiber = f /\ x1.thread = th
             \/ x2.fiber = f /\ x2.thread = th
    BY <1>5, <2>1, <2>2, AppendTwoWaits DEF Tokens, IInv
  <2>. QED
    BY <1>3, <1>7, <2>3
<1>9. /\ \A f \in Fibers : armed'[f] = IF f \in G THEN Null ELSE armed[f]
      /\ \A f \in G, u \in Threads : ~Has(u, f)
  BY <1>5, <1>6 DEF Unused
<1>10. \A f \in G, u \in Threads : cb_fiber[u] # f
  BY <1>6, ClientAssumption DEF IInv, TypeOK
<1>11. \A f \in ClientFibers : want'[f] = Null => want[f] = Null /\ f \notin G
  BY <1>1, <1>5, ThreadsAssumption DEF IInv, TypeOK, Bodies
<1>12. \A f \in G : m_state[f] \in Resumable \cup {"EXEC"}
  BY <1>6 DEF Resumable
<1>. HIDE DEF G
<1>. QED
  BY <1>1, <1>5, <1>8, <1>9, <1>10, <1>11, <1>12, EnqueueStep

\* A wake-up goes to the thread on which the fiber holds, or held.
LEMMA WakeTokens ==
  ASSUME IInv, Tokens, NEW f \in Fibers, Wake(f)
  PROVE  Tokens'
<1>. USE DEF Tokens
<1>1. WakeHome /\ armed[f] # Null /\ armed[f] \in Threads
  BY DEF Wake, HoldsOK, IInv, TypeOK
<1>2. PICK home \in Threads : home = armed[f]
  BY <1>1
<1>3. PICK task \in Task : task = [fiber |-> f, cb |-> Null, thread |-> home]
  BY <1>2, FiberTaskType
<1>4. /\ m_tasks' = m_tasks \o <<task>>
      /\ armed' = [armed EXCEPT ![f] = Null]
      /\ UNCHANGED <<pc, ft, cb_fiber, m_state, m_cb, want, holdLeft>>
  BY <1>1, <1>2, <1>3 DEF Wake, scheduleNoLock, poolVars, fiberVars, localVars
<1>5. task.fiber = f /\ task.thread = home
  BY <1>3
<1>6. ~Queued(f) /\ m_state[f] \in Resumable \cup {"EXEC"}
  BY <1>1 DEF KnownOK, Resumable
<1>7. /\ QueueOK'
      /\ \A g, th : Waits(g, th)' <=> Waits(g, th) \/ (f = g /\ home = th)
  BY <1>4, <1>5, <1>6, AppendWaits DEF IInv
<1>8. \A g \in Fibers : armed'[g] = IF g \in {f} THEN Null ELSE armed[g]
  BY <1>4 DEF IInv, TypeOK
<1>9. \A u \in Threads : Has(u, f) => home = u /\ Holding(u)
  BY <1>1, <1>2 DEF MeetOK, Has
<1>10. \A u \in Threads : cb_fiber[u] = f => HasFiber(u) /\ ft[u].fiber = Null
  BY <1>1, ClientAssumption DEF SpareOK, Unused
<1>11. \A g \in ClientFibers : want'[g] = Null => want[g] = Null /\ g \notin {f}
  BY <1>1, <1>4 DEF NewOK, Unused
<1>12. PICK G \in SUBSET Fibers : G = {f}
  OBVIOUS
<1>13. /\ \A g \in Fibers, th \in Threads \cup {AnyThread} :
            Waits(g, th)' <=> Waits(g, th) \/ (g \in G /\ th = home)
       /\ \A g \in G : m_state[g] \in Resumable \cup {"EXEC"}
       /\ \A g \in G, u \in Threads : Has(u, g) => home = u /\ Holding(u)
       /\ \A g \in G, u \in Threads :
            cb_fiber[u] = g => HasFiber(u) /\ ft[u].fiber = Null
  BY <1>6, <1>7, <1>9, <1>10, <1>12
<1>14. home \in Threads \cup {AnyThread}
  OBVIOUS
<1>. QED
  BY ZenonT(30), <1>4, <1>7, <1>8, <1>11, <1>12, <1>13, <1>14, EnqueueStep

\* No task of a finished fiber is ever queued.
LEMMA NeverDrops ==
  ASSUME IInv, Tokens, NEW t \in Threads
  PROVE  ~RunDrop(t)
<1>1. ASSUME RunDrop(t) PROVE FALSE
  <2>1. Carrier(t) /\ pc[t] = "dispatch" /\ m_state[Cur(t)] \in Finished
    BY <1>1 DEF RunDrop, At, Carrier, Cur
  <2>. QED
    BY <2>1 DEF Tokens, CarryOK, StatesAt, Resumable, Finished
<1>. QED
  BY <1>1

\* The steps that have nothing to do with fibers.
QuietNext ==
  \/ \E t \in Threads :
       \/ RunEnter(t) \/ RunLock(t) \/ RunSkip(t) \/ RunScanEnd(t) \/ RunIdle(t)
       \/ RunExit(t) \/ Idle(t) \/ IdleOut(t)
  \/ \E w \in Workers : ThreadRun(w)
  \/ CallStep \/ Start \/ Stop \/ Terminated

\* They leave everything about fibers alone.
LEMMA QuietTokens ==
  ASSUME IInv, Tokens, QuietNext
  PROVE  /\ Tokens'
         /\ UNCHANGED <<m_tasks, m_state, m_cb, armed, want, done>>
         /\ \A u \in Threads :
              /\ Carrier(u)' <=> Carrier(u)
              /\ Carrier(u) => pc'[u] = pc[u] /\ Cur(u)' = Cur(u)
<1>. USE DEF queueVars, countVars, stopVars, fiberVars, localVars, clientVars,
             envVars, taskVars, poolVars, GoTo, At, Fail
<1>1. UNCHANGED <<m_tasks, m_state, m_cb, armed, want, done, holdLeft>>
  BY DEF QuietNext, CallStep, RunEnter, RunLock, RunSkip, RunScanEnd, RunIdle,
         RunExit, Idle, IdleOut, ThreadRun, StartCreate, StartWait, StartDone,
         StopEarly, StopSet, StopRoot, StopSwap, StopJoin, Start, Stop,
         Terminated, vars
<1>2. /\ QueueOK'
      /\ \A f, thread : Waits(f, thread)' <=> Waits(f, thread)
  BY <1>1, SameQueue DEF Tokens
<1>. DEFINE Still ==
       \A u \in Threads :
           /\ Carrier(u)' <=> Carrier(u)
           /\ HasFiber(u)' <=> HasFiber(u)
           /\ Carrier(u) => pc'[u] = pc[u] /\ ft'[u] = ft[u]
           /\ Carrier(u) => cb_fiber'[u] = cb_fiber[u]
           /\ cb_fiber'[u] \in {cb_fiber[u], Null}
<1>3. ASSUME NEW t \in Threads,
             \/ RunEnter(t) \/ RunLock(t) \/ RunSkip(t) \/ RunScanEnd(t)
             \/ RunIdle(t) \/ RunExit(t) \/ Idle(t) \/ IdleOut(t)
      PROVE  Still
  <2>1. pc' = pc \/ \E l \in RunLabel \cup MainLabel \cup WorkerLabel :
                      pc' = [pc EXCEPT ![t] = l] /\ ~HasFiber(t)
                      /\ l \in {"loop", "scan", "dispatch", "idle", "idleout",
                                "join", "exited"}
    BY <1>3 DEF RunEnter, RunLock, RunSkip, RunScanEnd, RunIdle, RunExit, Idle,
                IdleOut, HasFiber, RunLabel, MainLabel, WorkerLabel
  <2>2. ~Carrier(t) /\ ~Carrier(t)' /\ ~HasFiber(t)'
    BY SMTT(30), <1>3
       DEF RunEnter, RunLock, RunSkip, RunScanEnd, RunIdle, RunExit, Idle,
           IdleOut, HasFiber, Carrier, IInv, TypeOK, LocalsOK, NoTask
  <2>3. /\ \A u \in Threads \ {t} :
             ft'[u] = ft[u] /\ cb_fiber'[u] = cb_fiber[u] /\ pc'[u] = pc[u]
        /\ cb_fiber'[t] \in {cb_fiber[t], Null}
    BY <1>3 DEF RunEnter, RunLock, RunSkip, RunScanEnd, RunIdle, RunExit, Idle,
                IdleOut, IInv, TypeOK
  <2>. QED
    BY <2>2, <2>3 DEF Carrier, HasFiber
<1>4. ASSUME \/ \E w \in Workers : ThreadRun(w)
             \/ CallStep \/ Start \/ Stop \/ Terminated
      PROVE  Still
  <2>1. UNCHANGED <<ft, cb_fiber>>
    BY <1>4
       DEF CallStep, ThreadRun, StartCreate, StartWait, StartDone, StopEarly,
           StopSet, StopRoot, StopSwap, StopJoin, Start, Stop, Terminated, vars
  <2>2. \A u \in Threads :
          \/ pc'[u] = pc[u]
          \/ /\ ~HasFiber(u) /\ pc[u] # "dispatch"
             /\ ~HasFiber(u)' /\ pc'[u] # "dispatch"
    BY SMTT(30), <1>4, ThreadsAssumption
       DEF CallStep, ThreadRun, StartCreate, StartWait, StartDone, StopEarly,
           StopSet, StopRoot, StopSwap, StopJoin, Start, Stop, Terminated, vars,
           HasFiber, IInv, TypeOK, WorkersOK, Threads
  <2>. QED
    BY <2>1, <2>2 DEF Carrier, HasFiber
<1>5. Still
  BY <1>3, <1>4 DEF QuietNext
<1>6. \A u \in Threads : Carrier(u) => Cur(u)' = Cur(u)
  BY <1>5 DEF Cur
<1>. QED
  BY <1>1, <1>2, <1>5, <1>6, QuietStep

\* Every step preserves Tokens.
LEMMA TokensStep ==
  ASSUME OneHandover, IInv, Tokens, Next
  PROVE  Tokens'
BY QuietTokens, TakeTokens, CbTokens, GoOnTokens, SwapInTokens, YieldTokens,
   ArmTokens, PostFinishedTokens, SetHoldTokens, ReschedTokens, ScheduleTokens,
   ScheduleRangeTokens, WakeTokens, NeverDrops
   DEF Next, RunStep, FiberStep, ClientStep, QuietNext

-----------------------------------------------------------------------------
(***************************************************************************)
(* One runner, and no abort.                                               *)
(***************************************************************************)

\* Nobody knows a fiber before the client schedules it.
LEMMA InitTokens ==
  ASSUME OneHandover, Init
  PROVE  Tokens
<1>1. /\ m_tasks = <<>> /\ \A t \in Threads : ~Carrier(t) /\ ~HasFiber(t)
      /\ \A f \in Fibers : armed[f] = Null
      /\ \A t \in Threads : cb_fiber[t] = Null
  BY DEF Init, Carrier, HasFiber
<1>2. \A f, thread : ~Waits(f, thread)
  BY <1>1 DEF Waits
<1>3. \A f \in Fibers : Unused(f) /\ ~Queued(f)
  BY <1>1, <1>2 DEF Unused, Queued, Has
<1>4. NewOK
  BY <1>3 DEF Init, NewOK, Fibers
<1>5. HoldsOK
  BY <1>1 DEF Init, HoldsOK, OneHandover
<1>. QED
  BY <1>1, <1>2, <1>3, <1>4, <1>5
     DEF Tokens, QueueOK, CarryOK, MeetOK, KnownOK, SpareOK

\* Tokens holds in every state.
LEMMA TokensInvariance ==
  ASSUME OneHandover
  PROVE  Spec => []Tokens
<1>1. Init => Tokens
  BY InitTokens
<1>2. IInv /\ Tokens /\ [Next]_vars => Tokens'
  <2>. SUFFICES ASSUME IInv, Tokens, [Next]_vars PROVE Tokens'
    OBVIOUS
  <2>1. CASE UNCHANGED vars
    <3>1. UNCHANGED <<m_tasks, m_state, m_cb, armed, want, holdLeft, pc, ft, cb_fiber>>
      BY <2>1 DEF vars, queueVars, fiberVars, localVars, clientVars
    <3>. QED
      BY <3>1, SameQueue, QuietStep DEF Carrier, HasFiber, Tokens
  <2>. QED
    BY <2>1, TokensStep
<1>. QED
  BY <1>1, <1>2, Invariance, PTL DEF Spec

\* No fiber is on the CPU of two threads, whatever the number of threads and
\* fibers and however often they yield (scheduler.cpp:65-145, fiber.cpp:124-140).
THEOREM OneRunnerAlways ==
  ASSUME OneHandover
  PROVE  Spec => []OneRunner
<1>1. Tokens => OneRunner
  BY DEF Tokens, CarryOK, OneRunner, OnStack, Carrier, HasFiber
<1>. QED
  BY <1>1, TokensInvariance, PTL

\* Every step keeps the protocol of start() and stop().
LEMMA CallsStep ==
  ASSUME RootOnce, IInv, CallsOK, Next
  PROVE  CallsOK'
<1>. USE DEF queueVars, countVars, stopVars, fiberVars, localVars, clientVars,
             envVars, taskVars, poolVars, GoTo, At, Fail
<1>1. ASSUME NEW t \in Threads, RunExit(t) PROVE CallsOK'
  <2>1. CASE t = Main
    <3>1. pc[Main] = "dispatch" /\ pc'[Main] = "join" /\ Main \in Threads
      BY <1>1, <2>1 DEF RunExit, IInv, TypeOK, Threads
    <3>2. m_stopping /\ starts >= 1 /\ MaxStarts <= 1
      BY <3>1 DEF CallsOK, RootOnce, RunLabel
    <3>3. starts >= MaxStarts
      BY <3>2, ClientAssumption DEF IInv, TypeOK
    <3>4. UNCHANGED <<m_stopping, m_threads, starts>>
      BY <1>1 DEF RunExit
    <3>. QED
      BY <3>1, <3>2, <3>3, <3>4 DEF CallsOK, RunLabel
  <2>2. CASE t # Main
    <3>1. pc'[Main] = pc[Main] /\ UNCHANGED stopVars
      BY <1>1, <2>2 DEF RunExit, IInv, TypeOK, Threads
    <3>. QED
      BY <3>1 DEF CallsOK
  <2>. QED
    BY <2>1, <2>2
<1>2. ASSUME NEW t \in Threads, RunStep(t) \/ FiberStep(t), ~RunExit(t)
      PROVE  CallsOK'
  <2>1. /\ UNCHANGED stopVars
        /\ pc'[Main] = pc[Main] \/ (pc[Main] \in RunLabel /\ pc'[Main] \in RunLabel)
    BY <1>2
       DEF RunStep, FiberStep, RunEnter, RunLock, RunSkip, RunTake, RunScanEnd,
           RunFiber, RunDrop, RunIdle, RunCb, Idle, IdleOut, RunAfter,
           RunPostReady, RunPostFinished, RunPostHold, RunSetHold, RunResched,
           SwapIn, YieldToReady, Arm, YieldToHold, Finish, SwapOut, RunLabel,
           IInv, TypeOK, Threads
  <2>. QED
    BY <2>1 DEF CallsOK, RunLabel
<1>3. ASSUME NEW w \in Workers, ThreadRun(w) PROVE CallsOK'
  <2>1. pc'[Main] = pc[Main] /\ UNCHANGED stopVars
    BY <1>3, ThreadsAssumption DEF ThreadRun, IInv, TypeOK, Threads
  <2>. QED
    BY <2>1 DEF CallsOK
<1>4. ASSUME CallStep PROVE CallsOK'
  <2>1. ASSUME NEW w \in Workers, StartCreate(w) PROVE CallsOK'
    <3>1. pc[Main] = "start" /\ pc'[Main] = "startwait"
      BY <2>1, ThreadsAssumption DEF StartCreate, IInv, TypeOK, Threads
    <3>. QED
      BY <2>1, <3>1 DEF StartCreate, CallsOK, RunLabel
  <2>2. ASSUME StartWait PROVE CallsOK'
    <3>1. pc[Main] = "startwait" /\ pc'[Main] = "start"
      BY <2>2 DEF StartWait, IInv, TypeOK, Threads
    <3>. QED
      BY <2>2, <3>1 DEF StartWait, CallsOK, RunLabel
  <2>3. ASSUME StartDone PROVE CallsOK'
    <3>1. pc[Main] = "start" /\ pc'[Main] = "client"
      BY <2>3 DEF StartDone, IInv, TypeOK, Threads
    <3>. QED
      BY <2>3, <3>1 DEF StartDone, CallsOK, RunLabel
  <2>4. ASSUME StopEarly PROVE CallsOK'
    <3>1. /\ pc[Main] = "stopearly" /\ pc'[Main] \in {"client", "stopset"}
          /\ m_threads \subseteq Workers
      BY <2>4 DEF StopEarly, IInv, TypeOK, Threads
    <3>. QED
      BY <2>4, <3>1 DEF StopEarly, CallsOK, RunLabel
  <2>5. ASSUME StopSet PROVE CallsOK'
    <3>1. pc[Main] = "stopset" /\ pc'[Main] \in {"stoproot", "join"}
      BY <2>5 DEF StopSet, IInv, TypeOK, Threads
    <3>. QED
      BY <2>5, <3>1 DEF StopSet, CallsOK, RunLabel
  <2>6. ASSUME StopRoot PROVE CallsOK'
    <3>1. /\ pc[Main] = "stoproot" /\ m_rootFiber # "TERM"
          /\ pc'[Main] = IF stopping THEN "join" ELSE "enter"
      BY <2>6 DEF StopRoot, CallsOK, IInv, TypeOK, Threads
    <3>. QED
      BY <2>6, <3>1 DEF StopRoot, CallsOK, RunLabel
  <2>7. ASSUME StopSwap PROVE CallsOK'
    <3>1. pc[Main] = "join" /\ pc'[Main] = "joining"
      BY <2>7 DEF StopSwap, IInv, TypeOK, Threads
    <3>. QED
      BY <2>7, <3>1 DEF StopSwap, CallsOK, RunLabel
  <2>8. ASSUME StopJoin PROVE CallsOK'
    <3>1. pc[Main] = "joining" /\ pc'[Main] = "client"
      BY <2>8 DEF StopJoin, Threads
    <3>. QED
      BY <2>8, <3>1 DEF StopJoin, CallsOK, RunLabel
  <2>. QED
    BY <1>4, <2>1, <2>2, <2>3, <2>4, <2>5, <2>6, <2>7, <2>8 DEF CallStep
<1>5. ASSUME Start \/ Stop PROVE CallsOK'
  <2>1. CASE Start
    <3>1. /\ pc[Main] = "client" /\ m_threads = {} /\ starts < MaxStarts
          /\ m_rootFiber # "TERM"
      BY <2>1, ClientAssumption DEF Start, CallsOK, IInv, TypeOK
    <3>2. pc'[Main] = "start" /\ starts' >= 1
      BY <2>1, <3>1 DEF Start, IInv, TypeOK, Threads
    <3>. QED
      BY <2>1, <3>1, <3>2 DEF Start, CallsOK, RunLabel
  <2>2. CASE Stop
    <3>1. /\ pc[Main] = "client" /\ ~m_stopping
          /\ pc'[Main] \in {"stopearly", "stopset"}
          /\ pc'[Main] = "stopearly" => Workers = {}
      BY <2>2 DEF Stop, IInv, TypeOK, Threads
    <3>. QED
      BY <2>2, <3>1 DEF Stop, CallsOK, RunLabel
  <2>. QED
    BY <1>5, <2>1, <2>2
<1>6. ASSUME ClientStep, ~Start, ~Stop PROVE CallsOK'
  <2>1. UNCHANGED <<pc, m_stopping, m_threads, m_rootFiber, starts>>
    BY <1>6 DEF ClientStep, Schedule, ScheduleRange, Wake
  <2>. QED
    BY <2>1 DEF CallsOK
<1>7. ASSUME Terminated PROVE CallsOK'
  BY <1>7 DEF Terminated, vars, CallsOK
<1>. QED
  BY <1>1, <1>2, <1>3, <1>4, <1>5, <1>6, <1>7 DEF Next

\* No assertion fails in a step.
LEMMA NoAbortStep ==
  ASSUME IInv, Tokens, CallsOK, NoAbort, Next
  PROVE  NoAbort'
<1>. USE DEF queueVars, countVars, stopVars, fiberVars, localVars, clientVars,
             envVars, taskVars, poolVars
<1>1. UNCHANGED failed
  <2>1. ASSUME Start PROVE UNCHANGED failed
    BY <2>1 DEF Start, At, CallsOK
  <2>2. ASSUME StopRoot PROVE UNCHANGED failed
    BY <2>2 DEF StopRoot, At, CallsOK
  <2>. QED
    BY ZenonT(30), <2>1, <2>2, SwapInTokens, YieldTokens, CbTokens
       DEF Next, RunStep, FiberStep, CallStep, ClientStep, RunEnter, RunLock,
           RunSkip, RunTake, RunScanEnd, RunFiber, RunDrop, RunIdle, RunExit,
           Idle, IdleOut, RunAfter, RunPostReady, RunPostFinished, RunPostHold,
           RunSetHold, RunResched, Arm, SwapOut, ThreadRun, StartCreate,
           StartWait, StartDone, StopEarly, StopSet, StopSwap, StopJoin, Stop,
           Schedule, ScheduleRange, Wake, Terminated, vars
<1>. QED
  BY <1>1 DEF NoAbort

\* No assertion of fiber.cpp or scheduler.cpp fails (fiber.cpp:96, 126, 155, 162,
\* 197, 224; scheduler.cpp:156), for every pool whose client keeps to one handover.
THEOREM NeverAborts ==
  ASSUME OneHandover, RootOnce
  PROVE  Spec => []NoAbort
<1>1. Init => CallsOK /\ NoAbort
  BY DEF Init, CallsOK, NoAbort, RunLabel, Threads
<1>2. IInv /\ Tokens /\ CallsOK /\ NoAbort /\ [Next]_vars => CallsOK' /\ NoAbort'
  <2>. SUFFICES ASSUME IInv, Tokens, CallsOK, NoAbort, [Next]_vars
                PROVE  CallsOK' /\ NoAbort'
    OBVIOUS
  <2>1. CASE UNCHANGED vars
    BY <2>1 DEF vars, stopVars, CallsOK, NoAbort
  <2>. QED
    BY <2>1, CallsStep, NoAbortStep
<1>. QED
  BY <1>1, <1>2, Invariance, TokensInvariance, PTL DEF Spec

-----------------------------------------------------------------------------
(***************************************************************************)
(* The bodies: none is lost, and each executes on the thread it was        *)
(* scheduled for.                                                          *)
(***************************************************************************)

\* No body yields to ready: run() schedules such a fiber for every thread.
NoReadyYields == MaxReady = 0

\* A callback waits in m_tasks for the given thread; thread t has taken it.
CbWaits(c, thread) ==
  \E i \in 1..Len(m_tasks) : m_tasks[i].cb = c /\ m_tasks[i].thread = thread
CbTaken(t, c) == pc[t] = "dispatch" /\ ft[t].cb = c

\* Somebody is going to execute body b, by a fiber that is known or as a
\* callback.
Kept(b) ==
  \/ \E f \in Fibers : m_cb[f] = b /\ ~Unused(f)
  \/ \E thread \in Threads \cup {AnyThread} : CbWaits(b, thread)
  \/ \E t \in Threads : CbTaken(t, b)

\* A finished fiber's body is done, a fiber that holds is not forgotten, and a
\* fiber the client has not scheduled still has its body.
BodiesOK ==
  /\ \A f \in Fibers : m_state[f] \in Finished => m_cb[f] \in done \cup {Null}
  /\ \A t \in Threads : Holding(t) => armed[Cur(t)] # Null \/ Queued(Cur(t))
  /\ \A f \in ClientFibers : want[f] = Null => m_cb[f] = f

\* The given thread may execute what was scheduled as b.
Fits(b, thread) == b = Null \/ want[b] \in {AnyThread, thread}

\* Whoever knows a body knows a thread that may execute it; nothing yields to
\* ready, which would forget the thread.
PinsOK ==
  /\ \A f \in Fibers, thread \in Threads \cup {AnyThread} :
       Waits(f, thread) => Fits(m_cb[f], thread)
  /\ \A f \in Fibers : armed[f] # Null => Fits(m_cb[f], armed[f])
  /\ \A t \in Threads : Carrier(t) => Fits(m_cb[Cur(t)], t)
  /\ \A c \in Cbs, thread \in Threads \cup {AnyThread} :
       CbWaits(c, thread) => Fits(c, thread)
  /\ \A c \in Cbs, t \in Threads : CbTaken(t, c) => Fits(c, t)
  /\ readyLeft = 0 /\ \A f \in Fibers : m_state[f] # "READY"

-----------------------------------------------------------------------------
(***************************************************************************)
(* What each action does to the queue of callbacks, to the threads that    *)
(* carry a fiber and to what is known of a fiber.                          *)
(***************************************************************************)

\* Erasing element i of m_tasks.
LEMMA TakeCbWaits ==
  ASSUME TypeOK, NEW i \in 1..Len(m_tasks), m_tasks' = RemoveAt(m_tasks, i)
  PROVE  \A c, thread :
           /\ CbWaits(c, thread)' => CbWaits(c, thread)
           /\ CbWaits(c, thread) =>
                \/ CbWaits(c, thread)'
                \/ m_tasks[i].cb = c /\ m_tasks[i].thread = thread
<1>1. m_tasks \in Seq(Task)
  BY DEF TypeOK
<1>2. /\ Len(m_tasks') = Len(m_tasks) - 1
      /\ \A j \in 1..(Len(m_tasks) - 1) :
           m_tasks'[j] = IF j < i THEN m_tasks[j] ELSE m_tasks[j + 1]
  BY <1>1, RemoveAtElements
<1>3. ASSUME NEW j \in 1..Len(m_tasks')
      PROVE  \E k \in 1..Len(m_tasks) : m_tasks'[j] = m_tasks[k]
  <2>1. j \in 1..(Len(m_tasks) - 1)
    BY <1>2
  <2>2. CASE j < i
    BY <1>2, <2>1, <2>2
  <2>3. CASE ~(j < i)
    BY <1>2, <2>1, <2>3
  <2>. QED
    BY <2>2, <2>3
<1>4. ASSUME NEW k \in 1..Len(m_tasks), k # i
      PROVE  \E j \in 1..Len(m_tasks') : m_tasks'[j] = m_tasks[k]
  <2>1. CASE k < i
    BY <1>2, <2>1
  <2>2. CASE k > i
    <3>1. k - 1 \in 1..(Len(m_tasks) - 1) /\ ~(k - 1 < i) /\ (k - 1) + 1 = k
      BY <2>2
    <3>2. m_tasks'[k - 1] = m_tasks[k]
      BY <1>2, <3>1
    <3>. QED
      BY <1>2, <3>1, <3>2
  <2>. QED
    BY <1>4, <2>1, <2>2
<1>5. ASSUME NEW c, NEW thread, CbWaits(c, thread)' PROVE CbWaits(c, thread)
  <2>1. PICK j \in 1..Len(m_tasks') : m_tasks'[j].cb = c /\ m_tasks'[j].thread = thread
    BY <1>5 DEF CbWaits
  <2>2. PICK k \in 1..Len(m_tasks) : m_tasks'[j] = m_tasks[k]
    BY <1>3
  <2>. QED
    BY <2>1, <2>2 DEF CbWaits
<1>6. ASSUME NEW c, NEW thread, CbWaits(c, thread)
      PROVE  CbWaits(c, thread)' \/ (m_tasks[i].cb = c /\ m_tasks[i].thread = thread)
  <2>1. PICK k \in 1..Len(m_tasks) : m_tasks[k].cb = c /\ m_tasks[k].thread = thread
    BY <1>6 DEF CbWaits
  <2>2. CASE k # i
    <3>1. PICK j \in 1..Len(m_tasks') : m_tasks'[j] = m_tasks[k]
      BY <1>4, <2>2
    <3>. QED
      BY <2>1, <3>1 DEF CbWaits
  <2>. QED
    BY <2>1, <2>2
<1>. QED
  BY <1>5, <1>6

\* Appending a task.
LEMMA AppendCbWaits ==
  ASSUME TypeOK, NEW task \in Task, m_tasks' = m_tasks \o <<task>>
  PROVE  \A c, thread :
           CbWaits(c, thread)' <=>
             CbWaits(c, thread) \/ (task.cb = c /\ task.thread = thread)
<1>1. m_tasks \in Seq(Task)
  BY DEF TypeOK
<1>2. /\ Len(m_tasks') = Len(m_tasks) + 1
      /\ m_tasks'[Len(m_tasks) + 1] = task
      /\ \A i \in 1..Len(m_tasks) : m_tasks'[i] = m_tasks[i]
  BY <1>1
<1>. QED
  BY <1>1, <1>2 DEF CbWaits

\* Appending two.
LEMMA AppendTwoCbWaits ==
  ASSUME TypeOK, NEW a \in Task, NEW b \in Task, m_tasks' = m_tasks \o <<a, b>>
  PROVE  \A c, thread :
           CbWaits(c, thread)' <=>
             \/ CbWaits(c, thread)
             \/ a.cb = c /\ a.thread = thread
             \/ b.cb = c /\ b.thread = thread
<1>1. m_tasks \in Seq(Task)
  BY DEF TypeOK
<1>2. /\ Len(m_tasks') = Len(m_tasks) + 2
      /\ m_tasks'[Len(m_tasks) + 1] = a
      /\ m_tasks'[Len(m_tasks) + 2] = b
      /\ \A i \in 1..Len(m_tasks) : m_tasks'[i] = m_tasks[i]
  BY <1>1
<1>3. Len(m_tasks) \in Nat
  BY <1>1
<1>4. \A i \in 1..Len(m_tasks') :
        i \in 1..Len(m_tasks) \/ i = Len(m_tasks) + 1 \/ i = Len(m_tasks) + 2
  BY <1>2, <1>3
<1>5. /\ Len(m_tasks) + 1 \in 1..Len(m_tasks')
      /\ Len(m_tasks) + 2 \in 1..Len(m_tasks')
      /\ \A i \in 1..Len(m_tasks) : i \in 1..Len(m_tasks')
  BY <1>2, <1>3
<1>. QED
  BY <1>2, <1>4, <1>5 DEF CbWaits

\* A step that leaves the queue alone.
LEMMA SameTasks ==
  ASSUME UNCHANGED m_tasks
  PROVE  \A x, thread : /\ Waits(x, thread)' <=> Waits(x, thread)
                        /\ CbWaits(x, thread)' <=> CbWaits(x, thread)
                        /\ Queued(x)' <=> Queued(x)
BY DEF Waits, CbWaits, Queued

\* A task is a fiber or a callback, never both.
LEMMA TaskKinds ==
  ASSUME NEW task \in Task \cup {NoTask}
  PROVE  /\ task.fiber # Null => task.cb = Null /\ task.fiber \in Fibers
         /\ task.cb # Null => task.fiber = Null /\ task.cb \in Cbs
         /\ task.thread \in Threads \cup {AnyThread}
         /\ \A c \in Cbs : c # Null
BY ClientAssumption DEF Task, NoTask

\* The steps that have nothing to do with fibers.
LEMMA QuietEffect ==
  ASSUME IInv, Tokens, QuietNext
  PROVE  /\ UNCHANGED <<m_tasks, m_state, m_cb, armed, want, done, readyLeft>>
         /\ \A u \in Threads :
              /\ Carrier(u)' <=> Carrier(u)
              /\ Carrier(u) => pc'[u] = pc[u] /\ Cur(u)' = Cur(u)
         /\ \A u \in Threads, c \in Cbs : CbTaken(u, c)' <=> CbTaken(u, c)
<1>. USE DEF queueVars, countVars, stopVars, fiberVars, localVars, clientVars,
             envVars, taskVars, poolVars, GoTo, At, Fail
<1>1. UNCHANGED readyLeft
  BY DEF QuietNext, CallStep, RunEnter, RunLock, RunSkip, RunScanEnd, RunIdle,
         RunExit, Idle, IdleOut, ThreadRun, StartCreate, StartWait, StartDone,
         StopEarly, StopSet, StopRoot, StopSwap, StopJoin, Start, Stop,
         Terminated, vars
<1>2. \A c \in Cbs : c # Null
  BY ClientAssumption
<1>3. ASSUME NEW t \in Threads,
             \/ RunEnter(t) \/ RunLock(t) \/ RunSkip(t) \/ RunScanEnd(t)
             \/ RunIdle(t) \/ RunExit(t) \/ Idle(t) \/ IdleOut(t)
      PROVE  \A u \in Threads, c \in Cbs : CbTaken(u, c)' <=> CbTaken(u, c)
  <2>1. \A c \in Cbs : ~CbTaken(t, c) /\ ~CbTaken(t, c)'
    BY <1>2, <1>3
       DEF RunEnter, RunLock, RunSkip, RunScanEnd, RunIdle, RunExit, Idle,
           IdleOut, CbTaken, IInv, TypeOK, LocalsOK, NoTask
  <2>2. \A u \in Threads \ {t} : ft'[u] = ft[u] /\ pc'[u] = pc[u]
    BY <1>3 DEF RunEnter, RunLock, RunSkip, RunScanEnd, RunIdle, RunExit, Idle,
                IdleOut, IInv, TypeOK
  <2>. QED
    BY <2>1, <2>2 DEF CbTaken
<1>4. ASSUME \/ \E w \in Workers : ThreadRun(w)
             \/ CallStep \/ Start \/ Stop \/ Terminated
      PROVE  \A u \in Threads, c \in Cbs : CbTaken(u, c)' <=> CbTaken(u, c)
  <2>1. UNCHANGED ft
    BY <1>4
       DEF CallStep, ThreadRun, StartCreate, StartWait, StartDone, StopEarly,
           StopSet, StopRoot, StopSwap, StopJoin, Start, Stop, Terminated, vars
  <2>2. \A u \in Threads :
          pc'[u] = pc[u] \/ (pc[u] # "dispatch" /\ pc'[u] # "dispatch")
    BY <1>4, ThreadsAssumption
       DEF CallStep, ThreadRun, StartCreate, StartWait, StartDone, StopEarly,
           StopSet, StopRoot, StopSwap, StopJoin, Start, Stop, Terminated, vars,
           IInv, TypeOK, WorkersOK, Threads
  <2>. QED
    BY <2>1, <2>2 DEF CbTaken
<1>. QED
  BY <1>1, <1>3, <1>4, QuietTokens DEF QuietNext

\* The steps of a thread that keeps its fiber.
AdvanceNext(t) ==
  \/ RunFiber(t) \/ SwapOut(t) \/ RunAfter(t) \/ RunPostReady(t)
  \/ RunPostHold(t) \/ SwapIn(t) \/ YieldToReady(t) \/ YieldToHold(t) \/ Arm(t)
  \/ \E s \in Finished : Finish(t, s)

\* Nothing but that fiber and the thread's own place changes.
LEMMA AdvanceEffect ==
  ASSUME IInv, Tokens, NEW t \in Threads, AdvanceNext(t)
  PROVE  /\ UNCHANGED <<m_tasks, want, ft, cb_fiber>>
         /\ Carrier(t) /\ Cur(t) \in Fibers
         /\ \A u \in Threads :
              /\ Carrier(u)' <=> Carrier(u)
              /\ Cur(u)' = Cur(u)
              /\ u # t => pc'[u] = pc[u]
         /\ \A u \in Threads, c \in Cbs : CbTaken(u, c)' <=> CbTaken(u, c)
         /\ \A f \in Fibers : f # Cur(t) =>
              m_state'[f] = m_state[f] /\ m_cb'[f] = m_cb[f] /\ armed'[f] = armed[f]
<1>. USE DEF queueVars, countVars, stopVars, fiberVars, localVars, clientVars,
             envVars, taskVars, poolVars, GoTo, At, SetState
<1>1. Carrier(t) /\ (pc[t] = "dispatch" => ft[t].fiber # Null)
  BY DEF AdvanceNext, RunFiber, SwapOut, RunAfter, RunPostReady, RunPostHold,
         SwapIn, YieldToReady, YieldToHold, Arm, Finish, Carrier, HasFiber,
         HasLiveFiber
<1>2. Cur(t) \in Fibers /\ m_state[Cur(t)] \in StatesAt(pc[t])
  BY <1>1, CarrierFiber DEF Tokens, CarryOK
<1>3. /\ pc[t] = "swapin" => m_state[Cur(t)] \notin Finished \cup {"EXEC"}
      /\ pc[t] \in {"exec", "hold"} => m_state[Cur(t)] = "EXEC"
  BY <1>2 DEF StatesAt, Resumable, Finished
<1>4. PICK label : /\ pc' = [pc EXCEPT ![t] = label]
                   /\ label \in {"swapin", "exec", "hold", "swapout", "after",
                                 "post", "sethold", "resched"}
  BY <1>3 DEF AdvanceNext, RunFiber, SwapOut, RunAfter, RunPostReady, RunPostHold,
              SwapIn, YieldToReady, YieldToHold, Arm, Finish
<1>5. UNCHANGED <<m_tasks, want, ft, cb_fiber>>
  BY <1>3 DEF AdvanceNext, RunFiber, SwapOut, RunAfter, RunPostReady, RunPostHold,
              SwapIn, YieldToReady, YieldToHold, Arm, Finish
<1>6. \A f \in Fibers : f # Cur(t) =>
        m_state'[f] = m_state[f] /\ m_cb'[f] = m_cb[f] /\ armed'[f] = armed[f]
  BY <1>2, <1>3
     DEF AdvanceNext, RunFiber, SwapOut, RunAfter, RunPostReady, RunPostHold,
         SwapIn, YieldToReady, YieldToHold, Arm, Finish, IInv, TypeOK
<1>7. pc'[t] = label /\ \A u \in Threads : u # t => pc'[u] = pc[u]
  BY <1>4 DEF IInv, TypeOK
<1>8. \A u \in Threads : (Carrier(u)' <=> Carrier(u)) /\ Cur(u)' = Cur(u)
  BY <1>1, <1>4, <1>5, <1>7 DEF Carrier, HasFiber, Cur
<1>9. \A u \in Threads, c \in Cbs : CbTaken(u, c)' <=> CbTaken(u, c)
  <2>1. \A c \in Cbs : ~CbTaken(t, c) /\ ~CbTaken(t, c)'
    <3>1. ft[t] \in Task \cup {NoTask}
      BY DEF IInv, TypeOK
    <3>. QED
      BY <1>1, <1>4, <1>7, <3>1, TaskKinds DEF CbTaken
  <2>. QED
    BY <1>5, <1>7, <2>1 DEF CbTaken
<1>. QED
  BY <1>1, <1>2, <1>5, <1>6, <1>7, <1>8, <1>9

\* The steps in which run() lets go of its fiber.
LetGoNext(t) == RunPostFinished(t) \/ RunSetHold(t) \/ RunResched(t)

\* No other fiber changes, and the thread has none afterwards.
LEMMA LetGoEffect ==
  ASSUME IInv, Tokens, NEW t \in Threads, LetGoNext(t)
  PROVE  /\ UNCHANGED <<armed, want, done, readyLeft>>
         /\ Carrier(t) /\ Cur(t) \in Fibers /\ ~Carrier(t)'
         /\ \A u \in Threads : u # t =>
              /\ Carrier(u)' <=> Carrier(u)
              /\ Cur(u)' = Cur(u)
              /\ pc'[u] = pc[u]
         /\ \A u \in Threads, c \in Cbs : CbTaken(u, c)' <=> CbTaken(u, c)
         /\ \A f \in Fibers : f # Cur(t) =>
              m_state'[f] = m_state[f] /\ m_cb'[f] = m_cb[f]
         /\ m_cb'[Cur(t)] \in {m_cb[Cur(t)], Null}
<1>. USE DEF queueVars, countVars, stopVars, fiberVars, localVars, clientVars,
             envVars, taskVars, poolVars, GoTo, At, SetState
<1>1. Carrier(t) /\ pc[t] \in {"post", "sethold", "resched"}
  BY DEF LetGoNext, RunPostFinished, RunSetHold, RunResched, Carrier, HasFiber
<1>2. Cur(t) \in Fibers
  BY <1>1, CarrierFiber
<1>3. /\ pc' = [pc EXCEPT ![t] = "loop"]
      /\ ft' = [ft EXCEPT ![t] = NoTask]
      /\ cb_fiber' \in {cb_fiber, [cb_fiber EXCEPT ![t] = Null]}
      /\ UNCHANGED <<armed, want, done, readyLeft>>
  BY DEF LetGoNext, RunPostFinished, RunSetHold, RunResched
<1>4. /\ pc'[t] = "loop"
      /\ \A u \in Threads : u # t =>
           pc'[u] = pc[u] /\ ft'[u] = ft[u] /\ cb_fiber'[u] = cb_fiber[u]
  BY <1>3 DEF IInv, TypeOK
<1>5. /\ ~Carrier(t)'
      /\ \A u \in Threads : u # t =>
           (Carrier(u)' <=> Carrier(u)) /\ Cur(u)' = Cur(u)
  BY <1>4 DEF Carrier, HasFiber, Cur
<1>6. \A u \in Threads, c \in Cbs : CbTaken(u, c)' <=> CbTaken(u, c)
  BY <1>1, <1>4 DEF CbTaken
<1>7. /\ \A f \in Fibers : f # Cur(t) =>
           m_state'[f] = m_state[f] /\ m_cb'[f] = m_cb[f]
      /\ m_cb'[Cur(t)] \in {m_cb[Cur(t)], Null}
  BY <1>2 DEF LetGoNext, RunPostFinished, RunSetHold, RunResched, IInv, TypeOK
<1>. QED
  BY <1>1, <1>2, <1>3, <1>4, <1>5, <1>6, <1>7

\* run() takes a task.
LEMMA TakeEffect ==
  ASSUME IInv, Tokens, NEW t \in Threads, RunTake(t)
  PROVE  \E task \in Task :
           /\ \A f \in Fibers, thread \in Threads \cup {AnyThread} :
                Waits(f, thread)' <=> Waits(f, thread) /\ f # task.fiber
           /\ task.fiber # Null => Waits(task.fiber, task.thread)
           /\ \A c, thread :
                /\ CbWaits(c, thread)' => CbWaits(c, thread)
                /\ CbWaits(c, thread) =>
                     \/ CbWaits(c, thread)'
                     \/ task.cb = c /\ task.thread = thread
           /\ CbWaits(task.cb, task.thread)
           /\ task.thread \in {AnyThread, t}
           /\ ft'[t] = task /\ pc'[t] = "dispatch" /\ pc[t] = "scan"
           /\ ~Carrier(t) /\ (Carrier(t)' <=> task.fiber # Null)
           /\ task.fiber # Null => Cur(t)' = task.fiber
           /\ \A u \in Threads : u # t =>
                /\ Carrier(u)' <=> Carrier(u)
                /\ Cur(u)' = Cur(u)
                /\ pc'[u] = pc[u] /\ ft'[u] = ft[u]
           /\ UNCHANGED <<m_state, m_cb, armed, want, done, readyLeft>>
<1>. DEFINE i == it[t]
<1>1. PICK task \in Task : task = m_tasks[i] /\ i \in 1..Len(m_tasks)
  BY ElementIsTask DEF RunTake, At, IInv, TypeOK, LocalsOK
<1>2. \A f \in Fibers, thread \in Threads \cup {AnyThread} :
        Waits(f, thread)' <=> Waits(f, thread) /\ f # task.fiber
  BY <1>1, TakeWaits DEF RunTake, IInv, Tokens
<1>3. \A c, thread :
        /\ CbWaits(c, thread)' => CbWaits(c, thread)
        /\ CbWaits(c, thread) =>
             \/ CbWaits(c, thread)'
             \/ task.cb = c /\ task.thread = thread
  BY <1>1, TakeCbWaits DEF RunTake, IInv
<1>4. Waits(task.fiber, task.thread) /\ CbWaits(task.cb, task.thread)
  BY <1>1 DEF Waits, CbWaits
<1>5. task.thread \in {AnyThread, t}
  BY <1>1 DEF RunTake, MustSkip
<1>6. /\ pc[t] = "scan" /\ pc' = [pc EXCEPT ![t] = "dispatch"]
      /\ ft' = [ft EXCEPT ![t] = task]
      /\ UNCHANGED <<m_state, m_cb, armed, want, done, readyLeft, cb_fiber>>
  BY <1>1 DEF RunTake, At, GoTo, fiberVars, envVars, clientVars
<1>7. /\ pc'[t] = "dispatch" /\ ft'[t] = task
      /\ \A u \in Threads : u # t => pc'[u] = pc[u] /\ ft'[u] = ft[u]
  BY <1>6 DEF IInv, TypeOK
<1>8. /\ ~Carrier(t) /\ (Carrier(t)' <=> task.fiber # Null)
      /\ task.fiber # Null => Cur(t)' = task.fiber
      /\ \A u \in Threads : u # t =>
           (Carrier(u)' <=> Carrier(u)) /\ Cur(u)' = Cur(u)
  BY <1>6, <1>7 DEF Carrier, HasFiber, Cur
<1>. QED
  BY <1>1, <1>2, <1>3, <1>4, <1>5, <1>6, <1>7, <1>8

\* run() gives a callback to fiber f.
LEMMA CbEffect ==
  ASSUME IInv, Tokens, NEW t \in Threads, NEW f \in HostFibers, RunCb(t, f)
  PROVE  /\ f \in Fibers /\ f \notin ClientFibers
         /\ Unused(f) /\ m_cb[f] = Null
         /\ ft[t].cb \in Cbs /\ CbTaken(t, ft[t].cb)
         /\ m_cb' = [m_cb EXCEPT ![f] = ft[t].cb]
         /\ m_state' = [m_state EXCEPT ![f] = "INIT"]
         /\ ~Carrier(t) /\ Carrier(t)' /\ Cur(t)' = f /\ pc'[t] = "swapin"
         /\ \A u \in Threads : u # t =>
              /\ Carrier(u)' <=> Carrier(u)
              /\ Cur(u)' = Cur(u)
              /\ pc'[u] = pc[u] /\ ft'[u] = ft[u]
         /\ UNCHANGED <<m_tasks, armed, want, done, readyLeft>>
<1>. USE DEF Tokens
<1>1. ft[t] \in Task /\ ft[t].fiber = Null /\ ft[t].cb \in Cbs /\ pc[t] = "dispatch"
  BY ClientAssumption DEF RunCb, At, IInv, TypeOK, Task, NoTask
<1>2. ~Carrier(t) /\ ~HasFiber(t)
  BY <1>1 DEF Carrier, HasFiber
<1>3. f \in Fibers /\ f # Null /\ f \notin ClientFibers
  BY ClientAssumption DEF Fibers
<1>4. Unused(f) /\ m_state[f] \in {"INIT", "NONE"} /\ m_cb[f] = Null
  <2>1. CASE f = cb_fiber[t]
    BY <1>2, <1>3, <2>1 DEF SpareOK
  <2>2. CASE m_state[f] = "NONE"
    BY <1>3, <2>2 DEF NewOK
  <2>. QED
    BY <2>1, <2>2 DEF RunCb
<1>5. /\ m_state' = [m_state EXCEPT ![f] = "INIT"]
      /\ m_cb' = [m_cb EXCEPT ![f] = ft[t].cb]
      /\ cb_fiber' = [cb_fiber EXCEPT ![t] = f]
      /\ ft' = [ft EXCEPT ![t] = NoTask]
      /\ pc' = [pc EXCEPT ![t] = "swapin"]
      /\ UNCHANGED <<m_tasks, armed, want, done, readyLeft>>
  BY <1>4 DEF RunCb, SetState, GoTo, queueVars, envVars, clientVars
<1>6. /\ pc'[t] = "swapin" /\ ft'[t] = NoTask /\ cb_fiber'[t] = f
      /\ \A u \in Threads : u # t =>
           pc'[u] = pc[u] /\ ft'[u] = ft[u] /\ cb_fiber'[u] = cb_fiber[u]
  BY <1>5 DEF IInv, TypeOK
<1>7. /\ Carrier(t)' /\ Cur(t)' = f
      /\ \A u \in Threads : u # t =>
           (Carrier(u)' <=> Carrier(u)) /\ Cur(u)' = Cur(u)
  BY <1>6 DEF Carrier, HasFiber, Cur, NoTask
<1>. QED
  BY <1>1, <1>2, <1>3, <1>4, <1>5, <1>6, <1>7 DEF CbTaken

\* schedule() and the wake-ups touch nothing but the queue.
LEMMA EnqueueEffect ==
  ASSUME UNCHANGED <<pc, ft, cb_fiber>>
  PROVE  /\ \A u \in Threads : (Carrier(u)' <=> Carrier(u)) /\ Cur(u)' = Cur(u)
         /\ \A u \in Threads, c \in Cbs : CbTaken(u, c)' <=> CbTaken(u, c)
BY DEF Carrier, HasFiber, Cur, CbTaken

\* Every step is one of those above, under one handover.
LEMMA NextCases ==
  ASSUME IInv, Tokens, Next
  PROVE  \/ QuietNext
         \/ \E t \in Threads :
              \/ AdvanceNext(t) \/ LetGoNext(t) \/ RunTake(t)
              \/ \E f \in HostFibers : RunCb(t, f)
         \/ \E t \in Threads, b \in Bodies, thread \in Pins : Schedule(t, b, thread)
         \/ \E t \in Threads, b1, b2 \in Bodies : ScheduleRange(t, b1, b2)
         \/ \E f \in Fibers : Wake(f)
BY NeverDrops
   DEF Next, RunStep, FiberStep, ClientStep, QuietNext, AdvanceNext, LetGoNext

-----------------------------------------------------------------------------
(***************************************************************************)
(* No body is lost.                                                        *)
(***************************************************************************)

\* Kept says what NoLostBody asks for.
LEMMA KeptMeans ==
  ASSUME IInv, NEW b \in Bodies
  PROVE  Kept(b) <=> InQueue(b) \/ Held(b) \/ \E t \in Threads : Carries(t, b)
<1>1. b # Null
  BY ClientAssumption DEF Bodies, Fibers
<1>2. ASSUME InQueue(b) PROVE Kept(b)
  <2>1. PICK i \in 1..Len(m_tasks) : BodyOf(m_tasks[i]) = b
    BY <1>2 DEF InQueue
  <2>2. PICK task \in Task : task = m_tasks[i]
    BY ElementIsTask DEF IInv
  <2>3. task.thread \in Threads \cup {AnyThread} /\ (task.fiber # Null => task.fiber \in Fibers)
    BY TaskKinds
  <2>4. CASE task.fiber # Null
    <3>1. Queued(task.fiber) /\ m_cb[task.fiber] = b
      BY <2>1, <2>2, <2>3, <2>4 DEF Queued, Waits, BodyOf
    <3>. QED
      BY <2>3, <2>4, <3>1 DEF Kept, Unused
  <2>5. CASE task.fiber = Null
    BY <2>1, <2>2, <2>3, <2>5 DEF Kept, CbWaits, BodyOf
  <2>. QED
    BY <2>4, <2>5
<1>3. ASSUME Held(b) PROVE Kept(b)
  BY <1>3 DEF Held, Kept, Unused
<1>4. ASSUME NEW t \in Threads, Carries(t, b) PROVE Kept(b)
  <2>1. ft[t] \in Task \cup {NoTask}
    BY DEF IInv, TypeOK
  <2>2. CASE pc[t] = "dispatch" /\ ft[t] # NoTask /\ BodyOf(ft[t]) = b
    <3>1. CASE ft[t].fiber # Null
      <4>1. Carrier(t) /\ Cur(t) = ft[t].fiber /\ m_cb[Cur(t)] = b
        BY <2>2, <3>1 DEF Carrier, Cur, BodyOf
      <4>. QED
        BY <4>1, CarrierFiber DEF Kept, Unused, Has
    <3>2. CASE ft[t].fiber = Null
      BY <2>2, <3>2 DEF Kept, CbTaken, BodyOf
    <3>. QED
      BY <3>1, <3>2
  <2>3. CASE HasFiber(t) /\ m_cb[Cur(t)] = b
    BY <2>3, CarrierFiber DEF Carrier, Kept, Unused, Has
  <2>. QED
    BY <1>4, <2>2, <2>3 DEF Carries, HasFiber
<1>5. ASSUME Kept(b)
      PROVE  InQueue(b) \/ Held(b) \/ \E t \in Threads : Carries(t, b)
  <2>1. ASSUME NEW f \in Fibers, m_cb[f] = b, ~Unused(f)
        PROVE  InQueue(b) \/ Held(b) \/ \E t \in Threads : Carries(t, b)
    <3>1. f # Null
      BY ClientAssumption
    <3>2. CASE Queued(f)
      BY <2>1, <3>1, <3>2 DEF Queued, Waits, InQueue, BodyOf
    <3>3. CASE armed[f] # Null
      BY <2>1, <3>3 DEF Held
    <3>4. ASSUME NEW t \in Threads, Has(t, f) PROVE Carries(t, b)
      <4>1. CASE HasFiber(t)
        BY <2>1, <3>4, <4>1 DEF Has, Carries, HasFiber
      <4>2. CASE pc[t] = "dispatch" /\ ft[t].fiber # Null
        BY <2>1, <3>4, <4>2 DEF Has, Carries, Cur, BodyOf, NoTask
      <4>. QED
        BY <3>4, <4>1, <4>2 DEF Has, Carrier
    <3>. QED
      BY <2>1, <3>2, <3>3, <3>4 DEF Unused
  <2>2. ASSUME NEW thread \in Threads \cup {AnyThread}, CbWaits(b, thread)
        PROVE  InQueue(b)
    <3>1. PICK i \in 1..Len(m_tasks) : m_tasks[i].cb = b
      BY <2>2 DEF CbWaits
    <3>2. m_tasks[i].fiber = Null
      BY <1>1, <3>1, ElementIsTask, TaskKinds DEF IInv
    <3>. QED
      BY <3>1, <3>2 DEF InQueue, BodyOf
  <2>3. ASSUME NEW t \in Threads, CbTaken(t, b) PROVE Carries(t, b)
    <3>1. ft[t].fiber = Null /\ ft[t] # NoTask
      BY <1>1, <2>3, TaskKinds DEF CbTaken, IInv, TypeOK, NoTask
    <3>. QED
      BY <2>3, <3>1 DEF Carries, CbTaken, BodyOf
  <2>. QED
    BY <1>5, <2>1, <2>2, <2>3 DEF Kept
<1>. QED
  BY <1>2, <1>3, <1>4, <1>5

\* NoLostBody in terms of Kept.
AllKept == \A b \in Bodies : Unfinished(b) => Kept(b)

\* What a step has to do to keep every body: a fiber it forgets has no unfinished
\* body, a callback it takes goes to a fiber, and what it adds is queued.
LEMMA KeepStep ==
  ASSUME AllKept, done \subseteq done',
         \A f \in Fibers :
           \/ Unused(f) \/ m_cb[f] \in done' \cup {Null}
           \/ ~Unused(f)' /\ m_cb'[f] = m_cb[f],
         \A c \in Bodies, thread \in Threads \cup {AnyThread} :
           CbWaits(c, thread) => Kept(c)',
         \A c \in Bodies, t \in Threads : CbTaken(t, c) => Kept(c)',
         \A b \in Bodies : want'[b] # Null /\ want[b] = Null => Kept(b)'
  PROVE  AllKept'
<1>. SUFFICES ASSUME NEW b \in Bodies, Unfinished(b)' PROVE Kept(b)'
  BY DEF AllKept
<1>1. CASE want[b] = Null
  BY <1>1 DEF Unfinished
<1>2. CASE want[b] # Null
  <2>1. Kept(b) /\ b # Null /\ b \notin done'
    BY <1>2, ClientAssumption DEF AllKept, Unfinished, Bodies, Fibers
  <2>2. ASSUME NEW f \in Fibers, m_cb[f] = b, ~Unused(f)
        PROVE  ~Unused(f)' /\ m_cb'[f] = b
    BY <2>1, <2>2
  <2>. QED
    BY <2>1, <2>2 DEF Kept
<1>. QED
  BY <1>1, <1>2

\* Only callbacks wait or are taken as such.
LEMMA OnlyCbs ==
  ASSUME IInv, NEW b \in Bodies
  PROVE  /\ \A thread : CbWaits(b, thread) => b \in Cbs
         /\ \A t \in Threads : CbTaken(t, b) => b \in Cbs
<1>1. b # Null
  BY ClientAssumption DEF Bodies, Fibers
<1>2. \A thread : CbWaits(b, thread) => b \in Cbs
  BY <1>1, ElementIsTask, TaskKinds DEF CbWaits, IInv
<1>3. \A t \in Threads : CbTaken(t, b) => b \in Cbs
  BY <1>1, TaskKinds DEF CbTaken, IInv, TypeOK
<1>. QED
  BY <1>2, <1>3

\* A step that changes nothing of the queue keeps the callbacks in it.
LEMMA SameCbs ==
  ASSUME IInv, UNCHANGED m_tasks,
         \A u \in Threads, c \in Cbs : CbTaken(u, c)' <=> CbTaken(u, c)
  PROVE  /\ \A c \in Bodies, thread \in Threads \cup {AnyThread} :
              CbWaits(c, thread) => Kept(c)'
         /\ \A c \in Bodies, t \in Threads : CbTaken(t, c) => Kept(c)'
BY OnlyCbs, SameTasks DEF Kept

\* Every step keeps every body.
LEMMA KeptStep ==
  ASSUME OneHandover, IInv, IInv', Tokens, Tokens', BodiesOK, AllKept, Next
  PROVE  AllKept'
<1>. USE DEF BodiesOK
<1>1. CASE QuietNext
  <2>1. \A f \in Fibers : Unused(f)' <=> Unused(f)
    BY <1>1, QuietEffect, SameTasks DEF Unused, Has
  <2>. QED
    BY <1>1, <2>1, QuietEffect, SameCbs, KeepStep
<1>2. ASSUME NEW t \in Threads, AdvanceNext(t) PROVE AllKept'
  <2>1. \A f \in Fibers : ~Unused(f) => ~Unused(f)'
    <3>1. ~Unused(Cur(t))'
      BY <1>2, AdvanceEffect DEF Unused, Has
    <3>2. \A f \in Fibers : f # Cur(t) => (Unused(f)' <=> Unused(f))
      BY <1>2, AdvanceEffect, SameTasks DEF Unused, Has
    <3>3. Cur(t)' = Cur(t)
      BY <1>2, AdvanceEffect
    <3>. QED
      BY <3>1, <3>2, <3>3
  <2>2. /\ done \subseteq done'
        /\ m_cb'[Cur(t)] = m_cb[Cur(t)] \/ m_cb[Cur(t)] \in done' \cup {Null}
    <3>1. CASE \E s \in Finished : Finish(t, s)
      BY <3>1 DEF Finish
    <3>2. CASE ~\E s \in Finished : Finish(t, s)
      BY <1>2, <3>2
         DEF AdvanceNext, RunFiber, SwapOut, RunAfter, RunPostReady, RunPostHold,
             SwapIn, YieldToReady, YieldToHold, Arm, Fail, taskVars, envVars,
             clientVars, fiberVars
    <3>. QED
      BY <3>1, <3>2
  <2>. QED
    BY <1>2, <2>1, <2>2, AdvanceEffect, SameCbs, KeepStep
<1>3. ASSUME NEW t \in Threads, LetGoNext(t) PROVE AllKept'
  <2>0. PICK g \in Fibers : g = Cur(t)
    BY <1>3, LetGoEffect
  <2>1. \A f \in Fibers : f # g => m_cb'[f] = m_cb[f] /\ (~Unused(f) => ~Unused(f)')
    <3>1. CASE UNCHANGED m_tasks
      BY <1>3, <2>0, <3>1, LetGoEffect, SameTasks DEF Unused, Has
    <3>2. CASE RunResched(t)
      <4>1. PICK task \in Task : task = [fiber |-> g, cb |-> Null, thread |-> AnyThread]
        BY FiberTaskType
      <4>2. m_tasks' = m_tasks \o <<task>>
        BY <2>0, <3>2, <4>1 DEF RunResched, scheduleNoLock
      <4>3. \A f \in Fibers : Queued(f) => Queued(f)'
        BY <4>2, AppendWaits DEF Queued, IInv
      <4>. QED
        BY <1>3, <2>0, <4>3, LetGoEffect DEF Unused, Has
    <3>. QED
      BY <1>3, <3>1, <3>2
         DEF LetGoNext, RunPostFinished, RunSetHold, queueVars
  <2>2. m_cb[g] \in done' \cup {Null} \/ (~Unused(g)' /\ m_cb'[g] = m_cb[g])
    <3>0. UNCHANGED <<done, armed>>
      BY <1>3, LetGoEffect
    <3>1. CASE RunPostFinished(t)
      BY <2>0, <3>0, <3>1 DEF RunPostFinished
    <3>2. CASE RunSetHold(t)
      <4>1. pc[t] = "sethold" /\ Holding(t) /\ UNCHANGED <<m_tasks, m_cb>>
        BY <3>2 DEF RunSetHold, At, Holding, Tokens, CarryOK, Carrier, HasFiber,
                    StatesAt, queueVars
      <4>2. ~Unused(g)'
        BY <2>0, <3>0, <4>1, SameTasks DEF Unused
      <4>. QED
        BY <4>1, <4>2
    <3>3. CASE RunResched(t)
      <4>1. PICK task \in Task : task = [fiber |-> g, cb |-> Null, thread |-> AnyThread]
        BY FiberTaskType
      <4>2. m_tasks' = m_tasks \o <<task>> /\ UNCHANGED m_cb
        BY <2>0, <3>3, <4>1 DEF RunResched, scheduleNoLock, fiberVars
      <4>3. Queued(g)'
        BY <4>1, <4>2, AppendWaits DEF Queued, IInv
      <4>. QED
        BY <4>2, <4>3 DEF Unused
    <3>. QED
      BY <1>3, <3>1, <3>2, <3>3 DEF LetGoNext
  <2>3. /\ \A c \in Bodies, thread \in Threads \cup {AnyThread} :
             CbWaits(c, thread) => Kept(c)'
        /\ \A c \in Bodies, u \in Threads : CbTaken(u, c) => Kept(c)'
    <3>1. CASE UNCHANGED m_tasks
      BY <1>3, <3>1, LetGoEffect, SameCbs
    <3>2. CASE RunResched(t)
      <4>1. PICK task \in Task : task = [fiber |-> g, cb |-> Null, thread |-> AnyThread]
        BY FiberTaskType
      <4>2. m_tasks' = m_tasks \o <<task>>
        BY <2>0, <3>2, <4>1 DEF RunResched, scheduleNoLock
      <4>3. \A c, thread : CbWaits(c, thread) => CbWaits(c, thread)'
        BY <4>2, AppendCbWaits DEF IInv
      <4>. QED
        BY <1>3, <4>3, LetGoEffect, OnlyCbs DEF Kept
    <3>. QED
      BY <1>3, <3>1, <3>2
         DEF LetGoNext, RunPostFinished, RunSetHold, queueVars
  <2>4. UNCHANGED <<done, want>>
    BY <1>3, LetGoEffect
  <2>. QED
    BY <2>1, <2>2, <2>3, <2>4, KeepStep
<1>4. ASSUME NEW t \in Threads, RunTake(t) PROVE AllKept'
  <2>1. PICK task \in Task :
           /\ \A f \in Fibers, thread \in Threads \cup {AnyThread} :
                Waits(f, thread)' <=> Waits(f, thread) /\ f # task.fiber
           /\ \A c, thread :
                CbWaits(c, thread) =>
                     \/ CbWaits(c, thread)'
                     \/ task.cb = c /\ task.thread = thread
           /\ ft'[t] = task /\ pc'[t] = "dispatch" /\ pc[t] = "scan"
           /\ ~Carrier(t) /\ (Carrier(t)' <=> task.fiber # Null)
           /\ task.fiber # Null => Cur(t)' = task.fiber
           /\ \A u \in Threads : u # t =>
                /\ Carrier(u)' <=> Carrier(u)
                /\ Cur(u)' = Cur(u)
                /\ pc'[u] = pc[u] /\ ft'[u] = ft[u]
           /\ UNCHANGED <<m_state, m_cb, armed, want, done, readyLeft>>
    BY <1>4, TakeEffect
  <2>2. \A f \in Fibers : ~Unused(f) => ~Unused(f)'
    <3>1. \A f \in Fibers : f # task.fiber => (Queued(f) => Queued(f)')
      BY <2>1 DEF Queued
    <3>2. \A f \in Fibers : f = task.fiber => ~Unused(f)'
      BY <2>1, ClientAssumption DEF Unused, Has
    <3>3. \A f \in Fibers, u \in Threads : Has(u, f) => Has(u, f)'
      BY <2>1 DEF Has
    <3>. QED
      BY <2>1, <3>1, <3>2, <3>3 DEF Unused
  <2>3. \A c \in Bodies, thread \in Threads \cup {AnyThread} :
          CbWaits(c, thread) => Kept(c)'
    BY <2>1 DEF Kept, CbTaken
  <2>4. \A c \in Bodies, u \in Threads : CbTaken(u, c) => CbTaken(u, c)'
    BY <2>1 DEF CbTaken
  <2>5. \A c \in Bodies, u \in Threads : CbTaken(u, c) => Kept(c)'
    BY <2>4 DEF Kept
  <2>. QED
    BY <2>1, <2>2, <2>3, <2>5, KeepStep
<1>5. ASSUME NEW t \in Threads, NEW f \in HostFibers, RunCb(t, f) PROVE AllKept'
  <2>. DEFINE c == ft[t].cb
  <2>1. /\ f \in Fibers /\ c \in Cbs /\ m_cb'[f] = c
        /\ \A g \in Fibers : g # f => m_cb'[g] = m_cb[g]
        /\ Unused(f) /\ Has(t, f)' /\ UNCHANGED <<m_tasks, armed, want, done>>
    BY <1>5, CbEffect DEF IInv, TypeOK, Has
  <2>2. \A g \in Fibers : g # f => (~Unused(g) => ~Unused(g)')
    <3>1. \A g \in Fibers : g # f => \A u \in Threads : Has(u, g) => Has(u, g)'
      BY <1>5, CbEffect DEF Has
    <3>. QED
      BY <2>1, <3>1, SameTasks DEF Unused
  <2>3. PICK d \in Cbs : d = c
    BY <2>1
  <2>4. Kept(d)'
    BY <2>1, <2>3 DEF Kept, Unused
  <2>5. \A x \in Bodies, u \in Threads : CbTaken(u, x) => x = d \/ CbTaken(u, x)'
    BY <1>5, <2>3, CbEffect DEF CbTaken
  <2>6. \A x \in Bodies, u \in Threads : CbTaken(u, x) => Kept(x)'
    BY <2>4, <2>5 DEF Kept
  <2>7. \A x \in Bodies, thread \in Threads \cup {AnyThread} :
          CbWaits(x, thread) => Kept(x)'
    BY <2>1, SameTasks DEF Kept
  <2>. QED
    BY <2>1, <2>2, <2>6, <2>7, KeepStep
<1>6. ASSUME UNCHANGED <<pc, ft, cb_fiber, m_cb, done>>,
             \A f \in Fibers : armed[f] # Null => armed'[f] # Null \/ Queued(f)',
             \A f \in Fibers : Queued(f) => Queued(f)',
             \A c \in Bodies, thread \in Threads \cup {AnyThread} :
               CbWaits(c, thread) => CbWaits(c, thread)',
             \A b \in Bodies : want'[b] # Null /\ want[b] = Null => Kept(b)'
      PROVE  AllKept'
  <2>1. \A f \in Fibers : ~Unused(f) => ~Unused(f)'
    BY <1>6, EnqueueEffect DEF Unused, Has
  <2>2. /\ \A c \in Bodies, thread \in Threads \cup {AnyThread} :
             CbWaits(c, thread) => Kept(c)'
        /\ \A c \in Bodies, t \in Threads : CbTaken(t, c) => Kept(c)'
    BY <1>6, EnqueueEffect, OnlyCbs DEF Kept
  <2>. QED
    BY <1>6, <2>1, <2>2, KeepStep
<1>7. ASSUME NEW t \in Threads, NEW b \in Bodies, NEW thread \in Pins,
             Schedule(t, b, thread)
      PROVE  AllKept'
  <2>1. thread \in Threads \cup {AnyThread}
    BY ClientAssumption
  <2>2. PICK task \in Task : task = TaskOf(b, thread)
    BY <2>1, TaskOfType
  <2>3. task.thread = thread /\ (b \in Cbs => task.cb = b) /\ (b \notin Cbs => task.fiber = b)
    BY <2>2 DEF TaskOf
  <2>4. /\ m_tasks' = m_tasks \o <<task>> /\ want[b] = Null
        /\ want' = [want EXCEPT ![b] = thread]
        /\ UNCHANGED <<pc, ft, cb_fiber, m_cb, done, armed>>
    BY <1>7, <2>2 DEF Schedule, MaySchedule, OneHandover, scheduleNoLock, poolVars,
                      fiberVars, localVars
  <2>5. /\ \A f \in Fibers : Queued(f) => Queued(f)'
        /\ \A c, th : CbWaits(c, th) => CbWaits(c, th)'
    BY <2>4, AppendWaits, AppendCbWaits DEF Queued, IInv
  <2>6. Kept(b)'
    <3>1. CASE b \in Cbs
      BY <2>1, <2>3, <2>4, <3>1, AppendCbWaits DEF Kept, IInv
    <3>2. CASE b \notin Cbs
      <4>1. b \in ClientFibers /\ b \in Fibers /\ m_cb'[b] = b
        BY <2>4, <3>2 DEF Bodies, Fibers
      <4>2. Queued(b)'
        BY <2>1, <2>3, <2>4, <3>2, AppendWaits DEF Queued, IInv
      <4>. QED
        BY <4>1, <4>2 DEF Kept, Unused
    <3>. QED
      BY <3>1, <3>2
  <2>7. \A x \in Bodies : want'[x] # Null /\ want[x] = Null => Kept(x)'
    BY <2>4, <2>6 DEF IInv, TypeOK
  <2>. QED
    BY <1>6, <2>4, <2>5, <2>7
<1>8. ASSUME NEW t \in Threads, NEW b1 \in Bodies, NEW b2 \in Bodies,
             ScheduleRange(t, b1, b2)
      PROVE  AllKept'
  <2>1. AnyThread \in Threads \cup {AnyThread}
    OBVIOUS
  <2>2. PICK x1 \in Task, x2 \in Task :
          x1 = TaskOf(b1, AnyThread) /\ x2 = TaskOf(b2, AnyThread)
    BY TaskOfType
  <2>3. /\ x1.thread = AnyThread /\ x2.thread = AnyThread
        /\ (b1 \in Cbs => x1.cb = b1) /\ (b1 \notin Cbs => x1.fiber = b1)
        /\ (b2 \in Cbs => x2.cb = b2) /\ (b2 \notin Cbs => x2.fiber = b2)
    BY <2>2 DEF TaskOf
  <2>4. /\ m_tasks' = m_tasks \o <<x1, x2>> /\ want[b1] = Null /\ want[b2] = Null
        /\ want' = [want EXCEPT ![b1] = AnyThread, ![b2] = AnyThread]
        /\ UNCHANGED <<pc, ft, cb_fiber, m_cb, done, armed>>
    BY <1>8, <2>2 DEF ScheduleRange, scheduleNoLock, poolVars, fiberVars, localVars
  <2>5. /\ \A f \in Fibers : Queued(f) => Queued(f)'
        /\ \A c, th : CbWaits(c, th) => CbWaits(c, th)'
    BY <2>4, AppendTwoWaits, AppendTwoCbWaits DEF Queued, IInv
  <2>6. ASSUME NEW b \in Bodies, b = b1 \/ b = b2 PROVE Kept(b)'
    <3>0. PICK task \in Task :
            /\ task \in {x1, x2} /\ task.thread = AnyThread
            /\ b \in Cbs => task.cb = b
            /\ b \notin Cbs => task.fiber = b
      BY <2>3, <2>6
    <3>1. CASE b \in Cbs
      <4>1. CbWaits(b, AnyThread)'
        BY <2>4, <3>0, <3>1, AppendTwoCbWaits DEF IInv
      <4>. QED
        BY <4>1 DEF Kept
    <3>2. CASE b \notin Cbs
      <4>1. b \in ClientFibers /\ b \in Fibers /\ m_cb'[b] = b
        BY <2>4, <2>6, <3>2 DEF Bodies, Fibers
      <4>2. Waits(b, AnyThread)'
        BY <2>4, <3>0, <3>2, <4>1, AppendTwoWaits DEF IInv
      <4>. QED
        BY <4>1, <4>2 DEF Kept, Unused, Queued
    <3>. QED
      BY <3>1, <3>2
  <2>7. \A x \in Bodies : want'[x] # Null /\ want[x] = Null => Kept(x)'
    BY <2>4, <2>6 DEF IInv, TypeOK
  <2>. QED
    BY <1>6, <2>4, <2>5, <2>7
<1>9. ASSUME NEW f \in Fibers, Wake(f) PROVE AllKept'
  <2>1. PICK home \in Threads \cup {AnyThread} :
          home = IF WakeHome THEN armed[f] ELSE AnyThread
    BY <1>9 DEF Wake, IInv, TypeOK
  <2>2. PICK task \in Task : task = [fiber |-> f, cb |-> Null, thread |-> home]
    BY FiberTaskType
  <2>3. /\ m_tasks' = m_tasks \o <<task>>
        /\ armed' = [armed EXCEPT ![f] = Null]
        /\ UNCHANGED <<pc, ft, cb_fiber, m_cb, done, want>>
    BY <1>9, <2>1, <2>2 DEF Wake, scheduleNoLock, poolVars, fiberVars, localVars
  <2>4. /\ \A g \in Fibers : Queued(g) => Queued(g)'
        /\ Queued(f)'
        /\ \A c, th : CbWaits(c, th) => CbWaits(c, th)'
    BY <2>2, <2>3, AppendWaits, AppendCbWaits DEF Queued, IInv
  <2>5. \A g \in Fibers : armed[g] # Null => armed'[g] # Null \/ Queued(g)'
    BY <2>3, <2>4 DEF IInv, TypeOK
  <2>. QED
    BY <1>6, <2>3, <2>4, <2>5
<1>. QED
  BY <1>1, <1>2, <1>3, <1>4, <1>5, <1>7, <1>8, <1>9, NextCases


\* A thread that holds carries a fiber, in state EXEC or HOLD.
LEMMA HoldingCarries ==
  ASSUME NEW t \in Threads, Holding(t)
  PROVE  Carrier(t)
BY DEF Holding, Carrier, HasFiber

\* Every step keeps what BodiesOK says.
LEMMA BodiesStep ==
  ASSUME OneHandover, IInv, IInv', Tokens, Tokens', BodiesOK, Next
  PROVE  BodiesOK'
<1>. USE DEF BodiesOK
<1>1. CASE QuietNext
  <2>1. UNCHANGED <<m_tasks, m_state, m_cb, armed, want, done>>
    BY <1>1, QuietEffect
  <2>2. ASSUME NEW t \in Threads, Holding(t)'
        PROVE  Holding(t) /\ Cur(t)' = Cur(t)
    <3>1. Carrier(t)'
      BY <2>2 DEF Holding, Carrier, HasFiber
    <3>2. pc'[t] = pc[t] /\ Cur(t)' = Cur(t)
      BY <1>1, <3>1, QuietEffect
    <3>. QED
      BY <2>1, <2>2, <3>2 DEF Holding
  <2>. QED
    BY <2>1, <2>2, SameTasks
<1>2. ASSUME NEW t \in Threads, AdvanceNext(t) PROVE BodiesOK'
  <2>0. PICK g \in Fibers : g = Cur(t)
    BY <1>2, AdvanceEffect
  <2>1. /\ \A f \in Fibers : f # g =>
             m_state'[f] = m_state[f] /\ m_cb'[f] = m_cb[f] /\ armed'[f] = armed[f]
        /\ UNCHANGED <<m_tasks, want>>
        /\ \A u \in Threads : Cur(u)' = Cur(u) /\ (u # t => pc'[u] = pc[u])
        /\ Carrier(t)
    BY <1>2, <2>0, AdvanceEffect
  <2>2. done \subseteq done'
    BY <1>2 DEF AdvanceNext, RunFiber, SwapOut, RunAfter, RunPostReady, RunPostHold,
                SwapIn, YieldToReady, YieldToHold, Arm, Finish, Fail, taskVars,
                envVars, clientVars
  <2>3. m_state'[g] \in Finished => m_cb'[g] \in done' \cup {Null}
    <3>1. CASE \E s \in Finished : Finish(t, s)
      BY <2>0, <3>1 DEF Finish, IInv, TypeOK
    <3>2. CASE SwapIn(t) \/ YieldToReady(t) \/ YieldToHold(t)
      BY <2>0, <2>2, <3>2
         DEF SwapIn, YieldToReady, YieldToHold, SetState, Finished, IInv, TypeOK,
             Fail, fiberVars
    <3>3. CASE \/ RunFiber(t) \/ SwapOut(t) \/ RunAfter(t) \/ RunPostReady(t)
               \/ RunPostHold(t) \/ Arm(t)
      BY <2>0, <2>2, <3>3
         DEF RunFiber, SwapOut, RunAfter, RunPostReady, RunPostHold, Arm,
             taskVars, fiberVars
    <3>. QED
      BY <1>2, <3>1, <3>2, <3>3 DEF AdvanceNext
  <2>4. ASSUME NEW u \in Threads, u # t, Holding(u)'
        PROVE  armed'[Cur(u)] # Null \/ Queued(Cur(u))'
    <3>1. pc'[u] = pc[u] /\ Cur(u)' = Cur(u)
      BY <2>1, <2>4
    <3>2. Carrier(u)
      BY <2>4, <3>1 DEF Holding, Carrier, HasFiber
    <3>3. PICK h \in Fibers : h = Cur(u)
      BY <3>2, CarrierFiber
    <3>4. h # g
      BY <2>0, <2>1, <2>4, <3>2, <3>3 DEF Tokens, CarryOK
    <3>5. Holding(u) /\ armed'[h] = armed[h]
      BY <2>1, <2>4, <3>1, <3>3, <3>4 DEF Holding
    <3>6. Queued(h)' <=> Queued(h)
      BY <2>1, SameTasks
    <3>. QED
      BY <3>1, <3>3, <3>5, <3>6
  <2>5. ASSUME Holding(t)' PROVE armed'[g] # Null \/ Queued(g)'
    <3>1. Queued(g)' <=> Queued(g)
      BY <2>1, SameTasks
    <3>2. CASE Arm(t)
      BY <2>0, <3>2, ThreadsAssumption DEF Arm, IInv, TypeOK
    <3>3. CASE YieldToHold(t)
      <4>1. Holding(t) /\ UNCHANGED armed
        BY <3>3 DEF YieldToHold, At, Holding, Fail, envVars, clientVars
      <4>. QED
        BY <2>0, <3>1, <4>1
    <3>4. CASE SwapOut(t) \/ RunAfter(t) \/ RunPostHold(t)
      <4>1. UNCHANGED <<armed, m_state>> /\ pc[t] \in {"swapout", "after", "post"}
        BY <3>4 DEF SwapOut, RunAfter, RunPostHold, At, taskVars, fiberVars, clientVars
      <4>2. pc'[t] \in {"after", "post", "sethold"}
        BY <3>4 DEF SwapOut, RunAfter, RunPostHold, GoTo, IInv, TypeOK
      <4>3. Holding(t)
        BY <2>1, <2>5, <4>1, <4>2 DEF Holding
      <4>. QED
        BY <2>0, <3>1, <4>1, <4>3
    <3>5. CASE \/ RunFiber(t) \/ RunPostReady(t)
      <4>1. pc'[t] \in {"swapin", "resched"}
        BY <3>5 DEF RunFiber, RunPostReady, GoTo, IInv, TypeOK
      <4>. QED
        BY <2>5, <4>1 DEF Holding
    <3>6. CASE SwapIn(t) \/ YieldToReady(t) \/ \E s \in Finished : Finish(t, s)
      <4>1. m_state[g] \in StatesAt(pc[t])
        BY <2>0, <2>1 DEF Tokens, CarryOK
      <4>2. \/ pc'[t] = "exec"
            \/ pc'[t] = "swapout" /\ m_state'[g] \in Finished \cup {"READY"}
        BY <2>0, <3>6, <4>1
           DEF SwapIn, YieldToReady, Finish, At, SetState, GoTo, StatesAt,
               Resumable, Finished, IInv, TypeOK
      <4>3. Cur(t)' = g
        BY <2>0, <2>1
      <4>. QED
        BY <2>5, <4>2, <4>3 DEF Holding, Finished
    <3>. QED
      BY <1>2, <3>2, <3>3, <3>4, <3>5, <3>6 DEF AdvanceNext
  <2>6. \A f \in ClientFibers : want'[f] = Null => m_cb'[f] = f
    <3>1. \A f \in ClientFibers : want[f] = Null => f # g /\ f \in Fibers
      BY <2>0, <2>1 DEF Tokens, NewOK, Unused, Has, Fibers
    <3>. QED
      BY <2>1, <3>1
  <2>7. \A f \in Fibers : m_state'[f] \in Finished => m_cb'[f] \in done' \cup {Null}
    BY <2>1, <2>2, <2>3
  <2>8. \A u \in Threads : Holding(u)' => armed'[Cur(u)'] # Null \/ Queued(Cur(u))'
    <3>1. Cur(t)' = g
      BY <2>0, <2>1
    <3>2. ASSUME Holding(t)' PROVE armed'[Cur(t)'] # Null \/ Queued(Cur(t))'
      BY <2>5, <3>1, <3>2
    <3>. QED
      BY <2>1, <2>4, <3>2
  <2>. QED
    BY <2>6, <2>7, <2>8
<1>3. ASSUME NEW t \in Threads, LetGoNext(t) PROVE BodiesOK'
  <2>0. PICK g \in Fibers : g = Cur(t)
    BY <1>3, LetGoEffect
  <2>1. /\ \A f \in Fibers : f # g => m_state'[f] = m_state[f] /\ m_cb'[f] = m_cb[f]
        /\ UNCHANGED <<armed, want, done>>
        /\ Carrier(t) /\ ~Carrier(t)'
        /\ \A u \in Threads : u # t => Cur(u)' = Cur(u) /\ pc'[u] = pc[u]
    BY <1>3, <2>0, LetGoEffect
  <2>2. m_state'[g] \in Finished => m_cb'[g] \in done' \cup {Null}
    BY <1>3, <2>0, <2>1
       DEF LetGoNext, RunPostFinished, RunSetHold, RunResched, SetState, Finished,
           fiberVars, IInv, TypeOK
  <2>3. \A f \in Fibers : Queued(f) => Queued(f)'
    <3>1. CASE UNCHANGED m_tasks
      BY <3>1, SameTasks
    <3>2. CASE RunResched(t)
      <4>1. PICK task \in Task : task = [fiber |-> g, cb |-> Null, thread |-> AnyThread]
        BY FiberTaskType
      <4>2. m_tasks' = m_tasks \o <<task>>
        BY <2>0, <3>2, <4>1 DEF RunResched, scheduleNoLock
      <4>. QED
        BY <4>2, AppendWaits DEF Queued, IInv
    <3>. QED
      BY <1>3, <3>1, <3>2 DEF LetGoNext, RunPostFinished, RunSetHold, queueVars
  <2>4. ASSUME NEW u \in Threads, Holding(u)'
        PROVE  (armed[Cur(u)] # Null \/ Queued(Cur(u)))'
    <3>0. u # t
      BY <2>1, <2>4 DEF Holding, Carrier, HasFiber
    <3>1. pc'[u] = pc[u] /\ Cur(u)' = Cur(u)
      BY <2>1, <3>0
    <3>2. Carrier(u)
      BY <2>4, <3>1 DEF Holding, Carrier, HasFiber
    <3>3. PICK h \in Fibers : h = Cur(u)
      BY <3>2, CarrierFiber
    <3>4. h # g
      BY <2>0, <2>1, <3>0, <3>2, <3>3 DEF Tokens, CarryOK
    <3>5. Holding(u)
      BY <2>1, <2>4, <3>1, <3>3, <3>4 DEF Holding
    <3>6. armed[h] # Null \/ Queued(h)'
      BY <2>3, <3>3, <3>5
    <3>. QED
      BY <2>1, <3>1, <3>3, <3>6
  <2>5. \A f \in ClientFibers : want'[f] = Null => m_cb'[f] = f
    <3>1. \A f \in ClientFibers : want[f] = Null => f # g /\ f \in Fibers
      BY <2>0, <2>1 DEF Tokens, NewOK, Unused, Has, Fibers
    <3>. QED
      BY <2>1, <3>1
  <2>6. \A f \in Fibers : m_state'[f] \in Finished => m_cb'[f] \in done' \cup {Null}
    BY <2>1, <2>2
  <2>. QED
    BY <2>4, <2>5, <2>6
<1>4. ASSUME NEW t \in Threads, RunTake(t) PROVE BodiesOK'
  <2>1. PICK task \in Task :
           /\ \A f \in Fibers, thread \in Threads \cup {AnyThread} :
                Waits(f, thread)' <=> Waits(f, thread) /\ f # task.fiber
           /\ task.fiber # Null => Waits(task.fiber, task.thread)
           /\ task.thread \in {AnyThread, t}
           /\ pc'[t] = "dispatch"
           /\ \A u \in Threads : u # t => Cur(u)' = Cur(u) /\ pc'[u] = pc[u]
           /\ UNCHANGED <<m_state, m_cb, armed, want, done>>
    BY <1>4, TakeEffect
  <2>2. ASSUME NEW u \in Threads, Holding(u)'
        PROVE  (armed[Cur(u)] # Null \/ Queued(Cur(u)))'
    <3>1. u # t /\ pc'[u] = pc[u] /\ Cur(u)' = Cur(u)
      BY <2>1, <2>2 DEF Holding
    <3>2. Holding(u) /\ Carrier(u)
      BY <2>1, <2>2, <3>1 DEF Holding, Carrier, HasFiber
    <3>3. PICK h \in Fibers : h = Cur(u)
      BY <3>2, CarrierFiber
    <3>4. \A thread \in Threads \cup {AnyThread} : Waits(h, thread) => thread = u
      BY <3>2, <3>3 DEF Tokens, MeetOK
    <3>5. h # task.fiber
      <4>1. u # AnyThread /\ h # Null /\ task.thread \in Threads \cup {AnyThread}
        BY ThreadsAssumption, ClientAssumption, TaskKinds
      <4>. QED
        BY <2>1, <3>1, <3>4, <4>1
    <3>6. Queued(h) => Queued(h)'
      BY <2>1, <3>5 DEF Queued
    <3>. QED
      BY <2>1, <3>1, <3>2, <3>3, <3>6
  <2>. QED
    BY <2>1, <2>2
<1>5. ASSUME NEW t \in Threads, NEW f \in HostFibers, RunCb(t, f) PROVE BodiesOK'
  <2>1. /\ f \in Fibers /\ f \notin ClientFibers /\ Unused(f)
        /\ \A g \in Fibers : g # f => m_cb'[g] = m_cb[g] /\ m_state'[g] = m_state[g]
        /\ m_state'[f] = "INIT"
        /\ UNCHANGED <<m_tasks, armed, want, done>>
        /\ pc'[t] = "swapin"
        /\ \A u \in Threads : u # t => Cur(u)' = Cur(u) /\ pc'[u] = pc[u]
    BY <1>5, CbEffect DEF IInv, TypeOK
  <2>2. ASSUME NEW u \in Threads, Holding(u)'
        PROVE  (armed[Cur(u)] # Null \/ Queued(Cur(u)))'
    <3>1. u # t /\ pc'[u] = pc[u] /\ Cur(u)' = Cur(u)
      BY <2>1, <2>2 DEF Holding
    <3>2. Carrier(u)
      BY <2>2, <3>1 DEF Holding, Carrier, HasFiber
    <3>3. PICK h \in Fibers : h = Cur(u)
      BY <3>2, CarrierFiber
    <3>4. h # f
      BY <2>1, <3>2, <3>3 DEF Unused, Has
    <3>5. Holding(u)
      BY <2>1, <2>2, <3>1, <3>3, <3>4 DEF Holding
    <3>6. Queued(h)' <=> Queued(h)
      BY <2>1, SameTasks
    <3>. QED
      BY <2>1, <3>1, <3>3, <3>5, <3>6
  <2>3. \A g \in ClientFibers : want'[g] = Null => m_cb'[g] = g
    BY <2>1 DEF Fibers
  <2>4. \A g \in Fibers : m_state'[g] \in Finished => m_cb'[g] \in done' \cup {Null}
    BY <2>1 DEF Finished
  <2>. QED
    BY <2>2, <2>3, <2>4
<1>6. ASSUME UNCHANGED <<pc, ft, cb_fiber, m_state, m_cb, done>>,
             \A f \in Fibers : armed[f] # Null => armed'[f] # Null \/ Queued(f)',
             \A f \in Fibers : Queued(f) => Queued(f)',
             \A f \in ClientFibers : want'[f] = Null => want[f] = Null
      PROVE  BodiesOK'
  <2>1. ASSUME NEW u \in Threads, Holding(u)'
        PROVE  (armed[Cur(u)] # Null \/ Queued(Cur(u)))'
    <3>1. Holding(u) /\ Cur(u)' = Cur(u)
      BY <1>6, <2>1 DEF Holding, Cur
    <3>2. PICK h \in Fibers : h = Cur(u)
      BY <3>1, HoldingCarries, CarrierFiber
    <3>3. armed'[h] # Null \/ Queued(h)'
      BY <1>6, <3>1, <3>2
    <3>. QED
      BY <3>1, <3>2, <3>3
  <2>. QED
    BY <1>6, <2>1
<1>7. ASSUME NEW t \in Threads, NEW b \in Bodies, NEW thread \in Pins,
             Schedule(t, b, thread)
      PROVE  BodiesOK'
  <2>1. thread \in Threads \cup {AnyThread} /\ thread # Null
    BY ClientAssumption, ThreadsAssumption
  <2>2. PICK task \in Task : task = TaskOf(b, thread)
    BY <2>1, TaskOfType
  <2>3. /\ m_tasks' = m_tasks \o <<task>>
        /\ want' = [want EXCEPT ![b] = thread]
        /\ UNCHANGED <<pc, ft, cb_fiber, m_state, m_cb, done, armed>>
    BY <1>7, <2>2 DEF Schedule, scheduleNoLock, poolVars, fiberVars, localVars
  <2>4. \A f \in Fibers : Queued(f) => Queued(f)'
    BY <2>3, AppendWaits DEF Queued, IInv
  <2>5. \A f \in ClientFibers : want'[f] = Null => want[f] = Null
    BY <2>1, <2>3 DEF IInv, TypeOK, Bodies
  <2>. QED
    BY <1>6, <2>3, <2>4, <2>5
<1>8. ASSUME NEW t \in Threads, NEW b1 \in Bodies, NEW b2 \in Bodies,
             ScheduleRange(t, b1, b2)
      PROVE  BodiesOK'
  <2>1. AnyThread # Null
    BY ThreadsAssumption
  <2>2. PICK x1 \in Task, x2 \in Task :
          x1 = TaskOf(b1, AnyThread) /\ x2 = TaskOf(b2, AnyThread)
    BY TaskOfType
  <2>3. /\ m_tasks' = m_tasks \o <<x1, x2>>
        /\ want' = [want EXCEPT ![b1] = AnyThread, ![b2] = AnyThread]
        /\ UNCHANGED <<pc, ft, cb_fiber, m_state, m_cb, done, armed>>
    BY <1>8, <2>2 DEF ScheduleRange, scheduleNoLock, poolVars, fiberVars, localVars
  <2>4. \A f \in Fibers : Queued(f) => Queued(f)'
    BY <2>3, AppendTwoWaits DEF Queued, IInv
  <2>5. \A f \in ClientFibers : want'[f] = Null => want[f] = Null
    BY <2>1, <2>3 DEF IInv, TypeOK, Bodies
  <2>. QED
    BY <1>6, <2>3, <2>4, <2>5
<1>9. ASSUME NEW f \in Fibers, Wake(f) PROVE BodiesOK'
  <2>1. PICK home \in Threads \cup {AnyThread} :
          home = IF WakeHome THEN armed[f] ELSE AnyThread
    BY <1>9 DEF Wake, IInv, TypeOK
  <2>2. PICK task \in Task : task = [fiber |-> f, cb |-> Null, thread |-> home]
    BY FiberTaskType
  <2>3. /\ m_tasks' = m_tasks \o <<task>>
        /\ armed' = [armed EXCEPT ![f] = Null]
        /\ UNCHANGED <<pc, ft, cb_fiber, m_state, m_cb, done, want>>
    BY <1>9, <2>1, <2>2 DEF Wake, scheduleNoLock, poolVars, fiberVars, localVars
  <2>4. Queued(f)' /\ \A g \in Fibers : Queued(g) => Queued(g)'
    BY <2>2, <2>3, AppendWaits DEF Queued, IInv
  <2>5. \A g \in Fibers : armed[g] # Null => armed'[g] # Null \/ Queued(g)'
    BY <2>3, <2>4 DEF IInv, TypeOK
  <2>. QED
    BY <1>6, <2>3, <2>4, <2>5
<1>. QED
  BY <1>1, <1>2, <1>3, <1>4, <1>5, <1>7, <1>8, <1>9, NextCases

\* Nothing has been scheduled in the initial state.
LEMMA InitBodies == Init => BodiesOK /\ AllKept
BY DEF Init, BodiesOK, AllKept, Unfinished, Holding, Finished, Fibers, Bodies

\* The two together are an invariant.
LEMMA BodiesInvariance ==
  ASSUME OneHandover
  PROVE  Spec => [](BodiesOK /\ AllKept)
<1>. DEFINE B == BodiesOK /\ AllKept
<1>1. Init => B
  BY InitBodies
<1>2. ASSUME UNCHANGED vars, B PROVE B'
  BY <1>2
     DEF vars, queueVars, countVars, stopVars, fiberVars, localVars, clientVars,
         BodiesOK, AllKept, Kept, Unfinished, Holding, Unused, Has, Carrier,
         HasFiber, Cur, Queued, Waits, CbWaits, CbTaken
<1>3. IInv /\ IInv' /\ Tokens /\ Tokens' /\ B /\ [Next]_vars => B'
  BY <1>2, OneHandover, BodiesStep, KeptStep
<1>. QED
  BY <1>1, <1>3, Invariance, TokensInvariance, PTL DEF Spec

\* A body handed to schedule() is in m_tasks, on a thread or known to a waker
\* until it has returned, for every number of threads, fibers and callbacks:
\* each path on which run() lets go of ft.fiber and cb_fiber (scheduler.cpp
\* 98-146) hands the fiber over first, or its body is done.
THEOREM NothingLost ==
  ASSUME OneHandover
  PROVE  Spec => []NoLostBody
<1>1. IInv /\ AllKept => NoLostBody
  BY KeptMeans DEF AllKept, NoLostBody
<1>. QED
  BY <1>1, Invariance, BodiesInvariance, PTL


-----------------------------------------------------------------------------
(***************************************************************************)
(* A body executes where it was scheduled.                                 *)
(***************************************************************************)

\* A task for every thread is one for each.
LEMMA FitsAny ==
  ASSUME NEW b, NEW thread, Fits(b, AnyThread)
  PROVE  Fits(b, thread)
BY DEF Fits

\* Scheduling a body does not disturb the others, and nobody knew it before.
LEMMA FitsStays ==
  ASSUME NEW b \in Bodies \cup {Null}, NEW thread \in Threads \cup {AnyThread},
         Fits(b, thread),
         \A x \in Bodies : want'[x] = want[x] \/ want[x] = Null
  PROVE  Fits(b, thread)'
BY ThreadsAssumption DEF Fits

\* A step that takes no thread's fiber away: what is queued, armed or carried
\* afterwards was so before with the same body, or fits.
LEMMA PinStep ==
  ASSUME IInv, PinsOK,
         \A x \in Bodies : want'[x] = want[x] \/ want[x] = Null,
         \A f \in Fibers, thread \in Threads \cup {AnyThread} :
           Waits(f, thread)' =>
             \/ Waits(f, thread) /\ m_cb'[f] \in {m_cb[f], Null}
             \/ Fits(m_cb[f], thread)',
         \A f \in Fibers : armed'[f] # Null =>
           \/ armed'[f] = armed[f] /\ m_cb'[f] \in {m_cb[f], Null}
           \/ Fits(m_cb[f], armed[f])',
         \A t \in Threads : Carrier(t)' =>
           \/ /\ Carrier(t) /\ Cur(t)' = Cur(t)
              /\ m_cb'[Cur(t)] \in {m_cb[Cur(t)], Null}
           \/ Fits(m_cb[Cur(t)], t)',
         \A c \in Cbs, thread \in Threads \cup {AnyThread} :
           CbWaits(c, thread)' => CbWaits(c, thread) \/ Fits(c, thread)',
         \A c \in Cbs, t \in Threads :
           CbTaken(t, c)' => CbTaken(t, c) \/ Fits(c, t)',
         readyLeft' = 0 /\ \A f \in Fibers : m_state'[f] # "READY"
  PROVE  PinsOK'
<1>0. /\ \A f \in Fibers : m_cb[f] \in Bodies \cup {Null} /\ armed[f] \in Threads \cup {Null}
      /\ \A t \in Threads : t \in Threads \cup {AnyThread}
      /\ \A c \in Cbs : c \in Bodies \cup {Null}
  BY DEF IInv, TypeOK, Bodies
<1>1. ASSUME NEW b, NEW x \in Bodies \cup {Null}, b \in {x, Null},
             NEW thread \in Threads \cup {AnyThread}, Fits(x, thread)
      PROVE  Fits(b, thread)'
  BY <1>1, FitsStays DEF Fits
<1>2. \A f \in Fibers, thread \in Threads \cup {AnyThread} :
        Waits(f, thread)' => Fits(m_cb[f], thread)'
  BY <1>0, <1>1 DEF PinsOK
<1>3. \A f \in Fibers : armed'[f] # Null => Fits(m_cb[f], armed[f])'
  BY <1>0, <1>1 DEF PinsOK
<1>4. ASSUME NEW t \in Threads, Carrier(t)' PROVE Fits(m_cb[Cur(t)], t)'
  <2>1. CASE /\ Carrier(t) /\ Cur(t)' = Cur(t)
             /\ m_cb'[Cur(t)] \in {m_cb[Cur(t)], Null}
    <3>1. PICK g \in Fibers : g = Cur(t)
      BY <2>1, CarrierFiber
    <3>2. Fits(m_cb[g], t) /\ m_cb'[g] \in {m_cb[g], Null}
      BY <2>1, <3>1 DEF PinsOK
    <3>3. Fits(m_cb[g], t)'
      BY <1>0, <1>1, <3>2
    <3>. QED
      BY <2>1, <3>1, <3>3
  <2>. QED
    BY <1>4, <2>1
<1>5. /\ \A c \in Cbs, thread \in Threads \cup {AnyThread} :
           CbWaits(c, thread)' => Fits(c, thread)'
      /\ \A c \in Cbs, t \in Threads : CbTaken(t, c)' => Fits(c, t)'
  BY <1>0, <1>1 DEF PinsOK
<1>. QED
  BY <1>2, <1>3, <1>4, <1>5 DEF PinsOK

\* Every step keeps what PinsOK says.
LEMMA PinsStep ==
  ASSUME OneHandover, IInv, IInv', Tokens, Tokens', BodiesOK, PinsOK, Next
  PROVE  PinsOK'
<1>1. CASE QuietNext
  BY <1>1, QuietEffect, SameTasks, PinStep DEF PinsOK
<1>2. ASSUME NEW t \in Threads, AdvanceNext(t) PROVE PinsOK'
  <2>0. PICK g \in Fibers : g = Cur(t)
    BY <1>2, AdvanceEffect
  <2>1. /\ \A f \in Fibers : f # g =>
             m_state'[f] = m_state[f] /\ m_cb'[f] = m_cb[f] /\ armed'[f] = armed[f]
        /\ UNCHANGED <<m_tasks, want>>
        /\ \A u \in Threads : Cur(u)' = Cur(u) /\ (Carrier(u)' <=> Carrier(u))
        /\ \A u \in Threads, c \in Cbs : CbTaken(u, c)' <=> CbTaken(u, c)
        /\ Carrier(t)
    BY <1>2, <2>0, AdvanceEffect
  <2>2. readyLeft = 0 /\ m_state[g] # "READY" /\ Fits(m_cb[g], t)
    BY <2>0, <2>1 DEF PinsOK
  <2>3. m_cb'[g] \in {m_cb[g], Null} /\ readyLeft' = 0 /\ m_state'[g] # "READY"
    <3>1. CASE \E s \in Finished : Finish(t, s)
      BY <2>0, <2>2, <3>1 DEF Finish, SetState, Finished, IInv, TypeOK
    <3>2. CASE SwapIn(t) \/ YieldToReady(t) \/ YieldToHold(t)
      BY <2>0, <2>2, <3>2
         DEF SwapIn, YieldToReady, YieldToHold, SetState, IInv, TypeOK,
             Fail, fiberVars, envVars, clientVars
    <3>3. CASE \/ RunFiber(t) \/ SwapOut(t) \/ RunAfter(t) \/ RunPostReady(t)
               \/ RunPostHold(t) \/ Arm(t)
      BY <2>0, <2>2, <3>3
         DEF RunFiber, SwapOut, RunAfter, RunPostReady, RunPostHold, Arm,
             taskVars, fiberVars, clientVars
    <3>. QED
      BY <1>2, <3>1, <3>2, <3>3 DEF AdvanceNext
  <2>4. armed'[g] = armed[g] \/ (armed'[g] = t /\ m_cb'[g] = m_cb[g])
    <3>1. CASE Arm(t)
      BY <2>0, <3>1 DEF Arm, fiberVars, IInv, TypeOK
    <3>2. CASE ~Arm(t)
      BY <1>2, <3>2
         DEF AdvanceNext, RunFiber, SwapOut, RunAfter, RunPostReady, RunPostHold,
             SwapIn, YieldToReady, YieldToHold, Finish, Fail, taskVars, envVars,
             clientVars
    <3>. QED
      BY <3>1, <3>2
  <2>5. \A f \in Fibers : armed'[f] # Null =>
           \/ armed'[f] = armed[f] /\ m_cb'[f] \in {m_cb[f], Null}
           \/ Fits(m_cb[f], armed[f])'
    <3>1. CASE armed'[g] = t /\ m_cb'[g] = m_cb[g]
      <4>1. Fits(m_cb[g], armed[g])'
        BY <2>1, <2>2, <3>1 DEF Fits
      <4>. QED
        BY <2>1, <4>1
    <3>. QED
      BY <2>1, <2>3, <2>4, <3>1
  <2>6. \A f \in Fibers : m_cb'[f] \in {m_cb[f], Null}
    BY <2>1, <2>3
  <2>7. \A u \in Threads : Carrier(u)' =>
          /\ Carrier(u) /\ Cur(u)' = Cur(u)
          /\ m_cb'[Cur(u)] \in {m_cb[Cur(u)], Null}
    BY <2>1, <2>6, CarrierFiber
  <2>8. readyLeft' = 0 /\ \A f \in Fibers : m_state'[f] # "READY"
    BY <2>1, <2>3 DEF PinsOK
  <2>. QED
    BY <2>1, <2>5, <2>6, <2>7, <2>8, SameTasks, PinStep
<1>3. ASSUME NEW t \in Threads, LetGoNext(t) PROVE PinsOK'
  <2>0. PICK g \in Fibers : g = Cur(t)
    BY <1>3, LetGoEffect
  <2>1. /\ \A f \in Fibers : f # g => m_state'[f] = m_state[f] /\ m_cb'[f] = m_cb[f]
        /\ m_cb'[g] \in {m_cb[g], Null}
        /\ UNCHANGED <<armed, want, done, readyLeft>>
        /\ Carrier(t) /\ ~Carrier(t)'
        /\ \A u \in Threads : u # t => Cur(u)' = Cur(u) /\ (Carrier(u)' <=> Carrier(u))
        /\ \A u \in Threads, c \in Cbs : CbTaken(u, c)' <=> CbTaken(u, c)
    BY <1>3, <2>0, LetGoEffect
  <2>2. m_state[g] # "READY" /\ m_state[g] \in StatesAt(pc[t])
    BY <2>0, <2>1 DEF PinsOK, Tokens, CarryOK
  <2>3. ~RunResched(t)
    BY <2>2 DEF RunResched, At, StatesAt
  <2>4. UNCHANGED m_tasks /\ m_state'[g] # "READY"
    BY <1>3, <2>0, <2>2, <2>3
       DEF LetGoNext, RunPostFinished, RunSetHold, SetState, queueVars, fiberVars,
           IInv, TypeOK
  <2>5. \A u \in Threads : Carrier(u)' =>
          /\ Carrier(u) /\ Cur(u)' = Cur(u)
          /\ m_cb'[Cur(u)] \in {m_cb[Cur(u)], Null}
    BY <2>1, CarrierFiber
  <2>6. readyLeft' = 0 /\ \A f \in Fibers : m_state'[f] # "READY"
    BY <2>1, <2>4 DEF PinsOK
  <2>. QED
    BY <2>1, <2>4, <2>5, <2>6, SameTasks, PinStep
<1>4. ASSUME NEW t \in Threads, RunTake(t) PROVE PinsOK'
  <2>1. PICK task \in Task :
           /\ \A f \in Fibers, thread \in Threads \cup {AnyThread} :
                Waits(f, thread)' <=> Waits(f, thread) /\ f # task.fiber
           /\ task.fiber # Null => Waits(task.fiber, task.thread)
           /\ \A c, thread : CbWaits(c, thread)' => CbWaits(c, thread)
           /\ CbWaits(task.cb, task.thread)
           /\ task.thread \in {AnyThread, t}
           /\ ft'[t] = task /\ (Carrier(t)' <=> task.fiber # Null)
           /\ task.fiber # Null => Cur(t)' = task.fiber
           /\ \A u \in Threads : u # t =>
                /\ Carrier(u)' <=> Carrier(u)
                /\ Cur(u)' = Cur(u)
                /\ pc'[u] = pc[u] /\ ft'[u] = ft[u]
           /\ UNCHANGED <<m_state, m_cb, armed, want, done, readyLeft>>
    BY <1>4, TakeEffect
  <2>2. /\ task.fiber # Null => task.fiber \in Fibers
        /\ task.thread \in Threads \cup {AnyThread}
    BY TaskKinds
  <2>3. Carrier(t)' => Fits(m_cb[Cur(t)], t)'
    <3>1. ASSUME NEW f \in Fibers, f = task.fiber, f # Null PROVE Fits(m_cb[f], t)'
      BY <2>1, <2>2, <3>1, FitsAny DEF PinsOK, Fits
    <3>. QED
      BY <2>1, <2>2, <3>1
  <2>4. ASSUME NEW c \in Cbs, CbTaken(t, c)' PROVE Fits(c, t)'
    BY <2>1, <2>2, <2>4, FitsAny DEF PinsOK, CbTaken, Fits
  <2>5. \A c \in Cbs, u \in Threads : CbTaken(u, c)' => CbTaken(u, c) \/ Fits(c, u)'
    BY <2>1, <2>4 DEF CbTaken
  <2>. QED
    BY <2>1, <2>3, <2>5, PinStep DEF PinsOK
<1>5. ASSUME NEW t \in Threads, NEW f \in HostFibers, RunCb(t, f) PROVE PinsOK'
  <2>. DEFINE c == ft[t].cb
  <2>1. /\ f \in Fibers /\ Unused(f) /\ c \in Cbs /\ CbTaken(t, c)
        /\ \A g \in Fibers : g # f => m_cb'[g] = m_cb[g] /\ m_state'[g] = m_state[g]
        /\ m_cb'[f] = c /\ m_state'[f] = "INIT"
        /\ UNCHANGED <<m_tasks, armed, want, done, readyLeft>>
        /\ pc'[t] = "swapin" /\ Cur(t)' = f
        /\ \A u \in Threads : u # t =>
             /\ Carrier(u)' <=> Carrier(u)
             /\ Cur(u)' = Cur(u) /\ pc'[u] = pc[u] /\ ft'[u] = ft[u]
    BY SMTT(30), <1>5, CbEffect DEF IInv, TypeOK
  <2>2. Fits(m_cb[Cur(t)], t)'
    BY <2>1 DEF PinsOK, Fits
  <2>3. ASSUME NEW u \in Threads, u # t, Carrier(u)'
        PROVE  /\ Carrier(u) /\ Cur(u)' = Cur(u)
               /\ m_cb'[Cur(u)] = m_cb[Cur(u)]
    BY <2>1, <2>3, CarrierFiber DEF Unused, Has
  <2>4. \A g \in Fibers, thread \in Threads \cup {AnyThread} :
          Waits(g, thread)' => Waits(g, thread) /\ m_cb'[g] \in {m_cb[g], Null}
    BY <2>1, SameTasks DEF Unused, Queued
  <2>5. \A g \in Fibers : armed'[g] # Null =>
          armed'[g] = armed[g] /\ m_cb'[g] \in {m_cb[g], Null}
    BY <2>1 DEF Unused
  <2>6. \A x \in Cbs, u \in Threads : CbTaken(u, x)' => CbTaken(u, x)
    BY <2>1 DEF CbTaken
  <2>7. readyLeft' = 0 /\ \A g \in Fibers : m_state'[g] # "READY"
    BY <2>1 DEF PinsOK
  <2>8. \A u \in Threads : Carrier(u)' =>
           \/ /\ Carrier(u) /\ Cur(u)' = Cur(u)
              /\ m_cb'[Cur(u)] \in {m_cb[Cur(u)], Null}
           \/ Fits(m_cb[Cur(u)], u)'
    BY <2>2, <2>3
  <2>. QED
    BY <2>1, <2>4, <2>5, <2>6, <2>7, <2>8, SameTasks, PinStep
<1>6. ASSUME UNCHANGED <<pc, ft, cb_fiber, m_state, m_cb, readyLeft>>,
             \A f \in Fibers : armed'[f] \in {armed[f], Null},
             \A x \in Bodies : want'[x] = want[x] \/ want[x] = Null,
             \A f \in Fibers, thread \in Threads \cup {AnyThread} :
               Waits(f, thread)' => Waits(f, thread) \/ Fits(m_cb[f], thread)',
             \A c \in Cbs, thread \in Threads \cup {AnyThread} :
               CbWaits(c, thread)' => CbWaits(c, thread) \/ Fits(c, thread)'
      PROVE  PinsOK'
  <2>1. \A u \in Threads : Carrier(u)' =>
          /\ Carrier(u) /\ Cur(u)' = Cur(u)
          /\ m_cb'[Cur(u)] \in {m_cb[Cur(u)], Null}
    BY <1>6, EnqueueEffect
  <2>2. \A c \in Cbs, u \in Threads : CbTaken(u, c)' => CbTaken(u, c)
    BY <1>6, EnqueueEffect
  <2>3. readyLeft' = 0 /\ \A f \in Fibers : m_state'[f] # "READY"
    BY <1>6 DEF PinsOK
  <2>. QED
    BY <1>6, <2>1, <2>2, <2>3, PinStep
<1>7. ASSUME NEW t \in Threads, NEW b \in Bodies, NEW thread \in Pins,
             Schedule(t, b, thread)
      PROVE  PinsOK'
  <2>1. thread \in Threads \cup {AnyThread}
    BY ClientAssumption
  <2>2. PICK task \in Task : task = TaskOf(b, thread)
    BY <2>1, TaskOfType
  <2>3. /\ task.thread = thread
        /\ task.fiber # Null => task.fiber = b /\ b \in ClientFibers
        /\ task.cb # Null => task.cb = b
    BY <2>2 DEF TaskOf, Bodies
  <2>4. /\ m_tasks' = m_tasks \o <<task>> /\ want[b] = Null
        /\ want' = [want EXCEPT ![b] = thread]
        /\ UNCHANGED <<pc, ft, cb_fiber, m_state, m_cb, armed, readyLeft>>
    BY <1>7, <2>2 DEF Schedule, MaySchedule, OneHandover, scheduleNoLock, poolVars,
                      fiberVars, localVars
  <2>5. want'[b] = thread /\ \A x \in Bodies : x # b => want'[x] = want[x]
    BY <2>4 DEF IInv, TypeOK
  <2>6. \A f \in Fibers, th \in Threads \cup {AnyThread} :
          Waits(f, th)' => Waits(f, th) \/ Fits(m_cb[f], th)'
    <3>1. ASSUME NEW f \in Fibers, f = task.fiber PROVE Fits(m_cb[f], thread)'
      <4>1. f = b /\ m_cb[f] = b
        BY <2>3, <2>4, <3>1, ClientAssumption DEF BodiesOK
      <4>. QED
        BY <2>4, <2>5, <4>1 DEF Fits
    <3>2. \A f, th : Waits(f, th)' => Waits(f, th) \/ (task.fiber = f /\ task.thread = th)
      BY <2>4, AppendWaits DEF IInv
    <3>. QED
      BY <2>3, <3>1, <3>2
  <2>7. \A c \in Cbs, th \in Threads \cup {AnyThread} :
          CbWaits(c, th)' => CbWaits(c, th) \/ Fits(c, th)'
    <3>1. \A c, th : CbWaits(c, th)' => CbWaits(c, th) \/ (task.cb = c /\ task.thread = th)
      BY <2>4, AppendCbWaits DEF IInv
    <3>2. Fits(b, thread)'
      BY <2>5 DEF Fits
    <3>. QED
      BY <2>3, <3>1, <3>2, ClientAssumption
  <2>. QED
    BY <1>6, <2>4, <2>5, <2>6, <2>7
<1>8. ASSUME NEW t \in Threads, NEW b1 \in Bodies, NEW b2 \in Bodies,
             ScheduleRange(t, b1, b2)
      PROVE  PinsOK'
  <2>2. PICK x1 \in Task, x2 \in Task :
          x1 = TaskOf(b1, AnyThread) /\ x2 = TaskOf(b2, AnyThread)
    BY TaskOfType
  <2>3. /\ x1.thread = AnyThread /\ x2.thread = AnyThread
        /\ x1.fiber # Null => x1.fiber = b1 /\ b1 \in ClientFibers
        /\ x2.fiber # Null => x2.fiber = b2 /\ b2 \in ClientFibers
        /\ x1.cb # Null => x1.cb = b1
        /\ x2.cb # Null => x2.cb = b2
    BY <2>2 DEF TaskOf, Bodies
  <2>4. /\ m_tasks' = m_tasks \o <<x1, x2>> /\ want[b1] = Null /\ want[b2] = Null
        /\ want' = [want EXCEPT ![b1] = AnyThread, ![b2] = AnyThread]
        /\ UNCHANGED <<pc, ft, cb_fiber, m_state, m_cb, armed, readyLeft>>
    BY <1>8, <2>2 DEF ScheduleRange, scheduleNoLock, poolVars, fiberVars, localVars
  <2>5. /\ want'[b1] = AnyThread /\ want'[b2] = AnyThread
        /\ \A x \in Bodies : x # b1 /\ x # b2 => want'[x] = want[x]
    BY <2>4 DEF IInv, TypeOK
  <2>6. \A f \in Fibers, th \in Threads \cup {AnyThread} :
          Waits(f, th)' => Waits(f, th) \/ Fits(m_cb[f], th)'
    <3>1. ASSUME NEW f \in Fibers, f = x1.fiber \/ f = x2.fiber
          PROVE  Fits(m_cb[f], AnyThread)'
      <4>1. f \in {b1, b2} /\ m_cb[f] = f
        BY <2>3, <2>4, <3>1, ClientAssumption DEF BodiesOK
      <4>. QED
        BY <2>4, <2>5, <4>1 DEF Fits
    <3>2. \A f, th : Waits(f, th)' =>
            \/ Waits(f, th)
            \/ (x1.fiber = f /\ x1.thread = th) \/ (x2.fiber = f /\ x2.thread = th)
      BY <2>4, AppendTwoWaits DEF IInv
    <3>. QED
      BY <2>3, <3>1, <3>2
  <2>7. \A c \in Cbs, th \in Threads \cup {AnyThread} :
          CbWaits(c, th)' => CbWaits(c, th) \/ Fits(c, th)'
    <3>1. \A c, th : CbWaits(c, th)' =>
            \/ CbWaits(c, th)
            \/ (x1.cb = c /\ x1.thread = th) \/ (x2.cb = c /\ x2.thread = th)
      BY <2>4, AppendTwoCbWaits DEF IInv
    <3>2. Fits(b1, AnyThread)' /\ Fits(b2, AnyThread)'
      BY <2>5 DEF Fits
    <3>. QED
      BY <2>3, <3>1, <3>2, ClientAssumption
  <2>. QED
    BY <1>6, <2>4, <2>5, <2>6, <2>7
<1>9. ASSUME NEW f \in Fibers, Wake(f) PROVE PinsOK'
  <2>1. WakeHome /\ armed[f] # Null /\ armed[f] \in Threads
    BY <1>9 DEF Wake, Tokens, HoldsOK, IInv, TypeOK
  <2>2. PICK task \in Task : task = [fiber |-> f, cb |-> Null, thread |-> armed[f]]
    BY <2>1, FiberTaskType
  <2>3. /\ m_tasks' = m_tasks \o <<task>>
        /\ armed' = [armed EXCEPT ![f] = Null]
        /\ UNCHANGED <<pc, ft, cb_fiber, m_state, m_cb, want, readyLeft>>
    BY <1>9, <2>1, <2>2 DEF Wake, scheduleNoLock, poolVars, fiberVars, localVars
  <2>4. \A g \in Fibers, th \in Threads \cup {AnyThread} :
          Waits(g, th)' => Waits(g, th) \/ Fits(m_cb[g], th)'
    <3>1. \A g, th : Waits(g, th)' => Waits(g, th) \/ (g = f /\ th = armed[f])
      BY <2>2, <2>3, AppendWaits DEF IInv
    <3>2. Fits(m_cb[f], armed[f])
      BY <2>1 DEF PinsOK
    <3>. QED
      BY <2>3, <3>1, <3>2 DEF Fits
  <2>5. \A c \in Cbs, th \in Threads \cup {AnyThread} : CbWaits(c, th)' => CbWaits(c, th)
    <3>1. \A c, th : CbWaits(c, th)' => CbWaits(c, th) \/ c = Null
      BY <2>2, <2>3, AppendCbWaits DEF IInv
    <3>. QED
      BY <3>1, ClientAssumption
  <2>6. \A g \in Fibers : armed'[g] \in {armed[g], Null}
    BY <2>3 DEF IInv, TypeOK
  <2>. QED
    BY <1>6, <2>3, <2>4, <2>5, <2>6
<1>. QED
  BY <1>1, <1>2, <1>3, <1>4, <1>5, <1>7, <1>8, <1>9, NextCases

\* Nobody knows a body in the initial state.
LEMMA InitPins ==
  ASSUME NoReadyYields, Init
  PROVE  PinsOK
<1>1. \A x, thread : ~Waits(x, thread) /\ ~CbWaits(x, thread)
  BY DEF Init, Waits, CbWaits
<1>2. \A t \in Threads : pc[t] \in {"client", "none"}
  BY DEF Init
<1>3. /\ \A t \in Threads : ~Carrier(t)
      /\ \A t \in Threads, c \in Cbs : ~CbTaken(t, c)
  BY <1>2 DEF Carrier, HasFiber, CbTaken
<1>4. /\ \A f \in Fibers : armed[f] = Null /\ m_state[f] # "READY"
      /\ readyLeft = 0
  BY NoReadyYields DEF Init, NoReadyYields
<1>. QED
  BY <1>1, <1>3, <1>4 DEF PinsOK

\* PinsOK holds in every state.
LEMMA PinsInvariance ==
  ASSUME OneHandover, NoReadyYields
  PROVE  Spec => []PinsOK
<1>1. Init => PinsOK
  BY InitPins, NoReadyYields
<1>2. ASSUME UNCHANGED vars, PinsOK PROVE PinsOK'
  BY <1>2
     DEF vars, queueVars, countVars, stopVars, fiberVars, localVars, clientVars,
         PinsOK, Fits, Carrier, HasFiber, Cur, Waits, CbWaits, CbTaken
<1>3. IInv /\ IInv' /\ Tokens /\ Tokens' /\ BodiesOK /\ PinsOK /\ [Next]_vars => PinsOK'
  BY <1>2, OneHandover, PinsStep
<1>. QED
  BY <1>1, <1>3, Invariance, TokensInvariance, BodiesInvariance, PTL DEF Spec

\* A body scheduled for a thread executes on that thread only, also after it held
\* and was woken by a schedule() that names the thread (scheduler.cpp 70-75).
\* It takes bodies that do not yield to ready: run() schedules such a fiber
\* again without a thread (scheduler.cpp 102 and 120).
THEOREM PinsRespected ==
  ASSUME OneHandover, NoReadyYields
  PROVE  Spec => []PinRespected
<1>1. PinsOK => PinRespected
  BY ClientAssumption
     DEF PinsOK, PinRespected, Fits, Carrier, HasFiber, Bodies, Fibers
<1>. QED
  BY <1>1, PinsInvariance, PTL

-----------------------------------------------------------------------------
(***************************************************************************)
(* The end: what is left when a thread leaves run() and when stop()        *)
(* returns, and the refinement of TaskPool.                                *)
(***************************************************************************)

\* No body holds: stop() does not wait for a fiber in HOLD.
NoHolds == MaxHold = 0

\* The client names no thread.
NoPins == Pins \subseteq {AnyThread}

\* Main is inside stop(), behind m_stopping = true.
InStop == pc[Main] \in RunLabel \cup {"stoproot", "join", "joining"}

\* The idle fiber of thread t has returned, in this execution of run().
Ended(t) ==
  \/ pc[t] = "exited"
  \/ pc[t] \in RunLabel \ {"enter"} /\ idle_fiber[t] = "TERM"

\* Thread t is not going to look at m_tasks again, or is.
Leaving(t) ==
  \/ pc[t] = "exited"
  \/ pc[t] = "dispatch" /\ ft[t] = NoTask /\ idle_fiber[t] = "TERM"
Serves(t) == pc[t] \in RunLabel /\ ~Leaving(t)

\* The use_caller thread has left run() or need not enter it.
CallerLeft == UseCaller /\ pc[Main] \in {"join", "joining"}

\* The places of Main, and what they say of the others.
PhaseOK ==
  /\ pc[Main] \in RunLabel \cup (MainLabel \ {"stop"})
  /\ pc[Main] = "stopset" /\ m_stopping => Workers = {}
  /\ \A t \in Threads : Ended(t) => m_stopping /\ InStop

\* Without holds no fiber is in HOLD and no waker exists.
NoHoldsOK ==
  /\ holdLeft = 0
  /\ \A f \in Fibers : armed[f] = Null /\ m_state[f] # "HOLD"
  /\ \A t \in Threads : pc[t] \notin {"hold", "sethold"}
  /\ \A f \in Fibers : m_state[f] = "EXEC" => \E t \in Threads : Has(t, f)

\* Nothing is queued and no thread executes a task.
AllQuiet == m_tasks = <<>> /\ \A t \in Threads : ~Busy(t)

\* Where nothing yields, that is so from the first idle fiber's return on.
QuietOK ==
  /\ \A t \in Threads : Ended(t) => AllQuiet
  /\ CallerLeft => AllQuiet

\* Where nothing is pinned, a scan never skips a task ...
ScanOK ==
  /\ \A i \in 1..Len(m_tasks) : m_tasks[i].thread = AnyThread
  /\ \A t \in Threads : pc[t] = "scan" => it[t] = 1

\* ... and when a thread leaves, what is queued has a thread that serves it.
DrainOK ==
  (CallerLeft \/ \E t \in Threads : Leaving(t)) =>
    m_tasks = <<>> \/ \E t \in Threads : Serves(t)

\* Callback c is in m_tasks; nobody has given it to a fiber yet.
CbIn(c) == \E i \in 1..Len(m_tasks) : m_tasks[i].cb = c
Fresh(c) == CbIn(c) \/ \E t \in Threads : CbTaken(t, c)

\* A callback is in one place.
CbQueueOK ==
  \A i, j \in 1..Len(m_tasks) :
    m_tasks[i].cb # Null /\ m_tasks[i].cb = m_tasks[j].cb => i = j

CbOnce ==
  /\ CbQueueOK
  /\ \A c \in Cbs, t \in Threads : CbTaken(t, c) => ~CbIn(c)
  /\ \A c \in Cbs, t, u \in Threads : CbTaken(t, c) /\ CbTaken(u, c) => t = u
  /\ \A c \in Cbs : Fresh(c) \/ want[c] = Null =>
       c \notin done /\ \A f \in Fibers : m_cb[f] # c
  /\ \A c \in Cbs : want[c] = Null => ~Fresh(c)

\* A body has one fiber, and a body that is done has none that can be resumed.
FiberOnce ==
  /\ \A f, g \in Fibers : m_cb[f] = m_cb[g] /\ m_cb[f] # Null => f = g
  /\ \A f \in ClientFibers : m_cb[f] \in {f, Null}
  /\ \A f \in Fibers : m_cb[f] \in done => m_state[f] \in Finished

-----------------------------------------------------------------------------
(***************************************************************************)
(* The places of the threads.                                              *)
(***************************************************************************)

\* What a thread does inside run() changes its own place only; its idle fiber
\* returns in Idle.
LEMMA RunPlaces ==
  ASSUME IInv, NEW t \in Threads, RunStep(t) \/ FiberStep(t)
  PROVE  /\ pc[t] \in RunLabel
         /\ pc'[t] \in RunLabel \cup {IF t = Main THEN "join" ELSE "exited"}
         /\ pc'[t] \notin RunLabel => RunExit(t)
         /\ \A u \in Threads : u # t =>
              /\ pc'[u] = pc[u] /\ idle_fiber'[u] = idle_fiber[u]
              /\ ft'[u] = ft[u] /\ it'[u] = it[u]
         /\ UNCHANGED <<m_stopping, m_autoStop, m_threads, starts>>
         /\ Ended(t)' => Ended(t) \/ (Idle(t) /\ stopping)
<1>. USE DEF queueVars, countVars, stopVars, fiberVars, localVars, clientVars,
             envVars, taskVars, poolVars, GoTo, At, Fail
<1>1. pc[t] \in RunLabel
  BY DEF RunStep, FiberStep, RunEnter, RunLock, RunSkip, RunTake, RunScanEnd,
         RunFiber, RunDrop, RunIdle, RunExit, RunCb, Idle, IdleOut, RunAfter,
         RunPostReady, RunPostFinished, RunPostHold, RunSetHold, RunResched,
         SwapIn, YieldToReady, Arm, YieldToHold, Finish, SwapOut, RunLabel
<1>2. /\ \A u \in Threads : u # t =>
           /\ pc'[u] = pc[u] /\ idle_fiber'[u] = idle_fiber[u]
           /\ ft'[u] = ft[u] /\ it'[u] = it[u]
      /\ UNCHANGED <<m_stopping, m_autoStop, m_threads, starts>>
  BY DEF RunStep, FiberStep, RunEnter, RunLock, RunSkip, RunTake, RunScanEnd,
         RunFiber, RunDrop, RunIdle, RunExit, RunCb, Idle, IdleOut, RunAfter,
         RunPostReady, RunPostFinished, RunPostHold, RunSetHold, RunResched,
         SwapIn, YieldToReady, Arm, YieldToHold, Finish, SwapOut, IInv, TypeOK
<1>3. CASE RunExit(t)
  BY <1>1, <1>2, <1>3 DEF RunExit, Ended, RunLabel, IInv, TypeOK
<1>4. CASE Idle(t)
  BY <1>1, <1>2, <1>4 DEF Idle, Ended, RunLabel, IInv, TypeOK
<1>5. CASE RunEnter(t)
  BY <1>1, <1>2, <1>5 DEF RunEnter, Ended, RunLabel, IInv, TypeOK
<1>6. CASE RunIdle(t)
  BY <1>1, <1>2, <1>6 DEF RunIdle, Ended, RunLabel, IInv, TypeOK
<1>7. CASE ~RunExit(t) /\ ~Idle(t) /\ ~RunEnter(t) /\ ~RunIdle(t)
  <2>1. pc'[t] \in RunLabel /\ pc[t] # "enter" /\ UNCHANGED idle_fiber
    BY <1>7
       DEF RunStep, FiberStep, RunLock, RunSkip, RunTake, RunScanEnd,
         RunFiber, RunDrop, RunCb, IdleOut, RunAfter,
         RunPostReady, RunPostFinished, RunPostHold, RunSetHold, RunResched,
         SwapIn, YieldToReady, Arm, YieldToHold, Finish, SwapOut, RunLabel,
         IInv, TypeOK
  <2>. QED
    BY <1>1, <1>2, <1>7, <2>1 DEF Ended, RunLabel
<1>. QED
  BY <1>3, <1>4, <1>5, <1>6, <1>7

\* A thread is in run() behind m_stopping = true only when Main is in stop().
LEMMA StoppingInStop ==
  ASSUME IInv, CallsOK, PhaseOK, m_stopping,
         NEW t \in Threads, pc[t] \in RunLabel \cup {"exited"}
  PROVE  InStop
<1>1. CASE t = Main
  BY <1>1 DEF PhaseOK, InStop, RunLabel, MainLabel
<1>2. CASE t \in Workers
  <2>1. ASSUME pc[Main] = "client" PROVE FALSE
    <3>1. m_threads = {} /\ pc[t] = "none"
      BY <1>2, <2>1 DEF CallsOK, IInv, WorkersOK
    <3>. QED
      BY <3>1 DEF RunLabel
  <2>2. pc[Main] \notin {"start", "startwait", "stopearly", "stopset"}
    BY <1>2 DEF CallsOK, PhaseOK
  <2>. QED
    BY <2>1, <2>2 DEF PhaseOK, InStop, MainLabel
<1>. QED
  BY <1>1, <1>2 DEF Threads

\* What CallStep, Start and Stop do to the threads.
LEMMA CallPlaces ==
  ASSUME IInv, CallStep \/ Start \/ Stop
  PROVE  /\ UNCHANGED <<m_tasks, countVars, fiberVars, localVars, clientVars>>
         /\ \A w \in Workers :
              \/ pc'[w] = pc[w]
              \/ pc'[w] = "created" /\ StartCreate(w)
              \/ pc'[w] = "none" /\ StopJoin
BY ThreadsAssumption
   DEF CallStep, Start, Stop, StartCreate, StartWait, StartDone, StopEarly,
       StopSet, StopRoot, StopSwap, StopJoin, queueVars, stopVars, taskVars,
       GoTo, Fail, IInv, TypeOK, Threads

\* Every step keeps the places in order.
LEMMA PhaseStep ==
  ASSUME IInv, CallsOK, PhaseOK, Next
  PROVE  PhaseOK'
<1>. USE DEF queueVars, countVars, stopVars, fiberVars, localVars, clientVars,
             envVars, taskVars, poolVars, GoTo, At, Fail
<1>0. Main \in Threads
  BY DEF Threads
<1>1. ASSUME NEW t \in Threads, RunStep(t) \/ FiberStep(t) PROVE PhaseOK'
  <2>1. /\ pc[t] \in RunLabel
        /\ pc'[t] \in RunLabel \cup {IF t = Main THEN "join" ELSE "exited"}
        /\ \A u \in Threads : u # t => pc'[u] = pc[u] /\ idle_fiber'[u] = idle_fiber[u]
        /\ UNCHANGED m_stopping
        /\ Ended(t)' => Ended(t) \/ stopping
    BY <1>1, RunPlaces
  <2>2. /\ pc'[Main] \in RunLabel \cup (MainLabel \ {"stop"})
        /\ pc'[Main] = "stopset" => pc[Main] = "stopset"
        /\ InStop => InStop'
    BY <1>0, <2>1 DEF PhaseOK, InStop, MainLabel, RunLabel
  <2>3. stopping => m_stopping /\ InStop
    BY <2>1, StoppingInStop DEF stopping
  <2>4. \A u \in Threads : u # t => (Ended(u)' <=> Ended(u))
    BY <2>1 DEF Ended
  <2>. QED
    BY <2>1, <2>2, <2>3, <2>4 DEF PhaseOK
<1>2. ASSUME NEW w \in Workers, ThreadRun(w) PROVE PhaseOK'
  <2>1. /\ pc'[Main] = pc[Main] /\ UNCHANGED <<m_stopping, idle_fiber>>
        /\ pc'[w] = "enter" /\ \A u \in Threads : u # w => pc'[u] = pc[u]
    BY <1>2, ThreadsAssumption DEF ThreadRun, IInv, TypeOK, Threads
  <2>2. \A u \in Threads : Ended(u)' => Ended(u)
    BY <2>1 DEF Ended
  <2>. QED
    BY <2>1, <2>2 DEF PhaseOK, InStop
<1>3. ASSUME CallStep \/ Start \/ Stop PROVE PhaseOK'
  <2>0. UNCHANGED idle_fiber
    BY <1>3, CallPlaces
  <2>1. \A w \in Workers : Ended(w)' => Ended(w) /\ pc'[w] = pc[w]
    BY <1>3, <2>0, CallPlaces DEF Ended, RunLabel
  <2>2. CASE StopJoin
    <3>1. /\ \A u \in Threads : pc'[u] \in {"client", "none"}
          /\ pc'[Main] = "client" /\ UNCHANGED m_stopping
      BY <1>0, <2>2 DEF StopJoin
    <3>. QED
      BY <3>1 DEF PhaseOK, Ended, RunLabel, MainLabel
  <2>3. CASE UNCHANGED pc
    <3>1. UNCHANGED m_stopping
      BY <1>3, <2>3, <1>0
         DEF CallStep, Start, Stop, StartCreate, StartWait, StartDone, StopEarly,
             StopSet, StopRoot, StopSwap, StopJoin, IInv, TypeOK
    <3>. QED
      BY <2>0, <2>3, <3>1 DEF PhaseOK, InStop, Ended
  <2>4. CASE StopRoot /\ ~UNCHANGED pc
    <3>1. /\ pc[Main] = "stoproot" /\ pc'[Main] \in {"join", "enter"}
          /\ UNCHANGED m_stopping
      BY <1>0, <2>4 DEF StopRoot, IInv, TypeOK
    <3>2. m_stopping
      BY <3>1 DEF CallsOK
    <3>. QED
      BY <2>1, <3>1, <3>2 DEF PhaseOK, InStop, RunLabel, MainLabel, Ended, Threads
  <2>5. CASE StopSwap
    <3>1. /\ pc[Main] = "join" /\ pc'[Main] = "joining" /\ UNCHANGED m_stopping
      BY <1>0, <2>5 DEF StopSwap, IInv, TypeOK
    <3>. QED
      BY <2>1, <3>1 DEF PhaseOK, InStop, RunLabel, MainLabel, Ended, Threads
  <2>6. CASE StopSet
    <3>1. /\ pc[Main] = "stopset" /\ pc'[Main] \in {"stoproot", "join"} /\ m_stopping'
      BY <1>0, <2>6 DEF StopSet, IInv, TypeOK
    <3>. QED
      BY <2>1, <3>1 DEF PhaseOK, InStop, RunLabel, MainLabel, Ended, Threads
  <2>7. CASE \/ Start /\ ~UNCHANGED pc
             \/ (\E w \in Workers : StartCreate(w)) \/ StartWait \/ StartDone
             \/ StopEarly \/ Stop
    <3>1. /\ pc[Main] \in {"client", "start", "startwait", "stopearly"}
          /\ pc'[Main] \in {"client", "start", "startwait", "stopearly", "stopset"}
          /\ pc'[Main] = "stopset" /\ m_stopping' => Workers = {}
      BY <1>0, <2>7, ThreadsAssumption
         DEF Start, StartCreate, StartWait, StartDone, StopEarly, Stop, CallsOK,
             IInv, TypeOK
    <3>2. \A u \in Threads : ~Ended(u)
      BY <3>1 DEF PhaseOK, InStop, RunLabel
    <3>3. ~Ended(Main)'
      BY <3>1 DEF Ended, RunLabel
    <3>. QED
      BY <2>1, <3>1, <3>2, <3>3 DEF PhaseOK, RunLabel, MainLabel, Threads
  <2>. QED
    BY <1>3, <2>2, <2>3, <2>4, <2>5, <2>6, <2>7 DEF CallStep
<1>4. ASSUME ClientStep, ~Start, ~Stop PROVE PhaseOK'
  <2>1. UNCHANGED <<pc, m_stopping, idle_fiber>>
    BY <1>4 DEF ClientStep, Schedule, ScheduleRange, Wake
  <2>. QED
    BY <2>1 DEF PhaseOK, InStop, Ended
<1>5. ASSUME Terminated PROVE PhaseOK'
  BY <1>5 DEF Terminated, vars, PhaseOK, InStop, Ended
<1>. QED
  BY <1>1, <1>2, <1>3, <1>4, <1>5 DEF Next

\* The protocol of start() and stop() and the places, as invariants.
LEMMA PhaseInvariance ==
  ASSUME RootOnce
  PROVE  Spec => [](CallsOK /\ PhaseOK)
<1>1. Init => CallsOK /\ PhaseOK
  BY DEF Init, CallsOK, PhaseOK, Ended, RunLabel, MainLabel, Threads
<1>2. IInv /\ CallsOK /\ PhaseOK /\ [Next]_vars => CallsOK' /\ PhaseOK'
  <2>. SUFFICES ASSUME IInv, CallsOK, PhaseOK, [Next]_vars
                PROVE  CallsOK' /\ PhaseOK'
    OBVIOUS
  <2>1. CASE UNCHANGED vars
    BY <2>1 DEF vars, stopVars, localVars, CallsOK, PhaseOK, InStop, Ended
  <2>. QED
    BY <2>1, CallsStep, PhaseStep, RootOnce
<1>. QED
  BY <1>1, <1>2, Invariance, PTL DEF Spec

-----------------------------------------------------------------------------
(***************************************************************************)
(* Without holds.                                                          *)
(***************************************************************************)

\* Every step keeps the pool free of holds.
LEMMA NoHoldsStep ==
  ASSUME IInv, IInv', Tokens, NoHoldsOK, Next
  PROVE  NoHoldsOK'
<1>. USE DEF queueVars, countVars, stopVars, fiberVars, localVars, clientVars,
             envVars, taskVars, poolVars, GoTo, At, SetState
<1>0. /\ \A t \in Threads : ~Arm(t) /\ ~YieldToHold(t) /\ ~RunSetHold(t)
      /\ \A f \in Fibers : ~Wake(f)
  BY DEF NoHoldsOK, Arm, YieldToHold, RunSetHold, Wake
<1>1. CASE QuietNext
  <2>1. UNCHANGED <<holdLeft, armed, m_state>>
    BY <1>1, QuietEffect
       DEF QuietNext, CallStep, RunEnter, RunLock, RunSkip, RunScanEnd, RunIdle,
           RunExit, Idle, IdleOut, ThreadRun, StartCreate, StartWait, StartDone,
           StopEarly, StopSet, StopRoot, StopSwap, StopJoin, Start, Stop,
           Terminated, vars, Fail
  <2>2. \A u \in Threads : pc'[u] \notin {"hold", "sethold"}
    <3>1. ASSUME NEW u \in Threads, pc'[u] \in {"hold", "sethold"} PROVE FALSE
      <4>1. Carrier(u)'
        BY <3>1 DEF Carrier, HasFiber
      <4>2. pc'[u] = pc[u]
        BY <1>1, <4>1, QuietEffect
      <4>. QED
        BY <3>1, <4>2 DEF NoHoldsOK
    <3>. QED
      BY <3>1
  <2>3. \A u \in Threads, f \in Fibers : Has(u, f) => Has(u, f)'
    BY <1>1, QuietEffect DEF Has
  <2>. QED
    BY <2>1, <2>2, <2>3 DEF NoHoldsOK
<1>2. ASSUME NEW t \in Threads, AdvanceNext(t) PROVE NoHoldsOK'
  <2>0. PICK g \in Fibers : g = Cur(t)
    BY <1>2, AdvanceEffect
  <2>1. /\ \A f \in Fibers : f # g =>
             m_state'[f] = m_state[f] /\ armed'[f] = armed[f]
        /\ \A u \in Threads : Cur(u)' = Cur(u) /\ (Carrier(u)' <=> Carrier(u))
        /\ \A u \in Threads : u # t => pc'[u] = pc[u]
        /\ Carrier(t)
    BY <1>2, <2>0, AdvanceEffect
  <2>2. m_state[g] \in StatesAt(pc[t]) /\ m_state[g] # "HOLD"
    BY <2>0, <2>1 DEF Tokens, CarryOK, NoHoldsOK
  <2>3. ~RunPostHold(t)
    BY <2>0, <2>2 DEF RunPostHold, StatesAt, Finished
  <2>4. UNCHANGED <<armed, holdLeft>> /\ pc'[t] \notin {"hold", "sethold"}
    BY <1>0, <1>2, <2>0, <2>2, <2>3
       DEF AdvanceNext, RunFiber, SwapOut, RunAfter, RunPostReady, SwapIn,
           YieldToReady, Finish, StatesAt, Resumable, Finished, IInv, TypeOK
  <2>5. m_state'[g] # "HOLD"
    BY <1>0, <1>2, <2>0, <2>2, <2>3
       DEF AdvanceNext, RunFiber, SwapOut, RunAfter, RunPostReady, SwapIn,
           YieldToReady, Finish, StatesAt, Resumable, Finished, IInv, TypeOK
  <2>6. Has(t, g)' /\ \A u \in Threads, f \in Fibers : Has(u, f) => Has(u, f)'
    BY <2>0, <2>1 DEF Has
  <2>7. \A f \in Fibers : m_state'[f] = "EXEC" => \E u \in Threads : Has(u, f)'
    BY <2>1, <2>6 DEF NoHoldsOK
  <2>. QED
    BY <2>1, <2>4, <2>5, <2>7 DEF NoHoldsOK
<1>3. ASSUME NEW t \in Threads, LetGoNext(t) PROVE NoHoldsOK'
  <2>0. PICK g \in Fibers : g = Cur(t)
    BY <1>3, LetGoEffect
  <2>1. /\ \A f \in Fibers : f # g => m_state'[f] = m_state[f]
        /\ UNCHANGED armed
        /\ Carrier(t)
        /\ \A u \in Threads : u # t =>
             /\ Cur(u)' = Cur(u) /\ (Carrier(u)' <=> Carrier(u))
             /\ pc'[u] = pc[u]
    BY <1>3, <2>0, LetGoEffect
  <2>2. m_state[g] \in StatesAt(pc[t]) /\ m_state[g] # "HOLD"
    BY <2>0, <2>1 DEF Tokens, CarryOK, NoHoldsOK
  <2>3. /\ pc'[t] = "loop" /\ UNCHANGED holdLeft
        /\ m_state'[g] \notin {"HOLD", "EXEC"}
    BY <1>0, <1>3, <2>0, <2>2
       DEF LetGoNext, RunPostFinished, RunResched, StatesAt, Finished, IInv, TypeOK
  <2>4. \A u \in Threads, f \in Fibers : u # t /\ Has(u, f) => Has(u, f)'
    BY <2>1 DEF Has
  <2>5. \A f \in Fibers : f # g => ~Has(t, f)
    BY <2>0 DEF Has
  <2>6. \A f \in Fibers : m_state'[f] = "EXEC" => \E u \in Threads : Has(u, f)'
    BY <2>1, <2>3, <2>4, <2>5 DEF NoHoldsOK
  <2>. QED
    BY <2>1, <2>3, <2>6 DEF NoHoldsOK
<1>4. ASSUME NEW t \in Threads, RunTake(t) PROVE NoHoldsOK'
  <2>1. /\ ~Carrier(t) /\ pc'[t] = "dispatch"
        /\ \A u \in Threads : u # t =>
             /\ Cur(u)' = Cur(u) /\ (Carrier(u)' <=> Carrier(u))
             /\ pc'[u] = pc[u]
        /\ UNCHANGED <<m_state, armed>>
    BY <1>4, TakeEffect
  <2>2. UNCHANGED holdLeft
    BY <1>4 DEF RunTake
  <2>3. \A u \in Threads, f \in Fibers : Has(u, f) => Has(u, f)'
    BY <2>1 DEF Has
  <2>. QED
    BY <2>1, <2>2, <2>3 DEF NoHoldsOK
<1>5. ASSUME NEW t \in Threads, NEW h \in HostFibers, RunCb(t, h) PROVE NoHoldsOK'
  <2>1. /\ ~Carrier(t) /\ pc'[t] = "swapin" /\ h \in Fibers
        /\ \A u \in Threads : u # t =>
             /\ Cur(u)' = Cur(u) /\ (Carrier(u)' <=> Carrier(u))
             /\ pc'[u] = pc[u]
        /\ m_state' = [m_state EXCEPT ![h] = "INIT"]
        /\ UNCHANGED armed
    BY <1>5, CbEffect
  <2>2. UNCHANGED holdLeft
    BY <1>5 DEF RunCb, Fail
  <2>3. \A u \in Threads, f \in Fibers : Has(u, f) => Has(u, f)'
    BY <2>1 DEF Has
  <2>4. \A f \in Fibers : m_state'[f] = m_state[f] \/ m_state'[f] = "INIT"
    BY <2>1 DEF IInv, TypeOK
  <2>. QED
    BY <2>1, <2>2, <2>3, <2>4 DEF NoHoldsOK
<1>6. ASSUME UNCHANGED <<pc, ft, cb_fiber, m_state, armed, holdLeft>>
      PROVE  NoHoldsOK'
  BY <1>6 DEF NoHoldsOK, Has, Carrier, HasFiber, Cur
<1>7. ASSUME \/ \E t \in Threads, b \in Bodies, thread \in Pins : Schedule(t, b, thread)
             \/ \E t \in Threads, b1, b2 \in Bodies : ScheduleRange(t, b1, b2)
      PROVE  NoHoldsOK'
  BY <1>6, <1>7 DEF Schedule, ScheduleRange
<1>. QED
  BY <1>0, <1>1, <1>2, <1>3, <1>4, <1>5, <1>7, NextCases

\* Without holds the pool stays so.
LEMMA NoHoldsInvariance ==
  ASSUME OneHandover, NoHolds
  PROVE  Spec => []NoHoldsOK
<1>1. Init => NoHoldsOK
  BY NoHolds DEF Init, NoHoldsOK, NoHolds
<1>2. ASSUME UNCHANGED vars, NoHoldsOK PROVE NoHoldsOK'
  BY <1>2
     DEF vars, fiberVars, localVars, clientVars, NoHoldsOK, Has, Carrier, HasFiber,
         Cur
<1>3. IInv /\ IInv' /\ Tokens /\ NoHoldsOK /\ [Next]_vars => NoHoldsOK'
  BY <1>2, NoHoldsStep
<1>. QED
  BY <1>1, <1>3, Invariance, TokensInvariance, PTL DEF Spec

-----------------------------------------------------------------------------
(***************************************************************************)
(* What stop() leaves.                                                     *)
(***************************************************************************)

\* stopping() is exact.
LEMMA StoppingQuiet ==
  ASSUME IInv, stopping
  PROVE  AllQuiet
<1>1. {u \in Threads : Busy(u)} = {}
  <2>1. IsFiniteSet({u \in Threads : Busy(u)})
    BY ThreadsFinite, FS_Subset
  <2>2. Cardinality({u \in Threads : Busy(u)}) = 0
    BY DEF IInv, CountersExact, stopping
  <2>. QED
    BY <2>1, <2>2, FS_EmptySet
<1>. QED
  BY <1>1 DEF stopping, AllQuiet

\* No thread counts when each is outside of run().
LEMMA OutsideCounters ==
  ASSUME IInv, \A t \in Threads : pc[t] \notin RunLabel
  PROVE  m_activeThreadCount = 0 /\ m_idleThreadCount = 0
<1>1. {u \in Threads : Busy(u)} = {} /\ {u \in Threads : Idling(u)} = {}
  BY DEF Busy, Idling, RunLabel
<1>. QED
  BY <1>1, FS_EmptySet DEF IInv, CountersExact

\* stop() returns after the last join, or early with an empty queue.
LEMMA StopReturnsCases ==
  ASSUME IInv, CallsOK, Next, StopReturns
  PROVE  /\ \/ pc[Main] = "joining" /\ \A w \in Workers : pc[w] = "exited"
            \/ pc[Main] = "stopearly" /\ Workers = {} /\ m_tasks = <<>>
<1>. USE DEF queueVars, countVars, stopVars, fiberVars, localVars, clientVars,
             envVars, taskVars, poolVars, GoTo, At, Fail
<1>0. Main \in Threads
  BY DEF Threads
<1>1. ASSUME NEW t \in Threads, RunStep(t) \/ FiberStep(t) PROVE FALSE
  BY <1>0, <1>1, RunPlaces DEF StopReturns, RunLabel
<1>2. CASE CallStep
  BY <1>0, <1>2, ThreadsAssumption
     DEF CallStep, StopReturns, StartCreate, StartWait, StartDone, StopEarly,
         StopSet, StopRoot, StopSwap, StopJoin, CallsOK, IInv, TypeOK
<1>3. CASE (\E w \in Workers : ThreadRun(w)) \/ ClientStep \/ Terminated
  BY <1>0, <1>3, ThreadsAssumption
     DEF ClientStep, StopReturns, ThreadRun, Schedule, ScheduleRange, Wake,
         Start, Stop, Terminated, vars, IInv, TypeOK
<1>. QED
  BY <1>1, <1>2, <1>3 DEF Next

\* With an empty queue, and every thread outside of run(), nothing is unfinished.
LEMMA NothingUnfinished ==
  ASSUME IInv, AllKept, NoHoldsOK, m_tasks = <<>>,
         \A t \in Threads : pc[t] \notin RunLabel
  PROVE  \A b \in Bodies : ~Unfinished(b)
<1>. SUFFICES ASSUME NEW b \in Bodies, Unfinished(b) PROVE FALSE
  OBVIOUS
<1>1. Kept(b)
  BY DEF AllKept
<1>2. \A x, thread : ~Waits(x, thread) /\ ~CbWaits(x, thread)
  BY DEF Waits, CbWaits
<1>3. \A t \in Threads : ~Carrier(t) /\ ~CbTaken(t, b)
  BY DEF Carrier, HasFiber, CbTaken, RunLabel
<1>4. \A f \in Fibers : Unused(f)
  BY <1>2, <1>3 DEF Unused, Queued, Has, NoHoldsOK
<1>. QED
  BY <1>1, <1>2, <1>3, <1>4 DEF Kept

\* Together: what stop() leaves when its last worker left an empty queue.
LEMMA StopLeaves ==
  ASSUME IInv, CallsOK, AllKept, NoHoldsOK, Next, StopReturns,
         pc[Main] = "joining" /\ (\A w \in Workers : pc[w] = "exited") => m_tasks = <<>>
  PROVE  /\ m_tasks = <<>>
         /\ \A b \in Bodies : ~Unfinished(b)
         /\ m_activeThreadCount = 0 /\ m_idleThreadCount = 0
<1>1. m_tasks = <<>> /\ \A t \in Threads : pc[t] \notin RunLabel
  BY StopReturnsCases DEF Threads, RunLabel
<1>. QED
  BY <1>1, NothingUnfinished, OutsideCounters

\* An idle fiber returns in Idle only.
LEMMA EndedStep ==
  ASSUME IInv, Next, NEW t \in Threads, Ended(t)'
  PROVE  Ended(t) \/ (Idle(t) /\ stopping)
<1>. USE DEF queueVars, countVars, stopVars, fiberVars, localVars, clientVars,
             envVars, taskVars, poolVars, GoTo, At, Fail
<1>0. Main \in Threads
  BY DEF Threads
<1>1. ASSUME NEW u \in Threads, RunStep(u) \/ FiberStep(u)
      PROVE  Ended(t) \/ (Idle(t) /\ stopping)
  BY <1>1, RunPlaces DEF Ended
<1>2. ASSUME NEW w \in Workers, ThreadRun(w) PROVE Ended(t)
  <2>1. /\ UNCHANGED idle_fiber /\ pc'[w] = "enter"
        /\ \A u \in Threads : u # w => pc'[u] = pc[u]
    BY <1>2 DEF ThreadRun, IInv, TypeOK, Threads
  <2>. QED
    BY <2>1 DEF Ended
<1>3. ASSUME CallStep \/ Start \/ Stop PROVE Ended(t)
  <2>0. UNCHANGED idle_fiber
    BY <1>3, CallPlaces
  <2>1. CASE t \in Workers
    BY <1>3, <2>0, <2>1, CallPlaces DEF Ended, RunLabel
  <2>2. CASE t = Main
    <3>1. pc'[Main] = pc[Main] \/ pc'[Main] \in MainLabel \cup {"enter"}
      BY <1>0, <1>3, ThreadsAssumption
         DEF CallStep, Start, Stop, StartCreate, StartWait, StartDone, StopEarly,
             StopSet, StopRoot, StopSwap, StopJoin, MainLabel, IInv, TypeOK
    <3>. QED
      BY <2>0, <2>2, <3>1 DEF Ended, MainLabel, RunLabel
  <2>. QED
    BY <2>1, <2>2 DEF Threads
<1>4. ASSUME (ClientStep /\ ~Start /\ ~Stop) \/ Terminated PROVE Ended(t)
  BY <1>4 DEF ClientStep, Schedule, ScheduleRange, Wake, Terminated, vars, Ended
<1>. QED
  BY <1>1, <1>2, <1>3, <1>4 DEF Next

\* Main gets to the joins of stop() from run(), or without a need to enter it.
LEMMA CallerLeftStep ==
  ASSUME IInv, CallsOK, Next, CallerLeft'
  PROVE  CallerLeft \/ RunExit(Main) \/ (stopping /\ pc[Main] = "stoproot")
<1>. USE DEF queueVars, countVars, stopVars, fiberVars, localVars, clientVars,
             envVars, taskVars, poolVars, GoTo, At, Fail
<1>0. Main \in Threads
  BY DEF Threads
<1>1. ASSUME NEW u \in Threads, RunStep(u) \/ FiberStep(u)
      PROVE  CallerLeft \/ RunExit(Main)
  BY <1>0, <1>1, RunPlaces DEF CallerLeft, RunLabel
<1>2. ASSUME NEW w \in Workers, ThreadRun(w) PROVE CallerLeft
  BY <1>0, <1>2, ThreadsAssumption DEF ThreadRun, CallerLeft, IInv, TypeOK
<1>3. ASSUME CallStep \/ Start \/ Stop
      PROVE  CallerLeft \/ (stopping /\ pc[Main] = "stoproot")
  BY <1>0, <1>3, ThreadsAssumption
     DEF CallStep, Start, Stop, StartCreate, StartWait, StartDone, StopEarly,
         StopSet, StopRoot, StopSwap, StopJoin, CallerLeft, IInv, TypeOK
<1>4. ASSUME (ClientStep /\ ~Start /\ ~Stop) \/ Terminated PROVE CallerLeft
  BY <1>4 DEF ClientStep, Schedule, ScheduleRange, Wake, Terminated, vars, CallerLeft
<1>. QED
  BY <1>1, <1>2, <1>3, <1>4 DEF Next

\* Once nothing is queued or executed inside stop(), and nothing yields, it stays
\* so: only a body, a waker, or Main outside of stop() could schedule.
LEMMA QuietKept ==
  ASSUME IInv, IInv', Tokens, NoHoldsOK, PinsOK, AllQuiet, InStop, Next
  PROVE  AllQuiet'
<1>. USE DEF queueVars, countVars, stopVars, fiberVars, localVars, clientVars,
             envVars, taskVars, poolVars, GoTo, At, Fail, SetState
<1>0. \A t \in Threads : ~Busy(t) /\ pc[t] # "exec"
  BY DEF AllQuiet, Busy
<1>1. CASE QuietNext
  <2>1. UNCHANGED m_tasks
    BY <1>1, QuietEffect
  <2>2. ASSUME NEW u \in Threads, Busy(u)' PROVE FALSE
    <3>1. ft[u] \in Task \cup {NoTask} /\ ft'[u] \in Task \cup {NoTask}
      BY DEF IInv, TypeOK
    <3>2. Carrier(u)' \/ \E c \in Cbs : CbTaken(u, c)'
      <4>1. CASE pc'[u] = "dispatch" /\ ft'[u] # NoTask
        <5>1. PICK task \in Task : task = ft'[u]
          BY <3>1, <4>1
        <5>2. task.fiber # Null \/ task.cb \in Cbs
          BY <5>1, TaskIsNotEmpty
        <5>. QED
          BY <4>1, <5>1, <5>2 DEF Carrier, CbTaken
      <4>2. CASE HasFiber(u)'
        BY <4>2 DEF Carrier
      <4>. QED
        BY <2>2, <4>1, <4>2 DEF Busy, HasFiber
    <3>3. CASE Carrier(u)'
      <4>1. Carrier(u) /\ pc'[u] = pc[u]
        BY <1>1, <3>3, QuietEffect
      <4>2. Busy(u)
        BY <2>2, <4>1 DEF Carrier, HasFiber, Busy, NoTask
      <4>. QED
        BY <1>0, <4>2
    <3>4. CASE \E c \in Cbs : CbTaken(u, c)'
      <4>1. PICK c \in Cbs : CbTaken(u, c)
        BY <1>1, <3>4, QuietEffect
      <4>2. Busy(u)
        BY <4>1, ClientAssumption DEF CbTaken, Busy, NoTask
      <4>. QED
        BY <1>0, <4>2
    <3>. QED
      BY <3>2, <3>3, <3>4
  <2>. QED
    BY <2>1, <2>2 DEF AllQuiet
<1>2. ASSUME NEW t \in Threads, AdvanceNext(t) PROVE AllQuiet'
  <2>1. /\ UNCHANGED <<m_tasks, ft>> /\ \A u \in Threads : u # t => pc'[u] = pc[u]
    BY <1>2, AdvanceEffect
  <2>2. ~Busy(t)'
    BY <1>0, <1>2
       DEF AdvanceNext, RunFiber, SwapOut, RunAfter, RunPostReady, RunPostHold,
           SwapIn, YieldToReady, YieldToHold, Arm, Finish, Busy, HasLiveFiber,
           NoTask, IInv, TypeOK
  <2>. QED
    BY <1>0, <2>1, <2>2 DEF AllQuiet, Busy
<1>3. ASSUME NEW t \in Threads, LetGoNext(t) PROVE AllQuiet'
  <2>1. Carrier(t) /\ Cur(t) \in Fibers
    BY <1>3, LetGoEffect
  <2>2. m_state[Cur(t)] # "READY" /\ m_state[Cur(t)] \in StatesAt(pc[t])
    BY <2>1 DEF PinsOK, Tokens, CarryOK
  <2>3. ~RunResched(t)
    BY <2>2 DEF RunResched, StatesAt
  <2>4. /\ UNCHANGED m_tasks /\ pc'[t] = "loop"
        /\ \A u \in Threads : u # t => pc'[u] = pc[u] /\ ft'[u] = ft[u]
    BY <1>3, <2>3 DEF LetGoNext, RunPostFinished, RunSetHold, IInv, TypeOK
  <2>. QED
    BY <1>0, <2>4 DEF AllQuiet, Busy
<1>4. ASSUME NEW t \in Threads, RunTake(t) PROVE FALSE
  BY <1>4 DEF RunTake, AllQuiet, IInv, LocalsOK, TypeOK
<1>5. ASSUME NEW t \in Threads, NEW f \in HostFibers, RunCb(t, f) PROVE FALSE
  BY <1>0, <1>5 DEF RunCb, Busy, NoTask
<1>6. ASSUME \/ \E t \in Threads, b \in Bodies, thread \in Pins : Schedule(t, b, thread)
             \/ \E t \in Threads, b1, b2 \in Bodies : ScheduleRange(t, b1, b2)
      PROVE  FALSE
  BY ZenonT(30), <1>0, <1>6 DEF Schedule, ScheduleRange, InClient, InStop, RunLabel
<1>7. ASSUME NEW f \in Fibers, Wake(f) PROVE FALSE
  BY <1>7 DEF Wake, NoHoldsOK
<1>. QED
  BY <1>1, <1>2, <1>3, <1>4, <1>5, <1>6, <1>7, NextCases

\* Every step keeps what QuietOK says.
LEMMA QuietOKStep ==
  ASSUME IInv, IInv', Tokens, NoHoldsOK, PinsOK, CallsOK, PhaseOK, QuietOK, Next
  PROVE  QuietOK'
<1>1. ASSUME NEW t \in Threads, Ended(t)' PROVE AllQuiet'
  <2>1. CASE Ended(t)
    BY <2>1, QuietKept DEF QuietOK, PhaseOK
  <2>2. CASE Idle(t) /\ stopping
    <3>1. AllQuiet /\ m_stopping /\ pc[t] \in RunLabel
      BY <2>2, StoppingQuiet DEF stopping, Idle, At, RunLabel
    <3>2. InStop
      BY <3>1, StoppingInStop
    <3>. QED
      BY <3>1, <3>2, QuietKept
  <2>. QED
    BY <1>1, <2>1, <2>2, EndedStep
<1>2. ASSUME CallerLeft' PROVE AllQuiet'
  <2>1. CASE CallerLeft
    BY <2>1, QuietKept DEF QuietOK, CallerLeft, InStop
  <2>2. CASE RunExit(Main)
    <3>1. Ended(Main)
      BY <2>2 DEF RunExit, At, Ended, RunLabel
    <3>. QED
      BY <3>1, QuietKept DEF QuietOK, PhaseOK, Threads
  <2>3. CASE stopping /\ pc[Main] = "stoproot"
    BY <2>3, StoppingQuiet, QuietKept DEF InStop
  <2>. QED
    BY <1>2, <2>1, <2>2, <2>3, CallerLeftStep
<1>. QED
  BY <1>1, <1>2 DEF QuietOK

\* QuietOK holds in every state.
LEMMA QuietInvariance ==
  ASSUME OneHandover, RootOnce, NoHolds, NoReadyYields
  PROVE  Spec => []QuietOK
<1>1. Init => QuietOK
  BY DEF Init, QuietOK, Ended, CallerLeft, RunLabel, Threads
<1>2. ASSUME UNCHANGED vars, QuietOK PROVE QuietOK'
  BY <1>2
     DEF vars, queueVars, localVars, QuietOK, AllQuiet, Ended, CallerLeft, Busy
<1>3. IInv /\ IInv' /\ Tokens /\ NoHoldsOK /\ PinsOK /\ CallsOK /\ PhaseOK /\ QuietOK
        /\ [Next]_vars => QuietOK'
  BY <1>2, QuietOKStep
<1>. QED
  BY <1>1, <1>3, Invariance, TokensInvariance, NoHoldsInvariance, PinsInvariance,
     PhaseInvariance, PTL DEF Spec

\* A task that waits for one thread never waits for one that has left run(),
\* whatever threads the client names, as long as nothing yields: between
\* --m_activeThreadCount and the schedule() that follows a yield (scheduler.cpp
\* 100-102), stopping() is true although a body is about to be queued again.
THEOREM PinnedThreadStays ==
  ASSUME OneHandover, RootOnce, NoHolds, NoReadyYields
  PROVE  Spec => []PinnedThreadAlive
<1>1. IInv /\ QuietOK => PinnedThreadAlive
  <2>. SUFFICES ASSUME IInv, QuietOK, NEW i \in 1..Len(m_tasks),
                       m_tasks[i].thread # AnyThread,
                       pc[m_tasks[i].thread] = "exited"
                PROVE  FALSE
    BY DEF PinnedThreadAlive
  <2>1. PICK t \in Threads : t = m_tasks[i].thread
    BY ElementIsTask DEF IInv
  <2>2. Ended(t)
    BY <2>1 DEF Ended
  <2>. QED
    BY <2>2 DEF QuietOK, AllQuiet
<1>. QED
  BY <1>1, Invariance, QuietInvariance, PTL

\* When stop() returns, by joining the workers or early, everything that was
\* scheduled, for whichever thread, has been executed and the counters are zero
\* (scheduler.cpp:165-212).
THEOREM StopAlwaysDrains ==
  ASSUME OneHandover, RootOnce, NoHolds, NoReadyYields
  PROVE  Spec => StopDrains
<1>1. IInv /\ CallsOK /\ AllKept /\ NoHoldsOK /\ QuietOK /\ [Next]_vars =>
        [StopReturns => /\ m_tasks = <<>>
                        /\ \A b \in Bodies : ~Unfinished(b)
                        /\ m_activeThreadCount = 0 /\ m_idleThreadCount = 0]_vars
  <2>. SUFFICES ASSUME IInv, CallsOK, AllKept, NoHoldsOK, QuietOK, Next, StopReturns
                PROVE  /\ m_tasks = <<>>
                       /\ \A b \in Bodies : ~Unfinished(b)
                       /\ m_activeThreadCount = 0 /\ m_idleThreadCount = 0
    OBVIOUS
  <2>1. ASSUME pc[Main] = "joining", \A w \in Workers : pc[w] = "exited"
        PROVE  m_tasks = <<>>
    <3>1. CASE UseCaller
      BY <2>1, <3>1 DEF CallerLeft, QuietOK, AllQuiet
    <3>2. CASE ~UseCaller
      <4>1. PICK w \in Workers : TRUE
        BY <3>2, ThreadsAssumption
      <4>2. Ended(w) /\ w \in Threads
        BY <2>1 DEF Ended, Threads
      <4>. QED
        BY <4>2 DEF QuietOK, AllQuiet
    <3>. QED
      BY <3>1, <3>2
  <2>. QED
    BY <2>1, StopLeaves
<1>. QED
  BY <1>1, Invariance, PhaseInvariance, BodiesInvariance, NoHoldsInvariance,
     QuietInvariance, PTL DEF Spec, StopDrains

-----------------------------------------------------------------------------
(***************************************************************************)
(* Yields to ready, without pins.                                          *)
(***************************************************************************)

\* A queued fiber is not executing, so that no scan has a reason to skip.
LEMMA NeverSkips ==
  ASSUME IInv, Tokens, NoHoldsOK, ScanOK, NEW t \in Threads
  PROVE  ~RunSkip(t)
<1>. SUFFICES ASSUME RunSkip(t) PROVE FALSE
  OBVIOUS
<1>1. PICK i \in 1..Len(m_tasks) : MustSkip(t, m_tasks[i])
  BY DEF RunSkip, At, IInv, TypeOK, LocalsOK
<1>2. PICK f \in Fibers : f = m_tasks[i].fiber /\ m_state[f] = "EXEC"
  BY <1>1, ElementIsTask DEF MustSkip, ScanOK, IInv
<1>3. PICK u \in Threads : Carrier(u) /\ Cur(u) = f
  BY <1>2 DEF NoHoldsOK, Has
<1>4. Waits(f, AnyThread)
  BY <1>2 DEF Waits, ScanOK
<1>5. Holding(u)
  BY <1>3, <1>4 DEF Tokens, MeetOK
<1>. QED
  BY <1>2, <1>3, <1>5 DEF Holding, NoHoldsOK

\* Every step keeps the queue free of pins.
LEMMA ScanStep ==
  ASSUME NoPins, IInv, IInv', Tokens, NoHoldsOK, ScanOK, Next
  PROVE  ScanOK'
<1>. USE DEF queueVars, countVars, stopVars, fiberVars, localVars, clientVars,
             envVars, taskVars, poolVars, GoTo, At, Fail
<1>1. \A t \in Threads : pc'[t] = "scan" => it'[t] = 1
  <2>1. ASSUME NEW u \in Threads, RunStep(u) \/ FiberStep(u)
        PROVE  pc'[u] = "scan" => it'[u] = 1
    <3>1. ~RunSkip(u)
      BY NeverSkips
    <3>. QED
      BY <2>1, <3>1
         DEF RunStep, FiberStep, RunEnter, RunLock, RunTake, RunScanEnd,
             RunFiber, RunDrop, RunIdle, RunExit, RunCb, Idle, IdleOut, RunAfter,
             RunPostReady, RunPostFinished, RunPostHold, RunSetHold, RunResched,
             SwapIn, YieldToReady, Arm, YieldToHold, Finish, SwapOut, IInv, TypeOK
  <2>2. ASSUME NEW u \in Threads, RunStep(u) \/ FiberStep(u),
               NEW t \in Threads, pc'[t] = "scan"
        PROVE  it'[t] = 1
    BY <2>1, <2>2, RunPlaces DEF ScanOK
  <2>3. ASSUME NEW t \in Threads, pc'[t] = "scan",
               \/ CallStep \/ Start \/ Stop
        PROVE  it'[t] = 1
    <3>1. pc[t] = "scan" /\ UNCHANGED it
      BY <2>3, ThreadsAssumption
         DEF CallStep, Start, Stop, StartCreate, StartWait, StartDone, StopEarly,
             StopSet, StopRoot, StopSwap, StopJoin, IInv, TypeOK, Threads
    <3>. QED
      BY <3>1 DEF ScanOK
  <2>4. ASSUME NEW t \in Threads, pc'[t] = "scan",
               \/ \E w \in Workers : ThreadRun(w)
               \/ ClientStep /\ ~Start /\ ~Stop
               \/ Terminated
        PROVE  it'[t] = 1
    <3>1. pc[t] = "scan" /\ UNCHANGED it
      BY <2>4
         DEF ThreadRun, ClientStep, Schedule, ScheduleRange, Wake, Terminated, vars,
             IInv, TypeOK, Threads
    <3>. QED
      BY <3>1 DEF ScanOK
  <2>. QED
    BY <2>2, <2>3, <2>4 DEF Next
<1>2. m_tasks \in Seq(Task)
  BY DEF IInv, TypeOK
<1>3. ASSUME UNCHANGED m_tasks
      PROVE  \A i \in 1..Len(m_tasks') : m_tasks'[i].thread = AnyThread
  BY <1>3 DEF ScanOK
<1>4. ASSUME NEW task \in Task, task.thread = AnyThread, m_tasks' = m_tasks \o <<task>>
      PROVE  \A i \in 1..Len(m_tasks') : m_tasks'[i].thread = AnyThread
  <2>1. /\ Len(m_tasks') = Len(m_tasks) + 1
        /\ m_tasks'[Len(m_tasks) + 1] = task
        /\ \A i \in 1..Len(m_tasks) : m_tasks'[i] = m_tasks[i]
    BY <1>2, <1>4
  <2>. QED
    BY <1>2, <1>4, <2>1 DEF ScanOK
<1>5. ASSUME NEW t \in Threads, RunTake(t)
      PROVE  \A i \in 1..Len(m_tasks') : m_tasks'[i].thread = AnyThread
  <2>1. PICK k \in 1..Len(m_tasks) : m_tasks' = RemoveAt(m_tasks, k)
    BY <1>5 DEF RunTake, IInv, TypeOK, LocalsOK
  <2>2. /\ Len(m_tasks') = Len(m_tasks) - 1
        /\ \A j \in 1..(Len(m_tasks) - 1) :
             m_tasks'[j] = IF j < k THEN m_tasks[j] ELSE m_tasks[j + 1]
    BY <1>2, <2>1, RemoveAtElements
  <2>3. ASSUME NEW j \in 1..Len(m_tasks') PROVE m_tasks'[j].thread = AnyThread
    <3>1. j \in 1..(Len(m_tasks) - 1) /\ j \in 1..Len(m_tasks) /\ j + 1 \in 1..Len(m_tasks)
      BY <1>2, <2>2
    <3>. QED
      BY <2>2, <3>1 DEF ScanOK
  <2>. QED
    BY <2>3
<1>6. ASSUME NEW t \in Threads, LetGoNext(t)
      PROVE  \A i \in 1..Len(m_tasks') : m_tasks'[i].thread = AnyThread
  <2>1. CASE RunResched(t)
    <3>1. PICK g \in Fibers : g = Cur(t)
      BY <1>6, LetGoEffect
    <3>2. PICK task \in Task : task = [fiber |-> g, cb |-> Null, thread |-> AnyThread]
      BY FiberTaskType
    <3>3. m_tasks' = m_tasks \o <<task>> /\ task.thread = AnyThread
      BY <2>1, <3>1, <3>2 DEF RunResched, scheduleNoLock
    <3>. QED
      BY <1>4, <3>3
  <2>. QED
    BY <1>3, <1>6, <2>1 DEF LetGoNext, RunPostFinished, RunSetHold
<1>7. ASSUME NEW t \in Threads, NEW b \in Bodies, NEW thread \in Pins,
             Schedule(t, b, thread)
      PROVE  \A i \in 1..Len(m_tasks') : m_tasks'[i].thread = AnyThread
  <2>1. PICK task \in Task : task = TaskOf(b, AnyThread)
    BY TaskOfType
  <2>2. thread = AnyThread
    BY DEF NoPins
  <2>3. m_tasks' = m_tasks \o <<task>> /\ task.thread = AnyThread
    BY <1>7, <2>1, <2>2 DEF Schedule, scheduleNoLock, TaskOf
  <2>. QED
    BY <1>4, <2>3
<1>8. ASSUME NEW t \in Threads, NEW b1 \in Bodies, NEW b2 \in Bodies,
             ScheduleRange(t, b1, b2)
      PROVE  \A i \in 1..Len(m_tasks') : m_tasks'[i].thread = AnyThread
  <2>1. PICK x1 \in Task, x2 \in Task :
          x1 = TaskOf(b1, AnyThread) /\ x2 = TaskOf(b2, AnyThread)
    BY TaskOfType
  <2>2. /\ m_tasks' = m_tasks \o <<x1, x2>>
        /\ x1.thread = AnyThread /\ x2.thread = AnyThread
    BY <1>8, <2>1 DEF ScheduleRange, scheduleNoLock, TaskOf
  <2>3. \A i \in 1..Len(m_tasks') :
          \/ i \in 1..Len(m_tasks) /\ m_tasks'[i] = m_tasks[i]
          \/ m_tasks'[i] = x1 \/ m_tasks'[i] = x2
    <3>1. /\ Len(m_tasks') = Len(m_tasks) + 2
          /\ m_tasks'[Len(m_tasks) + 1] = x1
          /\ m_tasks'[Len(m_tasks) + 2] = x2
          /\ \A i \in 1..Len(m_tasks) : m_tasks'[i] = m_tasks[i]
      BY <1>2, <2>2
    <3>2. Len(m_tasks) \in Nat
      BY <1>2
    <3>3. \A i \in 1..Len(m_tasks') :
            i \in 1..Len(m_tasks) \/ i = Len(m_tasks) + 1 \/ i = Len(m_tasks) + 2
      BY <3>1, <3>2
    <3>. QED
      BY <3>1, <3>3
  <2>. QED
    BY <2>2, <2>3 DEF ScanOK
<1>9. \A f \in Fibers : ~Wake(f)
  BY DEF Wake, NoHoldsOK
<1>10. ASSUME \/ QuietNext \/ \E t \in Threads : AdvanceNext(t)
              \/ \E t \in Threads, f \in HostFibers : RunCb(t, f)
       PROVE  UNCHANGED m_tasks
  BY <1>10, QuietEffect, AdvanceEffect, CbEffect
<1>11. \A i \in 1..Len(m_tasks') : m_tasks'[i].thread = AnyThread
  BY <1>3, <1>5, <1>6, <1>7, <1>8, <1>9, <1>10, NextCases
<1>. QED
  BY <1>1, <1>11 DEF ScanOK

\* Who leaves run() has seen an empty queue; what is queued afterwards is queued
\* by a thread that stays.
LEMMA DrainStep ==
  ASSUME IInv, IInv', Tokens, NoHoldsOK, CallsOK, PhaseOK, ScanOK, DrainOK, Next
  PROVE  DrainOK'
<1>. USE DEF queueVars, countVars, stopVars, fiberVars, localVars, clientVars,
             envVars, taskVars, poolVars, GoTo, At, Fail
<1>0. Main \in Threads
  BY DEF Threads
<1>1. ASSUME NEW t \in Threads, RunStep(t) \/ FiberStep(t) PROVE DrainOK'
  <2>1. \A u \in Threads : u # t => (Serves(u)' <=> Serves(u))
    BY <1>1, RunPlaces DEF Serves, Leaving
  <2>2. CASE RunExit(t)
    <3>1. Leaving(t) /\ UNCHANGED m_tasks
      BY <2>2 DEF RunExit, Leaving
    <3>2. ~Serves(t)
      BY <3>1 DEF Serves
    <3>. QED
      BY <2>1, <3>1, <3>2 DEF DrainOK
  <2>3. CASE ~RunExit(t) /\ Leaving(t)'
    <3>1. pc'[t] = "dispatch" /\ ft'[t] = NoTask /\ idle_fiber'[t] = "TERM"
      BY <1>1, <2>3, RunPlaces DEF Leaving, RunLabel
    <3>2. CASE RunScanEnd(t)
      <4>1. it[t] = 1 /\ Len(m_tasks) < 1 /\ UNCHANGED m_tasks
        BY <3>2 DEF RunScanEnd, ScanOK, IInv, TypeOK
      <4>2. m_tasks = <<>>
        BY <4>1 DEF IInv, TypeOK
      <4>. QED
        BY <4>1, <4>2 DEF DrainOK
    <3>3. CASE RunTake(t)
      <4>1. PICK task \in Task : ft'[t] = task
        BY <3>3, TakeEffect
      <4>. QED
        BY <3>1, <4>1, TaskIsNotEmpty
    <3>4. CASE ~RunScanEnd(t) /\ ~RunTake(t)
      BY <1>1, <2>3, <3>1, <3>4
         DEF RunStep, FiberStep, RunEnter, RunLock, RunSkip,
             RunFiber, RunDrop, RunIdle, RunCb, Idle, IdleOut, RunAfter,
             RunPostReady, RunPostFinished, RunPostHold, RunSetHold, RunResched,
             SwapIn, YieldToReady, Arm, YieldToHold, Finish, SwapOut, NoTask,
             IInv, TypeOK
    <3>. QED
      BY <3>2, <3>3, <3>4
  <2>4. CASE ~RunExit(t) /\ ~Leaving(t)'
    <3>1. Serves(t)'
      BY <1>1, <2>4, RunPlaces DEF Serves
    <3>. QED
      BY <3>1 DEF DrainOK
  <2>. QED
    BY <2>2, <2>3, <2>4
<1>2. ASSUME NEW w \in Workers, ThreadRun(w) PROVE DrainOK'
  <2>1. w \in Threads /\ pc'[w] = "enter"
    BY <1>2 DEF ThreadRun, IInv, TypeOK, Threads
  <2>2. Serves(w)'
    BY <2>1 DEF Serves, Leaving, RunLabel
  <2>. QED
    BY <2>1, <2>2 DEF DrainOK
<1>3. ASSUME CallStep \/ Start \/ Stop PROVE DrainOK'
  <2>1. UNCHANGED <<m_tasks, ft, idle_fiber>>
    BY <1>3, CallPlaces
  <2>2. CASE StopJoin
    <3>1. \A u \in Threads : pc'[u] \in {"client", "none"}
      BY <2>2 DEF StopJoin
    <3>2. ~CallerLeft' /\ \A u \in Threads : ~Leaving(u)'
      BY <1>0, <3>1 DEF CallerLeft, Leaving
    <3>. QED
      BY <3>2 DEF DrainOK
  <2>3. CASE ~StopJoin
    <3>1. pc[Main] \in MainLabel /\ (pc'[Main] \in MainLabel \cup {"enter"})
      BY <1>0, <1>3, ThreadsAssumption
         DEF CallStep, Start, Stop, StartCreate, StartWait, StartDone, StopEarly,
             StopSet, StopRoot, StopSwap, StopJoin, MainLabel, IInv, TypeOK
    <3>2. ~Serves(Main) /\ ~Leaving(Main)' /\ ~RunExit(Main)
      BY <3>1 DEF Serves, Leaving, RunExit, MainLabel, RunLabel
    <3>3. \A w \in Workers : pc'[w] = pc[w] \/ (pc'[w] = "created" /\ pc[w] = "none")
      <4>1. ASSUME NEW w \in Workers, StartCreate(w) PROVE pc[w] = "none"
        BY <4>1 DEF StartCreate, IInv, WorkersOK
      <4>. QED
        BY <1>3, <2>3, <4>1, CallPlaces
    <3>4. \A w \in Workers : (Serves(w)' <=> Serves(w)) /\ (Leaving(w)' <=> Leaving(w))
      BY <2>1, <3>3 DEF Serves, Leaving, RunLabel
    <3>5. CallerLeft' => CallerLeft \/ m_tasks = <<>>
      BY <3>2, CallerLeftStep DEF stopping
    <3>6. \A u \in Threads : (Serves(u) => Serves(u)') /\ (Leaving(u)' => Leaving(u))
      BY <3>2, <3>4 DEF Threads
    <3>. QED
      BY <2>1, <3>5, <3>6 DEF DrainOK
  <2>. QED
    BY <2>2, <2>3
<1>4. ASSUME ClientStep, ~Start, ~Stop PROVE DrainOK'
  <2>1. UNCHANGED <<pc, ft, idle_fiber>>
    BY <1>4 DEF ClientStep, Schedule, ScheduleRange, Wake
  <2>2. /\ CallerLeft' <=> CallerLeft
        /\ \A u \in Threads : (Serves(u)' <=> Serves(u)) /\ (Leaving(u)' <=> Leaving(u))
    BY <2>1 DEF CallerLeft, Serves, Leaving
  <2>3. \A f \in Fibers : ~Wake(f)
    BY DEF Wake, NoHoldsOK
  <2>4. PICK t \in Threads : InClient(t)
    BY <1>4, <2>3 DEF ClientStep, Schedule, ScheduleRange
  <2>5. CASE pc[t] = "exec"
    <3>1. Serves(t)
      BY <2>5 DEF Serves, Leaving, RunLabel
    <3>. QED
      BY <2>2, <3>1 DEF DrainOK
  <2>6. CASE pc[Main] = "client"
    <3>1. ~CallerLeft /\ \A u \in Threads : ~Ended(u)
      BY <2>6 DEF CallerLeft, PhaseOK, InStop, RunLabel
    <3>2. \A u \in Threads : ~Leaving(u)
      BY <3>1 DEF Leaving, Ended, RunLabel
    <3>. QED
      BY <2>2, <3>1, <3>2 DEF DrainOK
  <2>. QED
    BY <2>4, <2>5, <2>6 DEF InClient
<1>5. ASSUME Terminated PROVE DrainOK'
  BY <1>5 DEF Terminated, vars, DrainOK, CallerLeft, Leaving, Serves
<1>. QED
  BY <1>1, <1>2, <1>3, <1>4, <1>5 DEF Next

\* Both hold in every state.
LEMMA DrainInvariance ==
  ASSUME OneHandover, RootOnce, NoHolds, NoPins
  PROVE  Spec => [](ScanOK /\ DrainOK)
<1>1. Init => ScanOK /\ DrainOK
  BY DEF Init, ScanOK, DrainOK
<1>2. ASSUME UNCHANGED vars, ScanOK, DrainOK PROVE ScanOK' /\ DrainOK'
  BY <1>2
     DEF vars, queueVars, localVars, ScanOK, DrainOK, CallerLeft, Leaving, Serves
<1>3. IInv /\ IInv' /\ Tokens /\ NoHoldsOK /\ CallsOK /\ PhaseOK /\ ScanOK /\ DrainOK
        /\ [Next]_vars => ScanOK' /\ DrainOK'
  BY <1>2, NoPins, ScanStep, DrainStep
<1>. QED
  BY <1>1, <1>3, Invariance, TokensInvariance, NoHoldsInvariance, PhaseInvariance, PTL
     DEF Spec

\* The last thread to leave run() leaves an empty queue.
LEMMA LastLeavesEmpty ==
  ASSUME DrainOK, pc[Main] = "joining", \A w \in Workers : pc[w] = "exited"
  PROVE  m_tasks = <<>>
<1>1. \A t \in Threads : ~Serves(t)
  BY DEF Serves, RunLabel, Threads
<1>2. CallerLeft \/ \E t \in Threads : Leaving(t)
  BY ThreadsAssumption DEF CallerLeft, Leaving, Threads
<1>. QED
  BY <1>1, <1>2 DEF DrainOK

\* The same as StopAlwaysDrains where bodies yield to ready, but name no thread.
THEOREM StopDrainsYields ==
  ASSUME OneHandover, RootOnce, NoHolds, NoPins
  PROVE  Spec => StopDrains
<1>1. IInv /\ CallsOK /\ AllKept /\ NoHoldsOK /\ DrainOK /\ [Next]_vars =>
        [StopReturns => /\ m_tasks = <<>>
                        /\ \A b \in Bodies : ~Unfinished(b)
                        /\ m_activeThreadCount = 0 /\ m_idleThreadCount = 0]_vars
  BY StopLeaves, LastLeavesEmpty
<1>. QED
  BY <1>1, Invariance, PhaseInvariance, BodiesInvariance, NoHoldsInvariance,
     DrainInvariance, PTL DEF Spec, StopDrains

-----------------------------------------------------------------------------
(***************************************************************************)
(* A body is executed once.                                                *)
(***************************************************************************)

\* Erasing element i: its callback, if it has one, is queued no longer.
LEMMA TakeCbOnce ==
  ASSUME TypeOK, CbQueueOK, NEW i \in 1..Len(m_tasks),
         m_tasks' = RemoveAt(m_tasks, i)
  PROVE  /\ CbQueueOK'
         /\ \A c \in Cbs : CbIn(c)' => CbIn(c) /\ c # m_tasks[i].cb
<1>1. m_tasks \in Seq(Task) /\ \A c \in Cbs : c # Null
  BY ClientAssumption DEF TypeOK
<1>2. /\ Len(m_tasks') = Len(m_tasks) - 1
      /\ \A j \in 1..(Len(m_tasks) - 1) :
           m_tasks'[j] = IF j < i THEN m_tasks[j] ELSE m_tasks[j + 1]
  BY <1>1, RemoveAtElements
<1>. DEFINE Old(n) == IF n < i THEN n ELSE n + 1
<1>3. ASSUME NEW j \in 1..Len(m_tasks')
      PROVE  /\ Old(j) \in 1..Len(m_tasks) /\ Old(j) # i
             /\ m_tasks'[j] = m_tasks[Old(j)]
  BY <1>2
<1>4. CbQueueOK'
  <2>. SUFFICES ASSUME NEW j \in 1..Len(m_tasks'), NEW k \in 1..Len(m_tasks'),
                       m_tasks'[j].cb # Null, m_tasks'[j].cb = m_tasks'[k].cb
                PROVE  j = k
    BY DEF CbQueueOK
  <2>1. Old(j) = Old(k)
    BY <1>3 DEF CbQueueOK
  <2>. QED
    BY <2>1
<1>5. ASSUME NEW c \in Cbs, CbIn(c)' PROVE CbIn(c) /\ c # m_tasks[i].cb
  <2>1. PICK j \in 1..Len(m_tasks') : m_tasks'[j].cb = c
    BY <1>5 DEF CbIn
  <2>2. PICK k \in 1..Len(m_tasks) : k # i /\ m_tasks[k].cb = c
    BY <1>3, <2>1
  <2>. QED
    BY <1>1, <2>2 DEF CbIn, CbQueueOK
<1>. QED
  BY <1>4, <1>5

\* Appending tasks whose callbacks are new, and not the same.
LEMMA AppendCbOnce ==
  ASSUME TypeOK, CbQueueOK, NEW tasks \in Seq(Task), m_tasks' = m_tasks \o tasks,
         \A i \in 1..Len(tasks) : tasks[i].cb # Null => ~CbIn(tasks[i].cb),
         \A i, j \in 1..Len(tasks) :
           tasks[i].cb # Null /\ tasks[i].cb = tasks[j].cb => i = j
  PROVE  /\ CbQueueOK'
         /\ \A c : CbIn(c)' => CbIn(c) \/ \E i \in 1..Len(tasks) : tasks[i].cb = c
<1>. DEFINE n == Len(m_tasks)
<1>1. m_tasks \in Seq(Task) /\ n \in Nat /\ Len(tasks) \in Nat
  BY DEF TypeOK
<1>2. /\ Len(m_tasks') = n + Len(tasks)
      /\ \A j \in 1..(n + Len(tasks)) :
           m_tasks'[j] = IF j <= n THEN m_tasks[j] ELSE tasks[j - n]
  BY <1>1, ConcatElements
<1>3. ASSUME NEW j \in 1..Len(m_tasks')
      PROVE  \/ j \in 1..n /\ m_tasks'[j] = m_tasks[j]
             \/ ~(j \in 1..n) /\ j - n \in 1..Len(tasks) /\ m_tasks'[j] = tasks[j - n]
  BY <1>1, <1>2
<1>. HIDE DEF n
<1>4. CbQueueOK'
  <2>. SUFFICES ASSUME NEW j \in 1..Len(m_tasks'), NEW k \in 1..Len(m_tasks'),
                       m_tasks'[j].cb # Null, m_tasks'[j].cb = m_tasks'[k].cb
                PROVE  j = k
    BY DEF CbQueueOK
  <2>1. CASE j \in 1..n /\ k \in 1..n
    BY <1>3, <2>1 DEF CbQueueOK, n
  <2>2. CASE ~(j \in 1..n) /\ ~(k \in 1..n)
    <3>1. PICK p \in 1..Len(tasks) : p = j - n /\ m_tasks'[j] = tasks[p]
      BY <1>3, <2>2
    <3>2. PICK q \in 1..Len(tasks) : q = k - n /\ m_tasks'[k] = tasks[q]
      BY <1>3, <2>2
    <3>3. p = q
      BY <3>1, <3>2
    <3>. QED
      BY <1>1, <1>2, <3>1, <3>2, <3>3
  <2>3. CASE j \in 1..n /\ ~(k \in 1..n)
    BY <1>3, <2>3 DEF CbIn, n
  <2>4. CASE ~(j \in 1..n) /\ k \in 1..n
    BY SMTT(30), <1>3, <2>4 DEF CbIn, n
  <2>. QED
    BY <2>1, <2>2, <2>3, <2>4
<1>5. ASSUME NEW c, CbIn(c)'
      PROVE  CbIn(c) \/ \E i \in 1..Len(tasks) : tasks[i].cb = c
  <2>1. PICK j \in 1..Len(m_tasks') : m_tasks'[j].cb = c
    BY <1>5 DEF CbIn
  <2>. QED
    BY <1>3, <2>1 DEF CbIn, n
<1>. QED
  BY <1>4, <1>5

\* The argument of scheduleNoLock as a sequence of tasks.
LEMMA OneTask ==
  ASSUME NEW task \in Task
  PROVE  /\ <<task>> \in Seq(Task) /\ Len(<<task>>) = 1
         /\ \A i \in 1..Len(<<task>>) : i = 1 /\ <<task>>[i] = task
OBVIOUS

\* The same for two.
LEMMA TwoTasks ==
  ASSUME NEW a \in Task, NEW b \in Task
  PROVE  /\ <<a, b>> \in Seq(Task) /\ Len(<<a, b>>) = 2
         /\ \A i \in 1..Len(<<a, b>>) :
              (i = 1 /\ <<a, b>>[i] = a) \/ (i = 2 /\ <<a, b>>[i] = b)
OBVIOUS

\* A step that adds no callback anywhere.
LEMMA CbOnceKept ==
  ASSUME CbOnce, CbQueueOK', UNCHANGED want,
         \A c \in Cbs : CbIn(c)' => CbIn(c),
         \A c \in Cbs, t \in Threads : CbTaken(t, c)' => CbTaken(t, c),
         \A f \in Fibers : m_cb'[f] \in {m_cb[f], Null},
         \A b \in done' : b \in done \/ \E f \in Fibers : m_cb[f] = b
  PROVE  CbOnce'
<1>1. \A c \in Cbs : Fresh(c)' => Fresh(c)
  BY DEF Fresh
<1>2. \A c \in Cbs : c # Null
  BY ClientAssumption
<1>3. \A c \in Cbs : Fresh(c)' \/ want'[c] = Null =>
        c \notin done' /\ \A f \in Fibers : m_cb'[f] # c
  BY <1>1, <1>2 DEF CbOnce
<1>. QED
  BY <1>1, <1>3 DEF CbOnce

\* Every step keeps bodies unique.
LEMMA OnceStep ==
  ASSUME OneHandover, IInv, IInv', Tokens, Tokens', BodiesOK, CbOnce, FiberOnce, Next
  PROVE  CbOnce' /\ FiberOnce'
<1>0. /\ \A c \in Cbs : c # Null
      /\ \A f \in Fibers : f # Null
      /\ Null \notin done /\ Null \notin done'
  BY ClientAssumption DEF IInv, TypeOK, Bodies, Fibers
<1>1. ASSUME UNCHANGED <<m_tasks, want, m_cb, m_state, done>>,
             \A u \in Threads, c \in Cbs : CbTaken(u, c)' <=> CbTaken(u, c)
      PROVE  CbOnce' /\ FiberOnce'
  <2>1. CbQueueOK' /\ \A c \in Cbs : CbIn(c)' => CbIn(c)
    BY <1>1 DEF CbOnce, CbQueueOK, CbIn
  <2>2. CbOnce'
    BY <1>1, <2>1, CbOnceKept
  <2>. QED
    BY <1>1, <2>2 DEF FiberOnce
<1>2. CASE QuietNext
  BY <1>1, <1>2, QuietEffect
<1>3. ASSUME NEW t \in Threads, AdvanceNext(t) PROVE CbOnce' /\ FiberOnce'
  <2>0. PICK g \in Fibers : g = Cur(t)
    BY <1>3, AdvanceEffect
  <2>1. /\ \A f \in Fibers : f # g => m_state'[f] = m_state[f] /\ m_cb'[f] = m_cb[f]
        /\ UNCHANGED <<m_tasks, want>> /\ Carrier(t)
        /\ \A u \in Threads, c \in Cbs : CbTaken(u, c)' <=> CbTaken(u, c)
    BY <1>3, <2>0, AdvanceEffect
  <2>2. m_state[g] \in StatesAt(pc[t])
    BY <2>0, <2>1 DEF Tokens, CarryOK
  <2>3. /\ done' \in {done, done \cup ({m_cb[g]} \ {Null})}
        /\ m_cb'[g] \in {m_cb[g], Null}
        /\ m_cb'[g] \in done' => m_state'[g] \in Finished
    <3>1. CASE \E s \in Finished : Finish(t, s)
      BY <2>0, <3>1 DEF Finish, SetState, IInv, TypeOK
    <3>2. CASE SwapIn(t) \/ YieldToReady(t) \/ YieldToHold(t)
      <4>1. m_state[g] \notin Finished /\ UNCHANGED <<done, m_cb>>
        BY <2>0, <2>2, <3>2
           DEF SwapIn, YieldToReady, YieldToHold, At, StatesAt, Resumable,
               Finished, Fail, fiberVars, envVars, clientVars
      <4>. QED
        BY <4>1 DEF FiberOnce
    <3>3. CASE \/ RunFiber(t) \/ SwapOut(t) \/ RunAfter(t) \/ RunPostReady(t)
               \/ RunPostHold(t) \/ Arm(t)
      BY <3>3
         DEF RunFiber, SwapOut, RunAfter, RunPostReady, RunPostHold, Arm,
             taskVars, fiberVars, clientVars, FiberOnce
    <3>. QED
      BY <1>3, <3>1, <3>2, <3>3 DEF AdvanceNext
  <2>4. CbQueueOK' /\ \A c \in Cbs : CbIn(c)' => CbIn(c)
    BY <2>1 DEF CbOnce, CbQueueOK, CbIn
  <2>5. \A f \in Fibers : m_cb'[f] \in {m_cb[f], Null}
    BY <2>1, <2>3
  <2>6. CbOnce'
    BY <2>1, <2>3, <2>4, <2>5, CbOnceKept
  <2>7. \A f \in Fibers : m_cb'[f] \in done' => m_state'[f] \in Finished
    <3>1. ASSUME NEW f \in Fibers, f # g, m_cb'[f] \in done'
          PROVE  m_state'[f] \in Finished
      BY <1>0, <2>1, <2>3, <3>1 DEF FiberOnce
    <3>. QED
      BY <2>3, <3>1
  <2>8. /\ \A f, h \in Fibers : m_cb'[f] = m_cb'[h] /\ m_cb'[f] # Null => f = h
        /\ \A f \in ClientFibers : m_cb'[f] \in {f, Null}
    BY <2>5 DEF FiberOnce, Fibers
  <2>. QED
    BY <2>6, <2>7, <2>8 DEF FiberOnce
<1>4. ASSUME NEW t \in Threads, LetGoNext(t) PROVE CbOnce' /\ FiberOnce'
  <2>0. PICK g \in Fibers : g = Cur(t)
    BY <1>4, LetGoEffect
  <2>1. /\ \A f \in Fibers : f # g => m_state'[f] = m_state[f] /\ m_cb'[f] = m_cb[f]
        /\ m_cb'[g] \in {m_cb[g], Null} /\ Carrier(t)
        /\ UNCHANGED <<want, done>>
        /\ \A u \in Threads, c \in Cbs : CbTaken(u, c)' <=> CbTaken(u, c)
    BY <1>4, <2>0, LetGoEffect
  <2>2. m_state[g] \in StatesAt(pc[t])
    BY <2>0, <2>1 DEF Tokens, CarryOK
  <2>3. m_cb'[g] \in done' => m_state'[g] \in Finished
    <3>1. CASE RunPostFinished(t)
      BY <1>0, <2>0, <2>1, <3>1
         DEF RunPostFinished, FiberOnce, fiberVars, IInv, TypeOK
    <3>2. CASE RunSetHold(t)
      <4>1. m_state[g] \notin Finished /\ UNCHANGED m_cb
        BY <2>2, <3>2 DEF RunSetHold, At, StatesAt, Finished
      <4>. QED
        BY <2>1, <4>1 DEF FiberOnce
    <3>3. CASE RunResched(t)
      BY <2>1, <3>3 DEF RunResched, fiberVars, FiberOnce
    <3>. QED
      BY <1>4, <3>1, <3>2, <3>3 DEF LetGoNext
  <2>4. CbQueueOK' /\ \A c \in Cbs : CbIn(c)' => CbIn(c)
    <3>1. CASE UNCHANGED m_tasks
      BY <3>1 DEF CbOnce, CbQueueOK, CbIn
    <3>2. CASE RunResched(t)
      <4>1. PICK task \in Task : task = [fiber |-> g, cb |-> Null, thread |-> AnyThread]
        BY FiberTaskType
      <4>2. m_tasks' = m_tasks \o <<task>> /\ task.cb = Null
        BY <2>0, <3>2, <4>1 DEF RunResched, scheduleNoLock
      <4>3. PICK tasks \in Seq(Task) :
              tasks = <<task>> /\ \A i \in 1..Len(tasks) : i = 1 /\ tasks[i] = task
        BY OneTask
      <4>4. /\ CbQueueOK'
            /\ \A c : CbIn(c)' => CbIn(c) \/ \E i \in 1..Len(tasks) : tasks[i].cb = c
        BY <4>2, <4>3, AppendCbOnce DEF CbOnce, IInv
      <4>. QED
        BY <1>0, <4>2, <4>3, <4>4
    <3>. QED
      BY <1>4, <3>1, <3>2 DEF LetGoNext, RunPostFinished, RunSetHold, queueVars
  <2>5. \A f \in Fibers : m_cb'[f] \in {m_cb[f], Null}
    BY <2>1
  <2>6. CbOnce'
    BY <2>1, <2>4, <2>5, CbOnceKept
  <2>7. \A f \in Fibers : m_cb'[f] \in done' => m_state'[f] \in Finished
    BY <2>1, <2>3 DEF FiberOnce
  <2>8. /\ \A f, h \in Fibers : m_cb'[f] = m_cb'[h] /\ m_cb'[f] # Null => f = h
        /\ \A f \in ClientFibers : m_cb'[f] \in {f, Null}
    BY <2>5 DEF FiberOnce, Fibers
  <2>. QED
    BY <2>6, <2>7, <2>8 DEF FiberOnce
<1>5. ASSUME NEW t \in Threads, RunTake(t) PROVE CbOnce' /\ FiberOnce'
  <2>1. PICK i \in 1..Len(m_tasks) :
          /\ m_tasks' = RemoveAt(m_tasks, i)
          /\ ft'[t] = m_tasks[i] /\ pc[t] = "scan"
          /\ \A u \in Threads : u # t => ft'[u] = ft[u] /\ pc'[u] = pc[u]
          /\ UNCHANGED <<m_cb, m_state, done, want>>
    BY <1>5 DEF RunTake, At, GoTo, fiberVars, envVars, clientVars, IInv, TypeOK, LocalsOK
  <2>2. CbQueueOK' /\ \A c \in Cbs : CbIn(c)' => CbIn(c) /\ c # m_tasks[i].cb
    BY <2>1, TakeCbOnce DEF CbOnce, IInv
  <2>3. \A c \in Cbs : CbTaken(t, c)' => CbIn(c) /\ c = m_tasks[i].cb
    BY <2>1 DEF CbTaken, CbIn
  <2>4. \A c \in Cbs, u \in Threads : u # t => (CbTaken(u, c)' <=> CbTaken(u, c))
    BY <2>1 DEF CbTaken
  <2>5. \A c \in Cbs : Fresh(c)' => Fresh(c)
    BY <2>2, <2>3, <2>4 DEF Fresh
  <2>6. \A c \in Cbs, u \in Threads : CbTaken(u, c)' => ~CbIn(c)'
    BY <2>2, <2>3, <2>4 DEF CbOnce
  <2>7. \A c \in Cbs, u, v \in Threads : CbTaken(u, c)' /\ CbTaken(v, c)' => u = v
    BY <2>3, <2>4 DEF CbOnce
  <2>8. CbOnce'
    BY <2>1, <2>2, <2>5, <2>6, <2>7 DEF CbOnce
  <2>. QED
    BY <2>1, <2>8 DEF FiberOnce
<1>6. ASSUME NEW t \in Threads, NEW h \in HostFibers, RunCb(t, h)
      PROVE  CbOnce' /\ FiberOnce'
  <2>0. PICK d \in Cbs : d = ft[t].cb
    BY <1>6, CbEffect
  <2>1. /\ h \in Fibers /\ h \notin ClientFibers /\ CbTaken(t, d)
        /\ m_cb'[h] = d
        /\ \A g \in Fibers : g # h => m_cb'[g] = m_cb[g] /\ m_state'[g] = m_state[g]
        /\ pc'[t] = "swapin"
        /\ \A u \in Threads : u # t => pc'[u] = pc[u] /\ ft'[u] = ft[u]
        /\ UNCHANGED <<m_tasks, want, done>>
    BY <1>6, <2>0, CbEffect DEF IInv, TypeOK
  <2>2. CbQueueOK' /\ \A c \in Cbs : CbIn(c)' => CbIn(c)
    BY <2>1 DEF CbOnce, CbQueueOK, CbIn
  <2>3. \A c \in Cbs, u \in Threads : CbTaken(u, c)' => CbTaken(u, c) /\ u # t
    BY <2>1 DEF CbTaken
  <2>4. Fresh(d) /\ \A c \in Cbs : Fresh(c)' => Fresh(c) /\ c # d
    BY <2>1, <2>2, <2>3 DEF Fresh, CbOnce
  <2>5. d \notin done /\ want[d] # Null /\ \A f \in Fibers : m_cb[f] # d
    BY <2>4 DEF CbOnce
  <2>6. \A c \in Cbs : Fresh(c)' \/ want'[c] = Null =>
          c \notin done' /\ \A f \in Fibers : m_cb'[f] # c
    BY <2>1, <2>4, <2>5 DEF CbOnce
  <2>7. CbOnce'
    BY <2>1, <2>2, <2>3, <2>4, <2>6 DEF CbOnce
  <2>8. /\ \A f, g \in Fibers : m_cb'[f] = m_cb'[g] /\ m_cb'[f] # Null => f = g
        /\ \A f \in ClientFibers : m_cb'[f] \in {f, Null}
        /\ \A f \in Fibers : m_cb'[f] \in done' => m_state'[f] \in Finished
    BY <2>1, <2>5 DEF FiberOnce, Fibers
  <2>. QED
    BY <2>7, <2>8 DEF FiberOnce
<1>7. ASSUME UNCHANGED <<pc, ft, m_cb, m_state, done>>, NEW tasks \in Seq(Task),
             m_tasks' = m_tasks \o tasks,
             \A i \in 1..Len(tasks) : tasks[i].cb # Null =>
               tasks[i].cb \in Cbs /\ want[tasks[i].cb] = Null
               /\ want'[tasks[i].cb] # Null,
             \A i, j \in 1..Len(tasks) :
               tasks[i].cb # Null /\ tasks[i].cb = tasks[j].cb => i = j,
             \A c \in Cbs : want'[c] = Null => want[c] = Null
      PROVE  CbOnce' /\ FiberOnce'
  <2>1. \A i \in 1..Len(tasks) : tasks[i].cb # Null =>
          /\ ~Fresh(tasks[i].cb) /\ tasks[i].cb \notin done
          /\ \A f \in Fibers : m_cb[f] # tasks[i].cb
    BY <1>7 DEF CbOnce
  <2>2. /\ CbQueueOK'
        /\ \A c : CbIn(c)' => CbIn(c) \/ \E i \in 1..Len(tasks) : tasks[i].cb = c
    BY <1>7, <2>1, AppendCbOnce DEF CbOnce, IInv, Fresh
  <2>3. \A c \in Cbs, u \in Threads : CbTaken(u, c)' <=> CbTaken(u, c)
    BY <1>7 DEF CbTaken
  <2>4. \A c \in Cbs : CbIn(c)' =>
          CbIn(c) \/ (~Fresh(c) /\ c \notin done /\ want'[c] # Null
                      /\ \A f \in Fibers : m_cb[f] # c)
    BY <1>0, <1>7, <2>1, <2>2
  <2>5. \A c \in Cbs, u \in Threads : CbTaken(u, c)' => ~CbIn(c)'
    BY <2>3, <2>4 DEF CbOnce, Fresh
  <2>6. \A c \in Cbs : Fresh(c)' => Fresh(c) \/ (c \notin done /\ want'[c] # Null
                                              /\ \A f \in Fibers : m_cb[f] # c)
    BY <2>3, <2>4 DEF Fresh
  <2>7. \A c \in Cbs : Fresh(c)' \/ want'[c] = Null =>
          c \notin done' /\ \A f \in Fibers : m_cb'[f] # c
    BY <1>7, <2>6 DEF CbOnce
  <2>8. \A c \in Cbs : want'[c] = Null => ~Fresh(c)'
    BY <1>7, <2>6 DEF CbOnce
  <2>9. CbOnce'
    BY <2>2, <2>3, <2>5, <2>7, <2>8 DEF CbOnce
  <2>. QED
    BY <1>7, <2>9 DEF FiberOnce
<1>8. ASSUME NEW t \in Threads, NEW b \in Bodies, NEW thread \in Pins,
             Schedule(t, b, thread)
      PROVE  CbOnce' /\ FiberOnce'
  <2>1. thread \in Threads \cup {AnyThread} /\ thread # Null
    BY ClientAssumption, ThreadsAssumption
  <2>2. TaskOf(b, thread) \in Task
    BY <2>1, TaskOfType
  <2>3. PICK tasks \in Seq(Task) :
          /\ tasks = <<TaskOf(b, thread)>>
          /\ \A i \in 1..Len(tasks) : i = 1 /\ tasks[i] = TaskOf(b, thread)
    BY <2>2, OneTask
  <2>4. TaskOf(b, thread).cb # Null => TaskOf(b, thread).cb = b /\ b \in Cbs
    BY DEF TaskOf
  <2>5. /\ m_tasks' = m_tasks \o tasks /\ want[b] = Null
        /\ want' = [want EXCEPT ![b] = thread]
        /\ UNCHANGED <<pc, ft, m_cb, m_state, done>>
    BY <1>8, <2>3 DEF Schedule, MaySchedule, OneHandover, scheduleNoLock, poolVars,
                      fiberVars, localVars
  <2>6. want'[b] = thread /\ \A c \in Cbs : want'[c] = Null => want[c] = Null
    BY <2>1, <2>5 DEF IInv, TypeOK, Bodies
  <2>. QED
    BY ZenonT(30), <1>7, <2>1, <2>3, <2>4, <2>5, <2>6
<1>9. ASSUME NEW t \in Threads, NEW b1 \in Bodies, NEW b2 \in Bodies,
             ScheduleRange(t, b1, b2)
      PROVE  CbOnce' /\ FiberOnce'
  <2>1. AnyThread # Null
    BY ThreadsAssumption
  <2>2. TaskOf(b1, AnyThread) \in Task /\ TaskOf(b2, AnyThread) \in Task
    BY TaskOfType
  <2>3. PICK tasks \in Seq(Task) :
          /\ tasks = <<TaskOf(b1, AnyThread), TaskOf(b2, AnyThread)>>
          /\ \A i \in 1..Len(tasks) :
               \/ i = 1 /\ tasks[i] = TaskOf(b1, AnyThread)
               \/ i = 2 /\ tasks[i] = TaskOf(b2, AnyThread)
    <3>1. PICK x1 \in Task : x1 = TaskOf(b1, AnyThread)
      BY <2>2
    <3>2. PICK x2 \in Task : x2 = TaskOf(b2, AnyThread)
      BY <2>2
    <3>3. \E tasks \in Seq(Task) :
            /\ tasks = <<x1, x2>>
            /\ \A i \in 1..Len(tasks) :
                 (i = 1 /\ tasks[i] = x1) \/ (i = 2 /\ tasks[i] = x2)
      <4>. DEFINE both == <<x1, x2>>
      <4>1. /\ both \in Seq(Task)
            /\ \A i \in 1..Len(both) :
                 (i = 1 /\ both[i] = x1) \/ (i = 2 /\ both[i] = x2)
        BY TwoTasks
      <4>. HIDE DEF both
      <4>. QED
        BY <4>1 DEF both
    <3>. QED
      BY <3>1, <3>2, <3>3
  <2>4. \A b \in {b1, b2} :
          TaskOf(b, AnyThread).cb # Null => TaskOf(b, AnyThread).cb = b /\ b \in Cbs
    BY DEF TaskOf
  <2>5. /\ m_tasks' = m_tasks \o tasks /\ want[b1] = Null /\ want[b2] = Null /\ b1 # b2
        /\ want' = [want EXCEPT ![b1] = AnyThread, ![b2] = AnyThread]
        /\ UNCHANGED <<pc, ft, m_cb, m_state, done>>
    BY <1>9, <2>3 DEF ScheduleRange, scheduleNoLock, poolVars, fiberVars, localVars
  <2>6. /\ want'[b1] # Null /\ want'[b2] # Null
        /\ \A c \in Cbs : want'[c] = Null => want[c] = Null
    BY <2>1, <2>5 DEF IInv, TypeOK, Bodies
  <2>7. \A i \in 1..Len(tasks) : tasks[i].cb # Null =>
          /\ tasks[i].cb \in Cbs /\ tasks[i].cb \in {b1, b2}
          /\ tasks[i].cb = b1 => i = 1
          /\ tasks[i].cb = b2 => i = 2
    BY <2>3, <2>4, <2>5
  <2>8. \A i \in 1..Len(tasks) : tasks[i].cb # Null =>
          tasks[i].cb \in Cbs /\ want[tasks[i].cb] = Null /\ want'[tasks[i].cb] # Null
    BY <2>5, <2>6, <2>7
  <2>9. \A i, j \in 1..Len(tasks) :
          tasks[i].cb # Null /\ tasks[i].cb = tasks[j].cb => i = j
    BY <2>7
  <2>. QED
    BY <1>7, <2>5, <2>6, <2>8, <2>9
<1>10. ASSUME NEW f \in Fibers, Wake(f) PROVE CbOnce' /\ FiberOnce'
  <2>1. PICK home \in Threads \cup {AnyThread} :
          home = IF WakeHome THEN armed[f] ELSE AnyThread
    BY <1>10 DEF Wake, IInv, TypeOK
  <2>2. PICK task \in Task : task = [fiber |-> f, cb |-> Null, thread |-> home]
    BY FiberTaskType
  <2>3. PICK tasks \in Seq(Task) :
          tasks = <<task>> /\ \A i \in 1..Len(tasks) : i = 1 /\ tasks[i] = task
    BY OneTask
  <2>4. /\ m_tasks' = m_tasks \o tasks
        /\ UNCHANGED <<pc, ft, m_cb, m_state, done, want>>
    BY <1>10, <2>1, <2>2, <2>3 DEF Wake, scheduleNoLock, poolVars, fiberVars, localVars
  <2>5. \A i \in 1..Len(tasks) : tasks[i].cb = Null
    BY <2>2, <2>3
  <2>. QED
    BY <1>7, <2>4, <2>5
<1>. QED
  BY <1>2, <1>3, <1>4, <1>5, <1>6, <1>8, <1>9, <1>10, NextCases

\* Both hold in every state.
LEMMA OnceInvariance ==
  ASSUME OneHandover
  PROVE  Spec => [](CbOnce /\ FiberOnce)
<1>1. Init => CbOnce /\ FiberOnce
  <2>. SUFFICES ASSUME Init PROVE CbOnce /\ FiberOnce
    OBVIOUS
  <2>1. CbQueueOK /\ \A c : ~CbIn(c)
    BY DEF Init, CbQueueOK, CbIn
  <2>2. \A t \in Threads, c \in Cbs : ~CbTaken(t, c)
    BY DEF Init, CbTaken
  <2>3. /\ \A f \in Fibers : m_cb[f] = IF f \in ClientFibers THEN f ELSE Null
        /\ done = {}
    BY DEF Init
  <2>4. \A c \in Cbs, f \in Fibers : m_cb[f] # c
    BY <2>3, ClientAssumption DEF Fibers
  <2>. QED
    BY <2>1, <2>2, <2>3, <2>4, ClientAssumption DEF CbOnce, Fresh, FiberOnce, Fibers
<1>2. ASSUME UNCHANGED vars, CbOnce, FiberOnce PROVE CbOnce' /\ FiberOnce'
  BY <1>2
     DEF vars, queueVars, localVars, fiberVars, clientVars, CbOnce, CbQueueOK, CbIn,
         Fresh, CbTaken, FiberOnce
<1>3. IInv /\ IInv' /\ Tokens /\ Tokens' /\ BodiesOK /\ CbOnce /\ FiberOnce
        /\ [Next]_vars => CbOnce' /\ FiberOnce'
  BY <1>2, OneHandover, OnceStep
<1>. QED
  BY <1>1, <1>3, Invariance, TokensInvariance, BodiesInvariance, PTL DEF Spec

-----------------------------------------------------------------------------
(***************************************************************************)
(* The refinement of TaskPool.                                             *)
(***************************************************************************)

\* Thread t executes a body; somebody executes b; the pool is closed.
Runs(t) == pc[t] \in {"exec", "hold"}
Running(b) == \E t \in Threads : Runs(t) /\ m_cb[Cur(t)] = b
Closed == pc[Main] = "client" /\ m_stopping

\* Everything the mapping needs of a state.
Unique == IInv /\ Tokens /\ BodiesOK /\ CallsOK /\ PhaseOK /\ CbOnce /\ FiberOnce

\* PlaceOf in these terms.
LEMMA PlaceMeans ==
  ASSUME NEW b
  PROVE  PlaceOf(b) = IF Running(b) THEN "running"
                      ELSE IF want[b] = Null THEN "new"
                      ELSE IF b \in done THEN "finished" ELSE "waiting"
BY DEF PlaceOf, Running, Runs

\* The same in the next state.
LEMMA PlaceMeansNext ==
  ASSUME NEW b
  PROVE  PlaceOf(b)' = IF Running(b)' THEN "running"
                       ELSE IF want'[b] = Null THEN "new"
                       ELSE IF b \in done' THEN "finished" ELSE "waiting"
BY DEF PlaceOf, Running, Runs

\* A body on a thread has been scheduled and is the only one of its kind.
LEMMA CarriedBody ==
  ASSUME Unique, NEW t \in Threads, Carrier(t), m_cb[Cur(t)] # Null
  PROVE  /\ want[m_cb[Cur(t)]] # Null
         /\ pc[t] \in {"swapin", "exec", "hold"} => m_cb[Cur(t)] \notin done
         /\ \A u \in Threads : Carrier(u) /\ m_cb[Cur(u)] = m_cb[Cur(t)] => u = t
<1>1. PICK g \in Fibers : g = Cur(t)
  BY CarrierFiber DEF Unique
<1>2. PICK b \in Bodies : b = m_cb[g]
  BY <1>1 DEF Unique, IInv, TypeOK
<1>3. want[b] # Null
  <2>1. CASE b \in Cbs
    BY <1>2, <2>1 DEF Unique, CbOnce
  <2>2. CASE b \in ClientFibers
    <3>1. SUFFICES ASSUME want[b] = Null PROVE FALSE
      OBVIOUS
    <3>2. m_cb[b] = b /\ Unused(b) /\ b \in Fibers
      BY <2>2, <3>1 DEF Unique, BodiesOK, Tokens, NewOK, Fibers
    <3>3. b = g
      BY <1>1, <1>2, <3>2 DEF Unique, FiberOnce
    <3>. QED
      BY <1>1, <3>2, <3>3 DEF Unused, Has
  <2>. QED
    BY <2>1, <2>2 DEF Bodies
<1>4. pc[t] \in {"swapin", "exec", "hold"} => b \notin done
  <2>1. m_state[g] \in StatesAt(pc[t])
    BY <1>1 DEF Unique, Tokens, CarryOK
  <2>2. pc[t] \in {"swapin", "exec", "hold"} => m_state[g] \notin Finished
    BY <2>1 DEF StatesAt, Resumable, Finished
  <2>. QED
    BY <1>1, <1>2, <2>2 DEF Unique, FiberOnce
<1>5. ASSUME NEW u \in Threads, Carrier(u), m_cb[Cur(u)] = b PROVE u = t
  <2>1. PICK h \in Fibers : h = Cur(u)
    BY <1>5, CarrierFiber DEF Unique
  <2>2. h = g
    BY <1>1, <1>2, <1>5, <2>1 DEF Unique, FiberOnce
  <2>. QED
    BY <1>1, <1>5, <2>1, <2>2 DEF Unique, Tokens, CarryOK
<1>. QED
  BY <1>1, <1>2, <1>3, <1>4, <1>5

\* Whoever executes carries; a body that runs is unfinished.
LEMMA RunningBody ==
  ASSUME Unique, NEW b \in Bodies, Running(b)
  PROVE  want[b] # Null /\ b \notin done
<1>1. PICK t \in Threads : Runs(t) /\ m_cb[Cur(t)] = b
  BY DEF Running
<1>2. Carrier(t) /\ pc[t] \in {"swapin", "exec", "hold"} /\ b # Null
  BY <1>1, ClientAssumption DEF Runs, Carrier, HasFiber, Bodies, Fibers
<1>. QED
  BY <1>1, <1>2, CarriedBody

\* A body that was never scheduled is new.
LEMMA NewBody ==
  ASSUME Unique, NEW b \in Bodies, want[b] = Null
  PROVE  ~Running(b) /\ b \notin done
<1>1. CASE b \in Cbs
  BY <1>1, RunningBody DEF Unique, CbOnce
<1>2. CASE b \in ClientFibers
  <2>1. m_cb[b] = b /\ m_state[b] = "INIT" /\ b \in Fibers
    BY <1>2 DEF Unique, BodiesOK, Tokens, NewOK, Fibers
  <2>. QED
    BY <2>1, RunningBody DEF Unique, FiberOnce, Finished
<1>. QED
  BY <1>1, <1>2 DEF Bodies

\* Bodies that all go from one place to another.
LEMMA MoveMap ==
  ASSUME NEW S \in SUBSET Bodies, NEW from, NEW to,
         \A b \in S : PlaceOf(b) = from /\ PlaceOf(b)' = to,
         \A b \in Bodies : b \notin S => PlaceOf(b)' = PlaceOf(b),
         Closed' <=> Closed
  PROVE  Pool!Move(S, from, to)
BY DEF Pool!Move, Closed

\* A step the pool does not see.
LEMMA StutterMap ==
  ASSUME \A b \in Bodies : PlaceOf(b)' = PlaceOf(b), Closed' <=> Closed
  PROVE  UNCHANGED Pool!poolVars
BY DEF Pool!poolVars, Closed

\* Where nobody starts or ends a slice, every place stays.
LEMMA SamePlaces ==
  ASSUME UNCHANGED <<want, done>>, \A b \in Bodies : Running(b)' <=> Running(b)
  PROVE  \A b \in Bodies : PlaceOf(b)' = PlaceOf(b)
BY PlaceMeans, PlaceMeansNext

\* The thread that starts or ends a slice: no other executes the same body.
LEMMA SliceMap ==
  ASSUME Unique, NEW t \in Threads, Carrier(t), NEW g \in Fibers, g = Cur(t),
         UNCHANGED want, Closed' <=> Closed,
         \A u \in Threads : Cur(u)' = Cur(u) /\ (u # t => pc'[u] = pc[u]),
         \A f \in Fibers : f # g => m_cb'[f] = m_cb[f],
         NEW to, NEW from, pc[t] \in {"swapin", "exec", "hold"},
         \/ /\ Runs(t)' /\ ~Runs(t) /\ UNCHANGED <<m_cb, done>>
            /\ from = "waiting" /\ to = "running"
         \/ /\ ~Runs(t)' /\ Runs(t) /\ UNCHANGED <<m_cb, done>>
            /\ from = "running" /\ to = "waiting"
         \/ /\ ~Runs(t)' /\ Runs(t) /\ done' = done \cup ({m_cb[g]} \ {Null})
            /\ from = "running" /\ to = "finished"
  PROVE  IF m_cb[g] = Null THEN UNCHANGED Pool!poolVars
                           ELSE m_cb[g] \in Bodies /\ Pool!Move({m_cb[g]}, from, to)
<1>1. \A u \in Threads : u # t =>
        /\ Runs(u)' <=> Runs(u)
        /\ Runs(u) => Carrier(u) /\ m_cb'[Cur(u)'] = m_cb[Cur(u)]
  <2>. SUFFICES ASSUME NEW u \in Threads, u # t
                PROVE  /\ Runs(u)' <=> Runs(u)
                       /\ Runs(u) => Carrier(u) /\ m_cb'[Cur(u)'] = m_cb[Cur(u)]
    OBVIOUS
  <2>1. (Runs(u)' <=> Runs(u)) /\ (Runs(u) => Carrier(u))
    BY DEF Runs, Carrier, HasFiber
  <2>2. ASSUME Carrier(u) PROVE Cur(u) \in Fibers /\ Cur(u) # g
    BY <2>2, CarrierFiber DEF Unique, Tokens, CarryOK
  <2>. QED
    BY <2>1, <2>2
<1>2. ASSUME NEW b \in Bodies, b # m_cb[g] PROVE PlaceOf(b)' = PlaceOf(b)
  <2>0. b # Null
    BY ClientAssumption DEF Bodies, Fibers
  <2>1. m_cb'[Cur(t)'] = b => ~Runs(t)'
    BY <1>2
  <2>2. Running(b)' <=> Running(b)
    BY <1>1, <1>2, <2>1 DEF Running
  <2>3. (b \in done' <=> b \in done) /\ want'[b] = want[b]
    BY <1>2
  <2>. QED
    BY <2>2, <2>3, PlaceMeans, PlaceMeansNext
<1>3. CASE m_cb[g] = Null
  <2>1. \A b \in Bodies : b # m_cb[g]
    BY <1>3, ClientAssumption DEF Bodies, Fibers
  <2>. QED
    BY <1>2, <1>3, <2>1, StutterMap
<1>4. CASE m_cb[g] # Null
  <2>1. PICK b \in Bodies : b = m_cb[g]
    BY <1>4 DEF Unique, IInv, TypeOK
  <2>2. /\ want[b] # Null /\ b \notin done
        /\ \A u \in Threads : Carrier(u) /\ m_cb[Cur(u)] = b => u = t
    BY <1>4, <2>1, CarriedBody
  <2>3. \A u \in Threads : u # t => ~(Runs(u) /\ m_cb[Cur(u)] = b)
                                  /\ ~(Runs(u)' /\ m_cb'[Cur(u)'] = b)
    BY <1>1, <2>2
  <2>4. (Running(b) <=> Runs(t)) /\ (Running(b)' <=> Runs(t)')
    <3>1. Running(b) <=> Runs(t)
      BY <2>1, <2>3 DEF Running
    <3>2. Runs(t)' => m_cb'[Cur(t)'] = b
      BY <2>1
    <3>3. Running(b)' <=> Runs(t)'
      BY <2>3, <3>2 DEF Running
    <3>. QED
      BY <3>1, <3>3
  <2>5. PlaceOf(b) = from /\ PlaceOf(b)' = to
    BY <1>4, <2>1, <2>2, <2>4, PlaceMeans, PlaceMeansNext
  <2>6. PICK S \in SUBSET Bodies : S = {b}
    BY <2>1
  <2>7. Pool!Move(S, from, to)
    BY <1>2, <2>1, <2>5, <2>6, MoveMap
  <2>. QED
    BY <1>4, <2>1, <2>6, <2>7
<1>. QED
  BY <1>3, <1>4

\* Inside run() nobody opens or closes the pool, and it is open.
LEMMA RunOpen ==
  ASSUME Unique, NEW t \in Threads, RunStep(t) \/ FiberStep(t)
  PROVE  ~Closed /\ ~Closed'
<1>1. /\ pc[t] \in RunLabel
      /\ pc'[t] \in RunLabel \cup {"join", "exited"}
      /\ \A u \in Threads : u # t => pc'[u] = pc[u]
      /\ UNCHANGED m_stopping
  BY RunPlaces DEF Unique
<1>2. ~Closed
  BY <1>1, StoppingInStop DEF Unique, Closed, InStop, RunLabel
<1>3. pc'[Main] = "client" => pc[Main] = "client"
  BY <1>1 DEF RunLabel, Threads
<1>. QED
  BY <1>1, <1>2, <1>3 DEF Closed

\* The steps of a thread that keeps its fiber.
LEMMA AdvanceMap ==
  ASSUME Unique, NEW t \in Threads, AdvanceNext(t)
  PROVE  [Pool!PoolNext]_(Pool!poolVars)
<1>0. PICK g \in Fibers : g = Cur(t)
  BY AdvanceEffect DEF Unique
<1>1. /\ UNCHANGED want /\ Carrier(t)
      /\ \A u \in Threads : Cur(u)' = Cur(u) /\ (u # t => pc'[u] = pc[u])
      /\ \A f \in Fibers : f # g => m_cb'[f] = m_cb[f]
  BY <1>0, AdvanceEffect DEF Unique
<1>2. ~Closed /\ ~Closed'
  BY RunOpen DEF AdvanceNext, RunStep, FiberStep
<1>3. m_state[g] \in StatesAt(pc[t])
  BY <1>0, <1>1 DEF Unique, Tokens, CarryOK
<1>4. CASE SwapIn(t)
  <2>1. /\ pc[t] = "swapin" /\ ~Runs(t) /\ Runs(t)' /\ UNCHANGED <<m_cb, done>>
    BY <1>0, <1>3, <1>4
       DEF SwapIn, At, GoTo, Runs, StatesAt, Resumable, Finished, envVars, clientVars,
           Unique, IInv, TypeOK
  <2>2. \/ UNCHANGED Pool!poolVars
        \/ m_cb[g] \in Bodies /\ Pool!Move({m_cb[g]}, "waiting", "running")
    BY <1>0, <1>1, <1>2, <2>1, SliceMap
  <2>3. ASSUME NEW b \in Bodies, Pool!Move({b}, "waiting", "running")
        PROVE  Pool!PoolNext
    BY <1>2, <2>3 DEF Pool!PoolNext, Pool!Resume, Closed
  <2>. QED
    BY <2>2, <2>3
<1>5. CASE YieldToReady(t) \/ YieldToHold(t)
  <2>1. /\ pc[t] \in {"exec", "hold"} /\ Runs(t) /\ ~Runs(t)'
        /\ UNCHANGED <<m_cb, done>>
    BY <1>0, <1>3, <1>5
       DEF YieldToReady, YieldToHold, At, GoTo, Runs, StatesAt, envVars, clientVars,
           Unique, IInv, TypeOK
  <2>2. \/ UNCHANGED Pool!poolVars
        \/ m_cb[g] \in Bodies /\ Pool!Move({m_cb[g]}, "running", "waiting")
    BY <1>0, <1>1, <1>2, <2>1, SliceMap
  <2>. QED
    BY <2>2 DEF Pool!PoolNext, Pool!Pause
<1>6. CASE \E s \in Finished : Finish(t, s)
  <2>1. /\ pc[t] = "exec" /\ Runs(t) /\ ~Runs(t)'
        /\ done' = done \cup ({m_cb[g]} \ {Null})
    BY <1>0, <1>6 DEF Finish, At, GoTo, Runs, Unique, IInv, TypeOK
  <2>2. \/ UNCHANGED Pool!poolVars
        \/ m_cb[g] \in Bodies /\ Pool!Move({m_cb[g]}, "running", "finished")
    BY <1>0, <1>1, <1>2, <2>1, SliceMap
  <2>. QED
    BY <2>2 DEF Pool!PoolNext, Pool!Complete
<1>7. CASE \/ RunFiber(t) \/ SwapOut(t) \/ RunAfter(t) \/ RunPostReady(t)
           \/ RunPostHold(t) \/ Arm(t)
  <2>1. (Runs(t)' <=> Runs(t)) /\ UNCHANGED <<m_cb, done>>
    BY <1>7
       DEF RunFiber, SwapOut, RunAfter, RunPostReady, RunPostHold, Arm, At, GoTo,
           Runs, envVars, taskVars, fiberVars, clientVars, Unique, IInv, TypeOK
  <2>2. \A u \in Threads : Runs(u)' <=> Runs(u)
    BY <1>1, <2>1 DEF Runs
  <2>3. \A b \in Bodies : Running(b)' <=> Running(b)
    BY <1>1, <2>1, <2>2 DEF Running
  <2>. QED
    BY <1>1, <1>2, <2>1, <2>3, SamePlaces, StutterMap
<1>. QED
  BY <1>4, <1>5, <1>6, <1>7 DEF AdvanceNext

\* Steps of run() that change the fiber of one thread, which executes no body.
LEMMA OtherFiberMap ==
  ASSUME Unique, NEW t \in Threads, RunStep(t), ~Runs(t), ~Runs(t)',
         UNCHANGED <<want, done>>,
         \A u \in Threads : u # t => Cur(u)' = Cur(u) /\ pc'[u] = pc[u],
         \A u \in Threads : u # t /\ Carrier(u) => m_cb'[Cur(u)] = m_cb[Cur(u)]
  PROVE  UNCHANGED Pool!poolVars
<1>1. \A u \in Threads : u # t =>
        /\ Runs(u)' <=> Runs(u)
        /\ Runs(u) => m_cb'[Cur(u)'] = m_cb[Cur(u)]
  BY DEF Runs, Carrier, HasFiber
<1>2. \A b \in Bodies : Running(b)' <=> Running(b)
  BY <1>1 DEF Running
<1>. QED
  BY <1>2, RunOpen, SamePlaces, StutterMap

\* The steps that have nothing to do with fibers.
LEMMA QuietMap ==
  ASSUME Unique, QuietNext, Next, StopReturns => \A b \in Bodies : ~Unfinished(b)
  PROVE  [Pool!PoolNext]_(Pool!poolVars)
<1>0. Main \in Threads
  BY DEF Threads
<1>1. /\ UNCHANGED <<want, done, m_cb>>
      /\ \A u \in Threads :
           /\ Carrier(u)' <=> Carrier(u)
           /\ Carrier(u) => pc'[u] = pc[u] /\ Cur(u)' = Cur(u)
  BY QuietEffect DEF Unique
<1>2. \A u \in Threads : Runs(u) => Carrier(u)
  BY DEF Runs, Carrier, HasFiber
<1>3. \A u \in Threads : Runs(u)' => Carrier(u)'
  BY DEF Runs, Carrier, HasFiber
<1>4. \A u \in Threads : (Runs(u)' <=> Runs(u)) /\ (Runs(u) => Cur(u)' = Cur(u))
  BY <1>1, <1>2, <1>3 DEF Runs
<1>5. \A b \in Bodies : Running(b)' <=> Running(b)
  BY <1>1, <1>4 DEF Running
<1>6. \A b \in Bodies : PlaceOf(b)' = PlaceOf(b)
  BY <1>1, <1>5, SamePlaces
<1>7. ASSUME ~Closed, Closed' PROVE StopReturns
  <2>1. ASSUME NEW t \in Threads, RunStep(t) \/ FiberStep(t) PROVE FALSE
    BY <1>7, <2>1, RunOpen
  <2>2. CASE CallStep
    BY <1>0, <1>7, <2>2, ThreadsAssumption
       DEF CallStep, StopReturns, Closed, StartCreate, StartWait, StartDone, StopEarly,
           StopSet, StopRoot, StopSwap, StopJoin, At, GoTo, Fail, stopVars,
           Unique, CallsOK, IInv, TypeOK
  <2>3. CASE \E w \in Workers : ThreadRun(w)
    BY <1>0, <1>7, <2>3, ThreadsAssumption
       DEF ThreadRun, Closed, At, GoTo, stopVars, Unique, IInv, TypeOK
  <2>4. CASE Start \/ Stop
    BY <1>0, <1>7, <2>4
       DEF Start, Stop, Closed, At, GoTo, Fail, stopVars, Unique, IInv, TypeOK
  <2>5. CASE Terminated
    BY <1>7, <2>5 DEF Terminated, vars, stopVars, Closed
  <2>. QED
    BY <2>1, <2>2, <2>3, <2>4, <2>5 DEF QuietNext, RunStep
<1>8. CASE ~Closed /\ Closed'
  <2>1. \A b \in Bodies : PlaceOf(b) \in {"new", "finished"}
    BY <1>7, <1>8, RunningBody, PlaceMeans DEF Unfinished
  <2>. QED
    BY <1>6, <1>8, <2>1 DEF Pool!PoolNext, Pool!Close, Closed
<1>9. CASE Closed /\ ~Closed'
  BY <1>6, <1>9 DEF Pool!PoolNext, Pool!Open, Closed
<1>10. CASE Closed' <=> Closed
  BY <1>6, <1>10, StutterMap
<1>. QED
  BY <1>8, <1>9, <1>10

\* schedule() over a set of bodies that are new, and the wake-ups.
LEMMA EnqueueMap ==
  ASSUME Unique, NEW S \in SUBSET Bodies, \A b \in S : want[b] = Null,
         UNCHANGED <<pc, ft, cb_fiber, m_cb, m_stopping, done>>,
         \A b \in S : want'[b] # Null,
         \A b \in Bodies : b \notin S => want'[b] = want[b]
  PROVE  Pool!PoolNext
<1>1. \A b \in Bodies : Running(b)' <=> Running(b)
  BY DEF Running, Runs, Cur
<1>2. \A b \in S : PlaceOf(b) = "new" /\ PlaceOf(b)' = "waiting"
  BY <1>1, NewBody, PlaceMeans, PlaceMeansNext
<1>3. \A b \in Bodies : b \notin S => PlaceOf(b)' = PlaceOf(b)
  BY <1>1, PlaceMeans, PlaceMeansNext
<1>4. Closed' <=> Closed
  BY DEF Closed
<1>5. Pool!Move(S, "new", "waiting")
  BY <1>2, <1>3, <1>4, MoveMap
<1>. QED
  BY <1>5 DEF Pool!PoolNext, Pool!Submit

\* Every step of the scheduler is a step of the pool, or none.
LEMMA PoolStep ==
  ASSUME OneHandover, Unique, Next, StopReturns => \A b \in Bodies : ~Unfinished(b)
  PROVE  [Pool!PoolNext]_(Pool!poolVars)
<1>1. CASE QuietNext
  BY <1>1, QuietMap
<1>2. ASSUME NEW t \in Threads, AdvanceNext(t) PROVE [Pool!PoolNext]_(Pool!poolVars)
  BY <1>2, AdvanceMap
<1>3. ASSUME NEW t \in Threads, LetGoNext(t) PROVE [Pool!PoolNext]_(Pool!poolVars)
  <2>0. PICK g \in Fibers : g = Cur(t)
    BY <1>3, LetGoEffect DEF Unique
  <2>1. /\ UNCHANGED <<want, done>> /\ Carrier(t)
        /\ \A u \in Threads : u # t => Cur(u)' = Cur(u) /\ pc'[u] = pc[u]
        /\ \A f \in Fibers : f # g => m_cb'[f] = m_cb[f]
    BY <1>3, <2>0, LetGoEffect DEF Unique
  <2>2. \A u \in Threads : u # t /\ Carrier(u) => m_cb'[Cur(u)] = m_cb[Cur(u)]
    BY <2>0, <2>1, CarrierFiber DEF Unique, Tokens, CarryOK
  <2>3. RunStep(t) /\ ~Runs(t) /\ ~Runs(t)'
    BY <1>3
       DEF LetGoNext, RunStep, RunPostFinished, RunSetHold, RunResched, At, GoTo,
           Runs, Unique, IInv, TypeOK
  <2>. QED
    BY <2>1, <2>2, <2>3, OtherFiberMap
<1>4. ASSUME NEW t \in Threads, RunTake(t) PROVE [Pool!PoolNext]_(Pool!poolVars)
  <2>1. /\ UNCHANGED <<want, done, m_cb>>
        /\ \A u \in Threads : u # t => Cur(u)' = Cur(u) /\ pc'[u] = pc[u]
        /\ pc[t] = "scan" /\ pc'[t] = "dispatch"
    BY <1>4, TakeEffect DEF Unique
  <2>2. RunStep(t) /\ ~Runs(t) /\ ~Runs(t)'
    BY <1>4, <2>1 DEF RunStep, Runs
  <2>. QED
    BY <2>1, <2>2, OtherFiberMap
<1>5. ASSUME NEW t \in Threads, NEW h \in HostFibers, RunCb(t, h)
      PROVE  [Pool!PoolNext]_(Pool!poolVars)
  <2>1. /\ UNCHANGED <<want, done>> /\ h \in Fibers /\ Unused(h)
        /\ m_cb' = [m_cb EXCEPT ![h] = ft[t].cb]
        /\ \A u \in Threads : u # t => Cur(u)' = Cur(u) /\ pc'[u] = pc[u]
        /\ pc'[t] = "swapin"
    BY <1>5, CbEffect DEF Unique
  <2>2. \A f \in Fibers : f # h => m_cb'[f] = m_cb[f]
    BY <2>1 DEF Unique, IInv, TypeOK
  <2>3. \A u \in Threads : u # t /\ Carrier(u) => m_cb'[Cur(u)] = m_cb[Cur(u)]
    BY <2>1, <2>2, CarrierFiber DEF Unique, Unused, Has
  <2>4. RunStep(t) /\ ~Runs(t) /\ ~Runs(t)'
    BY <1>5, <2>1 DEF RunStep, RunCb, At, Runs
  <2>. QED
    BY <2>1, <2>3, <2>4, OtherFiberMap
<1>6. ASSUME NEW t \in Threads, NEW b \in Bodies, NEW thread \in Pins,
             Schedule(t, b, thread)
      PROVE  Pool!PoolNext
  <2>1. /\ want[b] = Null /\ want' = [want EXCEPT ![b] = thread] /\ thread # Null
        /\ UNCHANGED <<pc, ft, cb_fiber, m_cb, m_stopping, done>>
    BY <1>6, ClientAssumption, ThreadsAssumption
       DEF Schedule, MaySchedule, OneHandover, poolVars, stopVars, fiberVars, localVars
  <2>2. PICK S \in SUBSET Bodies : S = {b}
    OBVIOUS
  <2>3. /\ \A x \in S : want[x] = Null /\ want'[x] # Null
        /\ \A x \in Bodies : x \notin S => want'[x] = want[x]
    BY <2>1, <2>2 DEF Unique, IInv, TypeOK
  <2>. QED
    BY <2>1, <2>3, EnqueueMap
<1>7. ASSUME NEW t \in Threads, NEW b1 \in Bodies, NEW b2 \in Bodies,
             ScheduleRange(t, b1, b2)
      PROVE  Pool!PoolNext
  <2>1. /\ want[b1] = Null /\ want[b2] = Null /\ AnyThread # Null
        /\ want' = [want EXCEPT ![b1] = AnyThread, ![b2] = AnyThread]
        /\ UNCHANGED <<pc, ft, cb_fiber, m_cb, m_stopping, done>>
    BY <1>7, ThreadsAssumption
       DEF ScheduleRange, poolVars, stopVars, fiberVars, localVars
  <2>2. PICK S \in SUBSET Bodies : S = {b1, b2}
    OBVIOUS
  <2>3. /\ \A x \in S : want[x] = Null /\ want'[x] # Null
        /\ \A x \in Bodies : x \notin S => want'[x] = want[x]
    BY <2>1, <2>2 DEF Unique, IInv, TypeOK
  <2>. QED
    BY <2>1, <2>3, EnqueueMap
<1>8. ASSUME NEW f \in Fibers, Wake(f) PROVE UNCHANGED Pool!poolVars
  <2>1. UNCHANGED <<pc, ft, cb_fiber, m_cb, m_stopping, want, done>>
    BY <1>8 DEF Wake, poolVars, stopVars, fiberVars, localVars
  <2>2. \A b \in Bodies : Running(b)' <=> Running(b)
    BY <2>1 DEF Running, Runs, Cur
  <2>. QED
    BY <2>1, <2>2, SamePlaces, StutterMap DEF Closed
<1>9. IInv /\ Tokens
  BY DEF Unique
<1>. QED
  BY <1>1, <1>2, <1>3, <1>4, <1>5, <1>6, <1>7, <1>8, <1>9, NextCases

\* The scheduler implements the pool its interface promises (scheduler.h:23-54):
\* it executes a body only after it was handed over, on one thread at a time, to
\* its end once, and only while the pool is open, and stop() returns only when
\* nothing is left.  NoHolds and the last assumption are those under which stop()
\* drains the pool.
THEOREM ImplementsPool ==
  ASSUME OneHandover, RootOnce, NoHolds, NoReadyYields \/ NoPins
  PROVE  Spec => ImplementsTaskPool
<1>1. Init => Pool!PoolInit
  <2>. SUFFICES ASSUME Init PROVE Pool!PoolInit
    OBVIOUS
  <2>1. \A b \in Bodies : PlaceOf(b) = "new"
    <3>1. \A b \in Bodies : ~Running(b) /\ want[b] = Null
      BY DEF Init, Running, Runs
    <3>. QED
      BY <3>1, PlaceMeans
  <2>2. Closed
    BY DEF Init, Closed, Threads
  <2>. QED
    BY <2>1, <2>2 DEF Pool!PoolInit, Closed
<1>2. /\ IInv /\ Tokens /\ BodiesOK /\ CallsOK /\ PhaseOK /\ CbOnce /\ FiberOnce
      /\ [Next]_vars
      /\ [StopReturns => /\ m_tasks = <<>>
                         /\ \A b \in Bodies : ~Unfinished(b)
                         /\ m_activeThreadCount = 0 /\ m_idleThreadCount = 0]_vars
      => [Pool!PoolNext]_(Pool!poolVars)
  <2>. SUFFICES ASSUME Unique, [Next]_vars,
                       UNCHANGED vars \/ (StopReturns => \A b \in Bodies : ~Unfinished(b))
                PROVE  [Pool!PoolNext]_(Pool!poolVars)
    BY DEF Unique
  <2>1. CASE UNCHANGED vars
    <3>1. UNCHANGED <<pc, ft, cb_fiber, m_cb, m_stopping, want, done>>
      BY <2>1 DEF vars, stopVars, fiberVars, localVars, clientVars
    <3>2. \A b \in Bodies : Running(b)' <=> Running(b)
      BY <3>1 DEF Running, Runs, Cur
    <3>. QED
      BY <3>1, <3>2, SamePlaces, StutterMap DEF Closed
  <2>. QED
    BY <2>1, PoolStep, OneHandover
<1>3. Spec => StopDrains
  BY StopAlwaysDrains, StopDrainsYields
<1>. QED
  BY <1>1, <1>2, <1>3, Invariance, TokensInvariance, BodiesInvariance,
     PhaseInvariance, OnceInvariance, PTL
     DEF Spec, StopDrains, ImplementsTaskPool, Pool!PoolSpec

=============================================================================
