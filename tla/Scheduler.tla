------------------------------ MODULE Scheduler ------------------------------
(***************************************************************************)
(* The N-threads-to-M-fibers scheduler of atpdxy (scheduler.h,             *)
(* scheduler.cpp), with the part of Fiber it drives (swapIn, the yields,   *)
(* MainFunc, reset) and the thread creation handshake of start().          *)
(*                                                                         *)
(* Every thread that executes Scheduler::run() is a process with a program *)
(* counter; one step is one access to shared state: a critical section of  *)
(* m_mutex, one update of an atomic counter, one read or write of a        *)
(* fiber's m_state, which no lock protects.  The scan of m_tasks holds     *)
(* m_mutex over several steps because it reads the m_state of one fiber    *)
(* after the other while other threads write them.                         *)
(*                                                                         *)
(* Client code is the environment.  The constants below say which of the   *)
(* things the interface allows it does.                                    *)
(***************************************************************************)
EXTENDS Naturals, Sequences, FiniteSets, SequencesExt

CONSTANTS
  Workers,        \* the m_threadCount threads that start() creates
  Main,           \* the thread that owns the scheduler: calls start(), stop()
  UseCaller,      \* use_caller: Main also runs tasks, inside stop()
  ClientFibers,   \* Fiber objects that the client made and schedules
  HostFibers,     \* Fiber objects that run() allocates to host callbacks
  Cbs,            \* the std::function<void()> tasks
  Pins,           \* the values the client passes as schedule()'s thread
  MaxReady,       \* bound: YieldToReady() calls of all bodies together
  MaxHold,        \* bound: YieldToHold() calls of all bodies together
  WakeHome,       \* wake-ups name the thread on which the fiber held
  MayRepeat,      \* the client schedules one fiber more than once
  MaxTasks,       \* bound on Len(m_tasks); only MayRepeat needs it
  MaxStarts,      \* bound: calls of start()
  AnyThread,      \* thread -1: the task may run on every thread
  Null            \* the null pointer, an empty function, an unlocked mutex

Threads == Workers \cup {Main}
Fibers == ClientFibers \cup HostFibers
Bodies == ClientFibers \cup Cbs      \* the functions that tasks execute

ASSUME ThreadsAssumption ==
  /\ IsFiniteSet(Workers)
  /\ Main \notin Workers
  /\ UseCaller \in BOOLEAN
  /\ UseCaller \/ Workers # {}
  /\ {AnyThread, Null} \cap Threads = {}
  /\ AnyThread # Null

ASSUME ClientAssumption ==
  /\ ClientFibers \cap HostFibers = {}
  /\ Fibers \cap Cbs = {}
  /\ Null \notin Fibers \cup Cbs
  /\ Pins \subseteq Threads \cup {AnyThread}
  /\ WakeHome \in BOOLEAN
  /\ MayRepeat \in BOOLEAN
  /\ {MaxReady, MaxHold, MaxTasks, MaxStarts} \subseteq Nat

\* Fiber::State; NONE is an object that has not been allocated yet.
FiberState == {"NONE", "INIT", "HOLD", "EXEC", "TERM", "READY", "EXCEPT"}
Finished == {"TERM", "EXCEPT"}

\* Scheduler::Task: a fiber or a callback, and the thread it must run on.
Task == [fiber : Fibers, cb : {Null}, thread : Threads \cup {AnyThread}]
          \cup [fiber : {Null}, cb : Cbs, thread : Threads \cup {AnyThread}]
NoTask == [fiber |-> Null, cb |-> Null, thread |-> AnyThread]

VARIABLES
  m_mutex,              \* the thread that holds it, or Null
  m_tasks,              \* std::list<Task>
  m_activeThreadCount,
  m_idleThreadCount,
  m_stopping,
  m_autoStop,
  m_threads,            \* the workers whose Thread object exists
  m_rootFiber,          \* state of the fiber that executes run() on Main
  starts,               \* number of calls of start() that created threads
  m_state,              \* Fiber::m_state of every fiber
  m_cb,                 \* Fiber::m_cb of every fiber
  pc,                   \* where each thread is
  ft,                   \* run(): the local task ft
  it,                   \* run(): position of the iterator in m_tasks
  cb_fiber,             \* run(): the local cb_fiber
  idle_fiber,           \* run(): state of the local idle_fiber
  failed,               \* the assertion that aborted the process, or Null
  want,                 \* client: thread each body was scheduled for
  done,                 \* client: bodies that returned or threw
  armed,                \* client: fibers a waker knows, with their thread
  readyLeft, holdLeft   \* client: yields still to come

queueVars  == <<m_mutex, m_tasks>>
countVars  == <<m_activeThreadCount, m_idleThreadCount>>
stopVars   == <<m_stopping, m_autoStop, m_threads, m_rootFiber, starts>>
fiberVars  == <<m_state, m_cb>>
localVars  == <<ft, it, cb_fiber, idle_fiber>>
clientVars == <<want, done, armed, readyLeft, holdLeft>>
vars == <<queueVars, countVars, stopVars, fiberVars, pc, localVars, failed,
          clientVars>>
\* What run() itself, start() and stop(), and a call of schedule() leave alone.
envVars  == <<stopVars, failed, clientVars>>
taskVars == <<fiberVars, localVars, failed, clientVars>>
poolVars == <<countVars, stopVars, fiberVars, pc, localVars, failed>>

\* Labels of run() (and of the fiber code it switches to), then of Main.
RunLabel == {"enter", "loop", "scan", "dispatch", "swapin", "exec", "hold",
             "swapout", "after", "post", "sethold", "resched", "idle",
             "idleout"}
MainLabel == {"client", "start", "startwait", "stop", "stopearly", "stopset",
              "stoproot", "join", "joining"}
WorkerLabel == {"none", "created", "exited"}

TypeOK ==
  /\ m_mutex \in Threads \cup {Null}
  /\ m_tasks \in Seq(Task)
  /\ m_activeThreadCount \in Nat
  /\ m_idleThreadCount \in Nat
  /\ m_stopping \in BOOLEAN
  /\ m_autoStop \in BOOLEAN
  /\ m_threads \in SUBSET Workers
  /\ m_rootFiber \in {"NONE", "INIT", "EXEC", "TERM"}
  /\ starts \in Nat
  /\ m_state \in [Fibers -> FiberState]
  /\ m_cb \in [Fibers -> Bodies \cup {Null}]
  /\ pc \in [Threads -> RunLabel \cup MainLabel \cup WorkerLabel]
  /\ ft \in [Threads -> Task \cup {NoTask}]
  /\ it \in [Threads -> Nat]
  /\ cb_fiber \in [Threads -> HostFibers \cup {Null}]
  /\ idle_fiber \in [Threads -> FiberState]
  /\ failed \in {Null, "swapIn", "yield", "reset", "start", "neverReach"}
  /\ want \in [Bodies -> Threads \cup {AnyThread, Null}]
  /\ done \in SUBSET Bodies
  /\ armed \in [Fibers -> Threads \cup {Null}]
  /\ readyLeft \in Nat
  /\ holdLeft \in Nat

\* Scheduler::Scheduler() has returned: the object exists, nothing runs.
Init ==
  /\ m_mutex = Null
  /\ m_tasks = <<>>
  /\ m_activeThreadCount = 0
  /\ m_idleThreadCount = 0
  /\ m_stopping = TRUE
  /\ m_autoStop = FALSE
  /\ m_threads = {}
  /\ m_rootFiber = IF UseCaller THEN "INIT" ELSE "NONE"
  /\ starts = 0
  /\ m_state = [f \in Fibers |-> IF f \in ClientFibers THEN "INIT" ELSE "NONE"]
  /\ m_cb = [f \in Fibers |-> IF f \in ClientFibers THEN f ELSE Null]
  /\ pc = [t \in Threads |-> IF t = Main THEN "client" ELSE "none"]
  /\ ft = [t \in Threads |-> NoTask]
  /\ it = [t \in Threads |-> 0]
  /\ cb_fiber = [t \in Threads |-> Null]
  /\ idle_fiber = [t \in Threads |-> "NONE"]
  /\ failed = Null
  /\ want = [b \in Bodies |-> Null]
  /\ done = {}
  /\ armed = [f \in Fibers |-> Null]
  /\ readyLeft = MaxReady
  /\ holdLeft = MaxHold

-----------------------------------------------------------------------------
(***************************************************************************)
(* Building blocks.                                                        *)
(***************************************************************************)

GoTo(t, label) == pc' = [pc EXCEPT ![t] = label]

\* Thread t is about to execute the step named label; nothing executes after
\* an abort.
At(t, label) == failed = Null /\ pc[t] = label

\* The fiber that run() on thread t has switched to (or is about to).
Cur(t) == IF ft[t].fiber # Null THEN ft[t].fiber ELSE cb_fiber[t]

SetState(f, s) == m_state' = [m_state EXCEPT ![f] = s]

\* ATPDXY_ASSERT is compiled in: the process aborts, nothing else happens.
Fail(assertion) ==
  /\ failed' = assertion
  /\ UNCHANGED <<queueVars, countVars, stopVars, fiberVars, pc, localVars,
                 clientVars>>

\* Mutants of stopping(): no look at m_activeThreadCount, none at m_tasks.
stoppingIgnoresActive == m_autoStop /\ m_stopping /\ m_tasks = <<>>
stoppingIgnoresTasks == m_autoStop /\ m_stopping /\ m_activeThreadCount = 0

\* Scheduler::stopping(), whose caller holds m_mutex around the reads.
stopping ==
  m_autoStop /\ m_stopping /\ m_tasks = <<>> /\ m_activeThreadCount = 0

TaskOf(b, thread) ==
  IF b \in Cbs THEN [fiber |-> Null, cb |-> b, thread |-> thread]
               ELSE [fiber |-> b, cb |-> Null, thread |-> thread]

\* schedule(): lock, scheduleNoLock, unlock.  tickle() only writes a log line.
scheduleNoLock(tasks) ==
  /\ m_mutex = Null
  /\ m_tasks' = m_tasks \o tasks
  /\ UNCHANGED m_mutex

-----------------------------------------------------------------------------
(***************************************************************************)
(* The client: Main between the calls of start() and stop(), and the       *)
(* bodies that run inside fibers.                                          *)
(***************************************************************************)

\* Where client code executes: Main outside of start() and stop() as long as
\* a stop() is still to come, and a body on the thread that runs it.
InClient(t) ==
  \/ At(t, "exec")
  \/ t = Main /\ At(t, "client") /\ ~(m_stopping /\ starts = MaxStarts)

MaySchedule(b) ==
  \/ want[b] = Null
  \/ MayRepeat /\ b \in ClientFibers /\ Len(m_tasks) < MaxTasks

\* schedule(fc, thread).
Schedule(t, b, thread) ==
  /\ InClient(t)
  /\ MaySchedule(b)
  /\ scheduleNoLock(<<TaskOf(b, thread)>>)
  /\ want' = [want EXCEPT ![b] = thread]
  /\ UNCHANGED <<done, armed, readyLeft, holdLeft, poolVars>>

\* schedule(begin, end) over two bodies: one critical section.
ScheduleRange(t, b1, b2) ==
  /\ InClient(t)
  /\ b1 # b2
  /\ want[b1] = Null /\ want[b2] = Null
  /\ scheduleNoLock(<<TaskOf(b1, AnyThread), TaskOf(b2, AnyThread)>>)
  /\ want' = [want EXCEPT ![b1] = AnyThread, ![b2] = AnyThread]
  /\ UNCHANGED <<done, armed, readyLeft, holdLeft, poolVars>>

\* The waker of a fiber that held: a thread outside the scheduler that calls
\* schedule(f) or schedule(f, thread on which f held), once.
Wake(f) ==
  /\ failed = Null
  /\ armed[f] # Null
  /\ scheduleNoLock(<<[fiber |-> f, cb |-> Null,
                       thread |-> IF WakeHome THEN armed[f] ELSE AnyThread]>>)
  /\ armed' = [armed EXCEPT ![f] = Null]
  /\ UNCHANGED <<want, done, readyLeft, holdLeft, poolVars>>

-----------------------------------------------------------------------------
(***************************************************************************)
(* A fiber on thread t, from swapIn() to the end of swapOut().  m_state is *)
(* written before swapcontext() has saved the fiber's context: in between  *)
(* ("swapout") the thread still executes on the fiber's stack.             *)
(***************************************************************************)

\* Mutant of SwapIn: m_state = EXEC is missing.
SwapInKeepsState(t) ==
  /\ At(t, "swapin")
  /\ GoTo(t, "exec")
  /\ UNCHANGED <<queueVars, countVars, stopVars, fiberVars, localVars, failed,
                 clientVars>>

\* Fiber::swapIn() and the switch.  A fiber that has ended resumes behind its
\* last swapOut(), where MainFunc() asserts false.
SwapIn(t) ==
  /\ At(t, "swapin")
  /\ \/ m_state[Cur(t)] = "EXEC" /\ Fail("swapIn")
     \/ m_state[Cur(t)] \in Finished /\ Fail("neverReach")
     \/ /\ m_state[Cur(t)] \notin Finished \cup {"EXEC"}
        /\ SetState(Cur(t), "EXEC")
        /\ GoTo(t, "exec")
        /\ UNCHANGED <<queueVars, countVars, m_cb, localVars, envVars>>

\* Mutant of YieldToReady: the fiber schedules itself before it has left.
YieldToReadySchedules(t) ==
  /\ At(t, "exec")
  /\ readyLeft > 0
  /\ scheduleNoLock(<<[fiber |-> Cur(t), cb |-> Null, thread |-> AnyThread]>>)
  /\ SetState(Cur(t), "READY")
  /\ GoTo(t, "swapout")
  /\ readyLeft' = readyLeft - 1
  /\ UNCHANGED <<countVars, stopVars, m_cb, localVars, failed, want, done,
                 armed, holdLeft>>

\* Fiber::YieldToReady(): the assertion and the assignment.
YieldToReady(t) ==
  /\ At(t, "exec")
  /\ readyLeft > 0
  /\ IF m_state[Cur(t)] # "EXEC"
     THEN Fail("yield")
     ELSE /\ SetState(Cur(t), "READY")
          /\ GoTo(t, "swapout")
          /\ readyLeft' = readyLeft - 1
          /\ UNCHANGED <<queueVars, countVars, stopVars, m_cb, localVars,
                         failed, want, done, armed, holdLeft>>

\* A body hands its fiber and its thread to a waker and is going to hold.
Arm(t) ==
  /\ At(t, "exec")
  /\ holdLeft > 0
  /\ armed' = [armed EXCEPT ![Cur(t)] = t]
  /\ holdLeft' = holdLeft - 1
  /\ GoTo(t, "hold")
  /\ UNCHANGED <<queueVars, countVars, stopVars, fiberVars, localVars, failed,
                 want, done, readyLeft>>

\* Fiber::YieldToHold(): the assertion and the assignment.
YieldToHold(t) ==
  /\ At(t, "hold")
  /\ IF m_state[Cur(t)] # "EXEC"
     THEN Fail("yield")
     ELSE /\ SetState(Cur(t), "HOLD")
          /\ GoTo(t, "swapout")
          /\ UNCHANGED <<queueVars, countVars, m_cb, localVars, envVars>>

\* Fiber::MainFunc() after m_cb() returned, or in a catch block.
Finish(t, s) ==
  /\ At(t, "exec")
  /\ s \in Finished
  /\ SetState(Cur(t), s)
  /\ m_cb' = IF s = "TERM" THEN [m_cb EXCEPT ![Cur(t)] = Null] ELSE m_cb
  /\ done' = done \cup ({m_cb[Cur(t)]} \ {Null})
  /\ GoTo(t, "swapout")
  /\ UNCHANGED <<queueVars, countVars, stopVars, localVars, failed, want,
                 armed, readyLeft, holdLeft>>

\* Fiber::swapOut(): the context is saved, run() continues after swapIn().
SwapOut(t) ==
  /\ At(t, "swapout")
  /\ GoTo(t, "after")
  /\ UNCHANGED <<queueVars, countVars, stopVars, taskVars>>

-----------------------------------------------------------------------------
(***************************************************************************)
(* Scheduler::run() on thread t.                                           *)
(***************************************************************************)

\* Entry: setThis(), the thread's main fiber, a new idle fiber.
RunEnter(t) ==
  /\ At(t, "enter")
  /\ idle_fiber' = [idle_fiber EXCEPT ![t] = "INIT"]
  /\ cb_fiber' = [cb_fiber EXCEPT ![t] = Null]
  /\ GoTo(t, "loop")
  /\ UNCHANGED <<queueVars, countVars, fiberVars, ft, it, envVars>>

\* Top of the loop: ft.reset(), lock, it = m_tasks.begin().
RunLock(t) ==
  /\ At(t, "loop")
  /\ m_mutex = Null
  /\ m_mutex' = t
  /\ ft' = [ft EXCEPT ![t] = NoTask]
  /\ it' = [it EXCEPT ![t] = 1]
  /\ GoTo(t, "scan")
  /\ UNCHANGED <<m_tasks, countVars, fiberVars, cb_fiber, idle_fiber, envVars>>

\* Mutant of MustSkip: the task's thread is not compared.
MustSkipNotForThread(t, task) ==
  task.fiber # Null /\ m_state[task.fiber] = "EXEC"

\* The two reasons to pass over a task: another thread's, or still executing.
MustSkip(t, task) ==
  \/ task.thread # AnyThread /\ task.thread # t
  \/ task.fiber # Null /\ m_state[task.fiber] = "EXEC"

RunSkip(t) ==
  /\ At(t, "scan")
  /\ it[t] <= Len(m_tasks)
  /\ MustSkip(t, m_tasks[it[t]])
  /\ it' = [it EXCEPT ![t] = @ + 1]
  /\ UNCHANGED <<queueVars, countVars, fiberVars, pc, ft, cb_fiber, idle_fiber,
                 envVars>>

\* ft = *it, erase, ++m_activeThreadCount, unlock, tickle().
RunTake(t) ==
  /\ At(t, "scan")
  /\ it[t] <= Len(m_tasks)
  /\ ~MustSkip(t, m_tasks[it[t]])
  /\ ft' = [ft EXCEPT ![t] = m_tasks[it[t]]]
  /\ m_tasks' = RemoveAt(m_tasks, it[t])
  /\ m_activeThreadCount' = m_activeThreadCount + 1
  /\ m_mutex' = Null
  /\ it' = [it EXCEPT ![t] = 0]
  /\ GoTo(t, "dispatch")
  /\ UNCHANGED <<m_idleThreadCount, fiberVars, cb_fiber, idle_fiber, envVars>>

\* it == m_tasks.end(): unlock with an empty ft.
RunScanEnd(t) ==
  /\ At(t, "scan")
  /\ it[t] > Len(m_tasks)
  /\ m_mutex' = Null
  /\ it' = [it EXCEPT ![t] = 0]
  /\ GoTo(t, "dispatch")
  /\ UNCHANGED <<m_tasks, countVars, fiberVars, ft, cb_fiber, idle_fiber,
                 envVars>>

HasLiveFiber(t) == ft[t].fiber # Null /\ m_state[ft[t].fiber] \notin Finished

\* Mutant of RunFiber: the fiber's state is not looked at.
RunFiberAnyState(t) ==
  /\ At(t, "dispatch")
  /\ ft[t].fiber # Null
  /\ GoTo(t, "swapin")
  /\ UNCHANGED <<queueVars, countVars, stopVars, taskVars>>

\* First branch: a fiber that can still run.
RunFiber(t) ==
  /\ At(t, "dispatch")
  /\ HasLiveFiber(t)
  /\ GoTo(t, "swapin")
  /\ UNCHANGED <<queueVars, countVars, stopVars, taskVars>>

\* Second branch: a callback, hosted by the thread's cb_fiber after
\* Fiber::reset(cb), or by a new Fiber.
RunCb(t, f) ==
  /\ At(t, "dispatch")
  /\ ft[t].cb # Null
  /\ f = cb_fiber[t] \/ (cb_fiber[t] = Null /\ m_state[f] = "NONE")
  /\ IF m_state[f] \notin Finished \cup {"INIT", "NONE"}
     THEN Fail("reset")
     ELSE /\ SetState(f, "INIT")
          /\ m_cb' = [m_cb EXCEPT ![f] = ft[t].cb]
          /\ cb_fiber' = [cb_fiber EXCEPT ![t] = f]
          /\ ft' = [ft EXCEPT ![t] = NoTask]
          /\ GoTo(t, "swapin")
          /\ UNCHANGED <<queueVars, countVars, it, idle_fiber, envVars>>

\* Third branch with is_active: the fiber had finished, drop the task.
RunDrop(t) ==
  /\ At(t, "dispatch")
  /\ ft[t].fiber # Null
  /\ m_state[ft[t].fiber] \in Finished
  /\ m_activeThreadCount' = m_activeThreadCount - 1
  /\ GoTo(t, "loop")
  /\ UNCHANGED <<queueVars, m_idleThreadCount, stopVars, taskVars>>

\* Third branch without a task: run the idle fiber.
RunIdle(t) ==
  /\ At(t, "dispatch")
  /\ ft[t] = NoTask
  /\ idle_fiber[t] # "TERM"
  /\ m_idleThreadCount' = m_idleThreadCount + 1
  /\ idle_fiber' = [idle_fiber EXCEPT ![t] = "EXEC"]
  /\ GoTo(t, "idle")
  /\ UNCHANGED <<queueVars, m_activeThreadCount, fiberVars, ft, it, cb_fiber,
                 envVars>>

\* Third branch when the idle fiber has ended: leave run().  A worker's thread
\* ends; on Main CallerMainFunc() ends m_rootFiber and goes back() to stop().
RunExit(t) ==
  /\ At(t, "dispatch")
  /\ ft[t] = NoTask
  /\ idle_fiber[t] = "TERM"
  /\ m_rootFiber' = IF t = Main THEN "TERM" ELSE m_rootFiber
  /\ GoTo(t, IF t = Main THEN "join" ELSE "exited")
  /\ UNCHANGED <<queueVars, countVars, m_stopping, m_autoStop, m_threads,
                 starts, taskVars>>

\* Scheduler::idle(): one evaluation of stopping(), then return or hold.
Idle(t) ==
  /\ At(t, "idle")
  /\ m_mutex = Null
  /\ idle_fiber' =
       [idle_fiber EXCEPT ![t] = IF stopping THEN "TERM" ELSE "HOLD"]
  /\ GoTo(t, "idleout")
  /\ UNCHANGED <<queueVars, countVars, fiberVars, ft, it, cb_fiber, envVars>>

IdleOut(t) ==
  /\ At(t, "idleout")
  /\ m_idleThreadCount' = m_idleThreadCount - 1
  /\ GoTo(t, "loop")
  /\ UNCHANGED <<queueVars, m_activeThreadCount, stopVars, taskVars>>

\* Mutants of RunAfter: no decrement, and one of the other counter.
RunAfterStaysActive(t) ==
  /\ At(t, "after")
  /\ GoTo(t, "post")
  /\ UNCHANGED <<queueVars, countVars, fiberVars, localVars, envVars>>

RunAfterWrongCounter(t) ==
  /\ At(t, "after")
  /\ m_idleThreadCount' = m_idleThreadCount - 1
  /\ GoTo(t, "post")
  /\ UNCHANGED <<queueVars, m_activeThreadCount, fiberVars, localVars, envVars>>

\* Back from swapIn(): --m_activeThreadCount, before the state is looked at.
RunAfter(t) ==
  /\ At(t, "after")
  /\ m_activeThreadCount' = m_activeThreadCount - 1
  /\ GoTo(t, "post")
  /\ UNCHANGED <<queueVars, m_idleThreadCount, stopVars, taskVars>>

\* The fiber yielded to ready: schedule it again.
RunPostReady(t) ==
  /\ At(t, "post")
  /\ m_state[Cur(t)] = "READY"
  /\ GoTo(t, "resched")
  /\ UNCHANGED <<queueVars, countVars, stopVars, taskVars>>

\* The fiber finished; a callback's fiber is reset(nullptr) to be used again.
RunPostFinished(t) ==
  /\ At(t, "post")
  /\ m_state[Cur(t)] \in Finished
  /\ IF ft[t].fiber # Null
     THEN UNCHANGED fiberVars
     ELSE /\ SetState(Cur(t), "INIT")
          /\ m_cb' = [m_cb EXCEPT ![Cur(t)] = Null]
  /\ ft' = [ft EXCEPT ![t] = NoTask]
  /\ GoTo(t, "loop")
  /\ UNCHANGED <<queueVars, countVars, it, cb_fiber, idle_fiber, envVars>>

\* Any other state is going to be overwritten with HOLD.
RunPostHold(t) ==
  /\ At(t, "post")
  /\ m_state[Cur(t)] \notin Finished \cup {"READY"}
  /\ GoTo(t, "sethold")
  /\ UNCHANGED <<queueVars, countVars, stopVars, taskVars>>

\* m_state = HOLD, whatever it has become since it was read, and let go.
RunSetHold(t) ==
  /\ At(t, "sethold")
  /\ SetState(Cur(t), "HOLD")
  /\ cb_fiber' = IF ft[t].fiber # Null THEN cb_fiber
                                       ELSE [cb_fiber EXCEPT ![t] = Null]
  /\ ft' = [ft EXCEPT ![t] = NoTask]
  /\ GoTo(t, "loop")
  /\ UNCHANGED <<queueVars, countVars, m_cb, it, idle_fiber, envVars>>

\* Mutant of RunResched: cb_fiber and ft are reset, schedule() is missing.
RunReschedForgets(t) ==
  /\ At(t, "resched")
  /\ cb_fiber' = IF ft[t].fiber # Null THEN cb_fiber
                                       ELSE [cb_fiber EXCEPT ![t] = Null]
  /\ ft' = [ft EXCEPT ![t] = NoTask]
  /\ GoTo(t, "loop")
  /\ UNCHANGED <<queueVars, countVars, fiberVars, it, idle_fiber, envVars>>

\* schedule(fiber) with the default thread, then forget the fiber.
RunResched(t) ==
  /\ At(t, "resched")
  /\ scheduleNoLock(<<[fiber |-> Cur(t), cb |-> Null, thread |-> AnyThread]>>)
  /\ cb_fiber' = IF ft[t].fiber # Null THEN cb_fiber
                                       ELSE [cb_fiber EXCEPT ![t] = Null]
  /\ ft' = [ft EXCEPT ![t] = NoTask]
  /\ GoTo(t, "loop")
  /\ UNCHANGED <<countVars, fiberVars, it, idle_fiber, envVars>>

-----------------------------------------------------------------------------
(***************************************************************************)
(* start() and stop() on Main, and the birth of a worker.                  *)
(***************************************************************************)

\* start(): the lock is kept until all threads have been constructed.  (When
\* m_stopping is false start() returns without a change.)
Start ==
  /\ At(Main, "client")
  /\ starts < MaxStarts
  /\ m_mutex = Null
  /\ m_stopping
  /\ IF m_threads # {}
     THEN Fail("start")
     ELSE /\ m_mutex' = Main
          /\ m_stopping' = FALSE
          /\ starts' = starts + 1
          /\ GoTo(Main, "start")
          /\ UNCHANGED <<m_tasks, countVars, m_autoStop, m_threads,
                         m_rootFiber, taskVars>>

\* Thread::Thread(): pthread_create(), then wait for the new thread.
StartCreate(w) ==
  /\ At(Main, "start")
  /\ w \notin m_threads
  /\ m_threads' = m_threads \cup {w}
  /\ pc' = [pc EXCEPT ![Main] = "startwait", ![w] = "created"]
  /\ UNCHANGED <<queueVars, countVars, m_stopping, m_autoStop, m_rootFiber,
                 starts, taskVars>>

\* Thread::run(): notify the creator, then call the bound Scheduler::run().
ThreadRun(w) ==
  /\ At(w, "created")
  /\ GoTo(w, "enter")
  /\ UNCHANGED <<queueVars, countVars, stopVars, taskVars>>

\* The semaphore was notified: the constructor returns.
StartWait ==
  /\ At(Main, "startwait")
  /\ \A w \in Workers : pc[w] # "created"
  /\ GoTo(Main, "start")
  /\ UNCHANGED <<queueVars, countVars, stopVars, taskVars>>

StartDone ==
  /\ At(Main, "start")
  /\ m_threads = Workers
  /\ m_mutex' = Null
  /\ GoTo(Main, "client")
  /\ UNCHANGED <<m_tasks, countVars, stopVars, taskVars>>

\* stop(): m_autoStop = true.  The client stops what it has started.
Stop ==
  /\ At(Main, "client")
  /\ ~m_stopping
  /\ m_autoStop' = TRUE
  /\ GoTo(Main,
          IF UseCaller /\ Workers = {} /\ m_rootFiber \in {"TERM", "INIT"}
          THEN "stopearly" ELSE "stopset")
  /\ UNCHANGED <<queueVars, countVars, m_stopping, m_threads, m_rootFiber,
                 starts, taskVars>>

\* Only the caller's thread: m_stopping = true, return if nothing is to do.
StopEarly ==
  /\ At(Main, "stopearly")
  /\ m_mutex = Null
  /\ m_stopping' = TRUE
  /\ GoTo(Main, IF m_autoStop /\ m_tasks = <<>> /\ m_activeThreadCount = 0
                THEN "client" ELSE "stopset")
  /\ UNCHANGED <<queueVars, countVars, m_autoStop, m_threads, m_rootFiber,
                 starts, taskVars>>

StopSet ==
  /\ At(Main, "stopset")
  /\ m_stopping' = TRUE
  /\ GoTo(Main, IF UseCaller THEN "stoproot" ELSE "join")
  /\ UNCHANGED <<queueVars, countVars, m_autoStop, m_threads, m_rootFiber,
                 starts, taskVars>>

\* m_rootFiber->call() unless stopping().  A root fiber that has ended resumes
\* behind its last back(), where CallerMainFunc() asserts false.
StopRoot ==
  /\ At(Main, "stoproot")
  /\ m_mutex = Null
  /\ IF ~stopping /\ m_rootFiber = "TERM"
     THEN Fail("neverReach")
     ELSE /\ m_rootFiber' = IF stopping THEN m_rootFiber ELSE "EXEC"
          /\ GoTo(Main, IF stopping THEN "join" ELSE "enter")
          /\ UNCHANGED <<queueVars, countVars, m_stopping, m_autoStop,
                         m_threads, starts, taskVars>>

\* Mutant of StopSwap: the threads stay in m_threads.
StopSwapKeeps ==
  /\ At(Main, "join")
  /\ m_mutex = Null
  /\ GoTo(Main, "joining")
  /\ UNCHANGED <<queueVars, countVars, stopVars, taskVars>>

\* thrs.swap(m_threads) under the lock.
StopSwap ==
  /\ At(Main, "join")
  /\ m_mutex = Null
  /\ m_threads' = {}
  /\ GoTo(Main, "joining")
  /\ UNCHANGED <<queueVars, countVars, m_stopping, m_autoStop, m_rootFiber,
                 starts, taskVars>>

\* Mutant of StopJoin: one thread is joined instead of all.
StopJoinFirst ==
  /\ At(Main, "joining")
  /\ \E w \in Workers : pc[w] = "exited"
  /\ pc' = [t \in Threads |-> IF t = Main THEN "client" ELSE "none"]
  /\ UNCHANGED <<queueVars, countVars, stopVars, taskVars>>

\* The last join() returned: all workers have ended.
StopJoin ==
  /\ At(Main, "joining")
  /\ \A w \in Workers : pc[w] = "exited"
  /\ pc' = [t \in Threads |-> IF t = Main THEN "client" ELSE "none"]
  /\ UNCHANGED <<queueVars, countVars, stopVars, taskVars>>

\* After the last stop() the client is at its end.
Terminated ==
  /\ At(Main, "client")
  /\ m_stopping
  /\ starts = MaxStarts
  /\ UNCHANGED vars

-----------------------------------------------------------------------------

\* What thread t does of itself once it is inside run().
RunStep(t) ==
  \/ RunEnter(t) \/ RunLock(t) \/ RunSkip(t) \/ RunTake(t) \/ RunScanEnd(t)
  \/ RunFiber(t) \/ RunDrop(t) \/ RunIdle(t) \/ RunExit(t)
  \/ \E f \in HostFibers : RunCb(t, f)
  \/ Idle(t) \/ IdleOut(t)
  \/ RunAfter(t) \/ RunPostReady(t) \/ RunPostFinished(t) \/ RunPostHold(t)
  \/ RunSetHold(t) \/ RunResched(t)

\* What the fiber on thread t does.
FiberStep(t) ==
  \/ SwapIn(t) \/ YieldToReady(t) \/ Arm(t) \/ YieldToHold(t)
  \/ \E s \in Finished : Finish(t, s)
  \/ SwapOut(t)

\* What Main does inside start() and stop().
CallStep ==
  \/ \E w \in Workers : StartCreate(w)
  \/ StartWait \/ StartDone
  \/ StopEarly \/ StopSet \/ StopRoot \/ StopSwap \/ StopJoin

\* What the client decides to call.
ClientStep ==
  \/ \E t \in Threads, b \in Bodies, thread \in Pins : Schedule(t, b, thread)
  \/ \E t \in Threads, b1, b2 \in Bodies : ScheduleRange(t, b1, b2)
  \/ \E f \in Fibers : Wake(f)
  \/ Start \/ Stop

Next ==
  \/ \E t \in Threads : RunStep(t) \/ FiberStep(t)
  \/ \E w \in Workers : ThreadRun(w)
  \/ CallStep
  \/ ClientStep
  \/ Terminated

Spec == Init /\ [][Next]_vars

\* The operating system runs every thread, and m_mutex does not starve one:
\* strong fairness, because a spinning idle thread takes m_mutex again and
\* again.  Nothing forces the client to call start(), stop() or schedule().
Fairness ==
  /\ \A t \in Threads : SF_vars(RunStep(t) \/ FiberStep(t))
  /\ \A w \in Workers : WF_vars(ThreadRun(w))
  /\ SF_vars(CallStep)

FairSpec == Spec /\ Fairness

-----------------------------------------------------------------------------
(***************************************************************************)
(* Properties.                                                             *)
(***************************************************************************)

\* Thread t executes on the stack of Cur(t).
OnStack(t) == pc[t] \in {"exec", "hold", "swapout"}

\* Thread t counts as active.
Busy(t) ==
  \/ pc[t] \in {"swapin", "exec", "hold", "swapout", "after"}
  \/ pc[t] = "dispatch" /\ ft[t] # NoTask

\* Thread t is inside its idle fiber.
Idling(t) == pc[t] \in {"idle", "idleout"}

\* m_activeThreadCount and m_idleThreadCount, which several threads update
\* without m_mutex, are exactly the numbers of threads that execute a task and
\* of threads inside their idle fiber; stopping() relies on the first.
CountersExact ==
  /\ m_activeThreadCount = Cardinality({t \in Threads : Busy(t)})
  /\ m_idleThreadCount = Cardinality({t \in Threads : Idling(t)})

\* A fiber is never on the CPU of two threads at once: no thread resumes a
\* fiber whose stack another thread still uses (swapIn() versus swapOut()).
OneRunner ==
  \A t, u \in Threads : OnStack(t) /\ OnStack(u) /\ Cur(t) = Cur(u) => t = u

\* No assertion of fiber.cpp and scheduler.cpp fails: swapIn() never meets an
\* executing fiber, a yield never a fiber that is not, reset() never a live
\* one, start() never live threads, and a finished fiber is not resumed.
NoAbort == failed = Null

\* The body that a task of m_tasks, or of some run()'s ft, stands for.
BodyOf(task) == IF task.fiber # Null THEN m_cb[task.fiber] ELSE task.cb

InQueue(b) == \E i \in 1..Len(m_tasks) : BodyOf(m_tasks[i]) = b

\* Thread t has taken b off the queue and not yet let go of it.
Carries(t, b) ==
  \/ pc[t] = "dispatch" /\ ft[t] # NoTask /\ BodyOf(ft[t]) = b
  \/ /\ pc[t] \in {"swapin", "exec", "hold", "swapout", "after", "post",
                   "sethold", "resched"}
     /\ m_cb[Cur(t)] = b

Held(b) == \E f \in Fibers : armed[f] # Null /\ m_cb[f] = b

Unfinished(b) == want[b] # Null /\ b \notin done

\* A body handed to schedule() is never lost: until it has returned it is in
\* m_tasks, on a thread, or known to a waker, through every way in which run()
\* lets go of ft.fiber and cb_fiber.
NoLostBody ==
  \A b \in Bodies :
    Unfinished(b) => InQueue(b) \/ Held(b) \/ \E t \in Threads : Carries(t, b)

\* A body scheduled for a thread executes on that thread only (scheduler.cpp
\* 70-75), also after it held and was woken.
PinRespected ==
  \A t \in Threads, b \in Bodies :
    (pc[t] \in {"exec", "hold"} /\ m_cb[Cur(t)] = b) =>
      want[b] \in {AnyThread, t}

\* A task that waits in m_tasks for one thread waits for a thread that has not
\* left run(): otherwise nobody ever takes it and stopping() stays false.
PinnedThreadAlive ==
  \A i \in 1..Len(m_tasks) :
    LET t == m_tasks[i].thread IN t # AnyThread => pc[t] # "exited"

\* The idle fiber of thread t returns.
IdleEnds(t) == idle_fiber[t] # "TERM" /\ idle_fiber'[t] = "TERM"

\* A thread's idle fiber returns, which is what lets the thread leave run(),
\* only after stop() and when nothing is queued and no thread executes a task.
IdleEndsQuiet ==
  [][\A t \in Threads : IdleEnds(t) =>
        m_stopping /\ m_tasks = <<>> /\ \A u \in Threads : ~Busy(u)]_vars

\* stop() returns.
StopReturns == pc[Main] \in {"joining", "stopearly"} /\ pc'[Main] = "client"

\* When stop() returns, by joining the workers or early, everything that was
\* scheduled has been executed and every counter is back to zero.
StopDrains ==
  [][StopReturns => /\ m_tasks = <<>>
                    /\ \A b \in Bodies : ~Unfinished(b)
                    /\ m_activeThreadCount = 0 /\ m_idleThreadCount = 0]_vars

\* start() and stop() return: start() waits for each new thread while it holds
\* the m_mutex that thread will need, and stop() for every worker to end.
CallsReturn == pc[Main] # "client" ~> pc[Main] = "client"

\* A body that is scheduled on a scheduler that runs is executed to its end,
\* also when it was scheduled late, by the last body, during stop().  A body
\* pinned to Main has to wait for stop(), in which Main executes run().
BodiesComplete ==
  \A b \in Bodies :
    (starts > 0 /\ want[b] # Null /\ (want[b] = Main => m_autoStop))
      ~> b \in done

\* How the abstract pool sees this state.
PlaceOf(b) ==
  IF \E t \in Threads : pc[t] \in {"exec", "hold"} /\ m_cb[Cur(t)] = b
  THEN "running"
  ELSE IF want[b] = Null THEN "new"
  ELSE IF b \in done THEN "finished" ELSE "waiting"

Pool == INSTANCE TaskPool
          WITH place <- [b \in Bodies |-> PlaceOf(b)],
               phase <- IF pc[Main] = "client" /\ m_stopping THEN "closed"
                                                            ELSE "open"

\* The scheduler implements the pool its interface promises: no body runs
\* before it is scheduled, twice at once, again after its end, or while the
\* pool is closed, and the pool closes only when it is drained.
ImplementsTaskPool == Pool!PoolSpec

=============================================================================
