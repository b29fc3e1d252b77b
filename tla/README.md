# A verification project for atpdxy

atpdxy is a C++ server framework: an N-threads-to-M-fibers scheduler on top of
ucontext fibers and POSIX threads, a configuration system with change
listeners, and a logging library configured through it. This directory models
it in TLA+, checks the models with TLC and proves facts about it with TLAPS. Paths below are relative to `src/atpdxy/` unless they say otherwise.

## 1. Inventory

| component | state | operations | what is hard | correct means |
|---|---|---|---|---|
| Scheduler (`scheduler.*`) | `m_tasks` behind `m_mutex`, two atomic counters, `m_stopping`, `m_autoStop`, `m_threads`, `m_rootFiber`; per thread the locals `ft`, `it`, `cb_fiber`, `idle_fiber` of `run()` | `start`, `stop`, `schedule` (one task, a range), `run`, `idle`, `stopping` | all threads run `run()` at once; `m_state` is read and written without a lock; the counter goes down before a fiber is queued again; `start` keeps `m_mutex` through the thread handshake | nothing scheduled is lost or runs twice, pins hold, `stop` drains the queue and returns, no assertion fails |
| Fiber (`fiber.*`) | `m_state`, `m_cb`, `m_ctx`; thread-local `t_fiber`, `t_threadFiber` and the scheduler's `t_scheduler_fiber` | constructors, `reset`, `swapIn`/`swapOut`, `call`/`back`, `YieldToReady`, `YieldToHold`, `MainFunc`, `CallerMainFunc`, destructor | the state changes before the context is saved; a switch saves into the context that the code names | `GetThis()` is the fiber that executes, a fiber resumes where it left, a finished one never |
| Thread, Semaphore (`thread.*`, `mutex.cpp`) | `m_id`, `m_cb`, `m_name`, `m_thread`, the semaphore; thread-local `t_thread` | constructor, `run`, `SetName`, `join`, destructor, `wait`, `notify` | the new thread uses the object through a raw pointer; `pthread_create` and `sem_wait` fail | no use after the end, no leaked thread, construction ends |
| Locks (`mutex.h`) | pthread objects and the `m_locked` flag of the scoped locks | `lock`, `unlock`, `rdlock`, `wrlock` | exceptions while a lock is held | used inside the models of their clients |
| ConfigVar (`config.h`) | `m_val`, `m_cbs` behind an `RWMutex`; one listener counter for all variables of a type | `setValue`, `fromString`, `addListener`, `delListener`, `clearListener`, getters | listeners run under the read lock, the assignment under another lock; listeners throw | listeners know the value, iteration is safe |
| Config registry (`config.h`, `config.cpp`) | the map from names to variables | `Lookup`, `LookupBase`, `Visit`, `LoadFromYaml` | type mismatch, names refused before they are folded to lower case | one variable per name, a document sets what it names and nothing else |
| Logger, LoggerManager, appenders (`log.*`) | appender lists, formatters, levels | `log`, `addAppender`, `delAppender`, `clearAppenders`, `setFormatter`, `getLogger`, `toYamlString` | nested locks, an unlocked `clearAppenders`, a formatter test before the lock | an appender without a formatter of its own follows its logger |
| FileLogAppender (`log.*`) | `m_filestream`, `m_lastTime` | `log`, `reopen` | the time is tested outside the lock; the file is deleted or the disk fails meanwhile | the file comes back within a second, no accepted event is lost |
| Log configuration (`log.cpp`, `LogDefine`, `LogIniter`) | the `logs` variable | conversions from and to YAML, the listener that rebuilds loggers | incomplete definitions, window between clear and add, disabled loggers | loggers reflect the last configuration, a dump reads back |
| LogFormatter (`log.cpp`) | the list of items, `m_error` | `init` | a hand-written parser that moves its own loop variable | text and items come out in order, an error is reported exactly when there is one |
| util, macro, singleton, noncopyable | none of interest | system calls, assertions | - | - |

Components interact by calls and shared state: clients call `schedule`; `run()`
switches to fibers, whose bodies yield back or call `schedule`; `start` creates
Threads that execute `run()`; the `logs` ConfigVar calls the log configuration,
which changes Loggers that every thread uses. `ATPDXY_ASSERT` is compiled in
and aborts the process.

The hazards of this code, each at its line, are in `PROJECT.json`.

## 2. Modules

| module | models |
|---|---|
| `Scheduler` | `scheduler.h`, `scheduler.cpp`, with the part of `Fiber` and `Thread` it drives |
| `TaskPool` | the abstract promise of `scheduler.h`'s public interface |
| `SchedulerProofs` | theorems about `Scheduler`: types, counters, fibers and assertions; bodies and pins; `stop()` and the refinement of `TaskPool` |
| `Fiber`, `FiberProofs` | the context switches of `fiber.cpp` on one thread, and theorems |
| `Thread`, `ThreadProofs` | `thread.cpp` and `Semaphore`, and theorems |
| `ConfigVar` | `ConfigVar<T>` of `config.h` |
| `Config` | the registry and `LoadFromYaml()` (`config.h`, `config.cpp`), composed with the `ConfigVar` objects it holds |
| `ConfigProofs` | theorems about `ConfigVar`, alone and in a registry, and about `Config` |
| `LogFormatter`, `LogFormatterProofs` | the pattern parser `LogFormatter::init()` of `log.cpp`, and theorems |
| `LogDefine` | the values of the `logs` variable and their conversions (`log.cpp`) |
| `Logger` | `Logger`, the formatters of appenders, `LoggerManager`, the dumps and the listener of `LogIniter` (`log.h`, `log.cpp`), on top of `LogDefine` |
| `LoggerProofs` | theorems about `Logger` |
| `FileLogAppender` | `FileLogAppender::log()` and `reopen()` with the stream and the file system |
| `FileLogAppenderProofs` | theorems about `FileLogAppender` |
| `SequenceLemmas` | induction over the natural numbers, and lemmas on concatenations, for the three proof modules of the logging part |
| `MCScheduler`, `MCFiber`, `MCThread`, `MCConfig`, `MCLogger`, `MCLogFormatter`, `MCFileLogAppender` | what TLC instantiates; the `.cfg` files give the sets |

Operators whose comment begins with "Mutant of" are wrong versions of the
definition that follows them. They are used by no specification; each shows
that a property notices a particular bug.

### Scheduler

Each thread has a program counter `pc`; the labels follow `run()`:

    enter -> loop -> scan -> dispatch -> swapin -> exec -> swapout -> after -> post
                                      -> idle -> idleout                    -> resched | sethold

One step is one access to shared state. The scan of `m_tasks` holds `m_mutex`
over several steps, because it reads the unprotected `m_state` of fiber after
fiber while other threads write them; all other critical sections are one step.
`swapout` is the window in which `m_state` has been written and the thread is
still on the fiber's stack; `post`, `resched` and `sethold` separate the
decrement of `m_activeThreadCount`, the read of `m_state` and what is done with
it. `failed` names the assertion that aborted the process; nothing happens
after it.

A *body* is the function a task executes: a client's fiber or a callback.
`want`, `done`, `armed` are the client's view: where a body was scheduled,
whether it has ended, and which fibers a waker knows. The client schedules from
Main (before, between and after `start()` and `stop()`, as long as a `stop()`
is still to come) and from inside bodies, and stops only what it started.

Abstractions:

* `tickle()` and log lines change nothing and are left out. The comparison of
  an erased iterator (`scheduler.cpp:91`) only decides about `tickle()`.
* Unlocked plain variables (`m_state`, `m_stopping`, `m_autoStop`) are read and
  written one at a time in program order.
* Only Main calls `start()` and `stop()`; the assertions on `GetThis()` in
  `stop()` and on the number of threads in the constructor then hold.
  A `start()` while the scheduler runs returns without a change, so it is no
  action.
* A worker name stands for its successor after a restart. Runs with more than
  one start therefore pin nothing.
* Fibers are not freed. A callback needs at most one new host fiber, so as many
  host fibers as callbacks are enough; `RunCb` takes any unused one.
* `Finish` covers a body that returns (TERM) and one that throws (EXCEPT).
  `SwapIn` of such a fiber goes on behind its last switch, where the code asserts
  false (`fiber.cpp:197`); `run()` has to drop it (`scheduler.cpp:98`).

### Fiber, Thread, ConfigVar

`Fiber` has one thread; `m_ctx[f]` says which stack the context of `f` resumes
and where: before `MainFunc()`, inside a switch, or behind the last switch,
where the code asserts false. `Switch` is `SetThis` plus `swapcontext` on the
contexts that the code names. `SetScheduler` chooses between a worker thread
(its main fiber executes `run()`) and the caller's thread (the root fiber does).

`Thread` gives each object an owner (constructs, joins or drops, destroys) and
a runner (the POSIX thread). `dangling` collects objects that their runner
dereferences after their end. An interrupted `sem_wait()` throws out of the
constructor (owner `torn`).

`ConfigVar` splits `setValue()` at its locks and at each listener call, and
`++s_func_id` into its read and its write; using the racing counter as an index
is a choice between the register and the memory. `getValue` and `getListener`
only read.

### Config

`Config` extends `ConfigVar`: a thread is in a step of a variable when its `pc`
is not idle, and otherwise where `cpc` says in the registry. `Lookup(name,
default)` takes the registry's write lock and then either creates the object
(`create`) or, when the name has another type, waits for the variable's read
lock in `toString()` with the registry still locked (`mismatch`). `Visit()`
keeps the read lock while it calls `toString()` of each variable.
`LoadFromYaml()` lists all nodes first (`ListAllMember`, a recursive function on
the positions in the document, parents before their children as in the code),
then takes them one by one: a node with the empty key is skipped, and else there
is `LookupBase()` under the read lock, the conversion, and `setValue()`, whose
steps are `ConfigVar`'s. Exceptions of conversions and of listeners end in
`fromString()` and the loop goes on.

A name is the sequence of its parts between the dots, so that a key with a dot
and a nested key can be the same name. `Illegal` are parts that
`find_first_not_of` refuses: upper case, and also 9, which the list of
characters lacks (`config.h:363`, `config.cpp:11`). A refused key takes its
whole subtree with it; `tolower` at `config.cpp:32` then has nothing to do.
Conversions are modelled by their results: an `int` needs a number, a container
of a scalar is empty, a container of the wrong kind of node throws, and of two
equal keys in a map the first stays. A quoted scalar that itself reads as a YAML
sequence, and empty keys, are left out.

A node of a document is found by its path, the positions of the entries on the way
from the root; `MaxItems` and `MaxDepth` bound the paths, and
`DocumentsAssumption` says that no document exceeds them and that maps and keys
are sequences.

`handles`, `loading` and `dirty` record what clients were given and what a load
found when it began; no step reads them. `LoadApplied` compares the result of a
load with `ValueIn`, which reads the document by positions, not by the list.

### Logger

Each thread that calls a logger has a `pc`: `log()` is `lock`, then `write` per
appender, or `root` when the list is empty (the logger's lock is then held while
the root logger's is taken); `setFormatter()` is `sf` (the unlocked test of
`m_hasFormatter`, `log.cpp:311`) and `sfset` per appender; `addAppender()` is
`add` (the test for a formatter) and, if there is none, `fill`, a second hold of the
appender's lock (`log.cpp:286-288`). The listener's first statement logs to the root
logger (`log.cpp:723`), through the same steps as every `log()`. `Listener` is the thread that changes the `logs` variable; its labels
follow the two loops of the listener, `reload`, `format`, `clear`, `append`, and
it goes through the same steps of `setFormatter()` and `addAppender()` as any
caller. `failed` says that a null pointer or a freed list node was used. `taken`
records which appenders a client left without a formatter; no step reads it.

Abstractions and the client's discipline, each a constant or a guard:

* A critical section of an appender's own lock is one step. What an appender
  writes and its level are left out; the file stream is in `FileLogAppender`.
* A pattern is valid (`Formatters`) or has an error; `LogFormatter` shows that
  `isError()` tells the two apart.
* `Admins` are the threads that change loggers; the others only log.
* `Quiet`: nobody is inside a call while a configuration is applied. Without it
  `clearAppenders()`, which takes no lock, frees the node that a `log()` in its
  loop goes on with, and a `log()` that finds the root logger between its clear
  and its first `addAppender()` uses the null `m_root` of the root logger. Both are
  in the model (`Clear`, `LogLock`); only `FollowsLogger`, `EachOnce`, `NullOnlyIf`
  and `DumpReloads` hold without `Quiet` (section 4).
* An appender without a formatter of its own is added to one logger, once: a
  second `addAppender()` finds the first logger's formatter in it and keeps it.
* Clients set and take away an appender's formatter at any time, in a list or not,
  and a configuration may leave the root logger without appenders.

The listener's comment at `log.cpp:770` asks for a high level for a logger whose
definition is gone; the code sets level 0, which silences nothing: with no
appenders left the events go to the root logger. `ReloadDisable` models the code.

`LogDefine` holds the conversions as operators on records in which `Null` is a
missing key: a document with a nameless definition is refused as a whole
(`log.cpp:632`), appenders without a type, of an unknown type or without a file
are skipped, a level is known in upper and lower case, the first of two
definitions of a name wins. The level of an appender is written by both dumps
and read by nobody (`log.cpp:651-672`), so an appender's own level is lost when a
dump is loaded; `DumpReloads` holds for everything else.

### LogFormatter

One step is one turn of one of the two loops of `init()`; `i`, `n`, `fmt_status`
and the rest are the code's locals. `Init` starts from every pattern up to
`MaxLen`. The reference is twofold: `Reads` says when pieces make up a text, and
`Valid` defines the patterns without errors by recursion over positions. Two
facts found on the way: after `%%` the second percent sign is looked at again
(`log.cpp:464-469`), so a single percent sign cannot be written; and behind an
open brace `<<pattern_error>>` comes before the literal text that precedes it.

### FileLogAppender

`log()` is read clock, test `m_lastTime`, `reopen()`, set `m_lastTime`, write;
only `reopen()` and the write hold the lock. The stream has a buffer of
`Capacity` events, the file it has open (`inode`) and its error state (`good`);
the file system has the file under the name (`named`), the contents of all
files, and a disk that is ok, full, or refuses to open. `tried` and `troubled`
record when `reopen()` last ran and when the world last changed. Threads share
an appender when two loggers do; each logger's own lock then does not keep them
apart.

### TaskPool and the refinement

`TaskPool` has a place for each body (new, waiting, running, finished) and a
phase. A body moves from waiting to running only while the pool is open, it
finishes once, and the pool closes only when each body is new or finished.
`Scheduler!ImplementsTaskPool` maps `exec` and `hold` to running, and to closed
the times at which Main is in client code with `m_stopping` set.

## 3. Runs

| run | instance | shows |
|---|---|---|
| `restart` | 2 workers, fiber and callback, 2 yields to ready, 2 rounds of start and stop | `OneRunner`, `NoAbort`, `NoLostBody`, `StopDrains`, the refinement `ImplementsTaskPool` |
| `holds` | 2 workers, fiber and callback, every pin, 2 holds, wake-ups on the thread of the hold | `TypeOK`, `CountersExact`, `OneRunner`, `NoAbort`, `PinRespected`, `IdleEndsQuiet` |
| `caller` | 1 worker and the caller's thread, pins, fairness | `PinnedThreadAlive`, `StopDrains`, `CallsReturn`, `BodiesComplete` |
| `solo` | the caller's thread alone, 2 fibers scheduled repeatedly, 1 callback | `NoAbort` through the early return of `stop()` and the drop of finished fibers |
| `config` | 3 objects of 3 types, 2 names, 2 threads that do everything, 1 load of 1 of 2 documents, a throwing listener, fairness | `IterationValid`, `OneVarPerName`, `LoadApplied`, `CallsReturn` |
| `threads` | 3 objects, one dropped, one renamed, interruptions, fairness | `Handshake`, `NoDangling`, `NoThreadLeak`, `AllEnd` |
| `fiber` | 2 fibers, root fiber, 2 yields, worker's or caller's thread | `ThisIsRunning`, `OwnContext`, `ExecIsRunning`, `NoCrash` |
| `logs` | loggers root and app, 2 callers that log and change loggers, 3 changes of the configuration out of 3 documents, `Quiet`, fairness | `FollowsLogger`, `NullOnlyIf`, `DumpReloads`, `EachOnce`, `ReloadApplied`, `CallsReturn` |
| `patterns` | all patterns of up to 6 characters over `d`, `x`, space, `%`, `{`, `}` | `ReadsBack`, `ErrorExact`, `Terminates` |
| `reopen` | 2 threads, 4 events, 3 seconds, 3 faults, a buffer of 1 event | `Delivered`, `Complete` |
| `wake_elsewhere` | `holds` without the discipline on wake-ups | `NoAbort` fails |
| `stop_hangs` | `caller` with a yield | `CallsReturn` fails |

Why the bounds are enough: each race of `run()` is between two threads over
one fiber, or between one thread and the queue; two workers with two or three
bodies have every such pair, and a third party appears as Main inside `stop()`.
Two yields let a fiber come back to a thread it left; two holds let it hold
again after it was woken elsewhere, which is what makes the stale HOLD matter.
In `config` the documents hold each case once: a name given twice, nested and
dotted, a refused subtree, a node that fits no type, and the three types meet
them under both names; two threads make every pair of registry and variable
operations. Six characters hold a text, an item with an argument and a second
item, or an item inside an open brace. In `reopen` a stale time needs two
threads and two seconds, and a file that is lost twice a third.
Symmetry permutes workers, host fibers and callbacks in the runs whose `Pins`
name all workers or none; no run with a leads-to property uses it.

What the violations show:

* `wake_elsewhere`. `run()` writes HOLD after the switch, whatever `m_state`
  has become (`scheduler.cpp:107`, `:126`). A fiber that another thread already
  resumed then executes with state HOLD and aborts at its next yield
  (`fiber.cpp:162`). The passing run `holds` shows that waking a fiber on the
  thread where it held is safe.
* `stop_hangs`. `--m_activeThreadCount` comes before the fiber is queued again
  (`scheduler.cpp:101-104`). A worker that evaluates `stopping()` in between
  leaves although work is left; if that work pins a task to this worker, the
  task stays in `m_tasks` and `stop()` never returns.

Limits that the passing runs make explicit, found while choosing them:

* A pin holds until the first `YieldToReady()`: `schedule(ft.fiber)`
  (`scheduler.cpp:104`) drops the thread. `PinRespected` is checked with
  `MaxReady = 0`; with 1 it fails.
* A fiber may be scheduled twice only with one scheduling thread (`solo`); with
  two, both pass the EXEC test and the second `swapIn()` aborts.
* A `use_caller` scheduler cannot be started a second time: its root fiber has
  ended and is called again. `restart` uses workers only.
* `setValue()` releases the read lock before it assigns (`config.h:301`): two
  setters may announce their values in one order and assign them in the other,
  so the last `new_value` a listener heard need not be the value that stays.
  `LoadApplied` therefore speaks of variables that only the loading thread sets.
* `PinnedThreadAlive` is checked without holds: a fiber that is woken after
  `stop()` saw an empty queue may be pinned to a thread that has left.
* A failed write is final for a file appender, a defect: `reopen()` closes only a
  good stream (`log.cpp:432`) and cannot open a second file, so the appender never
  writes again, also when the disk has room. `Delivered` excepts it (`wedged`). No
  text of the repository says what should happen, so no run is set against it.
* An event that was accepted may still be lost when `close()` finds the disk full.
* Listener ids are not unique, a defect: all variables of a type share the counter
  of `addListener()`, and each has a lock of its own (`config.h:311`). Two threads
  that register with two variables may lose an increment; a later `addListener()`
  then draws an id in use and replaces a listener, which the comment at
  `config.h:334` excludes. The model has the race (`AddIncrement`); no property
  claims that ids are unique, and `config` listens to one variable.
* `setFormatter(nullptr)` on an appender in a list leaves it without any formatter
  (`log.cpp:255`), and the next `log()` uses a null pointer; so does an event for a
  root logger without appenders (`log.cpp:346`), and the listener logs one itself
  (`log.cpp:723`), so a second change of a configuration that emptied the root
  logger ends the program. The run `logs` reaches these crashes; `NullOnlyIf` shows
  that there are no others: the two holds of the lock in `addAppender()`, and the
  test outside the lock in `setFormatter()`, lead to none.
* `setFormatter()` and `addAppender()` may overwrite a formatter of the appender's
  own that is set between their test and their assignment. The model has this;
  `FollowsLogger` speaks of appenders without a formatter of their own.
* `LoadApplied` excepts a variable whose listener threw, and says of other setters'
  variables nothing. `ReloadApplied` asks for a formatter only where the definition
  has one: the formatter of an earlier configuration stays otherwise.
* `swapIn()` needs `Scheduler::GetMainFiber()` (`fiber.cpp:129`), which is null
  on a thread without a scheduler, as in `src/tests/test_fiber.cpp:17`. `fiber`
  has a scheduler; with `RunFibers = {}` its `NoCrash` fails.
* An interrupted constructor leaves a thread that uses a destroyed object and
  that nobody joins; `NoDangling` and `NoThreadLeak` speak of all others. A thread
  that renames itself after its object was dropped writes to freed memory
  (`thread.cpp:26`); the run joins it.

Fairness. `Scheduler`: strong fairness of each thread inside `run()` and of
Main inside `start()` and `stop()`, because an idle thread takes and releases
`m_mutex` in a loop: the step of a waiting thread is enabled again and again but
not continuously, and the mutex must not starve it. Bodies end. Nothing forces
the client to call anything, so a body pinned to Main completes only once
`stop()` was called. `Config`: strong fairness of each call, for the same
reason on the rwlocks, and listeners return or throw. `Logger`: strong fairness
of each call, because several threads spin on one lock; callers are never made
to call. `Thread`: weak fairness of owners and runners; callbacks return.
`LogFormatter`: weak fairness of the one thread inside the constructor.

Deadlock checking is off in `threads`, `fiber` and `patterns`, where all threads
end, and in `reopen`, where nothing happens once the bounds are reached.
`Scheduler` has the step `Terminated` for the client that has stopped for good,
so every other standstill is reported.

## 4. Proofs

### Types and counters of the scheduler

`SchedulerProofs` proves, for every finite set of workers, all sets of fibers
and callbacks, all pins and client behaviours the constants allow:

* `TypeCorrect`: `Spec => []TypeOK`. The part that is not routine is that
  `--m_activeThreadCount` and `--m_idleThreadCount` never go below zero
  (they are `size_t`).
* `CountersCorrect`: `Spec => []CountersExact`.
* `IdleEndsOnlyWhenQuiet`: `Spec => IdleEndsQuiet`.

Neither `TypeOK` nor `CountersExact` is inductive. The inductive invariant is

    IInv == TypeOK /\ LocalsOK /\ WorkersOK /\ CountersExact

`CountersExact` is what keeps the decrements natural: a thread at `after` is in
the counted set, so the counter is positive. `LocalsOK` relates `ft`,
`cb_fiber` and `pc`: a thread with a fiber to switch to has one, a thread that
scans has no task yet. `WorkersOK` bounds where workers and Main can be, which
the joins and restarts need. `CountersExact` is preserved through five lemmas
on the cardinality of the sets of busy and idling threads: unchanged, one
thread more, one fewer. `Invariance` has one step per action and cites, per
action, the frame lemmas `CountersStep`, `WorkersStep`, `LocalsStep` and
`TypeStep`. `IdleEndsQuiet` follows from `CountersExact`: `stopping()` reads
zero, so the set of busy threads is empty. The assumptions are the two named
ones of `Scheduler`, which TLC evaluates in every run.

### Fibers and assertions

* `OneRunnerAlways`: no fiber is on the stack of two threads (`OneRunner`).
* `NeverAborts`: no assertion of the scheduler or of a fiber fails (`NoAbort`).

Both assume `OneHandover`: the client schedules each fiber once, and a waker
names the thread on which the fiber held (or nothing holds). The code needs it:
the run `wake_elsewhere` shows the abort without the second half, and a fiber
that is scheduled twice passes the unlocked EXEC test on two threads. `NeverAborts`
also assumes `RootOnce`, a `use_caller` scheduler that is started once, since the
root fiber is not reset by a second `start()`.

The argument treats the right to resume a fiber as a token. `Tokens` says where
it can be: a fiber is at most once in `m_tasks` (`QueueOK`), on at most one
thread, in a state that fits the thread's label (`CarryOK`); it is on a thread
and queued, or on a thread and known to a waker, only while it holds, and then
only that thread may take it again (`MeetOK`); what is queued or armed can be
resumed or is about to hold, and is not both (`KnownOK`); a `cb_fiber` belongs to
one thread (`SpareOK`); what nobody has scheduled is nowhere (`NewOK`). `OneRunner`
is one conjunct's consequence and is not inductive: the window between
`m_state = HOLD` and the end of `swapOut()` is only closed by `MeetOK`. `CallsOK`
adds which of `start()` and `stop()` Main is in and what the root fiber's state is.

### Bodies and pins

* `NothingLost`: `NoLostBody`, under `OneHandover`.
* `PinsRespected`: `PinRespected`, under `OneHandover` and `NoReadyYields`.

`BodiesOK` says that a finished fiber's body has ended, and that a holding fiber
has a waker or is queued; `AllKept`, that an unfinished body belongs to a fiber
that is known, or waits as a callback; both are needed because a step loses
sight of a fiber at five places of `run()`. `PinsOK` follows the pin from the
task to `ft`, to the fiber, to its waker. `NoReadyYields` (`MaxReady = 0`) is
needed because `run()` schedules a yielding fiber for every thread
(`scheduler.cpp:104`).

### The end: `stop()`

* `PinnedThreadStays` (`PinnedThreadAlive`) and `StopAlwaysDrains` (`StopDrains`)
  assume `OneHandover`, `RootOnce`, `NoHolds` and `NoReadyYields`.
* `StopDrainsYields` (`StopDrains`) has `NoPins` in place of `NoReadyYields`.
* `ImplementsPool`: `Spec => ImplementsTaskPool`, under `OneHandover`, `RootOnce`,
  `NoHolds`, and `NoReadyYields \/ NoPins`.

`NoHolds` is needed because `stop()` does not wait for a fiber in HOLD. That
yields and pins exclude each other is what the run `stop_hangs` is about.
Without yields the argument is `QuietOK`: once a thread's idle fiber has
returned, nothing is queued and no thread executes a task, and nothing can change
that, because only bodies and Main schedule, and Main is in `stop()` (`PhaseOK`).
With yields this is false: a thread may leave while a fiber is between its yield
and its rescheduling. `DrainOK` says what is left: whenever a thread has left and
something is queued, some thread is going to look at `m_tasks` again, and without
pins it takes what it finds (`ScanOK`).

The refinement maps each step of `Scheduler`: `swapIn()` starts or resumes a body
(`Resume`), `YieldToReady()` and `YieldToHold()` are `Pause`, the end of a body is
`Complete`, `schedule()` is `Submit`, the first step of `start()` is `Open`, the
return of `stop()` is `Close`, and everything else stutters. `Close` needs
`StopDrains`; that a body pauses or ends once needs that no two fibers
have one body and no callback is given to two fibers (`CbOnce`, `FiberOnce`).

### Fiber and Thread

`FiberProofs`, for any set of fibers and any number of yields, proves
`ThisAlwaysRuns`, `ContextsStayOwn`, `ExecMeansRunning` and, if the thread has a
scheduler (`HasScheduler`; `swapIn()` uses a null pointer otherwise),
`NeverCrashes`. The invariant relates `t_fiber`, `t_threadFiber` and
`t_scheduler_fiber` to the stack that runs (`ThreadOK`), says which contexts are
saved in a switch while a fiber or the root fiber runs (`SwappedOK`, `RootOK`),
and that `MainFunc()` still knows its own fiber (`CurOK`).

`ThreadProofs`, for any number of objects, with signals and failing
`pthread_create()`, proves `HandshakeAlways`, `NoLeak` and, if a thread that
renames itself is joined before its object is dropped (`KeepsRenamed`; `SetName()`
writes through `t_thread`), `NeverDangling`. The invariant is `ObjOK` of each
object; its core is `WaitingOK`: the semaphore counts exactly the notification of
`run()`, which comes after the last use of the object.

### ConfigVar and the registry

`ConfigProofs` treats each step of a `ConfigVar` once and uses it twice: for
variables on their own (`Spec`) and for the variables of a registry
(`ConfigSpec`), where documents set them too. For any number of variables,
threads, listeners, ids, names, types and documents:

* `TypeCorrect`: `Spec => []TypeOK`.
* `IterationAlwaysValid` and `RegistryIterationValid` (`IterationValid`: while a
  `setValue()` iterates, no listener is added, erased or replaced), from
  `LocksOK`: who is in the loop of `setValue()` holds the read lock, who is in
  `addListener()` the write lock, and these exclude each other.
* `OneVariablePerName`: `ConfigSpec => []OneVarPerName`.
* `LoadsApply`: `ConfigSpec => LoadApplied`, if no variable has the empty name,
  which is the key of the root and which the loop skips (`config.cpp:29`).

`OneVarPerName` is not inductive. `ObjectsOK` says that what is in `s_datas` was
given away by `Lookup()` under that name, and that no variable has two names;
`PlacesOK`, that the thread that creates holds the registry for writing, and that
the name is free until it is done. All other steps leave the registry alone
(`ConfigChange`).

`LoadsApply` has two halves. The first is about documents of any depth and width,
without a state: `NodeAtIs` and `ListAllMemberIs` say that the two recursive
functions of the model have the values their equations give; `ListOfNode` and
`ListIsGood` go up from the leaves and show that the list has no refused name
(`ValidSub`: a name below a refused one is refused) and that its last node that
counts for a variable, if it has one, is the one all others in the document come
before (`LastFit`, put together by `JoinLists`). `LoadedAll` concludes that who
takes the nodes of the list one by one ends with `ValueIn`, which does not use the
list; that the last node is one node is `BeforeAsym`. The second half is the
invariant `LoadInv`: for a thread that loads there is a `k` such that its `nodes`
are the list without the first `k`, and every variable that existed at the start
and is not `dirty` has the value that the first `k` nodes give it, or is about to
get it from this thread (`Value`). A step of another thread, and the steps inside a
variable, keep this (`OthersKeep`, `InsideKeeps`), and the steps of the loop go on
by one node (`OnwardLoading`); that a node reaches one variable only is the second
half of `ObjectsOK`. The assumptions are `ConfigVarAssumption`, `ConfigAssumption`
and `DocumentsAssumption`.

### Logger

`LoggerProofs` proves, for any sets of loggers, appenders, threads and documents
and any number of configuration changes:

* `AlwaysFollows`: `Spec => []FollowsLogger`, also for a client that calls loggers
  while a configuration is applied or passes null formatters. The client adds an
  appender that has no formatter of its own to one logger only (`addAppender`).
* `OnlyKnownNulls`: `Spec => []NullOnlyIf`, likewise without `Quiet`.
* `WritesEachOnce`: `Spec => EachOnce`, for every client. A `log()` whose list is
  cleared under it ends in `failed` and not in a wrong list.
* `ConfigurationApplied`: `Spec => ReloadApplied`, under `Quiet`.
* `DumpsReload`: `Spec => []DumpReloads`, for every client.
* `TypeCorrect`: `Spec => []TypeOK`.

Neither `FollowsLogger` nor `EachOnce` is inductive. `LInv` adds who holds which
lock where (`PlacesOK`: everyone who uses a list holds its logger's lock, except
to clear it), that what is left to apply belongs to the new value (`ConfOK`), that
an appender is in one list or on its way to one and has a formatter once it is
there, unless a client took it away (`ListsOK`), that an appender that lags behind its logger is one that some
`setFormatter()` has still to reach (`FollowsOK`, `Pending`), and that what a
`log()` has written is the beginning of its list (`WritesOK`). Under `Quiet`,
callers rest while the listener works (`RestOK`), so only its own steps matter
then; `AppliedOK` says, for each point of the listener's
loops, how much of the document each logger already reflects (`SettingOK` for
the logger in work, `IsSet` for those that are done).

`DumpsReload` needs two facts of the state only: there are finitely many loggers, and
an appender has a file exactly if it writes to one (`DumpOK`). The rest is about
the conversions: no appender that is written is skipped when it is read
(`AppenderReads`), so each is read at its place (`ReadAll`, by induction on the
list); a level's name is read as the level (`LevelReads`); and the definitions of a
set of names, written in some order, are read back as the function on these names
(`ReadsWritten`), because no name occurs twice.

The assumptions are `LoggerAssumption` and `DocumentsAssumption`, which says only that
a document is a list with a list of appenders in each definition; that
what `Configs` contains are definitions with known levels and types of appenders is
a lemma (`ConfigsType`).

### FileLogAppender

`FileLogAppenderProofs` proves, for any set of threads and any bound on the
seconds, events, faults and the buffer:

* `DeliveredAlways`: `Spec => []Delivered`, the promise of reopening once a
  second, although `m_lastTime` is read and written outside the lock.
* `CompleteAlways`: `Spec => []Complete`, no accepted event is lost, doubled or moved.

The inductive invariant is `TypeOK /\ TimesOK /\ StreamOK`. `TimesOK` is the
argument for the unlocked test: `m_lastTime` is never later than the last
`reopen()`, so a thread that skips its own `reopen()` because `m_lastTime`
equals its time follows one of that second or a later one. `StreamOK` says that
after a `reopen()` later than all trouble the open file is the named one, that a
bad stream with a file open stems from a failed write, and that this never ends.
`Complete` concatenates the files in the order of their creation, so a write goes to
the end of them all only because the file that the stream has open, and the one that
has the name, are the last that was made (`LastOK`). The assumption is `FileLogAppenderAssumption`.

### LogFormatter

`LogFormatterProofs` proves, for patterns of every length and all alphabets of letters
and other characters:

* `ExactErrors`: `Spec => []ErrorExact`.
* `PatternsReadBack`: `Spec => []ReadsBack`.

`ErrorExact` compares the parser, which goes forward, with `Valid`, which is a
recursion from the end. Let `G` be the positions from which the pattern is valid
(`OkPositions`; that they exist is an induction from the end). Then at every turn the
pattern is valid exactly if `i` is in `G`, as long as no error was found and every
item so far is known, and it is not valid once there was one (`Decides`). `ItemOK`
relates `i`, `n`, `str` and `fmt` to the characters of the item that is being read.
`ReadsBack` is strengthened to `ReadsInv`, which holds within an item too and adds the
text that is not a piece yet; `GoesOn` says that behind an item without an argument
comes nothing that its name could have gone on with, which `Reads` asks of the next
piece. The characters with a meaning have names (`PERCENT`, `OPEN`, `CLOSE`),
because only their being different matters. The assumption is
`LogFormatterAssumption`.

### Induction

The library's induction theorems take an operator and cannot be used here.
`SequenceLemmas` states induction for a set instead (`SetInduction`: a set of
natural numbers with 0 that is closed under successor is all of them; from
`LeastElement`). It carries the lemmas on `FlattenSeq` and those on the recursive
functions of `LogDefine`, `LogFormatter` and `Config`.

### Only model-checked

* Liveness (`CallsReturn`, `BodiesComplete`, `AllEnd`, `Terminates`): fairness and
  ENABLED are outside TLAPS.

## 5. Plan

Done: all modules of section 2 and the theorems of section 4, so that every safety
invariant and every action property of a run is also a theorem. What would come next
are extensions: failure of `pthread_create()` inside `start()`, levels that clients
set, two setters of `logs` whose listeners overlap under the read lock; and runs
that show the id race of `addListener()` and the two null pointers of section 3 as
counterexamples.

## 6. Not modelled

* The conversions of containers to text and the list, set and unordered variants
  of `LexicalCast`, which repeat the code of vector and map; yaml-cpp and boost
  are modelled by what they return.
* Stack allocation, backtraces, the text of log lines, date formatting.
* `CASLock`, which nothing uses, and the null locks.
* `setLevel()` and `clearAppenders()` by clients, and appenders with a raised
  level.
* `start()` when a thread cannot be created, held fibers that are woken after
  `stop()` (see the notes on these hazards in `PROJECT.json`); listeners that
  call back into their own variable and two threads that join one object, which
  nothing in the repository does.
* Utilities (`util.*`, `macro.h`, `singleton.h`, `noncopyable.h`): no state.
