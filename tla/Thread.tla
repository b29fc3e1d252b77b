------------------------------- MODULE Thread -------------------------------
(***************************************************************************)
(* Thread and Semaphore (thread.cpp, mutex.cpp): the life of Thread        *)
(* objects, each with the thread that constructs it and the POSIX thread   *)
(* that executes Thread::run().  The new thread reads its Thread object    *)
(* through a raw pointer, so the object must outlive those reads; the      *)
(* constructor therefore waits on m_semaphore until run() has taken what   *)
(* it needs.  Afterwards only t_thread still points to the object.         *)
(***************************************************************************)
EXTENDS Naturals

CONSTANTS
  Objs,         \* the Thread objects
  Dropped,      \* objects their owner destroys without join()
  Renaming,     \* objects whose callback calls Thread::SetName()
  Interrupts    \* a signal may interrupt sem_wait()

ASSUME ThreadAssumption ==
  Dropped \subseteq Objs /\ Renaming \subseteq Objs /\ Interrupts \in BOOLEAN

VARIABLES
  owner,        \* where the owner of each object is
  runner,       \* where its POSIX thread is
  sem,          \* m_semaphore's count
  m_id,         \* m_id has been set
  m_cb,         \* the callback is still in the object
  m_name,       \* the thread's name: as constructed, or renamed
  m_thread,     \* m_thread # 0
  posix,        \* what pthreads knows of the thread
  dangling      \* objects used by their thread after their end

vars == <<owner, runner, sem, m_id, m_cb, m_name, m_thread, posix, dangling>>

TypeOK ==
  /\ owner \in [Objs -> {"new", "waiting", "live", "gone", "torn"}]
  /\ runner \in [Objs -> {"none", "run", "bound", "body", "ended"}]
  /\ sem \in [Objs -> Nat]
  /\ m_id \in [Objs -> BOOLEAN]
  /\ m_cb \in [Objs -> BOOLEAN]
  /\ m_name \in [Objs -> {"given", "renamed"}]
  /\ m_thread \in [Objs -> BOOLEAN]
  /\ posix \in [Objs -> {"none", "joinable", "joined", "detached"}]
  /\ dangling \in SUBSET Objs

Init ==
  /\ owner = [o \in Objs |-> "new"]
  /\ runner = [o \in Objs |-> "none"]
  /\ sem = [o \in Objs |-> 0]
  /\ m_id = [o \in Objs |-> FALSE]
  /\ m_cb = [o \in Objs |-> TRUE]
  /\ m_name = [o \in Objs |-> "given"]
  /\ m_thread = [o \in Objs |-> FALSE]
  /\ posix = [o \in Objs |-> "none"]
  /\ dangling = {}

-----------------------------------------------------------------------------

\* The thread of o dereferences its pointer to o.
Touch(o) ==
  dangling' = IF owner[o] \in {"gone", "torn"} THEN dangling \cup {o} ELSE dangling

\* Thread::Thread() up to the wait: pthread_create() succeeded.
Construct(o) ==
  /\ owner[o] = "new"
  /\ owner' = [owner EXCEPT ![o] = "waiting"]
  /\ runner' = [runner EXCEPT ![o] = "run"]
  /\ m_thread' = [m_thread EXCEPT ![o] = TRUE]
  /\ posix' = [posix EXCEPT ![o] = "joinable"]
  /\ UNCHANGED <<sem, m_id, m_cb, m_name, dangling>>

\* pthread_create() failed: the constructor throws, there is no object.
ConstructFail(o) ==
  /\ owner[o] = "new"
  /\ owner' = [owner EXCEPT ![o] = "gone"]
  /\ UNCHANGED <<runner, sem, m_id, m_cb, m_name, m_thread, posix, dangling>>

\* Semaphore::wait() returns, and with it the constructor.
Wait(o) ==
  /\ owner[o] = "waiting"
  /\ sem[o] > 0
  /\ sem' = [sem EXCEPT ![o] = @ - 1]
  /\ owner' = [owner EXCEPT ![o] = "live"]
  /\ UNCHANGED <<runner, m_id, m_cb, m_name, m_thread, posix, dangling>>

\* sem_wait() fails with EINTR: wait() throws out of the constructor, whose
\* members are destroyed; ~Thread() does not execute.
WaitInterrupted(o) ==
  /\ Interrupts
  /\ owner[o] = "waiting"
  /\ sem[o] = 0
  /\ owner' = [owner EXCEPT ![o] = "torn"]
  /\ UNCHANGED <<runner, sem, m_id, m_cb, m_name, m_thread, posix, dangling>>

\* Mutant of RunBind: the id is not stored.
RunBindNoId(o) ==
  /\ runner[o] = "run"
  /\ runner' = [runner EXCEPT ![o] = "bound"]
  /\ m_cb' = [m_cb EXCEPT ![o] = FALSE]
  /\ Touch(o)
  /\ UNCHANGED <<owner, sem, m_id, m_name, m_thread, posix>>

\* Thread::run(): t_thread, the names, m_id, and cb.swap(thread->m_cb).
RunBind(o) ==
  /\ runner[o] = "run"
  /\ runner' = [runner EXCEPT ![o] = "bound"]
  /\ m_id' = [m_id EXCEPT ![o] = TRUE]
  /\ m_cb' = [m_cb EXCEPT ![o] = FALSE]
  /\ Touch(o)
  /\ UNCHANGED <<owner, sem, m_name, m_thread, posix>>

\* Mutant of RunNotify: the notification is missing.
RunNotifyLost(o) ==
  /\ runner[o] = "bound"
  /\ runner' = [runner EXCEPT ![o] = "body"]
  /\ UNCHANGED <<owner, sem, m_id, m_cb, m_name, m_thread, posix, dangling>>

\* Thread::run(): m_semaphore.notify().
RunNotify(o) ==
  /\ runner[o] = "bound"
  /\ runner' = [runner EXCEPT ![o] = "body"]
  /\ sem' = [sem EXCEPT ![o] = @ + 1]
  /\ Touch(o)
  /\ UNCHANGED <<owner, m_id, m_cb, m_name, m_thread, posix>>

\* The callback calls Thread::SetName(), which writes t_thread->m_name.
SetName(o) ==
  /\ o \in Renaming
  /\ runner[o] = "body"
  /\ m_name' = [m_name EXCEPT ![o] = "renamed"]
  /\ Touch(o)
  /\ UNCHANGED <<owner, runner, sem, m_id, m_cb, m_thread, posix>>

\* The callback returns and run() with it.
RunEnd(o) ==
  /\ runner[o] = "body"
  /\ runner' = [runner EXCEPT ![o] = "ended"]
  /\ UNCHANGED <<owner, sem, m_id, m_cb, m_name, m_thread, posix, dangling>>

\* Mutant of join: it does not wait for the thread.
joinNoWait(o) ==
  /\ owner[o] = "live"
  /\ o \notin Dropped
  /\ m_thread[o]
  /\ posix' = [posix EXCEPT ![o] = "joined"]
  /\ m_thread' = [m_thread EXCEPT ![o] = FALSE]
  /\ UNCHANGED <<owner, runner, sem, m_id, m_cb, m_name, dangling>>

\* join(): a second call finds m_thread = 0 and returns.
join(o) ==
  /\ owner[o] = "live"
  /\ o \notin Dropped
  /\ m_thread[o]
  /\ runner[o] = "ended"
  /\ posix' = [posix EXCEPT ![o] = "joined"]
  /\ m_thread' = [m_thread EXCEPT ![o] = FALSE]
  /\ UNCHANGED <<owner, runner, sem, m_id, m_cb, m_name, dangling>>

\* Mutant of Destroy: pthread_detach() is missing.
DestroyNoDetach(o) ==
  /\ owner[o] = "live"
  /\ m_thread[o] => o \in Dropped
  /\ owner' = [owner EXCEPT ![o] = "gone"]
  /\ UNCHANGED <<runner, sem, m_id, m_cb, m_name, m_thread, posix, dangling>>

\* ~Thread(): detach a thread that was not joined.
Destroy(o) ==
  /\ owner[o] = "live"
  /\ m_thread[o] => o \in Dropped
  /\ owner' = [owner EXCEPT ![o] = "gone"]
  /\ posix' = IF m_thread[o] THEN [posix EXCEPT ![o] = "detached"] ELSE posix
  /\ UNCHANGED <<runner, sem, m_id, m_cb, m_name, m_thread, dangling>>

-----------------------------------------------------------------------------

OwnerStep(o) == Construct(o) \/ ConstructFail(o) \/ Wait(o) \/ join(o)
                  \/ Destroy(o)
RunnerStep(o) == RunBind(o) \/ RunNotify(o) \/ SetName(o) \/ RunEnd(o)

Next == \E o \in Objs : OwnerStep(o) \/ WaitInterrupted(o) \/ RunnerStep(o)

Spec == Init /\ [][Next]_vars

\* Owners and threads are scheduled, and callbacks return; no signal has to
\* come.
FairSpec ==
  /\ Spec
  /\ \A o \in Objs : /\ WF_vars(OwnerStep(o))
                     /\ WF_vars(RunBind(o) \/ RunNotify(o) \/ RunEnd(o))

-----------------------------------------------------------------------------

\* When the constructor has returned, the thread has an id (Scheduler::start()
\* reads it at once) and owns its callback, and the semaphore is used up.
Handshake ==
  \A o \in Objs : owner[o] = "live" => m_id[o] /\ ~m_cb[o] /\ sem[o] = 0

\* A thread never dereferences its Thread object after the object's end: the
\* owner that drops the object right after construction does not race run().
\* Only the object whose constructor was interrupted is used after its end.
NoDangling == \A o \in dangling : owner[o] = "torn"

\* A POSIX thread is not leaked: an object that was constructed leaves its
\* thread joined or detached when it ends.
NoThreadLeak == \A o \in Objs : owner[o] = "gone" => posix[o] # "joinable"

\* Construction, execution and release of every object come to an end.
AllEnd ==
  <>[](\A o \in Objs :
         owner[o] \in {"gone", "torn"} /\ runner[o] \in {"none", "ended"})

=============================================================================
