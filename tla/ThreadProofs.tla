---------------------------- MODULE ThreadProofs ----------------------------
(***************************************************************************)
(* Theorems about Thread, for any number of Thread objects, with and       *)
(* without signals.                                                        *)
(***************************************************************************)
EXTENDS Thread, TLAPS

\* The client keeps an object whose callback renames its thread until it has
\* joined it: SetName() writes through t_thread.
KeepsRenamed == Dropped \cap Renaming = {}

\* Nothing has happened to an object before its constructor runs.
NewOK(o) ==
  owner[o] = "new" => runner[o] = "none" /\ posix[o] = "none" /\ sem[o] = 0

\* While the constructor waits, the semaphore counts run()'s notification.
WaitingOK(o) ==
  owner[o] = "waiting" =>
    /\ m_thread[o] /\ posix[o] = "joinable"
    /\ runner[o] # "none"
    /\ sem[o] = IF runner[o] \in {"body", "ended"} THEN 1 ELSE 0

\* The constructor has returned: run() is behind its notification, and m_thread
\* tells whether the thread was joined.
LiveOK(o) ==
  owner[o] = "live" =>
    /\ runner[o] \in {"body", "ended"}
    /\ sem[o] = 0
    /\ m_thread[o] => posix[o] = "joinable"
    /\ ~m_thread[o] => posix[o] = "joined" /\ runner[o] = "ended"

\* After ~Thread() the thread runs on only if the object was dropped.
GoneOK(o) ==
  owner[o] = "gone" =>
    /\ runner[o] \in {"none", "body", "ended"}
    /\ runner[o] = "body" => o \in Dropped
    /\ posix[o] # "joinable"

\* run() is behind the swap of the callback.
BoundOK(o) == runner[o] \in {"bound", "body", "ended"} => m_id[o] /\ ~m_cb[o]

\* One object's part of the inductive invariant.
ObjOK(o) == NewOK(o) /\ WaitingOK(o) /\ LiveOK(o) /\ GoneOK(o) /\ BoundOK(o)

IInv == TypeOK /\ \A o \in Objs : ObjOK(o)

-----------------------------------------------------------------------------

\* Before any construction the invariant holds.
LEMMA InitIInv == Init => IInv
  BY DEF Init, IInv, TypeOK, ObjOK, NewOK, WaitingOK, LiveOK, GoneOK, BoundOK

\* A step of one object leaves the others alone, so their part is preserved.
LEMMA OthersOK ==
  ASSUME IInv, NEW o \in Objs,
         OwnerStep(o) \/ WaitInterrupted(o) \/ RunnerStep(o)
  PROVE  \A p \in Objs \ {o} : ObjOK(p)'
<1>. USE DEF IInv, TypeOK, ObjOK, NewOK, WaitingOK, LiveOK, GoneOK, BoundOK
<1>1. \A p \in Objs \ {o} :
        /\ owner'[p] = owner[p] /\ runner'[p] = runner[p] /\ sem'[p] = sem[p]
        /\ m_id'[p] = m_id[p] /\ m_cb'[p] = m_cb[p]
        /\ m_thread'[p] = m_thread[p] /\ posix'[p] = posix[p]
  BY DEF OwnerStep, RunnerStep, Construct, ConstructFail, Wait, WaitInterrupted,
         RunBind, RunNotify, SetName, RunEnd, join, Destroy
<1>. QED
  BY <1>1

\* Every step of an object preserves its own part and the types.
LEMMA StepIInv ==
  ASSUME IInv, NEW o \in Objs,
         OwnerStep(o) \/ WaitInterrupted(o) \/ RunnerStep(o)
  PROVE  IInv'
<1>. USE DEF IInv, ObjOK
<1>. SUFFICES TypeOK' /\ ObjOK(o)'
  BY OthersOK
<1>. USE DEF TypeOK, NewOK, WaitingOK, LiveOK, GoneOK, BoundOK
<1>1. CASE Construct(o)
  BY <1>1 DEF Construct
<1>2. CASE ConstructFail(o)
  BY <1>2 DEF ConstructFail
<1>3. CASE Wait(o)
  BY <1>3 DEF Wait
<1>4. CASE WaitInterrupted(o)
  BY <1>4 DEF WaitInterrupted
<1>5. CASE RunBind(o)
  BY <1>5 DEF RunBind, Touch
<1>6. CASE RunNotify(o)
  BY <1>6 DEF RunNotify, Touch
<1>7. CASE SetName(o)
  BY <1>7 DEF SetName, Touch
<1>8. CASE RunEnd(o)
  BY <1>8 DEF RunEnd
<1>9. CASE join(o)
  BY <1>9 DEF join
<1>10. CASE Destroy(o)
  BY <1>10 DEF Destroy
<1>. QED
  BY <1>1, <1>2, <1>3, <1>4, <1>5, <1>6, <1>7, <1>8, <1>9, <1>10
     DEF OwnerStep, RunnerStep

\* So it holds in every reachable state.
LEMMA Invariance == Spec => []IInv
<1>1. IInv /\ [Next]_vars => IInv'
  <2>. SUFFICES ASSUME IInv, [Next]_vars PROVE IInv'
    OBVIOUS
  <2>1. CASE Next
    BY <2>1, StepIInv DEF Next
  <2>2. CASE UNCHANGED vars
    BY <2>2 DEF vars, IInv, TypeOK, ObjOK, NewOK, WaitingOK, LiveOK, GoneOK,
                BoundOK
  <2>. QED
    BY <2>1, <2>2
<1>. QED
  BY <1>1, InitIInv, PTL DEF Spec

-----------------------------------------------------------------------------

\* When Thread::Thread() returns, the id is set and the callback is with run(),
\* whoever was faster (thread.cpp:44, 54-64).
THEOREM HandshakeAlways == Spec => []Handshake
<1>1. IInv => Handshake
  BY DEF IInv, ObjOK, LiveOK, BoundOK, Handshake
<1>. QED
  BY <1>1, Invariance, PTL

\* ~Thread() leaves no joinable thread behind (thread.cpp:48-52).
THEOREM NoLeak == Spec => []NoThreadLeak
<1>1. IInv => NoThreadLeak
  BY DEF IInv, ObjOK, GoneOK, NoThreadLeak
<1>. QED
  BY <1>1, Invariance, PTL

\* run() does not use its Thread object after the object's end, except one whose
\* constructor a signal interrupted, if objects that rename themselves are
\* joined (thread.cpp:54-64).
THEOREM NeverDangling ==
  ASSUME KeepsRenamed
  PROVE  Spec => []NoDangling
<1>1. Init => NoDangling
  BY DEF Init, NoDangling
<1>2. IInv /\ NoDangling /\ [Next]_vars => NoDangling'
  <2>. SUFFICES ASSUME IInv, NoDangling, [Next]_vars PROVE NoDangling'
    OBVIOUS
  <2>. USE DEF NoDangling
  <2>1. ASSUME NEW o \in Objs, RunBind(o) \/ RunNotify(o) PROVE NoDangling'
    <3>1. owner[o] # "gone"
      BY <2>1 DEF RunBind, RunNotify, IInv, ObjOK, GoneOK
    <3>. QED
      BY <2>1, <3>1 DEF RunBind, RunNotify, Touch
  <2>2. ASSUME NEW o \in Objs, SetName(o) PROVE NoDangling'
    <3>1. owner[o] # "gone"
      BY <2>2, KeepsRenamed DEF SetName, IInv, ObjOK, GoneOK, KeepsRenamed
    <3>. QED
      BY <2>2, <3>1 DEF SetName, Touch
  <2>3. ASSUME NEW o \in Objs, RunEnd(o) PROVE NoDangling'
    BY <2>3 DEF RunEnd
  <2>4. ASSUME NEW o \in Objs, OwnerStep(o) \/ WaitInterrupted(o)
        PROVE  NoDangling'
    <3>1. dangling' = dangling /\ owner[o] # "torn"
      BY <2>4 DEF OwnerStep, Construct, ConstructFail, Wait, WaitInterrupted,
                  join, Destroy
    <3>2. \A p \in Objs \ {o} : owner'[p] = owner[p]
      BY <2>4 DEF OwnerStep, Construct, ConstructFail, Wait, WaitInterrupted,
                  join, Destroy, IInv, TypeOK
    <3>. QED
      BY <3>1, <3>2 DEF IInv, TypeOK
  <2>5. CASE UNCHANGED vars
    BY <2>5 DEF vars
  <2>. QED
    BY <2>1, <2>2, <2>3, <2>4, <2>5 DEF Next, RunnerStep
<1>. QED
  BY <1>1, <1>2, Invariance, PTL DEF Spec

=============================================================================
