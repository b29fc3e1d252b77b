------------------------------ MODULE ConfigVar ------------------------------
(***************************************************************************)
(* ConfigVar<T> (config.h): a value behind an RWMutex, and change          *)
(* listeners in a map from ids to callbacks.  setValue() holds the read    *)
(* lock while it compares and calls the listeners, releases it, and takes  *)
(* the write lock to assign; addListener() numbers listeners with a        *)
(* function-local static that all ConfigVar<T> of one T share, while each  *)
(* instance has a lock of its own.                                         *)
(*                                                                         *)
(* getValue(), toString() and getListener() only read under the read lock  *)
(* and are not actions; setValue(v) with v equal to m_val and fromString() *)
(* of a text that does not parse return without a change.                  *)
(***************************************************************************)
EXTENDS Naturals, FiniteSets, FiniteSetsExt

CONSTANTS
  Vars,         \* the ConfigVar<T> instances of one type T
  Values,       \* the values of T
  Default,      \* the default_value of the constructor
  Setters,      \* threads that call setValue() or fromString()
  Registrars,   \* threads that add and remove listeners
  Listeners,    \* the callbacks
  Throwing,     \* the callbacks that may throw
  MaxId,        \* bound on the listener ids
  Null

Callers == Setters \cup Registrars
Ids == 1..MaxId

ASSUME ConfigVarAssumption ==
  /\ Default \in Values
  /\ Null \notin Values \cup Callers \cup Vars
  /\ Throwing \subseteq Listeners
  /\ MaxId \in Nat

VARIABLES
  m_val,        \* the value of each instance
  m_cbs,        \* its map from ids to listeners
  readers,      \* RWMutex: who holds it for reading
  writer,       \* RWMutex: who holds it for writing, or Null
  s_func_id,    \* the static counter of addListener()
  pc, var,      \* where each caller is, and in which instance
  arg,          \* the value being set, or the listener being added
  todo,         \* setValue(): ids the iteration has still to visit
  reg           \* addListener(): the counter as this thread read it

vars == <<m_val, m_cbs, readers, writer, s_func_id, pc, var, arg, todo, reg>>
lockVars == <<readers, writer>>

TypeOK ==
  /\ m_val \in [Vars -> Values]
  /\ \A v \in Vars : /\ DOMAIN m_cbs[v] \subseteq Ids
                     /\ \A i \in DOMAIN m_cbs[v] : m_cbs[v][i] \in Listeners
  /\ readers \in [Vars -> SUBSET Callers]
  /\ writer \in [Vars -> Callers \cup {Null}]
  /\ s_func_id \in 0..MaxId
  /\ pc \in [Callers -> {"idle", "notify", "write", "incr", "insert"}]
  /\ var \in [Callers -> Vars \cup {Null}]
  /\ arg \in [Callers -> Values \cup Listeners \cup {Null}]
  /\ todo \in [Callers -> SUBSET Ids]
  /\ reg \in [Callers -> 0..MaxId]

Init ==
  /\ m_val = [v \in Vars |-> Default]
  /\ m_cbs = [v \in Vars |-> <<>>]
  /\ readers = [v \in Vars |-> {}]
  /\ writer = [v \in Vars |-> Null]
  /\ s_func_id = 0
  /\ pc = [c \in Callers |-> "idle"]
  /\ var = [c \in Callers |-> Null]
  /\ arg = [c \in Callers |-> Null]
  /\ todo = [c \in Callers |-> {}]
  /\ reg = [c \in Callers |-> 0]

-----------------------------------------------------------------------------

MayRead(v) == writer[v] = Null
MayWrite(v) == writer[v] = Null /\ readers[v] = {}

\* The call of c is over.
Return(c) ==
  /\ pc' = [pc EXCEPT ![c] = "idle"]
  /\ var' = [var EXCEPT ![c] = Null]
  /\ arg' = [arg EXCEPT ![c] = Null]
  /\ todo' = [todo EXCEPT ![c] = {}]
  /\ reg' = [reg EXCEPT ![c] = 0]

Unread(c) == readers' = [readers EXCEPT ![var[c]] = @ \ {c}]

\* setValue(x), also out of fromString(): read lock, x differs from m_val.
SetValue(c, v, x) ==
  /\ pc[c] = "idle"
  /\ MayRead(v)
  /\ x # m_val[v]
  /\ readers' = [readers EXCEPT ![v] = @ \cup {c}]
  /\ pc' = [pc EXCEPT ![c] = "notify"]
  /\ var' = [var EXCEPT ![c] = v]
  /\ arg' = [arg EXCEPT ![c] = x]
  /\ todo' = [todo EXCEPT ![c] = DOMAIN m_cbs[v]]
  /\ UNCHANGED <<m_val, m_cbs, writer, s_func_id, reg>>

\* One iteration over m_cbs, in the order of the ids: i.second(m_val, x).
Notify(c) ==
  /\ pc[c] = "notify"
  /\ todo[c] # {}
  /\ todo' = [todo EXCEPT ![c] = @ \ {Min(@)}]
  /\ UNCHANGED <<m_val, m_cbs, lockVars, s_func_id, pc, var, arg, reg>>

\* Mutant of NotifyThrow: the read lock is not released.
NotifyThrowLocked(c) ==
  /\ pc[c] = "notify"
  /\ todo[c] # {}
  /\ m_cbs[var[c]][Min(todo[c])] \in Throwing
  /\ Return(c)
  /\ UNCHANGED <<m_val, m_cbs, lockVars, s_func_id>>

\* The listener throws: ~ReadLockImpl() unlocks and setValue() is left.
NotifyThrow(c) ==
  /\ pc[c] = "notify"
  /\ todo[c] # {}
  /\ m_cbs[var[c]][Min(todo[c])] \in Throwing
  /\ Unread(c)
  /\ Return(c)
  /\ UNCHANGED <<m_val, m_cbs, writer, s_func_id>>

\* End of the block that holds the read lock.
NotifyDone(c) ==
  /\ pc[c] = "notify"
  /\ todo[c] = {}
  /\ Unread(c)
  /\ pc' = [pc EXCEPT ![c] = "write"]
  /\ UNCHANGED <<m_val, m_cbs, writer, s_func_id, var, arg, todo, reg>>

\* Write lock, m_val = v, unlock.
Write(c) ==
  /\ pc[c] = "write"
  /\ MayWrite(var[c])
  /\ m_val' = [m_val EXCEPT ![var[c]] = arg[c]]
  /\ Return(c)
  /\ UNCHANGED <<m_cbs, lockVars, s_func_id>>

\* Mutant of AddListener: it does not wait for readers.
AddListenerEarly(c, v, l) ==
  /\ pc[c] = "idle"
  /\ MayRead(v)
  /\ s_func_id < MaxId
  /\ writer' = [writer EXCEPT ![v] = c]
  /\ reg' = [reg EXCEPT ![c] = s_func_id]
  /\ pc' = [pc EXCEPT ![c] = "incr"]
  /\ var' = [var EXCEPT ![c] = v]
  /\ arg' = [arg EXCEPT ![c] = l]
  /\ UNCHANGED <<m_val, m_cbs, readers, s_func_id, todo>>

\* addListener(l): write lock, and the read of ++s_func_id.
AddListener(c, v, l) ==
  /\ pc[c] = "idle"
  /\ MayWrite(v)
  /\ s_func_id < MaxId
  /\ writer' = [writer EXCEPT ![v] = c]
  /\ reg' = [reg EXCEPT ![c] = s_func_id]
  /\ pc' = [pc EXCEPT ![c] = "incr"]
  /\ var' = [var EXCEPT ![c] = v]
  /\ arg' = [arg EXCEPT ![c] = l]
  /\ UNCHANGED <<m_val, m_cbs, readers, s_func_id, todo>>

\* The write of ++s_func_id.
AddIncrement(c) ==
  /\ pc[c] = "incr"
  /\ s_func_id' = reg[c] + 1
  /\ pc' = [pc EXCEPT ![c] = "insert"]
  /\ UNCHANGED <<m_val, m_cbs, lockVars, var, arg, todo, reg>>

\* m_cbs[s_func_id] = cb, unlock.  The race on the static is undefined: the
\* index is the value in the register or the one in memory.
AddInsert(c, i) ==
  /\ pc[c] = "insert"
  /\ i \in {reg[c] + 1, s_func_id}
  /\ m_cbs' = [m_cbs EXCEPT ![var[c]] =
                 [k \in DOMAIN @ \cup {i} |-> IF k = i THEN arg[c] ELSE @[k]]]
  /\ writer' = [writer EXCEPT ![var[c]] = Null]
  /\ Return(c)
  /\ UNCHANGED <<m_val, readers, s_func_id>>

\* Mutant of Erase: a read lock instead of the write lock.
EraseShared(c, v, S) ==
  /\ pc[c] = "idle"
  /\ MayRead(v)
  /\ m_cbs' = [m_cbs EXCEPT ![v] = [k \in DOMAIN @ \ S |-> @[k]]]
  /\ UNCHANGED <<m_val, lockVars, s_func_id, pc, var, arg, todo, reg>>

\* delListener(i) and clearListener(): erase ids under the write lock.
Erase(c, v, S) ==
  /\ pc[c] = "idle"
  /\ MayWrite(v)
  /\ m_cbs' = [m_cbs EXCEPT ![v] = [k \in DOMAIN @ \ S |-> @[k]]]
  /\ UNCHANGED <<m_val, lockVars, s_func_id, pc, var, arg, todo, reg>>

delListener(c, v, i) == i \in DOMAIN m_cbs[v] /\ Erase(c, v, {i})
clearListener(c, v) == DOMAIN m_cbs[v] # {} /\ Erase(c, v, Ids)

-----------------------------------------------------------------------------

\* What a call does once it has begun.
CallStep(c) ==
  \/ Notify(c) \/ NotifyThrow(c) \/ NotifyDone(c) \/ Write(c)
  \/ AddIncrement(c) \/ \E i \in Ids : AddInsert(c, i)

Next ==
  \/ \E c \in Callers : CallStep(c)
  \/ \E c \in Setters, v \in Vars, x \in Values : SetValue(c, v, x)
  \/ \E c \in Registrars, v \in Vars, l \in Listeners : AddListener(c, v, l)
  \/ \E c \in Registrars, v \in Vars, i \in Ids : delListener(c, v, i)
  \/ \E c \in Registrars, v \in Vars : clearListener(c, v)

Spec == Init /\ [][Next]_vars

-----------------------------------------------------------------------------

\* No listener is erased, added or replaced while setValue() iterates over m_cbs,
\* whatever other threads do: the loop sees the listeners that were there when it
\* took the read lock (config.h:296-301).
IterationValid ==
  [][\A c \in Callers : pc[c] = "notify" => m_cbs'[var[c]] = m_cbs[var[c]]]_vars

=============================================================================
