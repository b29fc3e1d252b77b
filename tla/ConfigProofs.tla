---------------------------- MODULE ConfigProofs ----------------------------
(***************************************************************************)
(* Theorems about ConfigVar and Config, for any number of variables,       *)
(* threads, listeners, listener ids, names and documents.  The steps of a  *)
(* ConfigVar are treated once, for variables that are used alone (Spec)    *)
(* and for those of a registry (ConfigSpec), which have values of several  *)
(* types and get listeners on some of them only.                           *)
(*                                                                         *)
(* The second half is about LoadFromYaml(): first, without any state, that *)
(* ListAllMember() lists the nodes of a document in their order, with none *)
(* of a refused name, so that the last in the list that can be converted   *)
(* is the last in the document; then that the threads, whatever they do    *)
(* meanwhile, leave alone what a loading thread has set so far.            *)
(***************************************************************************)
EXTENDS Config, SequenceLemmas, TLAPS

\* The types of the variables of ConfigVar, whatever the values are.
Shape ==
  /\ \A v \in Vars : DOMAIN m_cbs[v] \subseteq Ids
  /\ readers \in [Vars -> SUBSET Callers]
  /\ writer \in [Vars -> Callers \cup {Null}]
  /\ s_func_id \in 0..MaxId
  /\ pc \in [Callers -> {"idle", "notify", "write", "incr", "insert"}]
  /\ var \in [Callers -> Vars \cup {Null}]
  /\ todo \in [Callers -> SUBSET Ids]
  /\ reg \in [Callers -> 0..MaxId]

\* What the variable and the register of a call are, by the place of the call.
ArgsOK ==
  \A c \in Callers :
    /\ pc[c] # "idle" => var[c] \in Vars
    /\ pc[c] \in {"incr", "insert"} => reg[c] < MaxId

\* The RWMutex of each variable: who is inside setValue()'s loop holds it for
\* reading, who is inside addListener() for writing, and these exclude each other.
LocksOK ==
  /\ \A c \in Callers : pc[c] = "notify" => c \in readers[var[c]]
  /\ \A c \in Callers : pc[c] \in {"incr", "insert"} => writer[var[c]] = c
  /\ \A v \in Vars : writer[v] # Null => readers[v] = {}

\* m_cbs is a function from variables to maps.
CbsOK == m_cbs = [v \in Vars |-> m_cbs[v]]

IInv == Shape /\ CbsOK /\ ArgsOK /\ LocksOK

-----------------------------------------------------------------------------

\* Init establishes the invariant.
LEMMA InitIInv == Init => IInv
<1>. SUFFICES ASSUME Init PROVE IInv
  OBVIOUS
<1>1. Shape
  BY ConfigVarAssumption DEF Init, Shape
<1>2. CbsOK
  BY DEF Init, CbsOK
<1>3. ArgsOK /\ LocksOK
  BY DEF Init, ArgsOK, LocksOK
<1>. QED
  BY <1>1, <1>2, <1>3 DEF IInv

\* setValue() up to the loop over the listeners.
LEMMA SetValueIInv ==
  ASSUME IInv, NEW c \in Callers, NEW v \in Vars, NEW x,
         SetValue(c, v, x)
  PROVE  IInv'
<1>. USE DEF IInv
<1>1. Shape'
  BY DEF SetValue, Shape
<1>2. CbsOK'
  BY DEF SetValue, CbsOK
<1>3. ArgsOK'
  BY DEF SetValue, ArgsOK, Shape
<1>4. LocksOK'
  BY DEF SetValue, LocksOK, ArgsOK, Shape, MayRead
<1>. QED
  BY <1>1, <1>2, <1>3, <1>4

\* The loop over the listeners, its end and its end by an exception, and the
\* assignment.
LEMMA SetterIInv ==
  ASSUME IInv, NEW c \in Callers,
         Notify(c) \/ NotifyThrow(c) \/ NotifyDone(c) \/ Write(c)
  PROVE  IInv'
<1>. USE ConfigVarAssumption DEF IInv, Return, Unread, lockVars
<1>1. CASE Notify(c)
  BY ZenonT(30), <1>1 DEF Notify, Shape, CbsOK, ArgsOK, LocksOK
<1>2. CASE NotifyThrow(c)
  <2>1. Shape' /\ CbsOK' /\ ArgsOK'
    BY <1>2 DEF NotifyThrow, Shape, CbsOK, ArgsOK
  <2>2. LocksOK'
    BY <1>2 DEF NotifyThrow, LocksOK, Shape, ArgsOK
  <2>. QED
    BY <2>1, <2>2
<1>3. CASE NotifyDone(c)
  <2>1. Shape' /\ CbsOK' /\ ArgsOK'
    BY <1>3 DEF NotifyDone, Shape, CbsOK, ArgsOK
  <2>2. LocksOK'
    BY <1>3 DEF NotifyDone, LocksOK, Shape, ArgsOK
  <2>. QED
    BY <2>1, <2>2
<1>4. CASE Write(c)
  <2>1. Shape' /\ CbsOK' /\ ArgsOK'
    BY <1>4 DEF Write, Shape, CbsOK, ArgsOK
  <2>2. LocksOK'
    BY <1>4 DEF Write, LocksOK, Shape, ArgsOK
  <2>. QED
    BY <2>1, <2>2
<1>. QED
  BY <1>1, <1>2, <1>3, <1>4

\* addListener(): the lock and the two halves of ++s_func_id.
LEMMA AddIInv ==
  ASSUME IInv, NEW c \in Callers, NEW v \in Vars, NEW l,
         AddListener(c, v, l) \/ AddIncrement(c)
  PROVE  IInv'
<1>. USE ConfigVarAssumption DEF IInv, lockVars
<1>1. CASE AddListener(c, v, l)
  <2>1. Shape' /\ CbsOK' /\ ArgsOK'
    BY <1>1 DEF AddListener, Shape, CbsOK, ArgsOK
  <2>2. LocksOK'
    BY <1>1 DEF AddListener, LocksOK, Shape, ArgsOK, MayWrite
  <2>. QED
    BY <2>1, <2>2
<1>2. CASE AddIncrement(c)
  <2>1. reg[c] + 1 \in 0..MaxId
    BY <1>2 DEF AddIncrement, Shape, ArgsOK
  <2>2. Shape'
    BY <1>2, <2>1 DEF AddIncrement, Shape
  <2>3. CbsOK' /\ ArgsOK' /\ LocksOK'
    BY <1>2 DEF AddIncrement, CbsOK, ArgsOK, LocksOK, Shape
  <2>. QED
    BY <2>2, <2>3
<1>. QED
  BY <1>1, <1>2

\* addListener(): the insertion.
LEMMA InsertIInv ==
  ASSUME IInv, NEW c \in Callers, NEW i \in Ids, AddInsert(c, i)
  PROVE  IInv'
<1>. USE DEF IInv, Return
<1>. DEFINE v == var[c]
<1>1. v \in Vars /\ writer[v] = c /\ readers[v] = {}
  BY ConfigVarAssumption DEF AddInsert, ArgsOK, LocksOK, Shape
<1>2. /\ m_cbs'[v] = [k \in DOMAIN m_cbs[v] \cup {i} |->
                        IF k = i THEN arg[c] ELSE m_cbs[v][k]]
      /\ \A u \in Vars \ {v} : m_cbs'[u] = m_cbs[u]
  BY <1>1 DEF AddInsert, CbsOK
<1>3. CbsOK'
  BY DEF AddInsert, CbsOK
<1>4. \A u \in Vars : DOMAIN m_cbs'[u] \subseteq Ids
  BY <1>1, <1>2 DEF Shape
<1>5. Shape'
  <2>1. reg' \in [Callers -> 0..MaxId] /\ writer' \in [Vars -> Callers \cup {Null}]
    BY <1>1, ConfigVarAssumption DEF AddInsert, Shape
  <2>2. /\ pc' \in [Callers -> {"idle", "notify", "write", "incr", "insert"}]
        /\ var' \in [Callers -> Vars \cup {Null}]
        /\ todo' \in [Callers -> SUBSET Ids]
    BY DEF AddInsert, Shape
  <2>3. UNCHANGED <<readers, s_func_id>>
    BY DEF AddInsert
  <2>. QED
    BY <1>4, <2>1, <2>2, <2>3 DEF Shape
<1>6. ArgsOK'
  BY DEF AddInsert, ArgsOK, Shape
<1>7. LocksOK'
  BY <1>1 DEF AddInsert, LocksOK, Shape, ArgsOK
<1>. QED
  BY <1>3, <1>5, <1>6, <1>7

\* delListener() and clearListener().
LEMMA EraseIInv ==
  ASSUME IInv, NEW c \in Callers, NEW v \in Vars, NEW S, Erase(c, v, S)
  PROVE  IInv'
<1>. USE DEF IInv, lockVars
<1>1. /\ m_cbs'[v] = [k \in DOMAIN m_cbs[v] \ S |-> m_cbs[v][k]]
      /\ \A u \in Vars \ {v} : m_cbs'[u] = m_cbs[u]
  BY DEF Erase, CbsOK
<1>2. CbsOK'
  BY DEF Erase, CbsOK
<1>3. \A u \in Vars : DOMAIN m_cbs'[u] \subseteq Ids
  BY <1>1 DEF Shape
<1>4. Shape' /\ ArgsOK' /\ LocksOK'
  BY <1>3 DEF Erase, Shape, ArgsOK, LocksOK
<1>. QED
  BY <1>2, <1>4

\* Lookup() gives a new object the default: only m_val changes.
Made(v) ==
  /\ \E x : m_val' = [m_val EXCEPT ![v] = x]
  /\ UNCHANGED <<m_cbs, readers, writer, s_func_id, pc, var, arg, todo, reg>>

\* A step of caller c in a ConfigVar, with listeners for the variables in L only.
VarChange(L, c) ==
  \/ CallStep(c)
  \/ \E v \in Vars : \E x : SetValue(c, v, x)
  \/ \E v \in L, l \in Listeners : AddListener(c, v, l)
  \/ \E v \in Vars : \E S : Erase(c, v, S)
  \/ \E v \in Vars : Made(v)

\* Every such step preserves it.
LEMMA ChangeIInv ==
  ASSUME IInv, NEW L \in SUBSET Vars, NEW c \in Callers,
         VarChange(L, c) \/ UNCHANGED vars
  PROVE  IInv'
<1>1. CASE CallStep(c)
  <2>1. ASSUME AddIncrement(c) PROVE IInv'
    <3>1. var[c] \in Vars
      BY <2>1 DEF AddIncrement, IInv, ArgsOK
    <3>. QED
      BY <2>1, <3>1, AddIInv
  <2>. QED
    BY <1>1, <2>1, SetterIInv, InsertIInv DEF CallStep
<1>2. ASSUME NEW v \in Vars, NEW x, SetValue(c, v, x) PROVE IInv'
  BY <1>2, SetValueIInv
<1>3. ASSUME NEW v \in L, NEW l \in Listeners, AddListener(c, v, l) PROVE IInv'
  BY <1>3, AddIInv
<1>4. ASSUME NEW v \in Vars, NEW S, Erase(c, v, S) PROVE IInv'
  BY <1>4, EraseIInv
<1>5. ASSUME NEW v \in Vars, Made(v) PROVE IInv'
  BY <1>5 DEF Made, IInv, Shape, CbsOK, ArgsOK, LocksOK
<1>6. CASE UNCHANGED vars
  BY <1>6 DEF vars, IInv, Shape, CbsOK, ArgsOK, LocksOK
<1>. QED
  BY <1>1, <1>2, <1>3, <1>4, <1>5, <1>6 DEF VarChange

-----------------------------------------------------------------------------

\* While a caller is in setValue()'s loop nobody changes the listeners of its
\* variable: who does holds the write lock.
LEMMA IterationStep ==
  ASSUME IInv, NEW L \in SUBSET Vars, NEW d \in Callers,
         VarChange(L, d) \/ UNCHANGED vars, NEW c \in Callers, pc[c] = "notify"
  PROVE  m_cbs'[var[c]] = m_cbs[var[c]]
<1>. USE DEF IInv
<1>1. var[c] \in Vars /\ c \in readers[var[c]] /\ writer[var[c]] = Null
  BY ConfigVarAssumption DEF ArgsOK, LocksOK, Shape
<1>2. ASSUME NEW i \in Ids, AddInsert(d, i) PROVE m_cbs'[var[c]] = m_cbs[var[c]]
  <2>1. writer[var[d]] = d /\ d # Null
    BY <1>2, ConfigVarAssumption DEF AddInsert, LocksOK
  <2>. QED
    BY <1>1, <1>2, <2>1 DEF AddInsert, CbsOK
<1>3. ASSUME NEW v \in Vars, NEW S, Erase(d, v, S)
      PROVE  m_cbs'[var[c]] = m_cbs[var[c]]
  BY <1>1, <1>3 DEF Erase, MayWrite, CbsOK
<1>4. ASSUME \/ Notify(d) \/ NotifyThrow(d) \/ NotifyDone(d) \/ Write(d)
             \/ AddIncrement(d) \/ UNCHANGED vars
      PROVE  m_cbs'[var[c]] = m_cbs[var[c]]
  BY <1>4 DEF Notify, NotifyThrow, NotifyDone, Write, AddIncrement, vars
<1>5. ASSUME NEW v \in Vars, NEW x, SetValue(d, v, x)
      PROVE  m_cbs'[var[c]] = m_cbs[var[c]]
  BY <1>5 DEF SetValue
<1>6. ASSUME NEW v \in L, NEW l \in Listeners, AddListener(d, v, l)
      PROVE  m_cbs'[var[c]] = m_cbs[var[c]]
  BY <1>6 DEF AddListener
<1>7. ASSUME NEW v \in Vars, Made(v) PROVE m_cbs'[var[c]] = m_cbs[var[c]]
  BY <1>7 DEF Made
<1>. QED
  BY <1>2, <1>3, <1>4, <1>5, <1>6, <1>7 DEF VarChange, CallStep

-----------------------------------------------------------------------------

\* Variables that are used alone: every step is such a step, for the listeners of
\* all variables.
LEMMA NextChange ==
  ASSUME Next
  PROVE  \E c \in Callers : VarChange(Vars, c)
BY DEF Next, VarChange, Callers, delListener, clearListener

\* So the invariant holds in every reachable state.
LEMMA Invariance == Spec => []IInv
<1>1. IInv /\ [Next]_vars => IInv'
  <2>1. IInv /\ Next => IInv'
    BY NextChange, ChangeIInv
  <2>2. ASSUME IInv, UNCHANGED vars PROVE IInv'
    BY <2>2 DEF vars, IInv, Shape, CbsOK, ArgsOK, LocksOK
  <2>. QED
    BY <2>1, <2>2
<1>. QED
  BY <1>1, InitIInv, PTL DEF Spec

\* The values of a variable, of its listeners and of the arguments.
ValuesOK ==
  /\ m_val \in [Vars -> Values]
  /\ \A v \in Vars : \A i \in DOMAIN m_cbs[v] : m_cbs[v][i] \in Listeners
  /\ arg \in [Callers -> Values \cup Listeners \cup {Null}]
  /\ \A c \in Callers : pc[c] \in {"notify", "write"} => arg[c] \in Values
  /\ \A c \in Callers : pc[c] \in {"incr", "insert"} => arg[c] \in Listeners

\* Every step preserves them: only values are set and only listeners added.
LEMMA ValuesStep ==
  ASSUME IInv, ValuesOK, [Next]_vars
  PROVE  ValuesOK'
<1>. USE ConfigVarAssumption DEF IInv, Shape, lockVars
<1>1. ASSUME NEW c \in Callers,
             Notify(c) \/ NotifyThrow(c) \/ NotifyDone(c) \/ AddIncrement(c)
      PROVE  ValuesOK'
  BY <1>1 DEF Notify, NotifyThrow, NotifyDone, AddIncrement, Return, ValuesOK
<1>2. ASSUME NEW c \in Callers, Write(c) PROVE ValuesOK'
  BY <1>2 DEF Write, Return, ValuesOK, ArgsOK
<1>3. ASSUME NEW c \in Callers, NEW i \in Ids, AddInsert(c, i) PROVE ValuesOK'
  <2>1. var[c] \in Vars /\ arg[c] \in Listeners
    BY <1>3 DEF AddInsert, ArgsOK, ValuesOK
  <2>2. \A v \in Vars : \A k \in DOMAIN m_cbs'[v] : m_cbs'[v][k] \in Listeners
    BY <1>3, <2>1 DEF AddInsert, CbsOK, ValuesOK
  <2>. QED
    BY <1>3, <2>2 DEF AddInsert, Return, ValuesOK
<1>4. ASSUME NEW c \in Callers, NEW v \in Vars, NEW x \in Values,
             SetValue(c, v, x)
      PROVE  ValuesOK'
  BY <1>4 DEF SetValue, ValuesOK
<1>5. ASSUME NEW c \in Callers, NEW v \in Vars, NEW l \in Listeners,
             AddListener(c, v, l)
      PROVE  ValuesOK'
  BY <1>5 DEF AddListener, ValuesOK
<1>6. ASSUME NEW c \in Callers, NEW v \in Vars, NEW S, Erase(c, v, S)
      PROVE  ValuesOK'
  <2>1. \A u \in Vars : \A k \in DOMAIN m_cbs'[u] : m_cbs'[u][k] \in Listeners
    BY <1>6 DEF Erase, CbsOK, ValuesOK
  <2>. QED
    BY <1>6, <2>1 DEF Erase, ValuesOK
<1>7. CASE UNCHANGED vars
  BY <1>7 DEF vars, ValuesOK
<1>. QED
  BY <1>1, <1>2, <1>3, <1>4, <1>5, <1>6, <1>7
     DEF Next, CallStep, delListener, clearListener, Callers

\* The type invariant of ConfigVar, with which its values have one type T
\* (config.h:245-340).
THEOREM TypeCorrect == Spec => []TypeOK
<1>1. Init => ValuesOK
  BY ConfigVarAssumption DEF Init, ValuesOK
<1>2. IInv /\ ValuesOK => TypeOK
  BY DEF IInv, Shape, ValuesOK, TypeOK
<1>3. IInv /\ ValuesOK /\ [Next]_vars => ValuesOK'
  BY ValuesStep
<1>. QED
  BY <1>1, <1>2, <1>3, Invariance, PTL DEF Spec

\* While setValue() iterates over the listeners, none is erased, added or replaced
\* (config.h:296-301).
THEOREM IterationAlwaysValid == Spec => IterationValid
<1>1. IInv /\ [Next]_vars =>
        [\A c \in Callers : pc[c] = "notify" => m_cbs'[var[c]] = m_cbs[var[c]]]_vars
  BY NextChange, IterationStep
<1>. QED
  BY <1>1, Invariance, PTL DEF Spec, IterationValid

-----------------------------------------------------------------------------

\* The registry: what is in s_datas and in handles are objects, and what Lookup()
\* returned is in s_datas.  An object is made once, so it has one name.
ObjectsOK ==
  /\ \A name \in DOMAIN s_datas : s_datas[name] \in Vars
  /\ \A h \in handles : h.var \in Vars
  /\ \A name \in DOMAIN s_datas : [name |-> name, var |-> s_datas[name]] \in handles
  /\ \A h, k \in handles : h.var = k.var => h.name = k.name

\* Who is inside a call, and its locks: the thread that creates is the only writer
\* of the registry, and the name is free until it is done.
PlacesOK ==
  /\ cpc \in [Callers -> {"idle", "mismatch", "create", "visit", "load", "apply"}]
  /\ DOMAIN call = Callers
  /\ \A c \in Callers : cpc[c] \in {"mismatch", "create"} => s_writer = c
  /\ \A c \in Callers : cpc[c] = "create" => call[c].name \notin DOMAIN s_datas
  /\ \A c \in Callers : cpc[c] = "apply" => call[c] \in Vars

CInv == IInv /\ ObjectsOK /\ PlacesOK /\ OneVarPerName

\* What Lookup() adds to s_datas and to handles.
LEMMA CreateAdds ==
  ASSUME NEW c, NEW v, LookupCreate(c, v), NEW name, name = call[c].name
  PROVE  /\ DOMAIN s_datas' = DOMAIN s_datas \cup {name}
         /\ s_datas'[name] = v
         /\ \A n \in DOMAIN s_datas \ {name} : s_datas'[n] = s_datas[n]
         /\ handles' = handles \cup {[name |-> name, var |-> v]}
BY DEF LookupCreate

\* Every step of Config is a step of a variable for its caller, or leaves the
\* variables alone.
LEMMA ConfigChange ==
  ASSUME ObjectsOK, PlacesOK,
         NEW c \in Callers, ConfigStep(c) \/ ClientStep(c)
  PROVE  VarChange(Listened, c) \/ UNCHANGED vars
<1>1. CASE VarStep(c)
  BY <1>1 DEF VarStep, VarChange
<1>2. ASSUME NEW v \in Vars, LookupCreate(c, v) PROVE VarChange(Listened, c)
  BY <1>2 DEF LookupCreate, VarChange, Made, lockVars
<1>3. CASE FromStringSet(c)
  BY <1>3 DEF FromStringSet, VarChange, PlacesOK, At
<1>4. CASE LookupMismatch(c) \/ VisitVar(c) \/ VisitDone(c) \/ LoadSkip(c)
           \/ LoadFound(c) \/ FromStringSame(c) \/ LoadDone(c)
  BY <1>4 DEF LookupMismatch, VisitVar, VisitDone, LoadSkip, LoadFound,
              FromStringSame, LoadDone
<1>5. CASE ClientStep(c)
  <2>1. Known \subseteq Vars
    BY DEF Known, ObjectsOK
  <2>. QED
    BY <1>5, <2>1, ConfigAssumption DEF ClientStep, Lookup, Visit, LoadFromYaml, VarChange,
                      delListener, clearListener
<1>. QED
  BY <1>1, <1>2, <1>3, <1>4, <1>5 DEF ConfigStep

\* The registry is preserved by Lookup() that creates.
LEMMA CreateCInv ==
  ASSUME CInv, NEW c \in Callers, NEW v \in Vars, LookupCreate(c, v)
  PROVE  ObjectsOK' /\ PlacesOK' /\ OneVarPerName'
<1>. DEFINE name == call[c].name
<1>1. /\ DOMAIN s_datas' = DOMAIN s_datas \cup {name}
      /\ s_datas'[name] = v
      /\ \A n \in DOMAIN s_datas \ {name} : s_datas'[n] = s_datas[n]
      /\ handles' = handles \cup {[name |-> name, var |-> v]}
  BY CreateAdds
<1>2. cpc[c] = "create" /\ s_writer = c /\ name \notin DOMAIN s_datas
  BY DEF LookupCreate, At, CInv, PlacesOK
<1>3. \A h \in handles : h.var # v
  BY DEF LookupCreate, Unmade, Known
<1>. HIDE DEF name
<1>4. ObjectsOK'
  BY <1>1, <1>2, <1>3 DEF CInv, ObjectsOK
<1>5. OneVarPerName'
  BY <1>1, <1>2 DEF CInv, OneVarPerName
<1>6. PlacesOK'
  <2>1. \A d \in Callers \ {c} : cpc[d] \notin {"mismatch", "create"}
    BY <1>2 DEF CInv, PlacesOK
  <2>2. cpc' = [cpc EXCEPT ![c] = "idle"] /\ call' = [call EXCEPT ![c] = Null]
    BY DEF LookupCreate, Leave, GoTo
  <2>. QED
    BY <2>1, <2>2 DEF CInv, PlacesOK
<1>. QED
  BY <1>4, <1>5, <1>6

\* And by every other step: only Lookup() that creates changes s_datas.
LEMMA OtherCInv ==
  ASSUME CInv, NEW c \in Callers, ConfigStep(c) \/ ClientStep(c),
         \A v \in Vars : ~LookupCreate(c, v)
  PROVE  ObjectsOK' /\ PlacesOK' /\ OneVarPerName'
<1>1. UNCHANGED <<s_datas, handles>>
  BY DEF ConfigStep, ClientStep, VarStep, LookupMismatch, VisitVar, VisitDone,
         LoadSkip, LoadFound, FromStringSame, FromStringSet, LoadDone, Lookup,
         Visit, LoadFromYaml, regVars
<1>2. ObjectsOK' /\ OneVarPerName'
  BY <1>1 DEF CInv, ObjectsOK, OneVarPerName
<1>. USE DEF CInv, PlacesOK, At, Free, GoTo, mutexVars, loadVars
<1>3. CASE VarStep(c)
  BY <1>1, <1>2, <1>3 DEF VarStep
<1>4. CASE LookupMismatch(c) \/ VisitDone(c)
  BY <1>1, <1>2, <1>4 DEF LookupMismatch, VisitDone, Leave
<1>5. CASE VisitVar(c) \/ LoadSkip(c) \/ LoadDone(c)
  BY <1>1, <1>2, <1>5 DEF VisitVar, LoadSkip, LoadDone
<1>6. CASE LoadFound(c)
  BY <1>1, <1>2, <1>6 DEF LoadFound, ObjectsOK
<1>7. CASE FromStringSame(c) \/ FromStringSet(c)
  BY <1>1, <1>2, <1>7 DEF FromStringSame, FromStringSet, Applied
<1>8. ASSUME NEW name \in Names, NEW type \in Types, NEW x,
             Lookup(c, name, type, x)
      PROVE  PlacesOK'
  BY <1>1, <1>2, <1>8, ConfigVarAssumption DEF Lookup, MayWriteDatas
<1>9. CASE Visit(c)
  BY <1>1, <1>2, <1>9 DEF Visit
<1>10. ASSUME NEW root \in Documents, LoadFromYaml(c, root) PROVE PlacesOK'
  BY <1>1, <1>2, <1>10 DEF LoadFromYaml
<1>11. CASE UNCHANGED regVars
  BY <1>1, <1>2, <1>11 DEF regVars
<1>. QED
  BY <1>2, <1>3, <1>4, <1>5, <1>6, <1>7, <1>8, <1>9, <1>10, <1>11
     DEF ConfigStep, ClientStep

\* The invariant holds in every reachable state of a program with a registry.
LEMMA ConfigInvariance == ConfigSpec => []CInv
<1>1. ConfigInit => CInv
  <2>. SUFFICES ASSUME ConfigInit PROVE CInv
    OBVIOUS
  <2>1. IInv
    BY InitIInv DEF ConfigInit
  <2>2. ObjectsOK /\ PlacesOK /\ OneVarPerName
    BY DEF ConfigInit, ObjectsOK, PlacesOK, OneVarPerName
  <2>. QED
    BY <2>1, <2>2 DEF CInv
<1>2. CInv /\ [ConfigNext]_configVars => CInv'
  <2>. SUFFICES ASSUME CInv, [ConfigNext]_configVars PROVE CInv'
    OBVIOUS
  <2>1. ASSUME NEW c \in Callers, ConfigStep(c) \/ ClientStep(c) PROVE CInv'
    <3>1. IInv'
      BY <2>1, ConfigAssumption, ConfigChange, ChangeIInv DEF CInv
    <3>2. ObjectsOK' /\ PlacesOK' /\ OneVarPerName'
      BY <2>1, CreateCInv, OtherCInv
    <3>. QED
      BY <3>1, <3>2 DEF CInv
  <2>2. CASE UNCHANGED configVars
    <3>1. UNCHANGED vars /\ UNCHANGED regVars
      BY <2>2 DEF configVars
    <3>2. IInv'
      BY <3>1 DEF vars, CInv, IInv, Shape, CbsOK, ArgsOK, LocksOK
    <3>3. ObjectsOK' /\ PlacesOK' /\ OneVarPerName'
      BY <3>1 DEF regVars, mutexVars, CInv, ObjectsOK, PlacesOK, OneVarPerName
    <3>. QED
      BY <3>2, <3>3 DEF CInv
  <2>. QED
    BY <2>1, <2>2 DEF ConfigNext
<1>. QED
  BY <1>1, <1>2, PTL DEF ConfigSpec

\* Two threads that look up one name get one variable, the one in the registry:
\* between the find and the insertion nobody else writes (config.h:348-371).
THEOREM OneVariablePerName == ConfigSpec => []OneVarPerName
<1>1. CInv => OneVarPerName
  BY DEF CInv
<1>. QED
  BY <1>1, ConfigInvariance, PTL

\* In a program with a registry too, neither a client's setValue() nor that of a
\* document has its listeners changed while it iterates (config.h:296-301).
THEOREM RegistryIterationValid == ConfigSpec => IterationValid
<1>1. CInv /\ [ConfigNext]_configVars =>
        [\A c \in Callers : pc[c] = "notify" => m_cbs'[var[c]] = m_cbs[var[c]]]_vars
  <2>. SUFFICES ASSUME CInv, ConfigNext, vars' # vars,
                       NEW c \in Callers, pc[c] = "notify"
                PROVE  m_cbs'[var[c]] = m_cbs[var[c]]
    BY DEF configVars
  <2>. QED
    BY ConfigAssumption, ConfigChange, IterationStep DEF ConfigNext, CInv
<1>. QED
  BY <1>1, ConfigInvariance, PTL DEF ConfigSpec, IterationValid

-----------------------------------------------------------------------------
(***************************************************************************)
(* The nodes of a document.                                                *)
(***************************************************************************)

\* The node at p, if f has the nodes above.
Below(f, root, p) ==
  IF p = <<>> THEN [name |-> <<>>, node |-> root]
  ELSE LET up == f[Front(p)]
           entry == up.node.items[Last(p)]
       IN  [name |-> up.name \o entry.key, node |-> entry.value]

\* f has the nodes down to depth m.
Short(m) == {p \in Seq(Nat) : Len(p) <= m}
IsAt(f, root, m) == f = [p \in Short(m) |-> Below(f, root, p)]

\* The positions above.
LEMMA FrontOf ==
  ASSUME NEW T, NEW p, p \in Seq(T), p # <<>>
  PROVE  /\ Front(p) \in Seq(T) /\ Len(Front(p)) = Len(p) - 1 /\ Len(p) - 1 \in Nat
         /\ Last(p) \in T /\ Len(p) \in Nat \ {0}
         /\ \A k \in 1..Len(p) - 1 : Front(p)[k] = p[k]
         /\ p = Append(Front(p), Last(p))
<1>1. Len(p) \in Nat \ {0}
  BY EmptySeq
<1>2. PICK m \in Nat : m = Len(p) - 1
  BY <1>1
<1>3. \A k \in 1..m : p[k] \in T
  BY <1>1, <1>2, ElementOfSeq
<1>4. /\ Front(p) \in Seq(T) /\ Len(Front(p)) = m
      /\ \A k \in 1..m : Front(p)[k] = p[k]
  <2>1. Front(p) = SubSeq(p, 1, m)
    BY <1>2 DEF Front
  <2>2. /\ SubSeq(p, 1, m) \in Seq(T)
        /\ Len(SubSeq(p, 1, m)) = IF 1 <= m THEN m - 1 + 1 ELSE 0
        /\ \A k \in 1..m - 1 + 1 : SubSeq(p, 1, m)[k] = p[1 + k - 1]
    BY <1>3, SubSeqProperties
  <2>. QED
    BY <2>1, <2>2, <1>2
<1>5. Last(p) \in T
  BY <1>1, ElementOfSeq DEF Last
<1>6. p = Append(Front(p), Last(p))
  <2>1. PICK q \in Seq(T), e \in T : q = Front(p) /\ e = Last(p)
    BY <1>4, <1>5
  <2>2. /\ Append(q, e) \in Seq(T) /\ Len(Append(q, e)) = Len(p)
        /\ \A k \in 1..m : Append(q, e)[k] = p[k]
        /\ Append(q, e)[m + 1] = e
    BY <1>2, <1>4, <2>1, AppendProperties
  <2>3. p[m + 1] = e
    BY <1>1, <1>2, <2>1 DEF Last
  <2>4. \A k \in 1..Len(p) : Append(q, e)[k] = p[k]
    BY <1>1, <1>2, <2>2, <2>3
  <2>. QED
    BY <2>1, <2>2, <2>4, SeqEqual
<1>. QED
  BY <1>1, <1>2, <1>4, <1>5, <1>6

\* There is such an f for every depth.
LEMMA AtExists ==
  ASSUME NEW root
  PROVE  \A m \in Nat : \E f : IsAt(f, root, m)
<1>. DEFINE T == {m \in Nat : \E f : IsAt(f, root, m)}
<1>1. 0 \in T
  <2>. DEFINE f == [p \in Short(0) |-> Below(<<>>, root, p)]
  <2>1. \A p \in Short(0) : p = <<>>
    BY EmptySeq DEF Short
  <2>2. \A p \in Short(0) : Below(<<>>, root, p) = Below(f, root, p)
    BY <2>1 DEF Below
  <2>3. IsAt(f, root, 0)
    BY <2>2 DEF IsAt
  <2>. QED
    BY <2>3
<1>2. ASSUME NEW m \in T PROVE m + 1 \in T
  <2>1. PICK f : IsAt(f, root, m)
    OBVIOUS
  <2>. DEFINE g == [p \in Short(m + 1) |->
                     IF p \in Short(m) THEN f[p] ELSE Below(f, root, p)]
  <2>2. \A p \in Short(m + 1) :
          p # <<>> => Front(p) \in Short(m) /\ Front(p) \in Short(m + 1)
    BY FrontOf DEF Short
  <2>3. \A p \in Short(m) : p \in Short(m + 1) /\ f[p] = Below(f, root, p)
    BY <2>1 DEF IsAt, Short
  <2>4. \A p \in Short(m + 1) : g[p] = Below(f, root, p)
    BY <2>3
  <2>5. \A p \in Short(m + 1) : p # <<>> => g[Front(p)] = f[Front(p)]
    BY <2>2
  <2>. HIDE DEF g
  <2>6. \A p \in Short(m + 1) : Below(f, root, p) = Below(g, root, p)
    BY <2>5 DEF Below
  <2>7. g = [p \in Short(m + 1) |-> Below(g, root, p)]
    <3>1. g = [p \in Short(m + 1) |-> Below(f, root, p)]
      BY <2>4 DEF g
    <3>. QED
      BY <2>6, <3>1
  <2>8. IsAt(g, root, m + 1)
    BY <2>7 DEF IsAt
  <2>. QED
    BY <2>8
<1>. QED
  BY <1>1, <1>2, SetInduction

\* Its values.
LEMMA AtValues ==
  ASSUME NEW f, NEW root, NEW m, IsAt(f, root, m)
  PROVE  \A p \in Short(m) : f[p] = Below(f, root, p)
BY DEF IsAt

\* Two functions on S agree up to length k.
Agree(f, g, S, k) == \A p \in S : Len(p) <= k => f[p] = g[p]

\* Any two of them agree.
LEMMA AtAgree ==
  ASSUME NEW root, NEW m \in Nat, NEW n \in Nat, NEW f, NEW g,
         IsAt(f, root, m), IsAt(g, root, n)
  PROVE  \A p \in Short(m) \cap Short(n) : f[p] = g[p]
<1>. DEFINE S == Short(m) \cap Short(n)
            T == {k \in Nat : Agree(f, g, S, k)}
<1>0. \A p \in S : f[p] = Below(f, root, p) /\ g[p] = Below(g, root, p)
  <2>1. \A p \in Short(m) : f[p] = Below(f, root, p)
    BY AtValues
  <2>2. \A p \in Short(n) : g[p] = Below(g, root, p)
    BY AtValues
  <2>. QED
    BY <2>1, <2>2
<1>1. 0 \in T
  <2>1. \A p \in Short(m) : Len(p) <= 0 => p = <<>>
    BY EmptySeq DEF Short
  <2>2. \A p \in S : Len(p) <= 0 => f[p] = g[p]
    BY <1>0, <2>1 DEF Below
  <2>3. Agree(f, g, S, 0)
    BY <2>2 DEF Agree
  <2>. QED
    BY <2>3
<1>2. ASSUME NEW k \in T PROVE k + 1 \in T
  <2>1. ASSUME NEW p \in Short(m) \cap Short(n), Len(p) <= k + 1, p # <<>>
        PROVE  f[p] = g[p]
    <3>1. Front(p) \in Short(m) \cap Short(n) /\ Len(Front(p)) <= k
      BY <2>1, FrontOf DEF Short
    <3>2. f[Front(p)] = g[Front(p)]
      BY <3>1 DEF Agree
    <3>. QED
      BY <1>0, <2>1, <3>2 DEF Below
  <2>2. ASSUME NEW p \in Short(m) \cap Short(n), p = <<>>
        PROVE  f[p] = g[p]
    BY <1>0, <2>2 DEF Below
  <2>3. Agree(f, g, S, k + 1)
    BY <2>1, <2>2 DEF Agree
  <2>. QED
    BY <2>3
<1>3. T = Nat
  <2>. HIDE DEF T
  <2>. QED
    BY <1>1, <1>2, SetInduction DEF T
<1>4. ASSUME NEW p \in Short(m) \cap Short(n) PROVE f[p] = g[p]
  <2>1. Len(p) \in Nat
    BY DEF Short
  <2>2. PICK k \in Nat : k = Len(p) /\ Len(p) <= k
    BY <2>1
  <2>3. Agree(f, g, S, k)
    BY <1>3
  <2>. QED
    BY <2>2, <2>3 DEF Agree
<1>. QED
  BY <1>4

\* So NodeAt(root) has all nodes.
LEMMA NodeAtIs ==
  ASSUME NEW root
  PROVE  \A p \in Seq(Nat) : NodeAt(root)[p] = Below(NodeAt(root), root, p)
<1>. DEFINE F(m) == CHOOSE f : IsAt(f, root, m)
            h == [p \in Seq(Nat) |-> F(Len(p))[p]]
<1>1. \A m \in Nat : IsAt(F(m), root, m)
  BY AtExists
<1>. HIDE DEF F
<1>2. ASSUME NEW p \in Seq(Nat) PROVE h[p] = Below(h, root, p)
  <2>1. Len(p) \in Nat /\ p \in Short(Len(p))
    BY DEF Short
  <2>2. h[p] = Below(F(Len(p)), root, p)
    BY <1>1, <2>1, AtValues
  <2>3. CASE p = <<>>
    BY <2>2, <2>3 DEF Below
  <2>4. CASE p # <<>>
    <3>1. PICK m \in Nat : m = Len(p)
      BY <2>1
    <3>2. PICK q \in Seq(Nat) : q = Front(p) /\ Len(q) = m - 1 /\ m - 1 \in Nat
      BY <2>4, <3>1, FrontOf
    <3>3. PICK n \in Nat : n = Len(q) /\ n <= m
      BY <3>1, <3>2
    <3>4. q \in Short(m) /\ q \in Short(n)
      BY <3>2, <3>3 DEF Short
    <3>5. F(n)[q] = F(m)[q]
      BY <1>1, <3>4, AtAgree
    <3>6. h[q] = F(m)[q]
      BY <3>3, <3>5
    <3>. HIDE DEF h
    <3>. QED
      BY <2>2, <2>4, <3>1, <3>2, <3>6 DEF Below
  <2>. QED
    BY <2>3, <2>4
<1>3. h = [p \in Seq(Nat) |-> Below(h, root, p)]
  BY <1>2
<1>. HIDE DEF h
<1>4. NodeAt(root) = [p \in Seq(Nat) |-> Below(NodeAt(root), root, p)]
  <2>1. \E at : at = [p \in Seq(Nat) |-> Below(at, root, p)]
    BY <1>3
  <2>2. NodeAt(root) = CHOOSE at : at = [p \in Seq(Nat) |-> Below(at, root, p)]
    BY DEF NodeAt, Below
  <2>. QED
    BY <2>1, <2>2
<1>. HIDE DEF NodeAt
<1>5. PICK at : at = NodeAt(root)
  OBVIOUS
<1>6. at = [p \in Seq(Nat) |-> Below(at, root, p)]
  BY <1>4, <1>5
<1>7. \A p \in Seq(Nat) : at[p] = Below(at, root, p)
  BY <1>6
<1>. QED
  BY <1>5, <1>7

-----------------------------------------------------------------------------
(***************************************************************************)
(* The paths of a document.                                                *)
(***************************************************************************)

ChildrenAt(root, p) == Children(NodeAt(root)[p].node)

\* A path is a sequence of positions, each of a child of the node above.
LEMMA PathType ==
  ASSUME NEW root, NEW p \in Paths(root)
  PROVE  /\ p \in Seq(Nat) /\ p \in Seq(1..MaxItems)
         /\ Len(p) \in Nat /\ Len(p) <= MaxDepth
         /\ DOMAIN p = 1..Len(p)
         /\ \A k \in 1..Len(p) : p[k] \in ChildrenAt(root, SubSeq(p, 1, k - 1))
<1>1. PICK m \in 0..MaxDepth : p \in [1..m -> 1..MaxItems]
  BY DocumentsAssumption DEF Paths, BoundedSeq, SeqOf
<1>2. p \in Seq(1..MaxItems) /\ Len(p) = m /\ m \in Nat /\ m <= MaxDepth
  BY <1>1, DocumentsAssumption
<1>3. p \in Seq(Nat)
  BY <1>2, SeqMonotonic, 1..MaxItems \subseteq Nat
<1>4. \A k \in DOMAIN p : p[k] \in ChildrenAt(root, SubSeq(p, 1, k - 1))
  BY DEF Paths, ChildrenAt
<1>. QED
  BY <1>1, <1>2, <1>3, <1>4

\* And such a sequence is a path.
LEMMA IsPath ==
  ASSUME NEW root, NEW p \in Seq(1..MaxItems), Len(p) <= MaxDepth,
         \A k \in 1..Len(p) : p[k] \in ChildrenAt(root, SubSeq(p, 1, k - 1))
  PROVE  p \in Paths(root)
<1>1. PICK m \in 0..MaxDepth : m = Len(p) /\ p \in [1..m -> 1..MaxItems]
  BY DocumentsAssumption, LenProperties
<1>2. p \in BoundedSeq(1..MaxItems, MaxDepth)
  BY <1>1 DEF BoundedSeq, SeqOf
<1>3. \A k \in DOMAIN p : p[k] \in Children(NodeAt(root)[SubSeq(p, 1, k - 1)].node)
  BY <1>1 DEF ChildrenAt
<1>. QED
  BY <1>2, <1>3 DEF Paths

\* The path of the root.
LEMMA RootPath == ASSUME NEW root PROVE <<>> \in Paths(root)
<1>1. PICK p \in Seq(1..MaxItems) : p = <<>> /\ Len(p) = 0
  BY EmptySeq
<1>2. \A k \in 1..Len(p) : p[k] \in ChildrenAt(root, SubSeq(p, 1, k - 1))
  BY <1>1
<1>3. Len(p) <= MaxDepth
  BY <1>1, DocumentsAssumption
<1>. QED
  BY <1>1, <1>2, <1>3, IsPath

\* A node has finitely many children, and none at the bound.
LEMMA ChildrenOf ==
  ASSUME NEW root \in Documents, NEW p \in Paths(root)
  PROVE  \E m \in Nat : /\ ChildrenAt(root, p) = 1..m
                        /\ m <= MaxItems
                        /\ Len(p) >= MaxDepth => m = 0
<1>. DEFINE node == NodeAt(root)[p].node
<1>0. Len(p) \in Nat
  BY PathType
<1>1. CASE node.kind = "map"
  <2>1. /\ IsList(node.items)
        /\ Len(node.items) <= IF Len(p) < MaxDepth THEN MaxItems ELSE 0
    BY <1>1, DocumentsAssumption
  <2>2. PICK m \in Nat : DOMAIN node.items = 1..m /\ Len(node.items) = m
    BY <2>1, LenProperties DEF IsList
  <2>. QED
    BY <1>0, <1>1, <2>1, <2>2, DocumentsAssumption DEF ChildrenAt, Children
<1>2. CASE node.kind # "map"
  <2>1. ChildrenAt(root, p) = 1..0
    BY <1>2 DEF ChildrenAt, Children
  <2>. QED
    BY <2>1, DocumentsAssumption
<1>. QED
  BY <1>1, <1>2

\* The beginning of a path.
LEMMA PrefixOf ==
  ASSUME NEW T, NEW p \in Seq(T), NEW k \in 0..Len(p)
  PROVE  /\ SubSeq(p, 1, k) \in Seq(T) /\ Len(SubSeq(p, 1, k)) = k
         /\ \A j \in 1..k : SubSeq(p, 1, k)[j] = p[j]
<1>1. \A j \in 1..k : p[j] \in T
  BY ElementOfSeq
<1>2. /\ SubSeq(p, 1, k) \in Seq(T)
      /\ Len(SubSeq(p, 1, k)) = IF 1 <= k THEN k - 1 + 1 ELSE 0
      /\ \A j \in 1..k - 1 + 1 : SubSeq(p, 1, k)[j] = p[1 + j - 1]
  BY <1>1, SubSeqProperties
<1>. QED
  BY <1>2

\* Two beginnings that agree are the same.
LEMMA SamePrefix ==
  ASSUME NEW T, NEW p \in Seq(T), NEW q \in Seq(T), NEW k \in 0..Len(p), k <= Len(q),
         \A j \in 1..k : p[j] = q[j]
  PROVE  SubSeq(p, 1, k) = SubSeq(q, 1, k)
<1>1. k \in 0..Len(q)
  OBVIOUS
<1>2. /\ SubSeq(p, 1, k) \in Seq(T) /\ Len(SubSeq(p, 1, k)) = k
      /\ \A j \in 1..k : SubSeq(p, 1, k)[j] = p[j]
  BY PrefixOf
<1>3. /\ SubSeq(q, 1, k) \in Seq(T) /\ Len(SubSeq(q, 1, k)) = k
      /\ \A j \in 1..k : SubSeq(q, 1, k)[j] = q[j]
  BY <1>1, PrefixOf
<1>. QED
  BY <1>2, <1>3, SeqEqual

\* The whole is a beginning.
LEMMA WholePrefix ==
  ASSUME NEW T, NEW p \in Seq(T)
  PROVE  SubSeq(p, 1, Len(p)) = p
<1>1. Len(p) \in 0..Len(p)
  OBVIOUS
<1>2. /\ SubSeq(p, 1, Len(p)) \in Seq(T) /\ Len(SubSeq(p, 1, Len(p))) = Len(p)
      /\ \A j \in 1..Len(p) : SubSeq(p, 1, Len(p))[j] = p[j]
  BY <1>1, PrefixOf
<1>. QED
  BY <1>2, SeqEqual

\* The path of a child.
LEMMA ChildPath ==
  ASSUME NEW root \in Documents, NEW p \in Paths(root), NEW i \in ChildrenAt(root, p)
  PROVE  Append(p, i) \in Paths(root)
<1>1. /\ p \in Seq(1..MaxItems) /\ Len(p) \in Nat /\ Len(p) <= MaxDepth
      /\ \A k \in 1..Len(p) : p[k] \in ChildrenAt(root, SubSeq(p, 1, k - 1))
  BY PathType
<1>2. PICK m \in Nat : ChildrenAt(root, p) = 1..m /\ m <= MaxItems
                       /\ (Len(p) >= MaxDepth => m = 0)
  BY ChildrenOf
<1>3. i \in 1..MaxItems /\ Len(p) < MaxDepth
  BY <1>1, <1>2, DocumentsAssumption
<1>4. PICK n \in Nat : n = Len(p)
  BY <1>1
<1>5. PICK q : q = Append(p, i)
  OBVIOUS
<1>6. /\ q \in Seq(1..MaxItems) /\ Len(q) = n + 1
      /\ \A k \in 1..n : q[k] = p[k]
      /\ q[n + 1] = i
  BY <1>1, <1>3, <1>4, <1>5, AppendProperties
<1>7. \A k \in 1..n + 1 : SubSeq(q, 1, k - 1) = SubSeq(p, 1, k - 1)
  <2>. TAKE k \in 1..n + 1
  <2>1. PICK j \in 0..n : j = k - 1
    BY <1>4
  <2>2. j \in 0..Len(q) /\ j <= Len(p) /\ \A a \in 1..j : q[a] = p[a]
    BY <1>4, <1>6, <2>1
  <2>. QED
    BY <1>1, <1>6, <2>1, <2>2, SamePrefix
<1>8. SubSeq(p, 1, Len(p)) = p
  BY <1>1, WholePrefix
<1>9. \A k \in 1..n + 1 : q[k] \in ChildrenAt(root, SubSeq(q, 1, k - 1))
  <2>. TAKE k \in 1..n + 1
  <2>1. CASE k \in 1..n
    BY <1>1, <1>4, <1>6, <1>7, <2>1
  <2>2. CASE k = n + 1
    <3>1. SubSeq(q, 1, k - 1) = SubSeq(p, 1, k - 1) /\ k - 1 = n
      BY <1>4, <1>7, <2>2
    <3>2. SubSeq(q, 1, k - 1) = p
      BY <1>4, <1>8, <3>1
    <3>. QED
      BY <1>6, <2>2, <3>2
  <2>. QED
    BY <2>1, <2>2
<1>10. \A k \in 1..Len(q) : q[k] \in ChildrenAt(root, SubSeq(q, 1, k - 1))
  BY <1>6, <1>9
<1>11. Len(q) <= MaxDepth
  BY <1>3, <1>4, <1>6, DocumentsAssumption
<1>. QED
  BY <1>5, <1>6, <1>10, <1>11, IsPath

\* The path above.
LEMMA PrefixPath ==
  ASSUME NEW root \in Documents, NEW p \in Paths(root), NEW k \in 0..Len(p)
  PROVE  SubSeq(p, 1, k) \in Paths(root)
<1>1. /\ p \in Seq(1..MaxItems) /\ Len(p) \in Nat /\ Len(p) <= MaxDepth
      /\ \A j \in 1..Len(p) : p[j] \in ChildrenAt(root, SubSeq(p, 1, j - 1))
  BY PathType
<1>2. PICK q : q = SubSeq(p, 1, k)
  OBVIOUS
<1>3. q \in Seq(1..MaxItems) /\ Len(q) = k /\ \A j \in 1..k : q[j] = p[j]
  BY <1>1, <1>2, PrefixOf
<1>4. \A j \in 1..k : SubSeq(q, 1, j - 1) = SubSeq(p, 1, j - 1)
  <2>. TAKE j \in 1..k
  <2>1. PICK i \in 0..Len(q) : i = j - 1
    BY <1>3
  <2>2. i <= Len(p) /\ \A a \in 1..i : q[a] = p[a]
    BY <1>1, <1>3, <2>1
  <2>. QED
    BY <1>1, <1>3, <2>1, <2>2, SamePrefix
<1>5. \A j \in 1..Len(q) : q[j] \in ChildrenAt(root, SubSeq(q, 1, j - 1))
  <2>. TAKE j \in 1..Len(q)
  <2>1. j \in 1..k /\ j \in 1..Len(p)
    BY <1>1, <1>3
  <2>2. p[j] \in ChildrenAt(root, SubSeq(p, 1, j - 1))
    BY <1>1, <2>1
  <2>. QED
    BY <1>3, <1>4, <2>1, <2>2
<1>6. Len(q) <= MaxDepth
  BY <1>1, <1>3, DocumentsAssumption
<1>. QED
  BY <1>2, <1>3, <1>5, <1>6, IsPath

\* The node above.
LEMMA FrontPath ==
  ASSUME NEW root \in Documents, NEW q \in Paths(root), q # <<>>
  PROVE  /\ Front(q) \in Paths(root) /\ Len(Front(q)) = Len(q) - 1
         /\ Len(q) - 1 \in Nat /\ Len(q) \in Nat
         /\ Last(q) \in ChildrenAt(root, Front(q))
         /\ q = Append(Front(q), Last(q))
<1>1. q \in Seq(Nat) /\ Len(q) \in Nat
      /\ \A k \in 1..Len(q) : q[k] \in ChildrenAt(root, SubSeq(q, 1, k - 1))
  BY PathType
<1>2. /\ Len(Front(q)) = Len(q) - 1 /\ Len(q) - 1 \in Nat
      /\ q = Append(Front(q), Last(q))
  BY <1>1, FrontOf
<1>3. PICK k \in 0..Len(q) : k = Len(q) - 1
  BY <1>1, <1>2
<1>4. Front(q) = SubSeq(q, 1, k)
  BY <1>3 DEF Front
<1>5. Front(q) \in Paths(root)
  BY <1>4, PrefixPath
<1>6. Last(q) \in ChildrenAt(root, Front(q))
  <2>1. Len(q) \in 1..Len(q)
    BY <1>1, <1>2
  <2>. QED
    BY <1>1, <2>1 DEF Last, Front
<1>. QED
  BY <1>1, <1>2, <1>5, <1>6

\* The path of a child, taken apart.
LEMMA ChildParts ==
  ASSUME NEW root \in Documents, NEW p \in Paths(root), NEW i \in ChildrenAt(root, p)
  PROVE  /\ i \in Nat /\ Append(p, i) # <<>>
         /\ Front(Append(p, i)) = p /\ Last(Append(p, i)) = i
         /\ Len(Append(p, i)) = Len(p) + 1
         /\ Append(p, i)[Len(p) + 1] = i
<1>1. p \in Seq(Nat) /\ Len(p) \in Nat
  BY PathType
<1>2. i \in Nat
  BY ChildrenOf
<1>3. PICK n \in Nat : n = Len(p)
  BY <1>1
<1>4. PICK q : q = Append(p, i)
  OBVIOUS
<1>5. /\ q \in Seq(Nat) /\ Len(q) = n + 1 /\ q # <<>>
      /\ \A k \in 1..n : q[k] = p[k]
      /\ q[n + 1] = i
  BY <1>1, <1>2, <1>3, <1>4, AppendProperties
<1>6. /\ Front(q) \in Seq(Nat) /\ Len(Front(q)) = Len(q) - 1
      /\ \A k \in 1..Len(q) - 1 : Front(q)[k] = q[k]
  BY <1>5, FrontOf
<1>7. Len(Front(q)) = Len(p) /\ \A k \in 1..Len(Front(q)) : Front(q)[k] = p[k]
  BY <1>3, <1>5, <1>6
<1>8. Front(q) = p
  BY <1>1, <1>6, <1>7, SeqEqual
<1>9. Last(q) = i
  BY <1>3, <1>5 DEF Last
<1>. QED
  BY <1>2, <1>3, <1>4, <1>5, <1>8, <1>9

-----------------------------------------------------------------------------
(***************************************************************************)
(* Names.                                                                  *)
(***************************************************************************)

NameAt(root, p) == NodeAt(root)[p].name

\* Every sequence is a list.
LEMMA ListOf == ASSUME NEW T, NEW s \in Seq(T) PROVE IsList(s)
<1>1. PICK n \in Nat : DOMAIN s = 1..n /\ s = [i \in 1..n |-> s[i]]
  OBVIOUS
<1>2. s \in [1..n -> {s[i] : i \in DOMAIN s}]
  BY <1>1
<1>. QED
  BY <1>2 DEF IsList

\* A list with another one after it is a list, and begins with the first.
LEMMA ListConcat ==
  ASSUME NEW s, NEW t, IsList(s), IsList(t)
  PROVE  /\ IsList(s \o t)
         /\ \A i \in DOMAIN s : i \in DOMAIN (s \o t) /\ (s \o t)[i] = s[i]
<1>. DEFINE S == {s[i] : i \in DOMAIN s}
            T == {t[i] : i \in DOMAIN t}
            U == S \cup T
<1>1. s \in Seq(S) /\ t \in Seq(T)
  BY DEF IsList
<1>2. S \subseteq U /\ T \subseteq U
  OBVIOUS
<1>. HIDE DEF S, T, U
<1>3. s \in Seq(U) /\ t \in Seq(U)
  BY <1>1, <1>2, SeqMonotonic
<1>4. PICK m \in Nat, n \in Nat : m = Len(s) /\ n = Len(t) /\ DOMAIN s = 1..m
  BY <1>3
<1>5. PICK u : u = s \o t
  OBVIOUS
<1>6. /\ u \in Seq(U) /\ Len(u) = m + n
      /\ \A i \in 1..m + n : u[i] = IF i <= m THEN s[i] ELSE t[i - m]
  BY <1>3, <1>4, <1>5, ConcatProperties
<1>7. DOMAIN u = 1..m + n
  BY <1>6, LenProperties
<1>8. \A i \in DOMAIN s : i \in DOMAIN u /\ u[i] = s[i]
  BY <1>4, <1>6, <1>7
<1>. QED
  BY <1>5, <1>6, <1>8, ListOf

\* The name of a child is that of its parent with its key.
LEMMA NameOfChild ==
  ASSUME NEW root \in Documents, NEW p \in Paths(root), p # <<>>
  PROVE  \E key : IsList(key) /\ NameAt(root, p) = NameAt(root, Front(p)) \o key
<1>. DEFINE u == NodeAt(root)[Front(p)]
            key == u.node.items[Last(p)].key
<1>1. Front(p) \in Paths(root) /\ Last(p) \in ChildrenAt(root, Front(p))
  BY FrontPath
<1>2. u.node.kind = "map" /\ Last(p) \in DOMAIN u.node.items
  BY <1>1 DEF ChildrenAt, Children
<1>3. IsList(key)
  BY <1>1, <1>2, DocumentsAssumption
<1>4. p \in Seq(Nat)
  BY PathType
<1>5. PICK at : at = NodeAt(root) /\ at[p] = Below(at, root, p)
  BY <1>4, NodeAtIs
<1>6. at[p].name = at[Front(p)].name \o at[Front(p)].node.items[Last(p)].key
  <2>1. Below(at, root, p).name = at[Front(p)].name \o at[Front(p)].node.items[Last(p)].key
    BY Zenon DEF Below
  <2>. QED
    BY <1>5, <2>1
<1>7. NameAt(root, p) = NameAt(root, Front(p)) \o key
  BY <1>5, <1>6 DEF NameAt
<1>. HIDE DEF key
<1>. QED
  BY <1>3, <1>7

\* A name is a list.
LEMMA NameIsList ==
  ASSUME NEW root \in Documents
  PROVE  \A p \in Paths(root) : IsList(NameAt(root, p))
<1>. DEFINE T == {k \in Nat : \A p \in Paths(root) : Len(p) = k => IsList(NameAt(root, p))}
<1>1. 0 \in T
  <2>. SUFFICES ASSUME NEW p \in Paths(root), Len(p) = 0 PROVE IsList(NameAt(root, p))
    OBVIOUS
  <2>1. p = <<>> /\ p \in Seq(Nat)
    BY PathType, EmptySeq
  <2>2. PICK at : at = NodeAt(root) /\ at[p] = Below(at, root, p)
    BY <2>1, NodeAtIs
  <2>3. at[p].name = <<>>
    BY <2>1, <2>2 DEF Below
  <2>. QED
    BY <2>2, <2>3, ListOf, EmptySeq DEF NameAt
<1>2. ASSUME NEW k \in T PROVE k + 1 \in T
  <2>. SUFFICES ASSUME NEW p \in Paths(root), Len(p) = k + 1 PROVE IsList(NameAt(root, p))
    OBVIOUS
  <2>1. p # <<>>
    BY EmptySeq
  <2>2. Front(p) \in Paths(root) /\ Len(Front(p)) = k
    BY <2>1, FrontPath
  <2>3. PICK key : IsList(key) /\ NameAt(root, p) = NameAt(root, Front(p)) \o key
    BY <2>1, NameOfChild
  <2>. QED
    BY <2>2, <2>3, ListConcat
<1>3. T = Nat
  <2>. HIDE DEF T
  <2>. QED
    BY <1>1, <1>2, SetInduction DEF T
<1>. QED
  BY <1>3, PathType

\* A name that is refused stays refused further down.
LEMMA ValidFront ==
  ASSUME NEW root \in Documents, NEW p \in Paths(root), p # <<>>, Valid(NameAt(root, p))
  PROVE  Valid(NameAt(root, Front(p)))
<1>1. PICK key : IsList(key) /\ NameAt(root, p) = NameAt(root, Front(p)) \o key
  BY NameOfChild
<1>2. IsList(NameAt(root, Front(p)))
  BY FrontPath, NameIsList
<1>. QED
  BY <1>1, <1>2, ListConcat DEF Valid

-----------------------------------------------------------------------------
(***************************************************************************)
(* The node at p with everything below it.                                 *)
(***************************************************************************)

Sub(root, p) == {q \in Paths(root) : Len(p) <= Len(q) /\ SubSeq(q, 1, Len(p)) = p}

\* The positions of what is below p begin with those of p.
LEMMA SubBegins ==
  ASSUME NEW root, NEW p \in Paths(root), NEW q \in Sub(root, p)
  PROVE  /\ q \in Paths(root) /\ Len(p) \in Nat /\ Len(q) \in Nat
         /\ Len(p) <= Len(q) /\ \A j \in 1..Len(p) : q[j] = p[j]
<1>1. /\ q \in Paths(root) /\ Len(p) <= Len(q) /\ SubSeq(q, 1, Len(p)) = p
      /\ q \in Seq(Nat) /\ Len(p) \in Nat /\ Len(q) \in Nat
  BY PathType DEF Sub
<1>2. Len(p) \in 0..Len(q)
  BY <1>1
<1>3. \A j \in 1..Len(p) : SubSeq(q, 1, Len(p))[j] = q[j]
  BY <1>1, <1>2, PrefixOf
<1>. QED
  BY <1>1, <1>3

\* And what begins so is below p.
LEMMA SubIs ==
  ASSUME NEW root, NEW p \in Paths(root), NEW q \in Paths(root),
         Len(p) <= Len(q), \A j \in 1..Len(p) : q[j] = p[j]
  PROVE  q \in Sub(root, p)
<1>1. p \in Seq(Nat) /\ q \in Seq(Nat) /\ Len(p) \in Nat /\ Len(q) \in Nat
  BY PathType
<1>2. Len(p) \in 0..Len(q)
  BY <1>1
<1>3. SubSeq(q, 1, Len(p)) = SubSeq(p, 1, Len(p))
  BY <1>1, <1>2, SamePrefix
<1>4. SubSeq(p, 1, Len(p)) = p
  BY <1>1, WholePrefix
<1>. QED
  BY <1>3, <1>4 DEF Sub

\* The whole document is below the root.
LEMMA SubRoot == ASSUME NEW root PROVE Sub(root, <<>>) = Paths(root)
<1>1. Sub(root, <<>>) \subseteq Paths(root)
  BY DEF Sub
<1>2. ASSUME NEW q \in Paths(root) PROVE q \in Sub(root, <<>>)
  <2>1. PICK p \in Paths(root) : p = <<>> /\ Len(p) = 0
    BY RootPath, EmptySeq
  <2>2. Len(q) \in Nat
    BY PathType
  <2>. QED
    BY <2>1, <2>2, SubIs
<1>. QED
  BY <1>1, <1>2

\* What is below a child is below its parent.
LEMMA SubChild ==
  ASSUME NEW root \in Documents, NEW p \in Paths(root), NEW i \in ChildrenAt(root, p),
         NEW q \in Sub(root, Append(p, i))
  PROVE  /\ q \in Sub(root, p) /\ q \in Paths(root) /\ q # p
         /\ Len(p) \in Nat /\ Len(q) \in Nat /\ Len(p) < Len(q)
         /\ q[Len(p) + 1] = i
         /\ \A j \in 1..Len(p) : q[j] = p[j]
<1>1. PICK r \in Paths(root) : r = Append(p, i)
  BY ChildPath
<1>2. /\ Len(r) = Len(p) + 1 /\ r[Len(p) + 1] = i /\ Front(r) = p /\ r # <<>>
  BY <1>1, ChildParts
<1>3. r \in Seq(Nat) /\ Len(p) \in Nat
  BY PathType
<1>4. \A j \in 1..Len(p) : r[j] = p[j]
  BY <1>2, <1>3, FrontOf
<1>5. /\ q \in Paths(root) /\ Len(q) \in Nat /\ Len(r) <= Len(q)
      /\ \A j \in 1..Len(r) : q[j] = r[j]
  BY <1>1, SubBegins
<1>6. Len(p) < Len(q) /\ Len(p) <= Len(q) /\ \A j \in 1..Len(p) : q[j] = p[j]
  BY <1>2, <1>3, <1>4, <1>5
<1>7. q \in Sub(root, p)
  BY <1>5, <1>6, SubIs
<1>8. q[Len(p) + 1] = i
  BY <1>2, <1>3, <1>5
<1>9. q # p
  BY <1>3, <1>5, <1>6
<1>. QED
  BY <1>3, <1>5, <1>6, <1>7, <1>8, <1>9

\* What is below p is p or below a child.
LEMMA SubSplit ==
  ASSUME NEW root \in Documents, NEW p \in Paths(root), NEW q \in Sub(root, p), q # p
  PROVE  \E i \in ChildrenAt(root, p) : q \in Sub(root, Append(p, i))
<1>1. /\ q \in Paths(root) /\ Len(p) \in Nat /\ Len(q) \in Nat
      /\ Len(p) <= Len(q) /\ \A j \in 1..Len(p) : q[j] = p[j]
  BY SubBegins
<1>2. /\ p \in Seq(Nat) /\ q \in Seq(Nat)
      /\ \A k \in 1..Len(q) : q[k] \in ChildrenAt(root, SubSeq(q, 1, k - 1))
  BY <1>1, PathType
<1>3. Len(p) < Len(q)
  <2>. SUFFICES ASSUME Len(p) = Len(q) PROVE FALSE
    BY <1>1
  <2>1. p = q
    BY <1>1, <1>2, SeqEqual
  <2>. QED
    BY <2>1
<1>4. PICK n \in Nat : n = Len(p)
  BY <1>1
<1>5. SubSeq(q, 1, n) = p
  BY <1>4 DEF Sub
<1>6. PICK i : i = q[n + 1]
  OBVIOUS
<1>7. i \in ChildrenAt(root, p)
  <2>1. n + 1 \in 1..Len(q) /\ (n + 1) - 1 = n
    BY <1>1, <1>3, <1>4
  <2>2. q[n + 1] \in ChildrenAt(root, SubSeq(q, 1, (n + 1) - 1))
    BY <1>2, <2>1
  <2>. QED
    BY <1>5, <1>6, <2>1, <2>2
<1>8. PICK r \in Paths(root) : r = Append(p, i)
  BY <1>7, ChildPath
<1>9. Len(r) = n + 1 /\ r[n + 1] = i /\ Front(r) = p /\ r # <<>>
  BY <1>4, <1>7, <1>8, ChildParts
<1>10. r \in Seq(Nat)
  BY PathType
<1>11. \A j \in 1..n : r[j] = p[j]
  BY <1>4, <1>9, <1>10, FrontOf
<1>12. Len(r) <= Len(q) /\ \A j \in 1..Len(r) : q[j] = r[j]
  BY <1>1, <1>3, <1>4, <1>6, <1>9, <1>11
<1>13. q \in Sub(root, r)
  BY <1>1, <1>12, SubIs
<1>. QED
  BY <1>7, <1>8, <1>13

\* A node comes before what is below it.
LEMMA BeforeBelow ==
  ASSUME NEW root \in Documents, NEW p \in Paths(root), NEW i \in ChildrenAt(root, p),
         NEW q \in Sub(root, Append(p, i))
  PROVE  Before(p, q)
<1>1. q \in Sub(root, p) /\ Len(p) < Len(q)
  BY SubChild
<1>. QED
  BY <1>1 DEF Sub, Before

\* And what is below a child before what is below a later one.
LEMMA BeforeSibling ==
  ASSUME NEW root \in Documents, NEW p \in Paths(root),
         NEW i \in ChildrenAt(root, p), NEW j \in ChildrenAt(root, p), i < j,
         NEW q \in Sub(root, Append(p, i)), NEW r \in Sub(root, Append(p, j))
  PROVE  Before(q, r) /\ q # r
<1>1. /\ q \in Paths(root) /\ Len(p) \in Nat /\ Len(q) \in Nat /\ Len(p) < Len(q)
      /\ q[Len(p) + 1] = i /\ \A k \in 1..Len(p) : q[k] = p[k]
  BY SubChild
<1>2. /\ r \in Paths(root) /\ Len(r) \in Nat /\ Len(p) < Len(r)
      /\ r[Len(p) + 1] = j /\ \A k \in 1..Len(p) : r[k] = p[k]
  BY SubChild
<1>3. DOMAIN q = 1..Len(q) /\ DOMAIN r = 1..Len(r)
  BY <1>1, <1>2, PathType
<1>4. PICK n \in Nat : n = Len(p) + 1
  BY <1>1
<1>5. n \in DOMAIN q \cap DOMAIN r /\ q[n] < r[n]
  BY <1>1, <1>2, <1>3, <1>4
<1>6. \A k \in 1..(n - 1) : q[k] = r[k]
  BY <1>1, <1>2, <1>4
<1>7. q # r
  <2>1. i \in Nat /\ j \in Nat
    BY ChildParts
  <2>. QED
    BY <1>1, <1>2, <2>1
<1>. QED
  BY <1>5, <1>6, <1>7 DEF Before

\* If the name at p is refused, so are those below.
LEMMA ValidSub ==
  ASSUME NEW root \in Documents, NEW p \in Paths(root), NEW q \in Sub(root, p),
         Valid(NameAt(root, q))
  PROVE  Valid(NameAt(root, p))
<1>. DEFINE T == {k \in Nat : \A r \in Sub(root, p) :
                    Len(r) = Len(p) + k /\ Valid(NameAt(root, r)) => Valid(NameAt(root, p))}
<1>0. Len(p) \in Nat
  BY PathType
<1>1. 0 \in T
  <2>. SUFFICES ASSUME NEW r \in Sub(root, p), Len(r) = Len(p) + 0 PROVE r = p
    OBVIOUS
  <2>1. r \in Paths(root) /\ Len(r) = Len(p) /\ \A j \in 1..Len(p) : r[j] = p[j]
    BY <1>0, SubBegins
  <2>2. r \in Seq(Nat) /\ p \in Seq(Nat)
    BY <2>1, PathType
  <2>. QED
    BY <2>1, <2>2, SeqEqual
<1>2. ASSUME NEW k \in T PROVE k + 1 \in T
  <2>. SUFFICES ASSUME NEW r \in Sub(root, p), Len(r) = Len(p) + (k + 1),
                       Valid(NameAt(root, r))
                PROVE  Valid(NameAt(root, p))
    OBVIOUS
  <2>1. /\ r \in Paths(root) /\ Len(r) \in Nat
        /\ \A j \in 1..Len(p) : r[j] = p[j]
    BY SubBegins
  <2>2. r \in Seq(Nat) /\ r # <<>>
    BY <1>0, <2>1, PathType, EmptySeq
  <2>3. PICK u \in Paths(root) : u = Front(r) /\ Len(u) = Len(r) - 1
    BY <2>1, <2>2, FrontPath
  <2>4. \A j \in 1..Len(p) : u[j] = p[j]
    <3>1. \A j \in 1..Len(r) - 1 : u[j] = r[j]
      BY <2>2, <2>3, FrontOf
    <3>. QED
      BY <1>0, <2>1, <3>1
  <2>5. Len(u) = Len(p) + k /\ Len(p) <= Len(u)
    BY <1>0, <2>3
  <2>6. u \in Sub(root, p)
    BY <2>4, <2>5, SubIs
  <2>7. Valid(NameAt(root, u))
    BY <2>1, <2>2, <2>3, ValidFront
  <2>. QED
    BY <2>5, <2>6, <2>7
<1>3. T = Nat
  <2>. HIDE DEF T
  <2>. QED
    BY <1>1, <1>2, SetInduction DEF T
<1>4. /\ Len(q) \in Nat /\ Len(p) <= Len(q)
  BY SubBegins
<1>5. PICK k \in Nat : Len(q) = Len(p) + k
  <2>1. Len(q) - Len(p) \in Nat /\ Len(q) = Len(p) + (Len(q) - Len(p))
    BY <1>0, <1>4
  <2>. QED
    BY <2>1
<1>. QED
  BY <1>3, <1>5

-----------------------------------------------------------------------------
(***************************************************************************)
(* ListAllMember(): its recursion has an answer for every path.            *)
(***************************************************************************)

Body(root, f, p) ==
  IF ~Valid(NodeAt(root)[p].name) THEN <<>>
  ELSE <<NodeAt(root)[p]>> \o
       FlattenSeq([i \in Children(NodeAt(root)[p].node) |-> f[Append(p, i)]])

\* The answers for the paths that are at most m above the bound.
Deep(root, m) == {p \in Paths(root) : MaxDepth <= Len(p) + m}
IsListing(f, root, m) == f = [p \in Deep(root, m) |-> Body(root, f, p)]

\* They only need those of the children.
LEMMA SameBody ==
  ASSUME NEW root, NEW p, NEW f, NEW g,
         \A i \in ChildrenAt(root, p) : f[Append(p, i)] = g[Append(p, i)]
  PROVE  Body(root, f, p) = Body(root, g, p)
<1>1. [i \in Children(NodeAt(root)[p].node) |-> f[Append(p, i)]]
        = [i \in Children(NodeAt(root)[p].node) |-> g[Append(p, i)]]
  BY DEF ChildrenAt
<1>. QED
  BY <1>1, Zenon DEF Body

\* There are such answers for every m: the children of a path are one less above.
LEMMA ListingExists ==
  ASSUME NEW root \in Documents
  PROVE  \A m \in Nat : \E f : IsListing(f, root, m)
<1>. DEFINE T == {m \in Nat : \E f : IsListing(f, root, m)}
<1>1. 0 \in T
  <2>. DEFINE f == [p \in Deep(root, 0) |-> Body(root, <<>>, p)]
  <2>1. ASSUME NEW p \in Deep(root, 0) PROVE Body(root, <<>>, p) = Body(root, f, p)
    <3>1. p \in Paths(root) /\ Len(p) >= MaxDepth
      BY PathType, DocumentsAssumption DEF Deep
    <3>2. \A i \in ChildrenAt(root, p) : FALSE
      BY <3>1, ChildrenOf
    <3>. QED
      BY <3>2, SameBody
  <2>. DEFINE h == [p \in Deep(root, 0) |-> Body(root, f, p)]
  <2>2. f = h
    BY <2>1
  <2>3. IsListing(f, root, 0)
    BY <2>2, Zenon DEF IsListing
  <2>. QED
    BY <2>3
<1>2. ASSUME NEW m \in T PROVE m + 1 \in T
  <2>1. PICK f : IsListing(f, root, m)
    OBVIOUS
  <2>. DEFINE D == Deep(root, m + 1)
              g == [p \in D |-> IF p \in Deep(root, m) THEN f[p] ELSE Body(root, f, p)]
  <2>2. \A p \in Deep(root, m) : p \in D /\ f[p] = Body(root, f, p)
    <3>1. \A p \in Deep(root, m) : p \in D
      BY PathType, DocumentsAssumption DEF Deep
    <3>. QED
      BY <2>1, <3>1 DEF IsListing
  <2>3. \A p \in D : g[p] = Body(root, f, p)
    BY <2>2
  <2>4. ASSUME NEW p \in D PROVE Body(root, f, p) = Body(root, g, p)
    <3>1. ASSUME NEW i \in ChildrenAt(root, p) PROVE f[Append(p, i)] = g[Append(p, i)]
      <4>1. p \in Paths(root) /\ MaxDepth <= Len(p) + (m + 1) /\ Len(p) \in Nat
        BY PathType DEF Deep
      <4>2. Append(p, i) \in Paths(root) /\ Len(Append(p, i)) = Len(p) + 1
        BY <4>1, ChildPath, ChildParts
      <4>3. Append(p, i) \in Deep(root, m)
        BY <4>1, <4>2, DocumentsAssumption DEF Deep
      <4>. QED
        BY <2>2, <4>3
    <3>. QED
      BY <3>1, SameBody
  <2>. HIDE DEF g
  <2>5. \A p \in D : g[p] = Body(root, g, p)
    BY <2>3, <2>4
  <2>. DEFINE h == [p \in D |-> Body(root, g, p)]
  <2>6. g = h
    BY <2>5 DEF g
  <2>7. IsListing(g, root, m + 1)
    BY <2>6, Zenon DEF IsListing
  <2>. QED
    BY <2>7
<1>. QED
  BY <1>1, <1>2, SetInduction

\* So ListAllMember() is the answer for the root.
LEMMA ListAllMemberIs ==
  ASSUME NEW root \in Documents
  PROVE  \E f : /\ \A p \in Paths(root) : f[p] = Body(root, f, p)
                /\ ListAllMember(root) = f[<<>>]
<1>. DEFINE Is(f) == f = [p \in Paths(root) |-> Body(root, f, p)]
<1>1. PICK m \in Nat : m = MaxDepth
  BY DocumentsAssumption
<1>2. Deep(root, m) = Paths(root)
  BY <1>1, PathType DEF Deep
<1>3. \E f : Is(f)
  BY <1>2, ListingExists DEF IsListing
<1>4. ListAllMember(root) = (CHOOSE f : Is(f))[<<>>]
  BY Zenon DEF ListAllMember, Body
<1>5. PICK f : Is(f) /\ ListAllMember(root) = f[<<>>]
  BY <1>3, <1>4
<1>6. \A p \in Paths(root) : f[p] = Body(root, f, p)
  BY <1>5
<1>. QED
  BY <1>5, <1>6

-----------------------------------------------------------------------------
(***************************************************************************)
(* The last node of a name that can be converted.                          *)
(***************************************************************************)

Nodes(root) == {NodeAt(root)[p] : p \in Paths(root)}

\* Node n counts for the variable of that name and type.
Fits(n, name, type) == n.name = name /\ Valid(name) /\ Converts(type, n.node)

\* No element of s and no node at a path of S counts; or one does that is the last
\* in s and that all others of S come before.
NoneFits(root, name, type, s, S) ==
  /\ \A k \in DOMAIN s : ~Fits(s[k], name, type)
  /\ \A q \in S : ~Fits(NodeAt(root)[q], name, type)
IsLastFit(root, name, type, s, S, k, q) ==
  /\ s[k] = NodeAt(root)[q] /\ Fits(s[k], name, type)
  /\ \A j \in DOMAIN s : j > k => ~Fits(s[j], name, type)
  /\ \A r \in S \ {q} : Fits(NodeAt(root)[r], name, type) => Before(r, q)
LastFit(root, name, type, s, S) ==
  \/ NoneFits(root, name, type, s, S)
  \/ \E k \in DOMAIN s, q \in S : IsLastFit(root, name, type, s, S, k, q)

\* A list of nodes of the document, all with names that are not refused.
Good(root, name, type, s, S) ==
  /\ s \in Seq(Nodes(root))
  /\ \A k \in DOMAIN s : Valid(s[k].name)
  /\ LastFit(root, name, type, s, S)

\* Two lists, one for what comes before the other, are one.
LEMMA JoinLists ==
  ASSUME NEW root, NEW name, NEW type, NEW S \in SUBSET Paths(root),
         NEW T \in SUBSET Paths(root), NEW s, NEW t,
         Good(root, name, type, s, S), Good(root, name, type, t, T),
         \A q \in S, r \in T : Before(q, r)
  PROVE  Good(root, name, type, s \o t, S \cup T)
<1>1. s \in Seq(Nodes(root)) /\ t \in Seq(Nodes(root))
  BY DEF Good
<1>2. PICK m \in Nat, n \in Nat :
        m = Len(s) /\ n = Len(t) /\ DOMAIN s = 1..m /\ DOMAIN t = 1..n
  BY <1>1, LenProperties
<1>3. PICK u : u = s \o t
  OBVIOUS
<1>4. /\ u \in Seq(Nodes(root)) /\ Len(u) = m + n
      /\ \A i \in 1..m + n : u[i] = IF i <= m THEN s[i] ELSE t[i - m]
  BY <1>1, <1>2, <1>3, ConcatProperties
<1>5. DOMAIN u = 1..m + n
  BY <1>2, <1>4, LenProperties
<1>6. \A i \in DOMAIN s : i \in DOMAIN u /\ u[i] = s[i]
  BY <1>2, <1>4, <1>5
<1>7. \A i \in DOMAIN t : m + i \in DOMAIN u /\ u[m + i] = t[i]
  <2>. TAKE i \in DOMAIN t
  <2>1. m + i \in 1..m + n /\ ~(m + i <= m) /\ (m + i) - m = i
    BY <1>2
  <2>. QED
    BY <1>4, <1>5, <2>1
<1>8. \A i \in DOMAIN u : \/ i \in DOMAIN s /\ u[i] = s[i]
                          \/ i > m /\ i - m \in DOMAIN t /\ u[i] = t[i - m]
  BY <1>2, <1>4, <1>5
<1>9. \A k \in DOMAIN u : Valid(u[k].name)
  BY <1>8 DEF Good
<1>10. LastFit(root, name, type, u, S \cup T)
  <2>1. CASE NoneFits(root, name, type, t, T)
    <3>1. CASE NoneFits(root, name, type, s, S)
      <4>1. NoneFits(root, name, type, u, S \cup T)
        BY <1>8, <2>1, <3>1 DEF NoneFits
      <4>. QED
        BY <4>1 DEF LastFit
    <3>2. ASSUME NEW k \in DOMAIN s, NEW q \in S, IsLastFit(root, name, type, s, S, k, q)
          PROVE  LastFit(root, name, type, u, S \cup T)
      <4>1. \A j \in DOMAIN u : j > k => ~Fits(u[j], name, type)
        BY <1>8, <2>1, <3>2 DEF NoneFits, IsLastFit
      <4>2. \A r \in (S \cup T) \ {q} : Fits(NodeAt(root)[r], name, type) => Before(r, q)
        BY <2>1, <3>2 DEF NoneFits, IsLastFit
      <4>3. k \in DOMAIN u /\ u[k] = NodeAt(root)[q] /\ Fits(u[k], name, type)
        BY <1>6, <3>2 DEF IsLastFit
      <4>4. IsLastFit(root, name, type, u, S \cup T, k, q)
        BY <4>1, <4>2, <4>3 DEF IsLastFit
      <4>. QED
        BY <4>3, <4>4 DEF LastFit
    <3>. QED
      BY <3>1, <3>2 DEF Good, LastFit
  <2>2. ASSUME NEW k \in DOMAIN t, NEW q \in T, IsLastFit(root, name, type, t, T, k, q)
        PROVE  LastFit(root, name, type, u, S \cup T)
    <3>1. m + k \in DOMAIN u /\ u[m + k] = NodeAt(root)[q] /\ Fits(u[m + k], name, type)
      BY <1>7, <2>2 DEF IsLastFit
    <3>2. \A j \in DOMAIN u : j > m + k => ~Fits(u[j], name, type)
      <4>. SUFFICES ASSUME NEW j \in DOMAIN u, j > m + k
                    PROVE  ~Fits(u[j], name, type)
        OBVIOUS
      <4>1. j \in Nat /\ k \in Nat
        BY <1>2, <1>5
      <4>2. j \notin DOMAIN s
        BY <1>2, <4>1
      <4>3. j - m \in DOMAIN t /\ u[j] = t[j - m] /\ j - m > k
        BY <1>8, <4>1, <4>2
      <4>. QED
        BY <2>2, <4>3 DEF IsLastFit
    <3>3. \A r \in (S \cup T) \ {q} : Fits(NodeAt(root)[r], name, type) => Before(r, q)
      BY <2>2 DEF IsLastFit
    <3>4. IsLastFit(root, name, type, u, S \cup T, m + k, q)
      BY <3>1, <3>2, <3>3 DEF IsLastFit
    <3>. QED
      BY <3>1, <3>4 DEF LastFit
  <2>. QED
    BY <2>1, <2>2 DEF Good, LastFit
<1>. QED
  BY <1>3, <1>4, <1>9, <1>10 DEF Good

\* The empty list, for paths of which none counts.
LEMMA EmptyList ==
  ASSUME NEW root, NEW name, NEW type, NEW S,
         \A q \in S : ~Fits(NodeAt(root)[q], name, type)
  PROVE  Good(root, name, type, <<>>, S)
<1>1. <<>> \in Seq(Nodes(root)) /\ DOMAIN <<>> = {}
  BY EmptySeq
<1>. QED
  BY <1>1 DEF Good, LastFit, NoneFits

\* The list of one node.
LEMMA OneList ==
  ASSUME NEW root, NEW name, NEW type, NEW p \in Paths(root), Valid(NameAt(root, p))
  PROVE  Good(root, name, type, <<NodeAt(root)[p]>>, {p})
<1>1. PICK s : s = <<NodeAt(root)[p]>>
  OBVIOUS
<1>2. NodeAt(root)[p] \in Nodes(root)
  BY DEF Nodes
<1>3. s \in Seq(Nodes(root)) /\ DOMAIN s = {1} /\ s[1] = NodeAt(root)[p]
  BY <1>1, <1>2
<1>4. Valid(s[1].name)
  BY <1>3 DEF NameAt
<1>5. LastFit(root, name, type, s, {p})
  <2>1. CASE Fits(s[1], name, type)
    <3>1. IsLastFit(root, name, type, s, {p}, 1, p)
      BY <1>3, <2>1 DEF IsLastFit
    <3>. QED
      BY <1>3, <3>1 DEF LastFit
  <2>2. CASE ~Fits(s[1], name, type)
    BY <1>3, <2>2 DEF LastFit, NoneFits
  <2>. QED
    BY <2>1, <2>2
<1>. QED
  BY <1>1, <1>3, <1>4, <1>5 DEF Good

\* The list of a node, if those of its children are such lists.
LEMMA ListOfNode ==
  ASSUME NEW root \in Documents, NEW name, NEW type, NEW f, NEW p \in Paths(root),
         f[p] = Body(root, f, p),
         \A i \in ChildrenAt(root, p) :
           Good(root, name, type, f[Append(p, i)], Sub(root, Append(p, i)))
  PROVE  Good(root, name, type, f[p], Sub(root, p))
<1>1. CASE ~Valid(NameAt(root, p))
  <2>1. f[p] = <<>>
    BY <1>1 DEF Body, NameAt
  <2>2. ASSUME NEW q \in Sub(root, p) PROVE ~Fits(NodeAt(root)[q], name, type)
    <3>1. ~Valid(NameAt(root, q))
      BY <1>1, ValidSub
    <3>. QED
      BY <3>1 DEF Fits, NameAt
  <2>. QED
    BY <2>1, <2>2, EmptyList
<1>2. CASE Valid(NameAt(root, p))
  <2>1. PICK m \in Nat : ChildrenAt(root, p) = 1..m
    BY ChildrenOf
  <2>. DEFINE N == Nodes(root)
              Upto(j) == {q \in Paths(root) : \E i \in 1..j : q \in Sub(root, Append(p, i))}
  <2>2. PICK seqs : seqs = [i \in 1..m |-> f[Append(p, i)]]
    OBVIOUS
  <2>3. \A i \in 1..m : f[Append(p, i)] \in Seq(N)
    BY <2>1 DEF Good
  <2>4. seqs \in Seq(Seq(N)) /\ Len(seqs) = m
    BY <2>2, <2>3
  <2>. HIDE DEF N
  <2>5. f[p] = <<NodeAt(root)[p]>> \o FlattenSeq(seqs)
    <3>1. seqs = [i \in Children(NodeAt(root)[p].node) |-> f[Append(p, i)]]
      BY <2>1, <2>2 DEF ChildrenAt
    <3>2. Valid(NodeAt(root)[p].name)
      BY <1>2 DEF NameAt
    <3>. QED
      BY <3>1, <3>2, Zenon DEF Body
  <2>. DEFINE T == {j \in Nat : j <= m =>
                      Good(root, name, type, FlattenSeq(SubSeq(seqs, 1, j)), Upto(j))}
  <2>6. 0 \in T
    <3>1. SubSeq(seqs, 1, 0) = <<>>
      BY SubSeqEmpty
    <3>2. FlattenSeq(SubSeq(seqs, 1, 0)) = <<>>
      BY <3>1, FlattenEmpty
    <3>3. \A q \in Upto(0) : ~Fits(NodeAt(root)[q], name, type)
      OBVIOUS
    <3>. HIDE DEF Upto
    <3>4. Good(root, name, type, FlattenSeq(SubSeq(seqs, 1, 0)), Upto(0))
      BY <3>2, <3>3, EmptyList
    <3>. QED
      BY <3>4
  <2>7. ASSUME NEW j \in T PROVE j + 1 \in T
    <3>. SUFFICES ASSUME j + 1 <= m
                  PROVE  Good(root, name, type,
                              FlattenSeq(SubSeq(seqs, 1, j + 1)), Upto(j + 1))
      OBVIOUS
    <3>1. PICK k \in 1..m : k = j + 1 /\ k \in ChildrenAt(root, p)
      BY <2>1
    <3>2. PICK s, t, r : /\ s = SubSeq(seqs, 1, j) /\ t = seqs[k] /\ r = Append(p, k)
      OBVIOUS
    <3>3. t = f[r] /\ t \in Seq(N)
      BY <2>2, <2>3, <3>2
    <3>4. s \in Seq(Seq(N)) /\ Len(s) = j
      BY <2>4, <3>1, <3>2, PrefixOf
    <3>5. SubSeq(seqs, 1, j + 1) = Append(s, t)
      <4>1. /\ SubSeq(seqs, 1, k) \in Seq(Seq(N)) /\ Len(SubSeq(seqs, 1, k)) = k
            /\ \A i \in 1..k : SubSeq(seqs, 1, k)[i] = seqs[i]
        BY <2>4, PrefixOf
      <4>2. \A i \in 1..j : s[i] = seqs[i]
        BY <2>4, <3>1, <3>2, PrefixOf
      <4>3. /\ Append(s, t) \in Seq(Seq(N)) /\ Len(Append(s, t)) = j + 1
            /\ \A i \in 1..j : Append(s, t)[i] = s[i]
            /\ Append(s, t)[j + 1] = t
        BY <3>3, <3>4, AppendProperties
      <4>4. \A i \in 1..k : SubSeq(seqs, 1, k)[i] = Append(s, t)[i]
        BY <3>1, <3>2, <4>1, <4>2, <4>3
      <4>5. SubSeq(seqs, 1, k) = Append(s, t)
        BY <3>1, <4>1, <4>3, <4>4, SeqEqual
      <4>. QED
        BY <3>1, <4>5
    <3>6. FlattenSeq(SubSeq(seqs, 1, j + 1)) = FlattenSeq(s) \o t
      BY <3>3, <3>4, <3>5, FlattenAppend
    <3>7. Good(root, name, type, FlattenSeq(s), Upto(j))
      BY <3>1, <3>2
    <3>8. Good(root, name, type, t, Sub(root, r))
      BY <3>1, <3>2, <3>3
    <3>9. \A q \in Upto(j), u \in Sub(root, r) : Before(q, u)
      <4>. SUFFICES ASSUME NEW i \in 1..j, NEW q \in Sub(root, Append(p, i)),
                           NEW u \in Sub(root, r)
                    PROVE  Before(q, u)
        BY DEF Sub
      <4>1. i \in ChildrenAt(root, p) /\ i < k
        BY <2>1, <3>1
      <4>. QED
        BY <3>1, <3>2, <4>1, BeforeSibling
    <3>10. Upto(j + 1) = Upto(j) \cup Sub(root, r)
      <4>1. Sub(root, r) \subseteq Paths(root)
        BY DEF Sub
      <4>2. \A i : i \in 1..(j + 1) <=> i \in 1..j \/ i = k
        BY <3>1
      <4>. QED
        BY <3>2, <4>1, <4>2
    <3>11. Upto(j) \subseteq Paths(root) /\ Sub(root, r) \subseteq Paths(root)
      BY DEF Sub
    <3>. HIDE DEF Upto, T
    <3>12. Good(root, name, type, FlattenSeq(s) \o t, Upto(j) \cup Sub(root, r))
      BY <3>7, <3>8, <3>9, <3>11, JoinLists
    <3>. QED
      BY <3>6, <3>10, <3>12
  <2>8. T = Nat
    <3>. HIDE DEF T
    <3>. QED
      BY <2>6, <2>7, SetInduction DEF T
  <2>9. Good(root, name, type, FlattenSeq(seqs), Upto(m))
    <3>1. SubSeq(seqs, 1, m) = seqs
      BY <2>4, WholePrefix
    <3>2. Good(root, name, type, FlattenSeq(SubSeq(seqs, 1, m)), Upto(m))
      <4>. HIDE DEF Upto
      <4>. QED
        BY <2>8
    <3>. QED
      BY <3>1, <3>2
  <2>10. Good(root, name, type, <<NodeAt(root)[p]>>, {p})
    BY <1>2, OneList
  <2>11. \A q \in {p}, u \in Upto(m) : Before(q, u)
    BY <2>1, BeforeBelow
  <2>12. Sub(root, p) = {p} \cup Upto(m)
    <3>1. p \in Sub(root, p)
      BY PathType, SubIs
    <3>2. Upto(m) \subseteq Sub(root, p)
      BY <2>1, SubChild
    <3>3. Sub(root, p) \subseteq {p} \cup Upto(m)
      BY <2>1, SubSplit DEF Sub
    <3>. QED
      BY <3>1, <3>2, <3>3
  <2>13. {p} \subseteq Paths(root) /\ Upto(m) \subseteq Paths(root)
    OBVIOUS
  <2>. HIDE DEF Upto
  <2>14. Good(root, name, type, <<NodeAt(root)[p]>> \o FlattenSeq(seqs), {p} \cup Upto(m))
    BY <2>9, <2>10, <2>11, <2>13, JoinLists
  <2>. QED
    BY <2>5, <2>12, <2>14
<1>. QED
  BY <1>1, <1>2

\* So ListAllMember() lists the nodes in the order of the document.
LEMMA ListIsGood ==
  ASSUME NEW root \in Documents, NEW name, NEW type
  PROVE  Good(root, name, type, ListAllMember(root), Paths(root))
<1>1. PICK f : /\ \A p \in Paths(root) : f[p] = Body(root, f, p)
               /\ ListAllMember(root) = f[<<>>]
  BY ListAllMemberIs
<1>. DEFINE T == {k \in Nat : \A p \in Paths(root) :
                    MaxDepth <= Len(p) + k => Good(root, name, type, f[p], Sub(root, p))}
<1>2. 0 \in T
  <2>. SUFFICES ASSUME NEW p \in Paths(root), MaxDepth <= Len(p) + 0
                PROVE  Good(root, name, type, f[p], Sub(root, p))
    OBVIOUS
  <2>1. Len(p) >= MaxDepth
    BY PathType, DocumentsAssumption
  <2>2. \A i \in ChildrenAt(root, p) : FALSE
    BY <2>1, ChildrenOf
  <2>. QED
    BY <1>1, <2>2, ListOfNode
<1>3. ASSUME NEW k \in T PROVE k + 1 \in T
  <2>. SUFFICES ASSUME NEW p \in Paths(root), MaxDepth <= Len(p) + (k + 1)
                PROVE  Good(root, name, type, f[p], Sub(root, p))
    OBVIOUS
  <2>1. ASSUME NEW i \in ChildrenAt(root, p)
        PROVE  Good(root, name, type, f[Append(p, i)], Sub(root, Append(p, i)))
    <3>1. PICK q \in Paths(root) : q = Append(p, i)
      BY ChildPath
    <3>2. Len(q) = Len(p) + 1 /\ Len(p) \in Nat
      BY <3>1, ChildParts, PathType
    <3>3. MaxDepth <= Len(q) + k
      BY <3>2, DocumentsAssumption
    <3>. QED
      BY <3>1, <3>3
  <2>. QED
    BY <1>1, <2>1, ListOfNode
<1>4. T = Nat
  <2>. HIDE DEF T
  <2>. QED
    BY <1>2, <1>3, SetInduction DEF T
<1>5. PICK p \in Paths(root) : p = <<>>
  BY RootPath
<1>6. MaxDepth \in Nat /\ MaxDepth <= Len(p) + MaxDepth
  BY DocumentsAssumption, PathType
<1>7. Good(root, name, type, f[p], Sub(root, p))
  BY <1>4, <1>6
<1>. QED
  BY <1>1, <1>5, <1>7, SubRoot

\* Of two nodes only one comes before the other.
LEMMA BeforeAsym ==
  ASSUME NEW root, NEW p \in Paths(root), NEW q \in Paths(root), Before(p, q), Before(q, p)
  PROVE  FALSE
<1>1. /\ p \in Seq(Nat) /\ q \in Seq(Nat) /\ Len(p) \in Nat /\ Len(q) \in Nat
      /\ DOMAIN p = 1..Len(p) /\ DOMAIN q = 1..Len(q)
  BY PathType
<1>2. /\ \A k \in DOMAIN p : k \in Nat /\ p[k] \in Nat
      /\ \A k \in DOMAIN q : k \in Nat /\ q[k] \in Nat
  BY <1>1, ElementOfSeq
<1>3. Len(p) < Len(q) /\ SubSeq(q, 1, Len(p)) = p => \A k \in DOMAIN p : q[k] = p[k]
  BY <1>1, PrefixOf
<1>4. Len(q) < Len(p) /\ SubSeq(p, 1, Len(q)) = q => \A k \in DOMAIN q : p[k] = q[k]
  BY <1>1, PrefixOf
<1>. DEFINE Less(a, b) == \E k \in DOMAIN a \cap DOMAIN b :
                            a[k] < b[k] /\ \A j \in 1..(k - 1) : a[j] = b[j]
<1>5. CASE Less(p, q) /\ Less(q, p)
  <2>1. PICK k \in DOMAIN p \cap DOMAIN q : p[k] < q[k] /\ \A j \in 1..(k - 1) : p[j] = q[j]
    BY <1>5
  <2>2. PICK i \in DOMAIN p \cap DOMAIN q : q[i] < p[i] /\ \A j \in 1..(i - 1) : q[j] = p[j]
    BY <1>5
  <2>3. k \in Nat /\ i \in Nat /\ k >= 1 /\ i >= 1
    BY <1>1
  <2>4. CASE k < i
    BY <1>2, <2>1, <2>2, <2>3, <2>4
  <2>5. CASE i < k
    BY <1>2, <2>1, <2>2, <2>3, <2>5
  <2>6. CASE i = k
    BY <1>2, <2>1, <2>2, <2>6
  <2>. QED
    BY <2>3, <2>4, <2>5, <2>6
<1>6. CASE Less(p, q) /\ ~Less(q, p)
  <2>1. PICK k \in DOMAIN p \cap DOMAIN q : p[k] < q[k]
    BY <1>6
  <2>2. p[k] = q[k]
    BY <1>4, <1>6 DEF Before
  <2>. QED
    BY <1>2, <2>1, <2>2
<1>7. CASE ~Less(p, q)
  <2>1. Len(p) < Len(q) /\ \A k \in DOMAIN p : q[k] = p[k]
    BY <1>3, <1>7 DEF Before
  <2>2. Less(q, p)
    BY <1>1, <2>1 DEF Before
  <2>3. PICK k \in DOMAIN p \cap DOMAIN q : q[k] < p[k]
    BY <2>2
  <2>. QED
    BY <1>2, <2>1, <2>3
<1>. QED
  BY <1>5, <1>6, <1>7

\* What loading the first k nodes of list l makes of the value else: the last that
\* can be converted counts.
Counts(n, name, type) == n.name = name /\ Converts(type, n.node)
Loaded(l, k, name, type, else, x) ==
  \/ /\ \A j \in 1..k : ~Counts(l[j], name, type)
     /\ x = else
  \/ \E j \in 1..k : /\ Counts(l[j], name, type)
                     /\ \A i \in 1..k : i > j => ~Counts(l[i], name, type)
                     /\ x = FromStr(type, l[j].node)

\* Before the first node.
LEMMA LoadedFirst ==
  ASSUME NEW l, NEW name, NEW type, NEW else
  PROVE  Loaded(l, 0, name, type, else, else)
BY DEF Loaded

\* One node more.
LEMMA LoadedNext ==
  ASSUME NEW l, NEW k \in Nat, NEW name, NEW type, NEW else, NEW x,
         Loaded(l, k, name, type, else, x), NEW y,
         y = IF Counts(l[k + 1], name, type) THEN FromStr(type, l[k + 1].node) ELSE x
  PROVE  Loaded(l, k + 1, name, type, else, y)
<1>1. CASE Counts(l[k + 1], name, type)
  <2>1. k + 1 \in 1..(k + 1) /\ y = FromStr(type, l[k + 1].node)
    BY <1>1
  <2>2. \A i \in 1..(k + 1) : ~(i > k + 1)
    OBVIOUS
  <2>. QED
    BY <1>1, <2>1, <2>2 DEF Loaded
<1>2. CASE ~Counts(l[k + 1], name, type)
  <2>1. \A i \in 1..(k + 1) : i \in 1..k \/ ~Counts(l[i], name, type)
    BY <1>2
  <2>2. y = x /\ 1..k \subseteq 1..(k + 1)
    BY <1>2
  <2>3. CASE (\A j \in 1..k : ~Counts(l[j], name, type)) /\ x = else
    BY <2>1, <2>2, <2>3 DEF Loaded
  <2>4. ASSUME NEW j \in 1..k, Counts(l[j], name, type), x = FromStr(type, l[j].node),
               \A i \in 1..k : i > j => ~Counts(l[i], name, type)
        PROVE  Loaded(l, k + 1, name, type, else, y)
    <3>1. j \in 1..(k + 1) /\ y = FromStr(type, l[j].node)
      BY <2>2, <2>4
    <3>2. \A i \in 1..(k + 1) : i > j => ~Counts(l[i], name, type)
      BY <2>1, <2>4
    <3>. QED
      BY <2>4, <3>1, <3>2 DEF Loaded
  <2>. QED
    BY <2>3, <2>4 DEF Loaded
<1>. QED
  BY <1>1, <1>2

\* After the last one it is the value that the document gives.
LEMMA LoadedAll ==
  ASSUME NEW root \in Documents, NEW name, NEW type, NEW else, NEW x,
         NEW l, l = ListAllMember(root),
         Loaded(l, Len(l), name, type, else, x)
  PROVE  x = ValueIn(root, name, type, else)
<1>1. Good(root, name, type, l, Paths(root))
  BY ListIsGood
<1>2. DOMAIN l = 1..Len(l) /\ Len(l) \in Nat
  BY <1>1, LenProperties DEF Good
<1>3. \A k \in DOMAIN l : Counts(l[k], name, type) <=> Fits(l[k], name, type)
  BY <1>1 DEF Good, Counts, Fits
<1>. DEFINE fits == {p \in Paths(root) : LET n == NodeAt(root)[p] IN
                       n.name = name /\ Converts(type, n.node)}
            IsLast(p) == p \in fits /\ \A q \in fits \ {p} : Before(q, p)
            last == CHOOSE p \in fits : \A q \in fits \ {p} : Before(q, p)
<1>4. ValueIn(root, name, type, else) =
        IF fits = {} \/ ~Valid(name) THEN else ELSE FromStr(type, NodeAt(root)[last].node)
  BY Zenon DEF ValueIn
<1>5. \A p \in Paths(root) : Fits(NodeAt(root)[p], name, type) <=> p \in fits /\ Valid(name)
  BY DEF Fits
<1>6. CASE NoneFits(root, name, type, l, Paths(root))
  <2>1. \A k \in 1..Len(l) : ~Counts(l[k], name, type)
    BY <1>2, <1>3, <1>6 DEF NoneFits
  <2>2. x = else
    BY <2>1 DEF Loaded
  <2>3. fits = {} \/ ~Valid(name)
    BY <1>5, <1>6 DEF NoneFits
  <2>. QED
    BY <1>4, <2>2, <2>3
<1>7. ASSUME NEW k \in DOMAIN l, NEW q \in Paths(root),
             IsLastFit(root, name, type, l, Paths(root), k, q)
      PROVE  x = ValueIn(root, name, type, else)
  <2>1. /\ l[k] = NodeAt(root)[q] /\ Fits(l[k], name, type) /\ Counts(l[k], name, type)
        /\ \A j \in DOMAIN l : j > k => ~Counts(l[j], name, type)
    BY <1>3, <1>7 DEF IsLastFit
  <2>2. PICK j \in 1..Len(l) : /\ Counts(l[j], name, type)
                               /\ \A i \in 1..Len(l) : i > j => ~Counts(l[i], name, type)
                               /\ x = FromStr(type, l[j].node)
    BY <1>2, <2>1 DEF Loaded
  <2>3. j = k
    <3>1. j \in Nat /\ k \in Nat /\ ~(j > k) /\ ~(k > j)
      BY <1>2, <2>1, <2>2
    <3>. QED
      BY <3>1
  <2>4. x = FromStr(type, NodeAt(root)[q].node)
    BY <2>1, <2>2, <2>3
  <2>5. q \in fits /\ Valid(name)
    BY <1>5, <2>1
  <2>6. \A r \in fits \ {q} : Before(r, q)
    BY <1>5, <1>7, <2>5 DEF IsLastFit
  <2>. HIDE DEF fits
  <2>7. last \in fits /\ \A r \in fits \ {last} : Before(r, last)
    BY <2>5, <2>6
  <2>8. fits \subseteq Paths(root)
    BY DEF fits
  <2>9. last = q
    <3>. SUFFICES ASSUME last # q PROVE FALSE
      OBVIOUS
    <3>1. PICK r \in Paths(root) : r = last
      BY <2>7, <2>8
    <3>2. Before(r, q) /\ Before(q, r)
      BY <2>5, <2>6, <2>7, <3>1
    <3>. QED
      BY <3>2, BeforeAsym
  <2>10. fits # {}
    BY <2>5
  <2>. HIDE DEF last
  <2>. QED
    BY <1>4, <2>4, <2>5, <2>9, <2>10
<1>. QED
  BY <1>1, <1>6, <1>7 DEF Good, LastFit

\* What is left of a list after k elements: its head and its tail.
LEMMA RestOf ==
  ASSUME NEW T, NEW l \in Seq(T), NEW k \in 0..Len(l),
         NEW s, s = SubSeq(l, k + 1, Len(l))
  PROVE  /\ s = <<>> => k = Len(l)
         /\ s # <<>> => /\ k + 1 \in 0..Len(l) /\ Head(s) = l[k + 1]
                        /\ Tail(s) = SubSeq(l, k + 1 + 1, Len(l))
<1>1. PICK n \in Nat : n = Len(l)
  OBVIOUS
<1>2. \A i \in k + 1..n : l[i] \in T
  BY <1>1, ElementOfSeq
<1>3. /\ s \in Seq(T) /\ Len(s) = n - k
      /\ \A i \in 1..n - k : s[i] = l[k + i]
  <2>1. PICK m \in Int : m = k + 1
    BY <1>1
  <2>2. /\ SubSeq(l, m, n) \in Seq(T)
        /\ Len(SubSeq(l, m, n)) = IF m <= n THEN n - m + 1 ELSE 0
        /\ \A i \in 1..n - m + 1 : SubSeq(l, m, n)[i] = l[m + i - 1]
    BY <1>2, <2>1, SubSeqProperties
  <2>. QED
    BY <1>1, <2>1, <2>2
<1>4. s = <<>> => k = n
  <2>1. s = <<>> => Len(s) = 0
    BY EmptySeq
  <2>. QED
    BY <1>1, <1>3, <2>1
<1>5. ASSUME s # <<>> PROVE /\ k + 1 \in 0..n /\ Head(s) = l[k + 1]
                            /\ Tail(s) = SubSeq(l, k + 1 + 1, n)
  <2>1. Len(s) \in Nat \ {0}
    BY <1>3, <1>5, EmptySeq
  <2>2. k + 1 \in 0..n
    BY <1>1, <1>3, <2>1
  <2>3. Head(s) = l[k + 1]
    <3>1. Head(s) = s[1] /\ 1 \in 1..n - k
      BY <1>1, <1>3, <2>1
    <3>. QED
      BY <1>3, <3>1
  <2>4. /\ Tail(s) \in Seq(T) /\ Len(Tail(s)) = n - k - 1
        /\ \A i \in 1..n - k - 1 : Tail(s)[i] = l[k + 1 + i]
    <3>1. /\ Tail(s) \in Seq(T) /\ Len(Tail(s)) = Len(s) - 1
          /\ \A i \in 1..Len(Tail(s)) : Tail(s)[i] = s[i + 1]
      BY <1>3, <1>5, HeadTailProperties
    <3>2. \A i \in 1..n - k - 1 : i + 1 \in 1..n - k /\ k + (i + 1) = k + 1 + i
      BY <1>1, <2>2
    <3>. QED
      BY <1>1, <1>3, <2>1, <3>1, <3>2
  <2>5. /\ SubSeq(l, k + 1 + 1, n) \in Seq(T)
        /\ Len(SubSeq(l, k + 1 + 1, n)) = n - k - 1
        /\ \A i \in 1..n - k - 1 : SubSeq(l, k + 1 + 1, n)[i] = l[k + 1 + i]
    <3>1. PICK m \in Int : m = k + 1 + 1
      BY <1>1
    <3>2. \A i \in m..n : l[i] \in T
      BY <1>1, <1>2, <3>1
    <3>3. /\ SubSeq(l, m, n) \in Seq(T)
          /\ Len(SubSeq(l, m, n)) = IF m <= n THEN n - m + 1 ELSE 0
          /\ \A i \in 1..n - m + 1 : SubSeq(l, m, n)[i] = l[m + i - 1]
      BY <3>2, SubSeqProperties
    <3>. QED
      BY <1>1, <2>2, <3>1, <3>3
  <2>6. Tail(s) = SubSeq(l, k + 1 + 1, n)
    BY <2>4, <2>5, SeqEqual
  <2>. QED
    BY <2>2, <2>3, <2>6
<1>. QED
  BY <1>1, <1>4, <1>5

-----------------------------------------------------------------------------
(***************************************************************************)
(* LoadFromYaml() as it goes through the list.                             *)
(***************************************************************************)

\* The value of v that c has given it, or is about to.
Value(c, v) == IF pc[c] \in {"notify", "write"} /\ var[c] = v THEN arg[c] ELSE m_val[v]

\* The first k nodes of the list l have been treated.
Treated(c, l, k) ==
  /\ nodes[c] = SubSeq(l, k + 1, Len(l))
  /\ \A name \in DOMAIN loading[c].datas : \A v :
       v = loading[c].datas[name] /\ v \notin dirty[c] =>
         Loaded(l, k, name, TypeOf[v], loading[c].val[v], Value(c, v))

\* Thread c, if it is loading: where it is, what the registry had at the start, the
\* variable that was found, and what is done so far.
Loading(c) ==
  loading[c] # Null =>
    /\ cpc[c] \in {"load", "apply"} /\ loading[c].root \in Documents
    /\ \A name \in DOMAIN loading[c].datas :
         name \in DOMAIN s_datas /\ s_datas[name] = loading[c].datas[name]
    /\ cpc[c] = "apply" =>
         /\ nodes[c] # <<>> /\ Head(nodes[c]).name \in DOMAIN s_datas
         /\ call[c] = s_datas[Head(nodes[c]).name]
    /\ \E k \in 0..Len(ListAllMember(loading[c].root)) :
         Treated(c, ListAllMember(loading[c].root), k)

\* The domains of what a thread keeps, and the names of variables.
DomainsOK ==
  /\ DOMAIN m_val = Vars /\ DOMAIN arg = Callers /\ DOMAIN nodes = Callers
  /\ DOMAIN loading = Callers /\ DOMAIN dirty = Callers
  /\ DOMAIN s_datas \subseteq Names
  /\ \A c \in Callers : cpc[c] = "create" => call[c].name \in Names

LoadInv == CInv /\ DomainsOK /\ \A c \in Callers : Loading(c)

\* A step keeps what c has done: c stays where it is, and of the variables that
\* exist only those change that are noted.
Keeps(c) ==
  /\ loading'[c] = loading[c] /\ nodes'[c] = nodes[c]
  /\ cpc'[c] = cpc[c] /\ call'[c] = call[c]
  /\ dirty[c] \subseteq dirty'[c]
  /\ \A v \in Known \ dirty'[c] : Value(c, v)' = Value(c, v)

\* No name is lost or gets another variable.
Grows ==
  \A name \in DOMAIN s_datas :
    name \in DOMAIN s_datas' /\ s_datas'[name] = s_datas[name]

\* Then what was done stays done.
LEMMA KeepsLoading ==
  ASSUME ObjectsOK, NEW c \in Callers, Loading(c), Keeps(c), Grows
  PROVE  Loading(c)'
<1>. SUFFICES ASSUME loading[c] # Null PROVE Loading(c)'
  BY DEF Keeps, Loading
<1>. DEFINE l == ListAllMember(loading[c].root)
<1>1. PICK k \in 0..Len(l) : Treated(c, l, k)
  BY DEF Loading
<1>2. \A name \in DOMAIN loading[c].datas :
        /\ name \in DOMAIN s_datas /\ s_datas[name] = loading[c].datas[name]
        /\ loading[c].datas[name] \in Known
  <2>1. ASSUME NEW name \in DOMAIN s_datas PROVE s_datas[name] \in Known
    <3>1. PICK h \in handles : h = [name |-> name, var |-> s_datas[name]]
      BY DEF ObjectsOK
    <3>. QED
      BY <3>1 DEF Known
  <2>. QED
    BY <2>1 DEF Loading
<1>. HIDE DEF l
<1>3. Treated(c, l, k)'
  BY <1>1, <1>2 DEF Treated, Keeps, l
<1>4. \A name \in DOMAIN loading'[c].datas :
        name \in DOMAIN s_datas' /\ s_datas'[name] = loading'[c].datas[name]
  BY <1>2 DEF Keeps, Grows
<1>5. cpc'[c] = "apply" =>
         /\ nodes'[c] # <<>> /\ Head(nodes'[c]).name \in DOMAIN s_datas'
         /\ call'[c] = s_datas'[Head(nodes'[c]).name]
  BY DEF Loading, Keeps, Grows
<1>6. \E i \in 0..Len(ListAllMember(loading'[c].root)) :
         Treated(c, ListAllMember(loading[c].root), i)'
  BY <1>1, <1>3 DEF Keeps, l
<1>7. cpc'[c] \in {"load", "apply"} /\ loading'[c].root \in Documents
  BY DEF Loading, Keeps
<1>. QED
  BY <1>4, <1>5, <1>6, <1>7, Zenon DEF Loading

\* Only Lookup() that creates changes s_datas, and it adds a name.
LEMMA RegistryGrows ==
  ASSUME CInv, DomainsOK, NEW d \in Callers, ConfigStep(d) \/ ClientStep(d)
  PROVE  Grows /\ DOMAIN s_datas' \subseteq Names
<1>1. ASSUME NEW v \in Vars, LookupCreate(d, v)
      PROVE  Grows /\ DOMAIN s_datas' \subseteq Names
  <2>1. cpc[d] = "create" /\ call[d].name \notin DOMAIN s_datas /\ call[d].name \in Names
    BY <1>1 DEF LookupCreate, At, CInv, PlacesOK, DomainsOK
  <2>2. PICK name : name = call[d].name
    OBVIOUS
  <2>3. /\ DOMAIN s_datas' = DOMAIN s_datas \cup {name}
        /\ \A n \in DOMAIN s_datas \ {name} : s_datas'[n] = s_datas[n]
    BY <1>1, <2>2, CreateAdds
  <2>. QED
    BY <2>1, <2>2, <2>3 DEF Grows, DomainsOK
<1>2. CASE \A v \in Vars : ~LookupCreate(d, v)
  <2>1. UNCHANGED s_datas
    BY <1>2 DEF ConfigStep, ClientStep, VarStep, LookupMismatch, VisitVar, VisitDone,
           LoadSkip, LoadFound, FromStringSame, FromStringSet, LoadDone, Lookup,
           Visit, LoadFromYaml, regVars
  <2>. QED
    BY <2>1 DEF Grows, DomainsOK
<1>. QED
  BY <1>1, <1>2

\* The domains stay.
LEMMA DomainsStep ==
  ASSUME CInv, DomainsOK, NEW d \in Callers, ConfigStep(d) \/ ClientStep(d)
  PROVE  DomainsOK'
<1>1. DOMAIN s_datas' \subseteq Names
  BY RegistryGrows
<1>2. DOMAIN m_val' = Vars /\ DOMAIN arg' = Callers
  <2>1. VarChange(Listened, d) \/ UNCHANGED vars
    BY ConfigChange DEF CInv
  <2>. QED
    BY <2>1 DEF VarChange, CallStep, Notify, NotifyThrow, NotifyDone, Write, Return,
       AddIncrement, AddInsert, SetValue, AddListener, Erase, Made, vars, DomainsOK
<1>3. DOMAIN nodes' = Callers /\ DOMAIN loading' = Callers /\ DOMAIN dirty' = Callers
  BY DEF ConfigStep, ClientStep, VarStep, LookupMismatch, LookupCreate, VisitVar,
     VisitDone, LoadSkip, LoadFound, FromStringSame, FromStringSet, LoadDone, Lookup,
     Visit, LoadFromYaml, Applied, NextNode, regVars, loadVars, DomainsOK
<1>4. \A c \in Callers : cpc'[c] = "create" => call'[c].name \in Names
  <2>. USE DEF DomainsOK, CInv, PlacesOK, At, Free, GoTo, mutexVars, loadVars
  <2>1. CASE VarStep(d)
    BY <2>1 DEF VarStep
  <2>2. ASSUME NEW v \in Vars, LookupCreate(d, v)
        PROVE  \A c \in Callers : cpc'[c] = "create" => call'[c].name \in Names
    BY <2>2 DEF LookupCreate, Leave
  <2>3. CASE LookupMismatch(d) \/ VisitDone(d)
    BY <2>3 DEF LookupMismatch, VisitDone, Leave
  <2>4. CASE VisitVar(d) \/ LoadSkip(d) \/ LoadDone(d) \/ LoadFound(d)
    BY <2>4 DEF VisitVar, LoadSkip, LoadDone, LoadFound
  <2>5. CASE FromStringSame(d) \/ FromStringSet(d)
    BY <2>5 DEF FromStringSame, FromStringSet, Applied
  <2>6. ASSUME NEW name \in Names, NEW type \in Types, NEW x, Lookup(d, name, type, x)
        PROVE  \A c \in Callers : cpc'[c] = "create" => call'[c].name \in Names
    <3>0. PICK r : r = [name |-> name, type |-> type, val |-> x]
      OBVIOUS
    <3>1. r.name = name
      BY <3>0
    <3>2. call' = [call EXCEPT ![d] = r]
      BY <2>6, <3>0 DEF Lookup
    <3>3. \A c \in Callers \ {d} : cpc'[c] = cpc[c]
      BY <2>6 DEF Lookup
    <3>. QED
      BY <3>1, <3>2, <3>3
  <2>7. CASE Visit(d)
    BY <2>7 DEF Visit
  <2>8. ASSUME NEW root \in Documents, LoadFromYaml(d, root)
        PROVE  \A c \in Callers : cpc'[c] = "create" => call'[c].name \in Names
    BY <2>8 DEF LoadFromYaml
  <2>9. CASE UNCHANGED regVars
    BY <2>9 DEF regVars
  <2>. QED
    BY <2>1, <2>2, <2>3, <2>4, <2>5, <2>6, <2>7, <2>8, <2>9 DEF ConfigStep, ClientStep
<1>. QED
  BY <1>1, <1>2, <1>3, <1>4 DEF DomainsOK

\* The steps of others, also those inside a variable.
LEMMA OthersKeep ==
  ASSUME CInv, DomainsOK, NEW d \in Callers, ConfigStep(d) \/ ClientStep(d),
         NEW c \in Callers, c # d, loading[c] # Null
  PROVE  Keeps(c)
<1>1. /\ loading'[c] = loading[c] /\ nodes'[c] = nodes[c]
      /\ cpc'[c] = cpc[c] /\ call'[c] = call[c]
  BY DEF ConfigStep, ClientStep, VarStep, LookupMismatch, LookupCreate, VisitVar,
     VisitDone, LoadSkip, LoadFound, FromStringSame, FromStringSet, LoadDone, Lookup,
     Visit, LoadFromYaml, Applied, NextNode, Leave, GoTo, regVars, loadVars, DomainsOK,
     CInv, PlacesOK
<1>2. pc'[c] = pc[c] /\ var'[c] = var[c] /\ arg'[c] = arg[c]
  <2>1. VarChange(Listened, d) \/ UNCHANGED vars
    BY ConfigChange DEF CInv
  <2>. QED
    BY <2>1 DEF VarChange, CallStep, Notify, NotifyThrow, NotifyDone, Write, Return,
       AddIncrement, AddInsert, SetValue, AddListener, Erase, Made, vars, DomainsOK,
       CInv, IInv, Shape
<1>3. /\ dirty[c] \subseteq dirty'[c]
      /\ \A v \in Known \ dirty'[c] : m_val'[v] = m_val[v]
  <2>1. CASE VarStep(d)
    <3>1. dirty'[c] = dirty[c] \cup {v \in Vars : m_val'[v] # m_val[v]}
      BY <2>1 DEF VarStep
    <3>2. Known \subseteq Vars
      BY DEF Known, CInv, ObjectsOK
    <3>. QED
      BY <3>1, <3>2
  <2>2. ASSUME NEW v \in Vars, LookupCreate(d, v)
        PROVE  /\ dirty[c] \subseteq dirty'[c]
               /\ \A u \in Known \ dirty'[c] : m_val'[u] = m_val[u]
    <3>1. v \notin Known /\ dirty' = dirty
      BY <2>2 DEF LookupCreate, Unmade, loadVars
    <3>2. m_val' = [m_val EXCEPT ![v] = call[d].val]
      BY <2>2 DEF LookupCreate
    <3>3. Known \subseteq Vars
      BY DEF Known, CInv, ObjectsOK
    <3>. QED
      BY <3>1, <3>2, <3>3 DEF DomainsOK
  <2>3. ASSUME NEW root, LoadFromYaml(d, root)
        PROVE  dirty'[c] = dirty[c] /\ m_val' = m_val
    BY <2>3 DEF LoadFromYaml, DomainsOK, vars
  <2>4. CASE \/ LookupMismatch(d) \/ VisitVar(d) \/ VisitDone(d) \/ LoadSkip(d)
             \/ LoadFound(d) \/ FromStringSame(d) \/ FromStringSet(d) \/ LoadDone(d)
             \/ \E name \in Names, type \in Types : Lookup(d, name, type, DefaultOf(type))
             \/ Visit(d)
    BY <2>4 DEF LookupMismatch, VisitVar, VisitDone, LoadSkip, LoadFound, FromStringSame,
       FromStringSet, SetValue, LoadDone, Lookup, Visit, loadVars, vars
  <2>5. CASE /\ \/ \E v \in Known, x \in Values : SetValue(d, v, x)
                \/ \E v \in Known \cap Listened :
                     \/ \E l \in Listeners : AddListener(d, v, l)
                     \/ \E i \in Ids : delListener(d, v, i)
                     \/ clearListener(d, v)
             /\ UNCHANGED regVars
    BY <2>5 DEF SetValue, AddListener, delListener, clearListener, Erase, regVars, loadVars
  <2>. QED
    BY <2>1, <2>2, <2>3, <2>4, <2>5 DEF ConfigStep, ClientStep
<1>. QED
  BY <1>1, <1>2, <1>3 DEF Keeps, Value

\* And the steps of c inside a variable: what it sets there is its value already.
LEMMA InsideKeeps ==
  ASSUME CInv, DomainsOK, NEW c \in Callers, VarStep(c), loading[c] # Null
  PROVE  Keeps(c)
<1>1. /\ loading'[c] = loading[c] /\ nodes'[c] = nodes[c]
      /\ cpc'[c] = cpc[c] /\ call'[c] = call[c]
  BY DEF VarStep
<1>2. dirty'[c] = dirty[c] \cup {v \in {var[c]} : pc[c] = "notify" /\ pc'[c] = "idle"}
  BY DEF VarStep
<1>3. \A v \in Known \ dirty'[c] : Value(c, v)' = Value(c, v)
  <2>. SUFFICES ASSUME NEW v \in Known, v \notin dirty'[c] PROVE Value(c, v)' = Value(c, v)
    OBVIOUS
  <2>1. v \in Vars
    BY DEF Known, CInv, ObjectsOK
  <2>. USE DEF Value, CInv, IInv, Shape, DomainsOK
  <2>2. CASE Notify(c)
    BY <2>2 DEF Notify
  <2>3. CASE NotifyThrow(c)
    BY <1>2, <2>3 DEF NotifyThrow, Return
  <2>4. CASE NotifyDone(c)
    BY <2>4 DEF NotifyDone
  <2>5. CASE Write(c)
    BY <2>1, <2>5 DEF Write, Return
  <2>6. CASE AddIncrement(c)
    BY <2>6 DEF AddIncrement
  <2>7. ASSUME NEW i \in Ids, AddInsert(c, i) PROVE Value(c, v)' = Value(c, v)
    BY <2>7 DEF AddInsert, Return
  <2>. QED
    BY <2>2, <2>3, <2>4, <2>5, <2>6, <2>7 DEF VarStep, CallStep
<1>. QED
  BY <1>1, <1>2, <1>3 DEF Keeps

\* What a step that goes on with the list leaves as it is.
Onward(c) ==
  /\ loading'[c] = loading[c] /\ s_datas' = s_datas /\ dirty'[c] = dirty[c]
  /\ cpc'[c] = "load" /\ nodes'[c] = Tail(nodes[c])

\* Such a step, if it gives every variable what the node at the head says.
LEMMA OnwardLoading ==
  ASSUME NEW c \in Callers, Loading(c), loading[c] # Null, nodes[c] # <<>>, Onward(c),
         \A name \in DOMAIN loading[c].datas : \A v :
           v = loading[c].datas[name] =>
             Value(c, v)' = IF Counts(Head(nodes[c]), name, TypeOf[v])
                            THEN FromStr(TypeOf[v], Head(nodes[c]).node)
                            ELSE Value(c, v)
  PROVE  Loading(c)'
<1>1. PICK root \in Documents : root = loading[c].root
  BY DEF Loading
<1>2. PICK l \in Seq(Nodes(root)) : l = ListAllMember(root)
  BY ListIsGood DEF Good
<1>3. PICK k \in 0..Len(l) : Treated(c, l, k)
  BY <1>1, <1>2 DEF Loading
<1>4. /\ k + 1 \in 0..Len(l) /\ Head(nodes[c]) = l[k + 1]
      /\ Tail(nodes[c]) = SubSeq(l, k + 1 + 1, Len(l))
  <2>1. PICK s : s = nodes[c] /\ s = SubSeq(l, k + 1, Len(l))
    BY <1>3 DEF Treated
  <2>. QED
    BY <2>1, RestOf
<1>5. ASSUME NEW name \in DOMAIN loading[c].datas, NEW v,
             v = loading[c].datas[name], v \notin dirty[c]
      PROVE  Loaded(l, k + 1, name, TypeOf[v], loading[c].val[v], Value(c, v)')
  <2>1. Loaded(l, k, name, TypeOf[v], loading[c].val[v], Value(c, v))
    BY <1>3, <1>5 DEF Treated
  <2>2. PICK y : y = Value(c, v)'
    OBVIOUS
  <2>3. y = IF Counts(l[k + 1], name, TypeOf[v]) THEN FromStr(TypeOf[v], l[k + 1].node)
            ELSE Value(c, v)
    BY <1>4, <1>5, <2>2
  <2>4. k \in Nat
    BY <1>3
  <2>. QED
    BY <2>1, <2>2, <2>3, <2>4, LoadedNext
<1>6. Treated(c, l, k + 1)'
  <2>1. nodes'[c] = SubSeq(l, (k + 1) + 1, Len(l))
    BY <1>4 DEF Onward
  <2>2. \A name \in DOMAIN loading'[c].datas : \A v :
          v = loading'[c].datas[name] /\ v \notin dirty'[c] =>
            Loaded(l, k + 1, name, TypeOf[v], loading'[c].val[v], Value(c, v)')
    BY <1>5 DEF Onward
  <2>. QED
    BY <2>1, <2>2 DEF Treated
<1>7. loading'[c].root = root /\ cpc'[c] = "load"
  BY <1>1 DEF Onward
<1>8. \A name \in DOMAIN loading'[c].datas :
         name \in DOMAIN s_datas' /\ s_datas'[name] = loading'[c].datas[name]
  BY DEF Onward, Loading
<1>9. \E i \in 0..Len(ListAllMember(loading'[c].root)) :
         Treated(c, ListAllMember(root), i)'
  BY <1>2, <1>4, <1>6, <1>7
<1>. QED
  BY <1>1, <1>7, <1>8, <1>9 DEF Loading

\* A variable has one name.
LEMMA OneName ==
  ASSUME ObjectsOK, NEW m \in DOMAIN s_datas, NEW n \in DOMAIN s_datas,
         s_datas[m] = s_datas[n]
  PROVE  m = n
<1>1. PICK h \in handles : h.name = m /\ h.var = s_datas[m]
  BY DEF ObjectsOK
<1>2. PICK k \in handles : k.name = n /\ k.var = s_datas[n]
  BY DEF ObjectsOK
<1>. QED
  BY <1>1, <1>2 DEF ObjectsOK

\* A node without a name, or with one that nobody looked up, is skipped.
LEMMA SkipLoading ==
  ASSUME <<>> \notin Names, LoadInv, NEW c \in Callers, loading[c] # Null, LoadSkip(c)
  PROVE  Loading(c)'
<1>1. Loading(c) /\ nodes[c] # <<>>
  BY DEF LoadSkip, LoadInv
<1>2. Onward(c)
  BY DEF LoadSkip, NextNode, loadVars, LoadInv, DomainsOK, At, Onward
<1>3. \A name \in DOMAIN loading[c].datas : Head(nodes[c]).name # name
  BY <1>1 DEF LoadSkip, LoadInv, DomainsOK, Loading
<1>4. \A v : Value(c, v)' = Value(c, v)
  BY DEF LoadSkip, vars, Value
<1>5. \A name \in DOMAIN loading[c].datas : \A v :
        v = loading[c].datas[name] =>
          Value(c, v)' = IF Counts(Head(nodes[c]), name, TypeOf[v])
                         THEN FromStr(TypeOf[v], Head(nodes[c]).node)
                         ELSE Value(c, v)
  BY <1>3, <1>4 DEF Counts
<1>. QED
  BY <1>1, <1>2, <1>5, OnwardLoading

\* LookupBase() finds the variable of the name.
LEMMA FoundLoading ==
  ASSUME LoadInv, NEW c \in Callers, loading[c] # Null, LoadFound(c)
  PROVE  Loading(c)'
<1>1. /\ Loading(c) /\ nodes[c] # <<>> /\ Head(nodes[c]).name \in DOMAIN s_datas
      /\ loading' = loading /\ s_datas' = s_datas /\ dirty' = dirty /\ nodes' = nodes
      /\ UNCHANGED vars
      /\ cpc'[c] = "apply" /\ call'[c] = s_datas[Head(nodes[c]).name]
  BY DEF LoadFound, LoadInv, loadVars, GoTo, CInv, PlacesOK
<1>2. \A l, k : Treated(c, l, k) => Treated(c, l, k)'
  BY <1>1 DEF Treated, Value, vars
<1>3. \E k \in 0..Len(ListAllMember(loading'[c].root)) :
         Treated(c, ListAllMember(loading[c].root), k)'
  BY <1>1, <1>2, Zenon DEF Loading
<1>. QED
  BY <1>1, <1>3 DEF Loading

\* fromString() of the node: the variable gets its value, or has it, or the text
\* cannot be converted.
LEMMA ApplyLoading ==
  ASSUME LoadInv, NEW c \in Callers, loading[c] # Null,
         FromStringSame(c) \/ FromStringSet(c)
  PROVE  Loading(c)'
<1>. DEFINE node == Head(nodes[c]).node
            key == Head(nodes[c]).name
            u == call[c]
<1>1. /\ Loading(c) /\ cpc[c] = "apply" /\ pc[c] = "idle"
  BY DEF FromStringSame, FromStringSet, At, LoadInv
<1>2. nodes[c] # <<>> /\ key \in DOMAIN s_datas /\ u = s_datas[key] /\ u \in Vars
  BY <1>1 DEF Loading, LoadInv, CInv, ObjectsOK
<1>3. Onward(c)
  BY DEF FromStringSame, FromStringSet, Applied, NextNode, GoTo, loadVars,
         LoadInv, DomainsOK, CInv, PlacesOK, Onward
<1>4. \A v : Value(c, v) = m_val[v]
  BY <1>1 DEF Value
<1>5. \A v \in Vars : Value(c, v)' = IF v = u /\ Converts(TypeOf[u], node)
                                     THEN FromStr(TypeOf[u], node) ELSE m_val[v]
  <2>1. CASE FromStringSame(c)
    <3>1. Converts(TypeOf[u], node) => FromStr(TypeOf[u], node) = m_val[u]
      BY <2>1 DEF FromStringSame
    <3>2. \A v : Value(c, v)' = Value(c, v)
      BY <2>1 DEF FromStringSame, vars, Value
    <3>. QED
      BY <1>4, <3>1, <3>2
  <2>2. CASE FromStringSet(c)
    <3>1. Converts(TypeOf[u], node) /\ SetValue(c, u, FromStr(TypeOf[u], node))
      BY <2>2 DEF FromStringSet
    <3>2. PICK x : x = FromStr(TypeOf[u], node)
      OBVIOUS
    <3>3. pc'[c] = "notify" /\ var'[c] = u /\ arg'[c] = x /\ m_val' = m_val
      BY <3>1, <3>2 DEF SetValue, LoadInv, DomainsOK, CInv, IInv, Shape
    <3>. QED
      BY <3>1, <3>2, <3>3 DEF Value
  <2>. QED
    BY <2>1, <2>2
<1>6. ASSUME NEW name \in DOMAIN loading[c].datas, NEW v, v = loading[c].datas[name]
      PROVE  Value(c, v)' = IF Counts(Head(nodes[c]), name, TypeOf[v])
                            THEN FromStr(TypeOf[v], node) ELSE Value(c, v)
  <2>1. name \in DOMAIN s_datas /\ s_datas[name] = v /\ v \in Vars
    BY <1>1, <1>6 DEF Loading, LoadInv, CInv, ObjectsOK
  <2>2. v = u <=> name = key
    BY <1>2, <2>1, OneName DEF LoadInv, CInv
  <2>. QED
    BY <1>4, <1>5, <2>1, <2>2 DEF Counts
<1>7. \A name \in DOMAIN loading[c].datas : \A v :
        v = loading[c].datas[name] =>
          Value(c, v)' = IF Counts(Head(nodes[c]), name, TypeOf[v])
                         THEN FromStr(TypeOf[v], Head(nodes[c]).node)
                         ELSE Value(c, v)
  BY <1>6
<1>. QED
  BY <1>1, <1>2, <1>3, <1>7, OnwardLoading

\* The loading begins: nothing is done yet.
LEMMA BeginLoading ==
  ASSUME LoadInv, NEW c \in Callers, NEW root \in Documents, LoadFromYaml(c, root)
  PROVE  Loading(c)'
<1>1. PICK r : r = [root |-> root, datas |-> s_datas, val |-> m_val]
  OBVIOUS
<1>2. r.root = root /\ r.datas = s_datas /\ r.val = m_val
  BY <1>1
<1>3. /\ loading'[c] = r /\ cpc'[c] = "load" /\ dirty'[c] = {}
      /\ nodes'[c] = ListAllMember(root) /\ s_datas' = s_datas
      /\ pc[c] = "idle" /\ UNCHANGED vars
  BY <1>1 DEF LoadFromYaml, GoTo, Free, At, LoadInv, DomainsOK, CInv, PlacesOK
<1>4. PICK l \in Seq(Nodes(root)) : l = ListAllMember(root)
  BY ListIsGood DEF Good
<1>5. \A v : Value(c, v)' = m_val[v]
  BY <1>3 DEF Value, vars
<1>6. Treated(c, l, 0)'
  <2>1. nodes'[c] = SubSeq(l, 0 + 1, Len(l))
    BY <1>3, <1>4, WholePrefix
  <2>2. \A name, v : Loaded(l, 0, name, TypeOf[v], r.val[v], Value(c, v)')
    BY <1>2, <1>5, LoadedFirst
  <2>. QED
    BY <1>3, <2>1, <2>2 DEF Treated
<1>7. \E k \in 0..Len(ListAllMember(loading'[c].root)) :
         Treated(c, ListAllMember(root), k)'
  <2>1. 0 \in 0..Len(l)
    BY <1>4
  <2>. QED
    BY <1>2, <1>3, <1>4, <1>6, <2>1
<1>. QED
  BY <1>2, <1>3, <1>7 DEF Loading

\* Every step preserves what the loading threads have done.
LEMMA LoadingStep ==
  ASSUME <<>> \notin Names, LoadInv, NEW d \in Callers, ConfigStep(d) \/ ClientStep(d),
         NEW c \in Callers
  PROVE  Loading(c)'
<1>. USE DEF LoadInv
<1>1. CASE loading[c] # Null
  <2>1. Grows /\ ObjectsOK /\ Loading(c)
    BY RegistryGrows DEF CInv
  <2>2. CASE c # d
    BY <1>1, <2>1, <2>2, OthersKeep, KeepsLoading
  <2>3. CASE c = d
    <3>1. cpc[c] \in {"load", "apply"}
      BY <1>1, <2>1 DEF Loading
    <3>2. CASE VarStep(c)
      BY <1>1, <2>1, <3>2, InsideKeeps, KeepsLoading
    <3>3. CASE LoadSkip(c) \/ LoadFound(c) \/ FromStringSame(c) \/ FromStringSet(c)
      BY <1>1, <3>3, SkipLoading, FoundLoading, ApplyLoading
    <3>4. CASE LoadDone(c)
      BY <3>4 DEF LoadDone, DomainsOK, Loading
    <3>5. ~ClientStep(c)
      BY <3>1 DEF ClientStep, Lookup, Visit, LoadFromYaml, Free, At
    <3>6. /\ ~LookupMismatch(c) /\ ~VisitVar(c) /\ ~VisitDone(c)
          /\ \A v \in Vars : ~LookupCreate(c, v)
      BY <3>1 DEF LookupMismatch, VisitVar, VisitDone, LookupCreate, At
    <3>. QED
      BY <2>3, <3>2, <3>3, <3>4, <3>5, <3>6 DEF ConfigStep
  <2>. QED
    BY <2>2, <2>3
<1>2. CASE loading[c] = Null
  <2>1. ASSUME NEW root \in Documents, LoadFromYaml(d, root), c = d PROVE Loading(c)'
    BY <2>1, BeginLoading
  <2>2. CASE \A root \in Documents : ~(c = d /\ LoadFromYaml(d, root))
    <3>1. loading'[c] = Null
      BY <1>2, <2>2 DEF ConfigStep, ClientStep, VarStep, LookupMismatch, LookupCreate,
         VisitVar, VisitDone, LoadSkip, LoadFound, FromStringSame, FromStringSet,
         LoadDone, Lookup, Visit, LoadFromYaml, regVars, loadVars, DomainsOK
    <3>. QED
      BY <3>1 DEF Loading
  <2>. QED
    BY <2>1, <2>2
<1>. QED
  BY <1>1, <1>2

\* So the invariant holds in every reachable state.
LEMMA LoadInvariance ==
  ASSUME <<>> \notin Names
  PROVE  ConfigSpec => []LoadInv
<1>. DEFINE Rest == DomainsOK /\ \A c \in Callers : Loading(c)
<1>1. ConfigInit => Rest
  BY DEF ConfigInit, Init, DomainsOK, Loading
<1>2. CInv /\ CInv' /\ Rest /\ [ConfigNext]_configVars => Rest'
  <2>. SUFFICES ASSUME CInv, CInv', Rest, [ConfigNext]_configVars PROVE Rest'
    OBVIOUS
  <2>1. ASSUME NEW d \in Callers, ConfigStep(d) \/ ClientStep(d) PROVE Rest'
    <3>1. DomainsOK'
      BY <2>1, DomainsStep
    <3>2. \A c \in Callers : Loading(c)'
      BY <2>1, LoadingStep DEF LoadInv
    <3>. QED
      BY <3>1, <3>2
  <2>2. CASE UNCHANGED configVars
    BY <2>2 DEF configVars, vars, regVars, loadVars, DomainsOK, Loading, Treated, Value
  <2>. QED
    BY <2>1, <2>2 DEF ConfigNext
<1>3. CInv /\ Rest <=> LoadInv
  BY DEF LoadInv
<1>. QED
  BY <1>1, <1>2, <1>3, ConfigInvariance, PTL DEF ConfigSpec

\* Only the end of the list ends the loading.
LEMMA LoadEnds ==
  ASSUME LoadInv, NEW d \in Callers, ConfigStep(d) \/ ClientStep(d),
         NEW c \in Callers, loading[c] # Null, loading'[c] = Null
  PROVE  LoadDone(c)
<1>1. cpc[c] \in {"load", "apply"}
  BY DEF LoadInv, Loading
<1>2. ASSUME NEW root, LoadFromYaml(d, root) PROVE loading'[c] = loading[c]
  <2>1. c # d
    BY <1>1, <1>2 DEF LoadFromYaml, Free, At
  <2>. QED
    BY <1>2, <2>1 DEF LoadFromYaml, LoadInv, DomainsOK
<1>3. LoadDone(d)
  BY <1>2 DEF ConfigStep, ClientStep, VarStep, LookupMismatch, LookupCreate, VisitVar,
     VisitDone, LoadSkip, LoadFound, FromStringSame, FromStringSet, Lookup, Visit,
     regVars, loadVars
<1>4. c = d
  BY <1>3 DEF LoadDone, LoadInv, DomainsOK
<1>. QED
  BY <1>3, <1>4

\* At the end every variable has the value that the document gives it.
LEMMA EndOfList ==
  ASSUME LoadInv, NEW c \in Callers, loading[c] # Null, LoadDone(c),
         NEW name \in DOMAIN loading[c].datas,
         NEW v, v = loading[c].datas[name], v \notin dirty[c]
  PROVE  m_val[v] = ValueIn(loading[c].root, name, TypeOf[v], loading[c].val[v])
<1>1. nodes[c] = <<>> /\ pc[c] = "idle" /\ Loading(c)
  BY DEF LoadDone, At, LoadInv
<1>2. PICK root \in Documents : root = loading[c].root
  BY <1>1 DEF Loading
<1>3. PICK l \in Seq(Nodes(root)) : l = ListAllMember(root)
  BY ListIsGood DEF Good
<1>4. PICK k \in 0..Len(l) : Treated(c, l, k)
  BY <1>1, <1>2, <1>3 DEF Loading
<1>5. k = Len(l)
  <2>1. PICK s : s = nodes[c] /\ s = SubSeq(l, k + 1, Len(l))
    BY <1>4 DEF Treated
  <2>. QED
    BY <1>1, <2>1, RestOf
<1>6. Loaded(l, Len(l), name, TypeOf[v], loading[c].val[v], m_val[v])
  BY <1>1, <1>4, <1>5 DEF Treated, Value
<1>7. PICK x, else, type : x = m_val[v] /\ else = loading[c].val[v] /\ type = TypeOf[v]
  OBVIOUS
<1>8. x = ValueIn(root, name, type, else)
  BY <1>3, <1>6, <1>7, LoadedAll
<1>. QED
  BY <1>2, <1>7, <1>8

\* Every variable that existed when a document was loaded has afterwards the value
\* the document gives it, unless somebody else changed it or one of its listeners
\* threw, whatever the other nodes are and whatever the threads do meanwhile; the
\* key of the root, which is empty, is no variable's name (config.cpp:24-44).
THEOREM LoadsApply ==
  ASSUME <<>> \notin Names
  PROVE  ConfigSpec => LoadApplied
<1>1. LoadInv /\ [ConfigNext]_configVars =>
        [\A c \in Callers : loading[c] # Null /\ loading'[c] = Null =>
           \A name \in DOMAIN loading[c].datas :
             LET v == loading[c].datas[name] IN
             v \notin dirty[c] =>
               m_val[v] = ValueIn(loading[c].root, name, TypeOf[v],
                                  loading[c].val[v])]_configVars
  <2>. SUFFICES ASSUME LoadInv, ConfigNext, NEW c \in Callers,
                       loading[c] # Null, loading'[c] = Null,
                       NEW name \in DOMAIN loading[c].datas,
                       loading[c].datas[name] \notin dirty[c]
                PROVE  m_val[loading[c].datas[name]] =
                         ValueIn(loading[c].root, name, TypeOf[loading[c].datas[name]],
                                 loading[c].val[loading[c].datas[name]])
    OBVIOUS
  <2>1. LoadDone(c)
    BY LoadEnds DEF ConfigNext
  <2>. QED
    BY <2>1, EndOfList
<1>. QED
  BY <1>1, LoadInvariance, PTL DEF ConfigSpec, LoadApplied

=============================================================================
