------------------------------- MODULE Config -------------------------------
(***************************************************************************)
(* Config (config.h, config.cpp): the registry of configuration variables, *)
(* behind an RWMutex of its own, together with the ConfigVar objects it    *)
(* holds.  Lookup(name, default) finds or creates a variable under the     *)
(* write lock; LookupBase() and Visit() take the read lock; LoadFromYaml() *)
(* lists the nodes of a document, looks each one up and converts it with   *)
(* fromString(), which ends in setValue().                                 *)
(*                                                                         *)
(* A name is the sequence of its parts between the dots, so the key "a.b"  *)
(* and b inside a are one name.  Keys are scalars and not empty.  A scalar *)
(* is the number it spells or Null.  A Lookup() that finds a variable of   *)
(* its type, one that refuses a name, and Lookup(name) change nothing.     *)
(***************************************************************************)
EXTENDS ConfigVar, Sequences, SequencesExt

CONSTANTS
  Types,        \* "int", "vec": std::vector<int>, "map": std::map<string, int>
  TypeOf,       \* T of each ConfigVar<T> object
  Names,        \* names that are looked up
  Illegal,      \* parts with a character outside of a-z, _ and 0-8
  Documents,    \* YAML documents
  Loaders,      \* threads that load them
  Visitors,     \* threads that call Visit()
  Listened,     \* the objects of one type that get listeners
  MaxItems,     \* bound: entries of a map in a document
  MaxDepth,     \* bound: maps that a node of a document is inside of
  MaxLoads      \* bound: calls of LoadFromYaml()

ASSUME ConfigAssumption ==
  /\ TypeOf \in [Vars -> Types] /\ Types = {"int", "vec", "map"}
  /\ Listened \subseteq Vars
  /\ \A v, w \in Listened : TypeOf[v] = TypeOf[w]
  /\ Loaders \subseteq Callers /\ Visitors \subseteq Callers
  /\ MaxLoads \in Nat

VARIABLES
  s_datas,      \* from names to objects
  s_readers,    \* RWMutex of the registry: who holds it for reading
  s_writer,     \* who holds it for writing, or Null
  cpc,          \* where each thread is in Config
  call,         \* Lookup(): its arguments; LoadFromYaml(): the variable found
  nodes,        \* LoadFromYaml(): the nodes still to do; Visit(): the names
  handles,      \* what Lookup() returned, as pairs of a name and an object
  loading,      \* LoadFromYaml(): the document, and s_datas, m_val at the start
  dirty,        \* objects that others changed since, or whose listener threw
  loads

mutexVars == <<s_readers, s_writer>>
loadVars == <<loading, dirty, loads>>
regVars == <<s_datas, mutexVars, cpc, call, nodes, handles, loadVars>>
configVars == <<vars, regVars>>

ConfigInit ==
  /\ Init
  /\ s_datas = <<>> /\ s_readers = {} /\ s_writer = Null
  /\ cpc = [c \in Callers |-> "idle"]
  /\ call = [c \in Callers |-> Null]
  /\ nodes = [c \in Callers |-> <<>>]
  /\ handles = {}
  /\ loading = [c \in Callers |-> Null]
  /\ dirty = [c \in Callers |-> {}]
  /\ loads = 0

-----------------------------------------------------------------------------
(***************************************************************************)
(* Names, YAML nodes and their conversions.  A node is a scalar with its   *)
(* number, a sequence of nodes, or a map, which is a sequence of entries.  *)
(***************************************************************************)

\* find_first_not_of("abcdefghijklmnopqrstuvwxyz._012345678") finds nothing.
Valid(name) == \A i \in DOMAIN name : name[i] \notin Illegal

\* The nodes of a document by their paths, which are the positions of the entries
\* on the way from the root; each with its name.
NodeAt(root) ==
  LET at[p \in Seq(Nat)] ==
        IF p = <<>> THEN [name |-> <<>>, node |-> root]
        ELSE LET up == at[Front(p)]
                 entry == up.node.items[Last(p)]
             IN  [name |-> up.name \o entry.key, node |-> entry.value]
  IN  at

Children(node) == IF node.kind = "map" THEN DOMAIN node.items ELSE {}

Paths(root) ==
  {p \in BoundedSeq(1..MaxItems, MaxDepth) : \A k \in DOMAIN p :
     p[k] \in Children(NodeAt(root)[SubSeq(p, 1, k - 1)].node)}

\* The nodes of a document, parents before their children; a name that is not
\* valid is left out with everything below it.
ListAllMember(root) ==
  LET at == NodeAt(root)
      list[p \in Paths(root)] ==
        IF ~Valid(at[p].name) THEN <<>>
        ELSE <<at[p]>> \o
             FlattenSeq([i \in Children(at[p].node) |-> list[Append(p, i)]])
  IN  list[<<>>]

\* What a document has where the code looks for a sequence: the entries of a map,
\* the parts of a key.
IsList(s) == s \in Seq({s[i] : i \in DOMAIN s})
ASSUME DocumentsAssumption ==
  /\ MaxItems \in Nat /\ MaxDepth \in Nat
  /\ \A root \in Documents : \A p \in Paths(root) :
       LET node == NodeAt(root)[p].node IN
       node.kind = "map" =>
         /\ IsList(node.items)
         /\ Len(node.items) <= IF Len(p) < MaxDepth THEN MaxItems ELSE 0
         /\ \A i \in DOMAIN node.items : IsList(node.items[i].key)

IsNumber(node) == node.kind = "scalar" /\ node.number # Null
Elements(node) == IF node.kind = "scalar" THEN <<>> ELSE node.items

\* FromStr()(text of node) of each type does not throw.
Converts(type, node) ==
  CASE type = "int" -> IsNumber(node)
    [] type = "vec" -> \A i \in DOMAIN Elements(node) :
                         node.kind = "seq" /\ IsNumber(node.items[i])
    [] type = "map" -> \A i \in DOMAIN Elements(node) :
                         node.kind = "map" /\ IsNumber(node.items[i].value)

\* What it returns.  A scalar has no elements; of two equal keys the first stays.
FromStr(type, node) ==
  LET es == Elements(node)
      at(k) == Min({i \in DOMAIN es : es[i].key = k}) IN
  CASE type = "int" -> node.number
    [] type = "vec" -> [i \in DOMAIN es |-> es[i].number]
    [] type = "map" -> [k \in {es[i].key : i \in DOMAIN es} |->
                          es[at(k)].value.number]

-----------------------------------------------------------------------------
(***************************************************************************)
(* Lookup() and Visit().                                                   *)
(***************************************************************************)

At(c, label) == pc[c] = "idle" /\ cpc[c] = label
Free(c) == At(c, "idle")
GoTo(c, label) == cpc' = [cpc EXCEPT ![c] = label]
MayReadDatas == s_writer = Null
MayWriteDatas == s_writer = Null /\ s_readers = {}

\* The objects that Lookup() has made, and those it can still make (a bound).
Known == {h.var : h \in handles}
Unmade(type) == {v \in Vars \ Known : TypeOf[v] = type}

\* Mutant of Lookup: a read lock, as in the other Lookup().
LookupShared(c, name, type, default) ==
  /\ Free(c)
  /\ MayReadDatas
  /\ s_readers' = s_readers \cup {c}
  /\ \/ /\ name \in DOMAIN s_datas /\ TypeOf[s_datas[name]] # type
        /\ GoTo(c, "mismatch")
     \/ /\ name \notin DOMAIN s_datas /\ Valid(name) /\ Unmade(type) # {}
        /\ GoTo(c, "create")
  /\ call' = [call EXCEPT ![c] = [name |-> name, type |-> type, val |-> default]]
  /\ UNCHANGED <<vars, s_datas, s_writer, nodes, handles, loadVars>>

\* Lookup(name, default): write lock; the name is taken by another type, or free.
Lookup(c, name, type, default) ==
  /\ Free(c)
  /\ MayWriteDatas
  /\ s_writer' = c
  /\ \/ /\ name \in DOMAIN s_datas /\ TypeOf[s_datas[name]] # type
        /\ GoTo(c, "mismatch")
     \/ /\ name \notin DOMAIN s_datas /\ Valid(name) /\ Unmade(type) # {}
        /\ GoTo(c, "create")
  /\ call' = [call EXCEPT ![c] = [name |-> name, type |-> type, val |-> default]]
  /\ UNCHANGED <<vars, s_datas, s_readers, nodes, handles, loadVars>>

\* The scoped lock of the registry ends, and with it the call.
Leave(c) ==
  /\ s_writer' = IF s_writer = c THEN Null ELSE s_writer
  /\ s_readers' = s_readers \ {c}
  /\ GoTo(c, "idle")
  /\ call' = [call EXCEPT ![c] = Null]

\* toString() for the error message, under the variable's read lock; nullptr.
LookupMismatch(c) ==
  /\ At(c, "mismatch")
  /\ MayRead(s_datas[call[c].name])
  /\ Leave(c)
  /\ UNCHANGED <<vars, s_datas, nodes, handles, loadVars>>

\* A new object v with the default as its value goes into the map.
LookupCreate(c, v) ==
  /\ At(c, "create")
  /\ v \in Unmade(call[c].type)
  /\ m_val' = [m_val EXCEPT ![v] = call[c].val]
  /\ s_datas' = [name \in DOMAIN s_datas \cup {call[c].name} |->
                  IF name = call[c].name THEN v ELSE s_datas[name]]
  /\ handles' = handles \cup {[name |-> call[c].name, var |-> v]}
  /\ Leave(c)
  /\ UNCHANGED <<m_cbs, lockVars, s_func_id, pc, var, arg, todo, reg, nodes,
                 loadVars>>

\* Visit(cb): the read lock is held throughout.
Visit(c) ==
  /\ Free(c)
  /\ MayReadDatas
  /\ DOMAIN s_datas # {}
  /\ s_readers' = s_readers \cup {c}
  /\ nodes' = [nodes EXCEPT ![c] = SetToSeq(DOMAIN s_datas)]
  /\ GoTo(c, "visit")
  /\ UNCHANGED <<vars, s_datas, s_writer, call, handles, loadVars>>

\* cb(var), where cb calls toString().
VisitVar(c) ==
  /\ At(c, "visit")
  /\ nodes[c] # <<>>
  /\ MayRead(s_datas[Head(nodes[c])])
  /\ nodes' = [nodes EXCEPT ![c] = Tail(@)]
  /\ UNCHANGED <<vars, s_datas, mutexVars, cpc, call, handles, loadVars>>

VisitDone(c) ==
  /\ At(c, "visit")
  /\ nodes[c] = <<>>
  /\ Leave(c)
  /\ UNCHANGED <<vars, s_datas, nodes, handles, loadVars>>

-----------------------------------------------------------------------------
(***************************************************************************)
(* LoadFromYaml().                                                         *)
(***************************************************************************)

LoadFromYaml(c, root) ==
  /\ Free(c)
  /\ loads < MaxLoads
  /\ nodes' = [nodes EXCEPT ![c] = ListAllMember(root)]
  /\ GoTo(c, "load")
  /\ loads' = loads + 1
  /\ loading' = [loading EXCEPT ![c] =
                   [root |-> root, datas |-> s_datas, val |-> m_val]]
  /\ dirty' = [dirty EXCEPT ![c] = {}]
  /\ UNCHANGED <<vars, s_datas, mutexVars, call, handles>>

NextNode(c) == nodes' = [nodes EXCEPT ![c] = Tail(@)]

\* The root has no name, or LookupBase() finds no variable.
LoadSkip(c) ==
  /\ At(c, "load") /\ nodes[c] # <<>>
  /\ LET name == Head(nodes[c]).name IN
     name = <<>> \/ (MayReadDatas /\ name \notin DOMAIN s_datas)
  /\ NextNode(c)
  /\ UNCHANGED <<vars, s_datas, mutexVars, cpc, call, handles, loadVars>>

\* LookupBase() finds one.
LoadFound(c) ==
  /\ At(c, "load") /\ nodes[c] # <<>>
  /\ Head(nodes[c]).name # <<>>
  /\ Head(nodes[c]).name \in DOMAIN s_datas
  /\ MayReadDatas
  /\ GoTo(c, "apply")
  /\ call' = [call EXCEPT ![c] = s_datas[Head(nodes[c]).name]]
  /\ UNCHANGED <<vars, s_datas, mutexVars, nodes, handles, loadVars>>

Applied(c) ==
  /\ NextNode(c)
  /\ GoTo(c, "load")
  /\ call' = [call EXCEPT ![c] = Null]

\* Mutant of FromStringSame: the exception of a conversion ends the loading.
FromStringSameAborts(c) ==
  LET node == Head(nodes[c]).node
      type == TypeOf[call[c]] IN
  /\ At(c, "apply")
  /\ Converts(type, node) =>
       MayRead(call[c]) /\ FromStr(type, node) = m_val[call[c]]
  /\ nodes' = [nodes EXCEPT ![c] = IF Converts(type, node) THEN Tail(@) ELSE <<>>]
  /\ GoTo(c, "load")
  /\ call' = [call EXCEPT ![c] = Null]
  /\ UNCHANGED <<vars, s_datas, mutexVars, handles, loadVars>>

\* fromString(): the conversion throws, which is caught, or gives the value that
\* the variable has.
FromStringSame(c) ==
  LET node == Head(nodes[c]).node
      type == TypeOf[call[c]] IN
  /\ At(c, "apply")
  /\ Converts(type, node) =>
       MayRead(call[c]) /\ FromStr(type, node) = m_val[call[c]]
  /\ Applied(c)
  /\ UNCHANGED <<vars, s_datas, mutexVars, handles, loadVars>>

\* fromString(): setValue() of the converted value begins.
FromStringSet(c) ==
  LET node == Head(nodes[c]).node
      type == TypeOf[call[c]] IN
  /\ At(c, "apply")
  /\ Converts(type, node)
  /\ SetValue(c, call[c], FromStr(type, node))
  /\ Applied(c)
  /\ UNCHANGED <<s_datas, mutexVars, handles, loadVars>>

LoadDone(c) ==
  /\ At(c, "load") /\ nodes[c] = <<>>
  /\ GoTo(c, "idle")
  /\ loading' = [loading EXCEPT ![c] = Null]
  /\ UNCHANGED <<vars, s_datas, mutexVars, call, nodes, handles, dirty, loads>>

-----------------------------------------------------------------------------

\* A step of c inside a ConfigVar.  Every other thread that loads notes what
\* changed, and c itself what a listener kept from being set.
VarStep(c) ==
  /\ CallStep(c)
  /\ dirty' = [d \in Callers |->
       IF loading[d] = Null THEN dirty[d]
       ELSE dirty[d] \cup
            IF d = c THEN {v \in {var[c]} : pc[c] = "notify" /\ pc'[c] = "idle"}
            ELSE {v \in Vars : m_val'[v] # m_val[v]}]
  /\ UNCHANGED <<s_datas, mutexVars, cpc, call, nodes, handles, loading, loads>>

ConfigStep(c) ==
  \/ VarStep(c)
  \/ LookupMismatch(c) \/ \E v \in Vars : LookupCreate(c, v)
  \/ VisitVar(c) \/ VisitDone(c)
  \/ LoadSkip(c) \/ LoadFound(c) \/ FromStringSame(c) \/ FromStringSet(c)
  \/ LoadDone(c)

\* The value that a client passes as the default.
DefaultOf(type) == IF type = "int" THEN Default ELSE <<>>

ClientStep(c) ==
  \/ \E name \in Names, type \in Types : Lookup(c, name, type, DefaultOf(type))
  \/ c \in Visitors /\ Visit(c)
  \/ c \in Loaders /\ \E root \in Documents : LoadFromYaml(c, root)
  \/ /\ Free(c)
     /\ \/ /\ c \in Setters
           /\ \E v \in Known, x \in Values : TypeOf[v] = "int" /\ SetValue(c, v, x)
        \/ /\ c \in Registrars
           /\ \E v \in Known \cap Listened :
                \/ \E l \in Listeners : AddListener(c, v, l)
                \/ \E i \in Ids : delListener(c, v, i)
                \/ clearListener(c, v)
     /\ UNCHANGED regVars

ConfigNext == \E c \in Callers : ConfigStep(c) \/ ClientStep(c)

ConfigSpec == ConfigInit /\ [][ConfigNext]_configVars

\* Threads run, and a pthread_rwlock lets a waiting thread in at some time:
\* strong fairness, because others may come and go in between.
FairConfigSpec ==
  ConfigSpec /\ \A c \in Callers : SF_configVars(ConfigStep(c))

-----------------------------------------------------------------------------

\* Two Lookup() of one name never make two variables: what a Lookup() returned
\* is what the registry holds under that name for ever, so that a document that
\* is loaded later reaches it (config.h:348-371).
OneVarPerName ==
  \A h \in handles : h.name \in DOMAIN s_datas /\ s_datas[h.name] = h.var

\* Path p comes before path q in the document.
Before(p, q) ==
  \/ Len(p) < Len(q) /\ SubSeq(q, 1, Len(p)) = p
  \/ \E k \in DOMAIN p \cap DOMAIN q :
       p[k] < q[k] /\ \A j \in 1..(k - 1) : p[j] = q[j]

\* The value that a document gives to the variable of that name and type, or
\* else: the last node of this name that can be converted counts.
ValueIn(root, name, type, else) ==
  LET fits == {p \in Paths(root) : LET n == NodeAt(root)[p] IN
                 n.name = name /\ Converts(type, n.node)}
      last == CHOOSE p \in fits : \A q \in fits \ {p} : Before(q, p)
  IN  IF fits = {} \/ ~Valid(name) THEN else
      ELSE FromStr(type, NodeAt(root)[last].node)

\* When LoadFromYaml() returns, every variable that existed when it was called
\* and that nobody else changed since has the value the document gives it,
\* whatever other nodes could not be converted or had refused names, and keeps
\* its old one if the document has none (config.cpp:24-44).
LoadApplied ==
  [][\A c \in Callers : loading[c] # Null /\ loading'[c] = Null =>
       \A name \in DOMAIN loading[c].datas :
         LET v == loading[c].datas[name] IN
         v \notin dirty[c] =>
           m_val[v] = ValueIn(loading[c].root, name, TypeOf[v],
                              loading[c].val[v])]_configVars

\* Every call returns: setValue() that waits for the write lock, loading through
\* listeners that throw, and a Lookup() that waits for a variable's lock while
\* it holds the registry's.
CallsReturn ==
  \A c \in Callers : ~Free(c) ~> Free(c)

=============================================================================
