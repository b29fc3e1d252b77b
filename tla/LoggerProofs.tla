---------------------------- MODULE LoggerProofs ----------------------------
(***************************************************************************)
(* Theorems about Logger, for every set of loggers, appenders, threads and *)
(* configurations.                                                         *)
(***************************************************************************)
EXTENDS Logger, SequenceLemmas, FiniteSetTheorems

-----------------------------------------------------------------------------
(***************************************************************************)
(* What the documents define.                                              *)
(***************************************************************************)

\* f[k] are the appenders that the first k of nodes define.
IsRead(f, nodes, m) ==
  f = [k \in 0..m |->
        IF k = 0 THEN <<>>
        ELSE IF IsAppender(nodes[k])
        THEN Append(f[k - 1], AppenderDefine(nodes[k])) ELSE f[k - 1]]

\* There is such an f.
LEMMA ReadExists ==
  ASSUME NEW nodes
  PROVE  \A m \in Nat : \E f : IsRead(f, nodes, m)
<1>. DEFINE T == {m \in Nat : \E f : IsRead(f, nodes, m)}
<1>1. 0 \in T
  <2>1. IsRead([k \in 0..0 |-> <<>>], nodes, 0)
    BY DEF IsRead
  <2>. QED
    BY <2>1
<1>2. ASSUME NEW m \in T PROVE m + 1 \in T
  <2>1. PICK f : IsRead(f, nodes, m)
    OBVIOUS
  <2>. DEFINE g == [k \in 0..m+1 |-> IF k = m + 1
                        THEN IF IsAppender(nodes[k])
                             THEN Append(f[k - 1], AppenderDefine(nodes[k]))
                             ELSE f[k - 1]
                        ELSE f[k]]
  <2>2. \A k \in 0..m : f[k] = IF k = 0 THEN <<>>
          ELSE IF IsAppender(nodes[k])
          THEN Append(f[k - 1], AppenderDefine(nodes[k])) ELSE f[k - 1]
    BY <2>1 DEF IsRead
  <2>3. \A k \in 0..m+1 : g[k] = IF k = 0 THEN <<>>
          ELSE IF IsAppender(nodes[k])
          THEN Append(g[k - 1], AppenderDefine(nodes[k])) ELSE g[k - 1]
    BY <2>2
  <2>4. IsRead(g, nodes, m + 1)
    BY <2>3 DEF IsRead
  <2>. QED
    BY <2>4
<1>. QED
  BY <1>1, <1>2, SetInduction

\* Its values, and what they define.
LEMMA ReadValues ==
  ASSUME NEW nodes, Len(nodes) \in Nat
  PROVE  \E f : /\ AppenderDefines(nodes) = f[Len(nodes)] /\ f[0] = <<>>
                /\ \A k \in 1..Len(nodes) :
                     f[k] = IF IsAppender(nodes[k])
                            THEN Append(f[k - 1], AppenderDefine(nodes[k]))
                            ELSE f[k - 1]
<1>. DEFINE f == CHOOSE f : IsRead(f, nodes, Len(nodes))
<1>1. IsRead(f, nodes, Len(nodes))
  BY ReadExists
<1>2. AppenderDefines(nodes) = f[Len(nodes)]
  BY DEF AppenderDefines, IsRead
<1>. HIDE DEF f
<1>3. \A k \in 0..Len(nodes) : f[k] =
        IF k = 0 THEN <<>> ELSE IF IsAppender(nodes[k])
        THEN Append(f[k - 1], AppenderDefine(nodes[k])) ELSE f[k - 1]
  BY <1>1 DEF IsRead
<1>. QED
  BY <1>2, <1>3

\* Every appender that is read is one of the definition's.
LEMMA ReadFrom ==
  ASSUME NEW nodes, Len(nodes) \in Nat, NEW E,
         \A k \in 1..Len(nodes) : IsAppender(nodes[k]) => AppenderDefine(nodes[k]) \in E
  PROVE  AppenderDefines(nodes) \in Seq(E)
<1>1. PICK f : /\ AppenderDefines(nodes) = f[Len(nodes)] /\ f[0] = <<>>
               /\ \A k \in 1..Len(nodes) :
                     f[k] = IF IsAppender(nodes[k])
                            THEN Append(f[k - 1], AppenderDefine(nodes[k]))
                            ELSE f[k - 1]
  BY ReadValues
<1>. DEFINE S == {k \in Nat : k <= Len(nodes) => f[k] \in Seq(E)}
<1>2. 0 \in S
  BY <1>1, EmptySeq
<1>3. ASSUME NEW k \in S PROVE k + 1 \in S
  <2>. SUFFICES ASSUME k + 1 <= Len(nodes) PROVE f[k + 1] \in Seq(E)
    OBVIOUS
  <2>1. f[k] \in Seq(E)
    OBVIOUS
  <2>2. PICK m \in Nat : m = k + 1 /\ m \in 1..Len(nodes) /\ m - 1 = k
    OBVIOUS
  <2>3. f[m] = IF IsAppender(nodes[m])
               THEN Append(f[k], AppenderDefine(nodes[m])) ELSE f[k]
    BY <1>1, <2>2
  <2>. HIDE DEF S
  <2>4. IsAppender(nodes[m]) => AppenderDefine(nodes[m]) \in E
    BY <2>2
  <2>5. f[m] \in Seq(E)
    BY <2>1, <2>3, <2>4, AppendProperties
  <2>. QED
    BY <2>2, <2>5
<1>4. S = Nat
  <2>. HIDE DEF S
  <2>. QED
    BY <1>2, <1>3, SetInduction DEF S
<1>5. Len(nodes) \in S
  BY <1>4
<1>. QED
  BY <1>1, <1>5

\* If none is skipped, each is read at its place.
LEMMA ReadAll ==
  ASSUME NEW nodes, Len(nodes) \in Nat, \A k \in 1..Len(nodes) : IsAppender(nodes[k])
  PROVE  AppenderDefines(nodes) = [k \in 1..Len(nodes) |-> AppenderDefine(nodes[k])]
<1>1. PICK f : /\ AppenderDefines(nodes) = f[Len(nodes)] /\ f[0] = <<>>
               /\ \A k \in 1..Len(nodes) :
                     f[k] = IF IsAppender(nodes[k])
                            THEN Append(f[k - 1], AppenderDefine(nodes[k]))
                            ELSE f[k - 1]
  BY ReadValues
<1>. DEFINE E == {AppenderDefine(nodes[k]) : k \in 1..Len(nodes)}
            First(m) == [k \in 1..m |-> AppenderDefine(nodes[k])]
            S == {m \in Nat : m <= Len(nodes) => f[m] = First(m)}
<1>2. 0 \in S
  BY <1>1
<1>3. ASSUME NEW k \in S PROVE k + 1 \in S
  <2>. SUFFICES ASSUME k + 1 <= Len(nodes) PROVE f[k + 1] = First(k + 1)
    OBVIOUS
  <2>1. f[k] = First(k)
    OBVIOUS
  <2>2. PICK m \in Nat : m = k + 1 /\ m \in 1..Len(nodes) /\ m - 1 = k
    OBVIOUS
  <2>3. f[m] = Append(f[k], AppenderDefine(nodes[m]))
    BY <1>1, <2>2
  <2>4. First(k) \in Seq(E) /\ Len(First(k)) = k /\ AppenderDefine(nodes[m]) \in E
    <3>1. \A j \in 1..k : AppenderDefine(nodes[j]) \in E
      BY <2>2
    <3>. HIDE DEF E
    <3>2. First(k) \in [1..k -> E]
      BY <3>1
    <3>3. First(k) \in Seq(E)
      BY <3>2, SeqDef
    <3>4. DOMAIN First(k) = 1..k
      OBVIOUS
    <3>. QED
      BY <2>2, <3>3, <3>4 DEF E
  <2>5. First(m) \in Seq(E) /\ Len(First(m)) = m
    <3>1. \A j \in 1..m : AppenderDefine(nodes[j]) \in E
      BY <2>2
    <3>. HIDE DEF E
    <3>2. First(m) \in [1..m -> E]
      BY <3>1
    <3>3. First(m) \in Seq(E)
      BY <3>2, SeqDef
    <3>4. DOMAIN First(m) = 1..m
      OBVIOUS
    <3>. QED
      BY <3>3, <3>4
  <2>6. /\ \A j \in 1..k : First(m)[j] = First(k)[j]
        /\ First(m)[m] = AppenderDefine(nodes[m])
    BY <2>2
  <2>. HIDE DEF E, First, S
  <2>7. PICK s \in Seq(E), t \in Seq(E), e \in E :
          s = First(k) /\ t = First(m) /\ e = AppenderDefine(nodes[m])
    BY <2>4, <2>5
  <2>8. /\ Append(s, e) \in Seq(E) /\ Len(Append(s, e)) = m
        /\ \A j \in 1..k : Append(s, e)[j] = s[j]
        /\ Append(s, e)[m] = e
    BY <2>2, <2>4, <2>7, AppendProperties
  <2>9. Append(s, e) = t
    <3>1. Len(t) = m /\ \A j \in 1..m : Append(s, e)[j] = t[j]
      BY <2>2, <2>5, <2>6, <2>7, <2>8
    <3>. QED
      BY <2>8, <3>1, SeqEqual
  <2>. QED
    BY <2>1, <2>2, <2>3, <2>7, <2>9
<1>4. S = Nat
  <2>. HIDE DEF S
  <2>. QED
    BY <1>2, <1>3, SetInduction DEF S
<1>5. Len(nodes) \in S
  BY <1>4
<1>. QED
  BY <1>1, <1>5

\* The definition that a document gives of a name it has is the first.
LEMMA FirstOf ==
  ASSUME NEW document \in Documents, NEW l, \E k \in DOMAIN document : document[k].name = l
  PROVE  \E k \in DOMAIN document : document[k].name = l /\ FromYaml(document)[l] = DefineOf(document[k])
<1>1. IsList(document)
  BY DocumentsAssumption
<1>2. \E k \in DOMAIN document :
        document[k].name = l /\ \A j \in 1..(k - 1) : document[j].name # l
  <2>. DEFINE T == {k \in DOMAIN document : document[k].name = l}
  <2>1. T \in SUBSET Nat /\ T # {}
    BY <1>1 DEF IsList
  <2>2. PICK k \in T : \A j \in T : k <= j
    BY <2>1, LeastElement
  <2>3. \A j \in 1..(k - 1) : document[j].name # l
    BY <1>1, <2>2 DEF IsList
  <2>. QED
    BY <2>2, <2>3
<1>. DEFINE first == CHOOSE k \in DOMAIN document :
                /\ document[k].name = l
                /\ \A j \in 1..(k - 1) : document[j].name # l
<1>3. first \in DOMAIN document /\ document[first].name = l
  BY <1>2
<1>4. FromYaml(document)[l] = DefineOf(document[first])
  BY <1>3 DEF FromYaml
<1>. QED
  BY <1>3, <1>4

\* An appender of a definition.
AppenderOK(d) ==
  /\ d.type \in AppenderType /\ d.level = 0
  /\ d = [type |-> d.type, level |-> 0, formatter |-> d.formatter, file |-> d.file]
  /\ d.type = "FileLogAppender" <=> d.file # Null
DefinitionOK(d) ==
  /\ d.level \in Levels /\ IsList(d.appenders)
  /\ d = [level |-> d.level, formatter |-> d.formatter, appenders |-> d.appenders]
  /\ d.appenders = [k \in 1..Len(d.appenders) |-> d.appenders[k]]
  /\ \A k \in 1..Len(d.appenders) : AppenderOK(d.appenders[k])

\* The conversion gives such definitions.
LEMMA DefinesOK ==
  ASSUME NEW node, IsList(node.appenders)
  PROVE  DefinitionOK(DefineOf(node))
<1>. DEFINE E == {AppenderDefine(node.appenders[k]) :
                    k \in {k \in 1..Len(node.appenders) : IsAppender(node.appenders[k])}}
            s == AppenderDefines(node.appenders)
<1>1. s \in Seq(E)
  <2>1. \A k \in 1..Len(node.appenders) : IsAppender(node.appenders[k]) =>
          AppenderDefine(node.appenders[k]) \in E
    OBVIOUS
  <2>. HIDE DEF E
  <2>. QED
    BY <2>1, ReadFrom DEF IsList
<1>2. \A d \in E : AppenderOK(d)
  BY DEF AppenderOK, AppenderDefine, IsAppender, AppenderType
<1>3. LevelFromString(node.level) \in Levels
  BY LoggerAssumption DEF LevelFromString, LevelText, Levels
<1>. HIDE DEF E, s
<1>4. /\ Len(s) \in Nat /\ DOMAIN s = 1..Len(s) /\ \A k \in 1..Len(s) : s[k] \in E
      /\ s = [k \in 1..Len(s) |-> s[k]]
  BY <1>1
<1>5. DefineOf(node) = [level |-> LevelFromString(node.level),
                        formatter |-> node.formatter, appenders |-> s]
  BY DEF DefineOf, s
<1>. QED
  BY <1>2, <1>3, <1>4, <1>5 DEF DefinitionOK, IsList

\* Every value of the variable is a finite set of such definitions.
LEMMA ConfigsOK ==
  ASSUME NEW d \in Configs
  PROVE  /\ DOMAIN d \subseteq Loggers /\ IsFiniteSet(DOMAIN d)
         /\ d = [l \in DOMAIN d |-> d[l]]
         /\ \A l \in DOMAIN d : DefinitionOK(d[l])
<1>1. PICK document \in Documents : Accepted(document) /\ d = FromYaml(document)
  BY DEF Configs
<1>2. IsList(document) /\ \A k \in DOMAIN document :
        document[k].name \in Loggers \cup {Null} /\ IsList(document[k].appenders)
  BY DocumentsAssumption
<1>. DEFINE Names == {document[k].name : k \in DOMAIN document}
<1>3. Names \subseteq Loggers
  BY <1>1, <1>2 DEF Accepted
<1>4. DOMAIN d = Names /\ d = [l \in DOMAIN d |-> d[l]]
  BY <1>1 DEF FromYaml
<1>5. IsFiniteSet(Names)
  <2>. DEFINE f == [k \in 1..Len(document) |-> document[k].name]
  <2>1. f \in Surjection(1..Len(document), Names)
    BY <1>2 DEF IsList, Surjection
  <2>2. Len(document) \in Nat
    BY <1>2 DEF IsList
  <2>. QED
    BY <2>1, <2>2, FS_NatSurjection DEF ExistsSurjection
<1>6. ASSUME NEW l \in Names PROVE DefinitionOK(d[l])
  <2>1. PICK k \in DOMAIN document : d[l] = DefineOf(document[k])
    BY <1>1, FirstOf
  <2>. QED
    BY <1>2, <2>1, DefinesOK
<1>. QED
  BY <1>3, <1>4, <1>5, <1>6

\* What the proofs use of it.
LEMMA ConfigsType ==
  \A d \in Configs :
    /\ DOMAIN d \subseteq Loggers
    /\ \A l \in DOMAIN d :
         /\ d[l].level \in Levels /\ Len(d[l].appenders) \in Nat
         /\ \A k \in 1..Len(d[l].appenders) : d[l].appenders[k].type \in AppenderType
BY ConfigsOK DEF DefinitionOK, AppenderOK, IsList

\* A finite set in a sequence: each element once.
LEMMA SetToSeqOf ==
  ASSUME NEW S, IsFiniteSet(S)
  PROVE  /\ IsList(SetToSeq(S))
         /\ \A k \in DOMAIN SetToSeq(S) : SetToSeq(S)[k] \in S
         /\ \A x \in S : \E k \in DOMAIN SetToSeq(S) : SetToSeq(S)[k] = x
<1>. DEFINE m == Cardinality(S)
            names == SetToSeq(S)
<1>1. m \in Nat /\ ExistsBijection(1..m, S)
  BY FS_CardinalityType
<1>2. \E f \in [1..m -> S] : IsInjective(f)
  BY <1>1 DEF ExistsBijection, Bijection, Injection
<1>3. names \in [1..m -> S] /\ IsInjective(names)
  BY <1>2 DEF SetToSeq
<1>. HIDE DEF names
<1>4. names \in Injection(1..m, S)
  BY <1>3 DEF Injection
<1>5. names \in Surjection(1..m, S)
  <2>1. IsFiniteSet(1..m) /\ Cardinality(1..m) = m
    BY <1>1, FS_Interval
  <2>. QED
    BY <1>4, <2>1, FS_Injection
<1>6. \A x \in S : \E k \in 1..m : names[k] = x
  BY <1>5 DEF Surjection
<1>7. names \in Seq(S) /\ Len(names) = m /\ DOMAIN names = 1..m
  BY <1>1, <1>3, SeqDef
<1>. QED
  BY <1>1, <1>3, <1>6, <1>7 DEF IsList, names

\* The definitions node(l) of the names S, written in some order.
Written(S, node) ==
  [k \in DOMAIN SetToSeq(S) |-> node[SetToSeq(S)[k]]]

\* They are read back as what each of them defines.
LEMMA ReadsWritten ==
  ASSUME NEW S, IsFiniteSet(S), NEW node, \A l \in S : node[l].name = l
  PROVE  FromYaml(Written(S, node)) = [l \in S |-> DefineOf(node[l])]
<1>. DEFINE names == SetToSeq(S)
            document == Written(S, node)
<1>1. /\ IsList(names) /\ \A k \in DOMAIN names : names[k] \in S
      /\ \A x \in S : \E k \in DOMAIN names : names[k] = x
  BY SetToSeqOf
<1>2. DOMAIN document = DOMAIN names /\ \A k \in DOMAIN names : document[k] = node[names[k]]
  BY DEF Written
<1>. HIDE DEF names, document
<1>3. \A k \in DOMAIN document : document[k].name = names[k]
  BY <1>1, <1>2
<1>4. {document[k].name : k \in DOMAIN document} = S
  BY <1>1, <1>2, <1>3
<1>. DEFINE first(l) == CHOOSE k \in DOMAIN document :
                /\ document[k].name = l
                /\ \A j \in 1..(k - 1) : document[j].name # l
<1>5. ASSUME NEW l \in S PROVE document[first(l)] = node[l]
  <2>1. \E k \in DOMAIN document :
          document[k].name = l /\ \A j \in 1..(k - 1) : document[j].name # l
    <3>. DEFINE T == {k \in DOMAIN document : document[k].name = l}
    <3>1. T \in SUBSET Nat /\ T # {}
      BY <1>1, <1>2, <1>3 DEF IsList
    <3>2. PICK k \in T : \A j \in T : k <= j
      BY <3>1, LeastElement
    <3>3. \A j \in 1..(k - 1) : document[j].name # l
      BY <1>1, <1>2, <3>2 DEF IsList
    <3>. QED
      BY <3>2, <3>3
  <2>2. first(l) \in DOMAIN document /\ document[first(l)].name = l
    BY <2>1
  <2>. HIDE DEF first
  <2>. QED
    BY <1>2, <1>3, <2>2
<1>6. FromYaml(document) = [l \in S |-> DefineOf(document[first(l)])]
  BY <1>4 DEF FromYaml
<1>7. \A l \in S : DefineOf(document[first(l)]) = DefineOf(node[l])
  BY <1>5
<1>. HIDE DEF first
<1>. QED
  BY <1>6, <1>7 DEF document

-----------------------------------------------------------------------------
(***************************************************************************)
(* The invariant.                                                          *)
(***************************************************************************)

\* Where callers and the listener can be, and what they hold there: whoever
\* uses a list, other than to clear it, has the lock of its logger.
CallerLabel == {"idle", "lock", "root", "write", "unlock", "sf", "sfset", "add", "fill"}
ListenerLabel == {"idle", "lock", "write", "reload", "format", "sf", "sfset", "clear",
                  "append", "add", "fill"}
\* The listener is not setting up a logger.
Between == {"idle", "lock", "write", "reload"}
Place(t) ==
  /\ pc[t] \in IF t = Listener THEN ListenerLabel ELSE CallerLabel
  /\ pc[t] \notin {"idle", "reload"} => lg[t] \in Loggers /\ tgt[t] \in Loggers
  /\ pc[t] \in {"format", "sf", "sfset", "clear", "append", "add", "fill"} => tgt[t] = lg[t]
  /\ t = Listener /\ pc[t] \in {"lock", "write"} => tgt[t] = Root
  /\ pc[t] \in {"write", "sf", "sfset", "add", "fill"} => m_mutex[tgt[t]] = t
  /\ pc[t] \in {"write", "sf", "sfset", "append"} => at[t] >= 1
  /\ pc[t] \in {"add", "fill"} =>
       arg[t] \in Appenders /\ (t = Listener => at[t] >= 1)
  /\ pc[t] = "sfset" => at[t] <= Len(m_appenders[lg[t]])
PlacesOK == \A t \in Threads : Place(t)

\* The configuration that is applied, and what is left of it.
ConfOK ==
  /\ conf \in Configs \cup {<<>>} /\ new \in Configs \cup {<<>>}
  /\ pc[Listener] # "idle" => new \in Configs
  /\ todo \subseteq DOMAIN new
  /\ pc[Listener] # "idle" => drop \cap DOMAIN new = {}
  /\ pc[Listener] \notin Between => lg[Listener] \in DOMAIN new

Listed(a, l) == \E i \in 1..Len(m_appenders[l]) : m_appenders[l][i] = a
Added(a, t) == pc[t] \in {"add", "fill"} /\ arg[t] = a

\* An appender is in one list, or on its way to one.  On the way it has a formatter
\* of its own or none; when it is there it has one, or a client took it away.
ListsOK ==
  /\ {Console} \cup Spare \subseteq made
  /\ \A a \in Appenders, l, m \in Loggers : Listed(a, l) /\ Listed(a, m) => l = m
  /\ \A a \in Appenders, l \in Loggers : Listed(a, l) =>
       a \in made /\ (format[a] # Null \/ a \in taken)
  /\ \A a \in Appenders, t \in Threads : Added(a, t) =>
       /\ a \in made
       /\ \A l \in Loggers : ~Listed(a, l)
       /\ \A u \in Threads : Added(a, u) => u = t
       /\ m_hasFormatter[a] \/ format[a] = Null
  /\ \A a \in Appenders : m_hasFormatter[a] => format[a] # Null

\* Thread t has still to give the logger's formatter to position i of l.
Pending(t, l, i) == pc[t] \in {"sf", "sfset"} /\ lg[t] = l /\ i >= at[t]
FollowsOK ==
  \A l \in Loggers : \A i \in 1..Len(m_appenders[l]) :
    \/ m_hasFormatter[m_appenders[l][i]]
    \/ format[m_appenders[l][i]] = m_formatter[l]
    \/ format[m_appenders[l][i]] = Null /\ m_appenders[l][i] \in taken
    \/ \E t \in Threads : Pending(t, l, i)

\* What a thread in log() has written so far.
Writes(t) ==
  /\ pc[t] = "write" =>
       /\ Len(written[t]) = at[t] - 1
       /\ Len(written[t]) <= Len(m_appenders[tgt[t]])
       /\ \A i \in 1..Len(written[t]) : written[t][i] = m_appenders[tgt[t]][i]
  /\ pc[t] # "write" => written[t] = <<>>
WritesOK == \A t \in Threads : Writes(t)

\* TypeOK does not say which files there are.
TargetOK == target = [a \in Appenders |-> target[a]]

LInv ==
  /\ TypeOK /\ TargetOK
  /\ PlacesOK /\ ConfOK /\ ListsOK /\ FollowsOK /\ WritesOK

\* Callers rest while a configuration is applied.
RestOK == pc[Listener] # "idle" => \A c \in Callers : pc[c] = "idle"

\* What the definition of l asks for.
HasLevel(l) == m_level[l] = new[l].level
HasFormat(l) == new[l].formatter \in Formatters => m_formatter[l] = new[l].formatter
Matches(a, d) == target[a] = [type |-> d.type, file |-> d.file]
HasAppenders(l, n) ==
  /\ Len(m_appenders[l]) = n
  /\ \A i \in 1..n :
       LET a == m_appenders[l][i]
           d == new[l].appenders[i] IN
       /\ Matches(a, d)
       /\ format[a] = IF d.formatter \in Formatters THEN d.formatter ELSE m_formatter[l]
IsSet(l) == HasLevel(l) /\ HasFormat(l) /\ HasAppenders(l, Len(new[l].appenders))

\* The logger that the listener is setting up.
Setting(l) == pc[Listener] \notin Between /\ lg[Listener] = l
SettingOK(l) ==
  LET k == at[Listener]
      ds == new[l].appenders IN
  /\ HasLevel(l)
  /\ pc[Listener] # "format" => HasFormat(l)
  /\ pc[Listener] = "append" => k - 1 <= Len(ds) /\ HasAppenders(l, k - 1)
  /\ pc[Listener] = "fill" => format[arg[Listener]] = Null
  /\ pc[Listener] \in {"add", "fill"} =>
       /\ k >= 2 /\ k - 1 <= Len(ds) /\ HasAppenders(l, k - 2)
       /\ Matches(arg[Listener], ds[k - 1])
       /\ format[arg[Listener]] =
            IF ds[k - 1].formatter \in Formatters THEN ds[k - 1].formatter ELSE Null

AppliedOK ==
  pc[Listener] # "idle" =>
    /\ todo \subseteq Changed(conf, new)
    /\ \A l \in Changed(conf, new) \ todo : IF Setting(l) THEN SettingOK(l) ELSE IsSet(l)
    /\ pc[Listener] \notin Between => lg[Listener] \in Changed(conf, new) \ todo
    /\ drop \subseteq DOMAIN conf \ DOMAIN new
    /\ \A l \in (DOMAIN conf \ DOMAIN new) \ drop : m_appenders[l] = <<>>

-----------------------------------------------------------------------------
(***************************************************************************)
(* Lists.                                                                  *)
(***************************************************************************)

\* Adding an appender to a list.
LEMMA AppendElements ==
  ASSUME NEW s \in Seq(Appenders), NEW a \in Appenders
  PROVE  /\ Append(s, a) \in Seq(Appenders)
         /\ Len(Append(s, a)) = Len(s) + 1
         /\ \A i \in 1..Len(s) : Append(s, a)[i] = s[i]
         /\ Append(s, a)[Len(s) + 1] = a
OBVIOUS

\* The same where the list is one of several, and a list that is replaced.
LEMMA UpdateList ==
  ASSUME NEW S, NEW f \in [S -> Seq(Appenders)], NEW x \in S
  PROVE  /\ \A a \in Appenders : [f EXCEPT ![x] = Append(@, a)] \in [S -> Seq(Appenders)]
         /\ \A s \in Seq(Appenders) : [f EXCEPT ![x] = s] \in [S -> Seq(Appenders)]
         /\ [f EXCEPT ![x] = <<>>] \in [S -> Seq(Appenders)]
OBVIOUS

\* Erasing position i of a list.
LEMMA RemoveAtElements ==
  ASSUME NEW s \in Seq(Appenders), NEW i \in 1..Len(s)
  PROVE  /\ RemoveAt(s, i) \in Seq(Appenders)
         /\ Len(RemoveAt(s, i)) = Len(s) - 1
         /\ \A j \in 1..(Len(s) - 1) :
              RemoveAt(s, i)[j] = IF j < i THEN s[j] ELSE s[j + 1]
<1>1. Len(s) \in Nat /\ i \in Nat
  OBVIOUS
<1>. DEFINE front == SubSeq(s, 1, i - 1)
            back == SubSeq(s, i + 1, Len(s))
<1>2. front \in Seq(Appenders) /\ Len(front) = i - 1
      /\ \A j \in 1..(i - 1) : front[j] = s[j]
  BY <1>1, SubSeqProperties
<1>3. back \in Seq(Appenders) /\ Len(back) = Len(s) - i
      /\ \A j \in 1..(Len(s) - i) : back[j] = s[i + j]
  BY <1>1, SubSeqProperties
<1>4. RemoveAt(s, i) = front \o back
  BY DEF RemoveAt
<1>. HIDE DEF front, back
<1>5. /\ front \o back \in Seq(Appenders)
      /\ Len(front \o back) = Len(front) + Len(back)
      /\ \A j \in 1..(Len(front) + Len(back)) :
           (front \o back)[j] = IF j <= Len(front) THEN front[j] ELSE back[j - Len(front)]
  BY <1>2, <1>3, ConcatProperties
<1>. QED
  BY <1>1, <1>2, <1>3, <1>4, <1>5

-----------------------------------------------------------------------------
(***************************************************************************)
(* Types.                                                                  *)
(***************************************************************************)

\* The steps inside an operation.
LEMMA OpTypes ==
  ASSUME TypeOK, PlacesOK, NEW t \in Threads, OpStep(t)
  PROVE  TypeOK'
<1>. USE DEF OpStep, LogLock, LogRoot, LogWrite, LogReturn, SetFormatterTest,
             SetFormatterPass, SetFormatterReturn,
             AddTest, AddInsert, AddFill, PushBack, Return, Release,
             Acquire, Fail, At, GoTo, loggerVars, appVars, confVars, callVars
<1>1. UNCHANGED <<m_loggers, m_level, m_formatter, m_hasFormatter, taken, target, made, confVars>>
  OBVIOUS
<1>2. pc' \in [Threads -> Label]
  <2>1. pc \in [Threads -> Label]
    BY DEF TypeOK
  <2>. QED
    BY <2>1 DEF Label
<1>3. lg' \in [Threads -> Loggers \cup {Null}]
  <2>1. lg \in [Threads -> Loggers \cup {Null}]
    BY DEF TypeOK
  <2>. QED
    BY <2>1
<1>4. tgt' \in [Threads -> Loggers \cup {Null}]
  <2>1. tgt \in [Threads -> Loggers \cup {Null}] /\ Root \in Loggers
    BY LoggerAssumption DEF TypeOK
  <2>. QED
    BY <2>1
<1>5. at' \in [Threads -> Nat]
  <2>1. at \in [Threads -> Nat]
    BY DEF TypeOK
  <2>. QED
    BY <2>1
<1>6. arg' \in [Threads -> Levels \cup Appenders \cup {Null}]
  <2>1. arg \in [Threads -> Levels \cup Appenders \cup {Null}]
    BY DEF TypeOK
  <2>. QED
    BY <2>1
<1>7. m_mutex' \in [Loggers -> Threads \cup {Null}]
  <2>1. m_mutex \in [Loggers -> Threads \cup {Null}]
    BY DEF TypeOK
  <2>. QED
    BY <2>1
<1>8. failed' \in {Null, "null", "race"}
  <2>1. failed \in {Null, "null", "race"}
    BY DEF TypeOK
  <2>. QED
    BY <2>1
<1>9. pc[t] \in {"write", "sf", "sfset", "add", "fill"} => tgt[t] \in Loggers /\ lg[t] \in Loggers
  BY DEF PlacesOK, Place
<1>10. m_appenders' \in [Loggers -> Seq(Appenders)]
  <2>1. m_appenders \in [Loggers -> Seq(Appenders)]
    BY DEF TypeOK
  <2>2. CASE AddInsert(t) \/ AddFill(t)
    <3>1. arg[t] \in Appenders
      BY <2>2 DEF PlacesOK, Place
    <3>2. m_appenders' = [m_appenders EXCEPT ![lg[t]] = Append(@, arg[t])]
      BY <2>2
    <3>3. lg[t] \in Loggers
      BY <1>9, <2>2
    <3>. QED
      BY <2>1, <3>1, <3>2, <3>3, UpdateList, Zenon
  <2>3. CASE ~(AddInsert(t) \/ AddFill(t))
    <3>1. UNCHANGED m_appenders
      BY <2>3
    <3>. QED
      BY <2>1, <3>1
  <2>. QED
    BY <2>2, <2>3
<1>11. format' \in [Appenders -> Formatters \cup {Null}]
  <2>1. /\ format \in [Appenders -> Formatters \cup {Null}]
        /\ m_formatter \in [Loggers -> Formatters]
    BY DEF TypeOK
  <2>. QED
    BY <1>9, <2>1
<1>12. written' \in [Threads -> Seq(Appenders)]
  <2>1. written \in [Threads -> Seq(Appenders)]
    BY DEF TypeOK
  <2>2. CASE LogWrite(t)
    <3>1. PICK s \in Seq(Appenders) : s = m_appenders[tgt[t]]
      BY <1>9, <2>2 DEF TypeOK
    <3>2. at[t] \in 1..Len(s)
      BY <2>2, <3>1 DEF TypeOK, PlacesOK, Place
    <3>3. PICK a \in Appenders : a = s[at[t]]
      BY <3>2
    <3>4. UNCHANGED written \/ written' = [written EXCEPT ![t] = Append(@, a)]
      BY <2>2, <3>1, <3>3
    <3>5. [written EXCEPT ![t] = Append(@, a)] \in [Threads -> Seq(Appenders)]
      BY <2>1, UpdateList, Zenon
    <3>. QED
      BY <2>1, <3>4, <3>5
  <2>3. CASE ~LogWrite(t)
    <3>1. UNCHANGED written \/ written' = [written EXCEPT ![t] = <<>>]
      BY <2>3
    <3>2. [written EXCEPT ![t] = <<>>] \in [Threads -> Seq(Appenders)]
      BY <2>1, UpdateList, Zenon
    <3>. QED
      BY <2>1, <3>1, <3>2
  <2>. QED
    BY <2>2, <2>3
<1>. QED
  BY <1>1, <1>2, <1>3, <1>4, <1>5, <1>6, <1>7, <1>8, <1>10, <1>11, <1>12 DEF TypeOK

\* The beginning of an operation.
LEMMA CallTypes ==
  ASSUME TypeOK, NEW t \in Threads, NEW l \in Loggers \cup {Null},
         NEW x \in Levels \cup Appenders \cup {Null}, NEW label \in Label,
         Call(t, l, x, label)
  PROVE  /\ pc' \in [Threads -> Label]
         /\ lg' \in [Threads -> Loggers \cup {Null}]
         /\ tgt' \in [Threads -> Loggers \cup {Null}]
         /\ arg' \in [Threads -> Levels \cup Appenders \cup {Null}]
         /\ written' \in [Threads -> Seq(Appenders)]
<1>1. /\ pc' = [pc EXCEPT ![t] = label] /\ lg' = [lg EXCEPT ![t] = l]
      /\ tgt' = [tgt EXCEPT ![t] = l] /\ arg' = [arg EXCEPT ![t] = x]
      /\ UNCHANGED written
  BY DEF Call, GoTo
<1>2. /\ pc \in [Threads -> Label] /\ lg \in [Threads -> Loggers \cup {Null}]
      /\ tgt \in [Threads -> Loggers \cup {Null}]
      /\ arg \in [Threads -> Levels \cup Appenders \cup {Null}]
      /\ written \in [Threads -> Seq(Appenders)]
  BY DEF TypeOK
<1>. QED
  BY <1>1, <1>2

\* setFormatter() begins, for a caller or for the listener.
LEMMA SetFormatterTypes ==
  ASSUME TypeOK, NEW t \in Threads, NEW l \in Loggers, NEW f \in Formatters,
         SetFormatterLock(t, l, f)
  PROVE  TypeOK'
<1>1. /\ m_mutex' = [m_mutex EXCEPT ![l] = t]
      /\ m_formatter' = [m_formatter EXCEPT ![l] = f]
      /\ at' = [at EXCEPT ![t] = 1]
      /\ Call(t, l, Null, "sf")
      /\ UNCHANGED <<m_loggers, m_level, m_appenders, appVars, confVars, failed>>
  BY DEF SetFormatterLock, Acquire
<1>2. /\ m_mutex' \in [Loggers -> Threads \cup {Null}]
      /\ m_formatter' \in [Loggers -> Formatters]
      /\ at' \in [Threads -> Nat]
  BY <1>1 DEF TypeOK
<1>3. /\ pc' \in [Threads -> Label]
      /\ lg' \in [Threads -> Loggers \cup {Null}]
      /\ tgt' \in [Threads -> Loggers \cup {Null}]
      /\ arg' \in [Threads -> Levels \cup Appenders \cup {Null}]
      /\ written' \in [Threads -> Seq(Appenders)]
  BY <1>1, CallTypes DEF Label
<1>. QED
  BY <1>1, <1>2, <1>3 DEF TypeOK, appVars, confVars

\* What callers begin or do.
LEMMA ClientTypes ==
  ASSUME TypeOK, NEW c \in Callers, CallerStep(c) \/ AdminStep(c)
  PROVE  TypeOK'
<1>0. c \in Threads /\ Spare \subseteq Appenders
  BY LoggerAssumption DEF Threads
<1>1. ASSUME NEW l \in Loggers, getLogger(c, l) PROVE TypeOK'
  BY <1>1 DEF getLogger, TypeOK, appVars, confVars, callVars
<1>2. ASSUME NEW l \in Loggers, NEW level \in 1..MaxLevel, Log(c, l, level)
      PROVE  TypeOK'
  <2>1. level \in Levels /\ "lock" \in Label
    BY LoggerAssumption DEF Levels, Label
  <2>2. Call(c, l, level, "lock") /\ UNCHANGED <<loggerVars, appVars, confVars, at, failed>>
    BY <1>2 DEF Log
  <2>3. /\ pc' \in [Threads -> Label]
        /\ lg' \in [Threads -> Loggers \cup {Null}]
        /\ tgt' \in [Threads -> Loggers \cup {Null}]
        /\ arg' \in [Threads -> Levels \cup Appenders \cup {Null}]
        /\ written' \in [Threads -> Seq(Appenders)]
    BY <1>0, <2>1, <2>2, CallTypes
  <2>. QED
    BY <2>2, <2>3 DEF TypeOK, loggerVars, appVars, confVars
<1>3. ASSUME NEW l \in Loggers, NEW f \in Formatters, setFormatter(c, l, f)
      PROVE  TypeOK'
  BY <1>0, <1>3, SetFormatterTypes DEF setFormatter
<1>4. ASSUME NEW l \in Loggers, NEW a \in Spare, addAppender(c, l, a) PROVE TypeOK'
  <2>1. /\ Call(c, l, a, "add") /\ m_mutex' = [m_mutex EXCEPT ![l] = c]
        /\ UNCHANGED <<m_loggers, m_level, m_formatter, m_appenders, appVars, confVars,
                       at, failed>>
    BY <1>4 DEF addAppender, Acquire
  <2>2. /\ pc' \in [Threads -> Label]
        /\ lg' \in [Threads -> Loggers \cup {Null}]
        /\ tgt' \in [Threads -> Loggers \cup {Null}]
        /\ arg' \in [Threads -> Levels \cup Appenders \cup {Null}]
        /\ written' \in [Threads -> Seq(Appenders)]
    BY <1>0, <2>1, CallTypes DEF Label
  <2>3. m_mutex' \in [Loggers -> Threads \cup {Null}]
    BY <1>0, <2>1 DEF TypeOK
  <2>. QED
    BY <2>1, <2>2, <2>3 DEF TypeOK, appVars, confVars
<1>5. ASSUME NEW l \in Loggers, NEW a \in Spare, delAppender(c, l, a) PROVE TypeOK'
  <2>1. PICK i \in 1..Len(m_appenders[l]) :
          m_appenders' = [m_appenders EXCEPT ![l] = RemoveAt(@, i)]
    BY <1>5 DEF delAppender
  <2>2. m_appenders[l] \in Seq(Appenders)
    BY DEF TypeOK
  <2>3. RemoveAt(m_appenders[l], i) \in Seq(Appenders)
    BY <2>2, RemoveAtElements
  <2>4. m_appenders' \in [Loggers -> Seq(Appenders)]
    BY <2>1, <2>3 DEF TypeOK
  <2>. QED
    BY <1>5, <2>4 DEF delAppender, TypeOK, appVars, confVars, callVars
<1>6. ASSUME NEW a \in Spare, NEW f \in Formatters \cup {Null}, setOwnFormatter(c, a, f)
      PROVE  TypeOK'
  <2>1. /\ format' \in [Appenders -> Formatters \cup {Null}]
        /\ m_hasFormatter' \in [Appenders -> BOOLEAN]
        /\ taken' \in SUBSET Appenders
    BY <1>0, <1>6 DEF setOwnFormatter, TypeOK
  <2>. QED
    BY <1>6, <2>1 DEF setOwnFormatter, TypeOK, loggerVars, confVars, callVars
<1>. QED
  BY <1>1, <1>2, <1>3, <1>4, <1>5, <1>6 DEF CallerStep, AdminStep

\* The appender that ReloadAppend makes, and its definition.
Made == CHOOSE a \in Appenders : a \notin made
Wanted == new[lg[Listener]].appenders[at[Listener]]
Own(d) == IF d.formatter \in Formatters THEN d.formatter ELSE Null

\* ReloadAppend in these terms.
LEMMA AppendMeans ==
  ASSUME TypeOK, PlacesOK, ConfOK, ReloadAppend
  PROVE  /\ Made \in Appenders /\ Made \notin made /\ made' = made \cup {Made}
         /\ pc[Listener] = "append" /\ lg[Listener] \in Loggers
         /\ new \in Configs /\ lg[Listener] \in DOMAIN new
         /\ at[Listener] \in 1..Len(new[lg[Listener]].appenders)
         /\ Wanted.type \in AppenderType
         /\ target' = [target EXCEPT ![Made] = [type |-> Wanted.type, file |-> Wanted.file]]
         /\ format' = [format EXCEPT ![Made] = Own(Wanted)]
         /\ m_hasFormatter' = [m_hasFormatter EXCEPT ![Made] = Own(Wanted) # Null]
         /\ m_mutex[lg[Listener]] = Null
         /\ m_mutex' = [m_mutex EXCEPT ![lg[Listener]] = Listener]
         /\ at' = [at EXCEPT ![Listener] = @ + 1]
         /\ Call(Listener, lg[Listener], Made, "add")
         /\ UNCHANGED <<m_loggers, m_level, m_formatter, m_appenders, taken, confVars,
                        failed>>
<1>0. Listener \in Threads
  BY DEF Threads
<1>1. /\ pc[Listener] = "append" /\ made # Appenders
      /\ at[Listener] <= Len(new[lg[Listener]].appenders)
      /\ made' = made \cup {Made}
      /\ target' = [target EXCEPT ![Made] = [type |-> Wanted.type, file |-> Wanted.file]]
      /\ format' = [format EXCEPT ![Made] = Own(Wanted)]
      /\ m_hasFormatter' = [m_hasFormatter EXCEPT ![Made] = Own(Wanted) # Null]
      /\ m_mutex[lg[Listener]] = Null
      /\ m_mutex' = [m_mutex EXCEPT ![lg[Listener]] = Listener]
      /\ at' = [at EXCEPT ![Listener] = @ + 1]
      /\ Call(Listener, lg[Listener], Made, "add")
      /\ UNCHANGED <<m_loggers, m_level, m_formatter, m_appenders, taken, confVars, failed>>
  BY DEF ReloadAppend, At, Acquire, Made, Wanted, Own
<1>2. \E a \in Appenders : a \notin made
  BY <1>1 DEF TypeOK
<1>3. Made \in Appenders /\ Made \notin made
  BY <1>2 DEF Made
<1>4. lg[Listener] \in Loggers /\ new \in Configs /\ lg[Listener] \in DOMAIN new
  BY <1>0, <1>1 DEF PlacesOK, Place, ConfOK, Between
<1>5. Len(new[lg[Listener]].appenders) \in Nat
  BY <1>4, ConfigsType
<1>6. at[Listener] \in Nat /\ at[Listener] >= 1
  BY <1>0, <1>1 DEF TypeOK, PlacesOK, Place
<1>7. at[Listener] \in 1..Len(new[lg[Listener]].appenders)
  BY <1>1, <1>5, <1>6
<1>8. Wanted.type \in AppenderType
  BY <1>4, <1>7, ConfigsType DEF Wanted
<1>. QED
  BY <1>1, <1>3, <1>4, <1>7, <1>8

\* What the listener does outside of setFormatter() and addAppender().
LEMMA ReloadTypes ==
  ASSUME TypeOK, PlacesOK, ConfOK,
         ReloadStep \/ \E document \in Documents : Reload(document)
  PROVE  TypeOK'
<1>0. Listener \in Threads /\ 0 \in Levels
  BY LoggerAssumption DEF Threads, Levels
<1>1. ASSUME NEW document \in Documents, Reload(document) PROVE TypeOK'
  <2>1. PICK d \in Configs : d = FromYaml(document)
    BY <1>1 DEF Reload, Configs
  <2>2. DOMAIN d \subseteq Loggers
    BY ConfigsType
  <2>3. /\ new' = d /\ todo' = Changed(conf, d) /\ drop' = DOMAIN conf \ DOMAIN d
        /\ reloads < MaxReloads /\ reloads' = reloads + 1
        /\ \/ Call(Listener, Root, Info, "lock")
           \/ /\ pc' = [pc EXCEPT ![Listener] = "reload"]
              /\ UNCHANGED <<lg, tgt, arg, written>>
        /\ UNCHANGED <<loggerVars, appVars, conf, at, failed>>
    BY <1>1, <2>1 DEF Reload, GoTo
  <2>4. /\ DOMAIN new' \subseteq Loggers
        /\ todo' \in SUBSET Loggers /\ drop' \in SUBSET Loggers
    BY <2>2, <2>3 DEF TypeOK, Changed
  <2>5. reloads' \in 0..MaxReloads
    BY <2>3, LoggerAssumption DEF TypeOK
  <2>6. /\ pc' \in [Threads -> Label]
        /\ lg' \in [Threads -> Loggers \cup {Null}]
        /\ tgt' \in [Threads -> Loggers \cup {Null}]
        /\ arg' \in [Threads -> Levels \cup Appenders \cup {Null}]
        /\ written' \in [Threads -> Seq(Appenders)]
    <3>1. CASE Call(Listener, Root, Info, "lock")
      <4>1. Root \in Loggers /\ Info \in Levels /\ "lock" \in Label
        BY LoggerAssumption DEF Info, Levels, Label
      <4>. QED
        BY <1>0, <3>1, <4>1, CallTypes
    <3>2. CASE /\ pc' = [pc EXCEPT ![Listener] = "reload"]
               /\ UNCHANGED <<lg, tgt, arg, written>>
      BY <3>2 DEF TypeOK, Label
    <3>. QED
      BY <2>3, <3>1, <3>2
  <2>. QED
    BY <2>3, <2>4, <2>5, <2>6 DEF TypeOK, loggerVars, appVars
<1>2. ASSUME NEW l \in Loggers, ReloadLogger(l) PROVE TypeOK'
  <2>1. /\ l \in todo /\ pc[Listener] = "reload" /\ m_loggers' = m_loggers \cup {l}
        /\ m_level' = [m_level EXCEPT ![l] = new[l].level]
        /\ Call(Listener, l, Null, "format") /\ todo' = todo \ {l}
        /\ UNCHANGED <<m_formatter, m_appenders, m_mutex, appVars, conf, new, drop,
                       reloads, at, failed>>
    BY <1>2 DEF ReloadLogger, At
  <2>2. new[l].level \in Levels
    BY <2>1, ConfigsType DEF ConfOK
  <2>3. m_level' \in [Loggers -> Levels]
    BY <2>1, <2>2 DEF TypeOK
  <2>4. /\ pc' \in [Threads -> Label]
        /\ lg' \in [Threads -> Loggers \cup {Null}]
        /\ tgt' \in [Threads -> Loggers \cup {Null}]
        /\ arg' \in [Threads -> Levels \cup Appenders \cup {Null}]
        /\ written' \in [Threads -> Seq(Appenders)]
    BY <1>0, <2>1, CallTypes DEF Label
  <2>. QED
    BY <2>1, <2>3, <2>4 DEF TypeOK, appVars
<1>3. ASSUME NEW l \in Loggers, Clear(l)
      PROVE  /\ m_appenders' \in [Loggers -> Seq(Appenders)]
             /\ failed' \in {Null, "null", "race"}
  <2>1. \/ UNCHANGED m_appenders /\ failed' = "race"
        \/ m_appenders' = [m_appenders EXCEPT ![l] = <<>>] /\ UNCHANGED failed
    BY <1>3 DEF Clear
  <2>2. m_appenders \in [Loggers -> Seq(Appenders)] /\ failed \in {Null, "null", "race"}
    BY DEF TypeOK
  <2>3. [m_appenders EXCEPT ![l] = <<>>] \in [Loggers -> Seq(Appenders)]
    BY <2>2, UpdateList, Zenon
  <2>. QED
    BY <2>1, <2>2, <2>3
<1>4. ASSUME NEW l \in Loggers, ReloadDisable(l) PROVE TypeOK'
  <2>1. m_level' \in [Loggers -> Levels] /\ drop' \in SUBSET Loggers
    BY <1>0, <1>4 DEF ReloadDisable, TypeOK
  <2>. QED
    BY <1>3, <1>4, <2>1 DEF ReloadDisable, TypeOK, appVars, callVars
<1>5. CASE ReloadFormat
  <2>1. lg[Listener] \in Loggers
    BY <1>0, <1>5 DEF ReloadFormat, At, PlacesOK, Place
  <2>2. CASE new[lg[Listener]].formatter \in Formatters
    BY <1>0, <1>5, <2>1, <2>2, SetFormatterTypes DEF ReloadFormat
  <2>3. CASE new[lg[Listener]].formatter \notin Formatters
    <3>1. pc' \in [Threads -> Label]
      BY <1>5, <2>3 DEF ReloadFormat, GoTo, TypeOK, Label
    <3>. QED
      BY <1>5, <2>3, <3>1 DEF ReloadFormat, TypeOK, loggerVars, appVars, confVars
  <2>. QED
    BY <2>2, <2>3
<1>6. CASE ReloadClear
  <2>1. lg[Listener] \in Loggers
    BY <1>0, <1>6 DEF ReloadClear, At, PlacesOK, Place
  <2>2. pc' \in [Threads -> Label] /\ at' \in [Threads -> Nat]
    BY <1>6 DEF ReloadClear, GoTo, TypeOK, Label
  <2>3. Clear(lg[Listener])
    BY <1>6 DEF ReloadClear
  <2>. QED
    BY <1>3, <1>6, <2>1, <2>2, <2>3 DEF ReloadClear, TypeOK, appVars, confVars
<1>7. CASE ReloadAppend
  <2>1. /\ pc' \in [Threads -> Label]
        /\ lg' \in [Threads -> Loggers \cup {Null}]
        /\ tgt' \in [Threads -> Loggers \cup {Null}]
        /\ arg' \in [Threads -> Levels \cup Appenders \cup {Null}]
        /\ written' \in [Threads -> Seq(Appenders)]
    <3>1. /\ Call(Listener, lg[Listener], Made, "add")
          /\ lg[Listener] \in Loggers \cup {Null} /\ "add" \in Label
          /\ Made \in Levels \cup Appenders \cup {Null}
      BY <1>7, AppendMeans DEF Label
    <3>. QED
      BY <1>0, <3>1, CallTypes
  <2>2. /\ Made \in Appenders
        /\ made' = made \cup {Made}
        /\ format' = [format EXCEPT ![Made] = Own(Wanted)]
        /\ m_hasFormatter' = [m_hasFormatter EXCEPT ![Made] = Own(Wanted) # Null]
        /\ m_mutex' = [m_mutex EXCEPT ![lg[Listener]] = Listener]
        /\ at' = [at EXCEPT ![Listener] = @ + 1]
        /\ UNCHANGED <<m_loggers, m_level, m_formatter, m_appenders, taken, confVars, failed>>
    BY <1>7, AppendMeans
  <2>3. Own(Wanted) \in Formatters \cup {Null}
    BY DEF Own
  <2>4. /\ format' \in [Appenders -> Formatters \cup {Null}]
        /\ m_hasFormatter' \in [Appenders -> BOOLEAN]
        /\ made' \in SUBSET Appenders
    BY <2>2, <2>3 DEF TypeOK
  <2>5. m_mutex' \in [Loggers -> Threads \cup {Null}] /\ at' \in [Threads -> Nat]
    <3>1. m_mutex \in [Loggers -> Threads \cup {Null}] /\ at \in [Threads -> Nat]
      BY DEF TypeOK
    <3>2. m_mutex' \in [Loggers -> Threads \cup {Null}]
      BY <1>0, <2>2, <3>1
    <3>3. at' \in [Threads -> Nat]
      BY <1>0, <2>2, <3>1
    <3>. QED
      BY <3>2, <3>3
  <2>6. \A a \in Appenders : target'[a].type \in AppenderType
    <3>1. /\ target' = [target EXCEPT ![Made] = [type |-> Wanted.type, file |-> Wanted.file]]
          /\ Wanted.type \in AppenderType
      BY <1>7, AppendMeans
    <3>2. \A a \in Appenders : target[a].type \in AppenderType
      BY DEF TypeOK
    <3>. QED
      BY <3>1, <3>2
  <2>. QED
    BY <2>1, <2>2, <2>4, <2>5, <2>6 DEF TypeOK, confVars
<1>8. CASE ReloadNext
  <2>1. /\ Call(Listener, Null, Null, "reload") /\ at' = [at EXCEPT ![Listener] = 0]
        /\ UNCHANGED <<loggerVars, appVars, confVars, failed>>
    BY <1>8 DEF ReloadNext
  <2>2. /\ pc' \in [Threads -> Label]
        /\ lg' \in [Threads -> Loggers \cup {Null}]
        /\ tgt' \in [Threads -> Loggers \cup {Null}]
        /\ arg' \in [Threads -> Levels \cup Appenders \cup {Null}]
        /\ written' \in [Threads -> Seq(Appenders)]
    BY <1>0, <2>1, CallTypes DEF Label
  <2>3. at' \in [Threads -> Nat]
    BY <2>1 DEF TypeOK
  <2>. QED
    BY <2>1, <2>2, <2>3 DEF TypeOK, loggerVars, appVars, confVars
<1>9. CASE ReloadDone
  <2>1. pc' \in [Threads -> Label]
    BY <1>9 DEF ReloadDone, GoTo, TypeOK, Label
  <2>. QED
    BY <1>9, <2>1 DEF ReloadDone, TypeOK, loggerVars, appVars
<1>. QED
  BY <1>1, <1>2, <1>4, <1>5, <1>6, <1>7, <1>8, <1>9 DEF ReloadStep

\* The files and types of appenders stay where they are known.
LEMMA TargetStep ==
  ASSUME TypeOK, TargetOK, PlacesOK, ConfOK, [Next]_vars
  PROVE  TargetOK'
<1>1. CASE ReloadAppend
  <2>1. target' = [target EXCEPT ![Made] = [type |-> Wanted.type, file |-> Wanted.file]]
    BY <1>1, AppendMeans
  <2>2. PICK s : s = target /\ s = [a \in Appenders |-> s[a]]
    BY DEF TargetOK
  <2>3. target' = [s EXCEPT ![Made] = [type |-> Wanted.type, file |-> Wanted.file]]
    BY <2>1, <2>2
  <2>4. target' = [a \in Appenders |-> target'[a]]
    BY <2>2, <2>3
  <2>. QED
    BY <2>4 DEF TargetOK
<1>2. CASE ~ReloadAppend
  <2>1. UNCHANGED target
    BY <1>2
       DEF Next, OpStep, CallerStep, AdminStep, ReloadStep, LogLock, LogRoot, LogWrite,
           LogReturn, SetFormatterTest, SetFormatterPass, SetFormatterReturn,
           AddTest, AddInsert, AddFill, PushBack,
           getLogger, Log, setFormatter, SetFormatterLock, addAppender, delAppender,
           setOwnFormatter, Reload, ReloadLogger, ReloadDisable, ReloadFormat,
           ReloadClear, ReloadNext, ReloadDone, Crashed, Fail, vars, appVars
  <2>. QED
    BY <2>1 DEF TargetOK
<1>. QED
  BY <1>1, <1>2

-----------------------------------------------------------------------------
(***************************************************************************)
(* Places.                                                                 *)
(***************************************************************************)

\* What a step of thread t leaves alone: the locals and the locks of the others,
\* and every list that another thread uses.
Keeps(t) ==
  \A u \in Threads \ {t} :
    /\ pc'[u] = pc[u] /\ lg'[u] = lg[u] /\ tgt'[u] = tgt[u]
    /\ at'[u] = at[u] /\ arg'[u] = arg[u] /\ written'[u] = written[u]
    /\ \A l \in Loggers : m_mutex[l] = u => m_mutex'[l] = u
    /\ \A l \in Loggers : UsesList(u, l) => m_appenders'[l] = m_appenders[l]

\* The functions that hold locals and locks.
LEMMA Functions ==
  ASSUME TypeOK
  PROVE  /\ pc = [t \in Threads |-> pc[t]] /\ lg = [t \in Threads |-> lg[t]]
         /\ tgt = [t \in Threads |-> tgt[t]] /\ at = [t \in Threads |-> at[t]]
         /\ arg = [t \in Threads |-> arg[t]] /\ written = [t \in Threads |-> written[t]]
         /\ m_mutex = [l \in Loggers |-> m_mutex[l]]
         /\ m_appenders = [l \in Loggers |-> m_appenders[l]]
BY DEF TypeOK

\* The steps inside an operation.
LEMMA OpKeeps ==
  ASSUME TypeOK, PlacesOK, NEW t \in Threads, OpStep(t)
  PROVE  Keeps(t)
<1>. SUFFICES ASSUME NEW u \in Threads, u # t
              PROVE  /\ pc'[u] = pc[u] /\ lg'[u] = lg[u] /\ tgt'[u] = tgt[u]
                     /\ at'[u] = at[u] /\ arg'[u] = arg[u] /\ written'[u] = written[u]
                     /\ \A l \in Loggers : m_mutex[l] = u => m_mutex'[l] = u
                     /\ \A l \in Loggers : UsesList(u, l) => m_appenders'[l] = m_appenders[l]
  BY DEF Keeps
<1>0. u # Null /\ t # Null
  BY LoggerAssumption
<1>. USE DEF OpStep, LogLock, LogRoot, LogWrite, LogReturn, SetFormatterTest,
             SetFormatterPass, SetFormatterReturn,
             AddTest, AddInsert, AddFill, PushBack, Return, Release,
             Acquire, Fail, At, GoTo, loggerVars, appVars, confVars, callVars
<1>1. pc'[u] = pc[u]
  BY Functions
<1>2. lg'[u] = lg[u]
  BY Functions
<1>3. tgt'[u] = tgt[u]
  BY Functions
<1>4. at'[u] = at[u]
  BY Functions
<1>5. arg'[u] = arg[u]
  BY Functions
<1>6. written'[u] = written[u]
  BY Functions
<1>7. ASSUME NEW l \in Loggers, m_mutex[l] = u PROVE m_mutex'[l] = u
  BY <1>0, <1>7, Functions
<1>8. ASSUME NEW l \in Loggers, UsesList(u, l) PROVE m_appenders'[l] = m_appenders[l]
  <2>1. CASE AddInsert(t) \/ AddFill(t)
    <3>1. m_mutex[l] = u
      BY <1>8 DEF UsesList
    <3>2. m_mutex[tgt[t]] = t /\ tgt[t] = lg[t]
      BY <2>1 DEF PlacesOK, Place
    <3>3. l # lg[t]
      BY <3>1, <3>2
    <3>. QED
      BY <2>1, <3>3, Functions
  <2>2. CASE ~(AddInsert(t) \/ AddFill(t))
    BY <2>2
  <2>. QED
    BY <2>1, <2>2
<1>. QED
  BY <1>1, <1>2, <1>3, <1>4, <1>5, <1>6, <1>7, <1>8

\* What callers begin or do; nobody uses a list whose lock is free.
LEMMA ClientKeeps ==
  ASSUME TypeOK, PlacesOK, NEW c \in Callers, CallerStep(c) \/ AdminStep(c)
  PROVE  Keeps(c)
<1>. SUFFICES ASSUME NEW u \in Threads, u # c
              PROVE  /\ pc'[u] = pc[u] /\ lg'[u] = lg[u] /\ tgt'[u] = tgt[u]
                     /\ at'[u] = at[u] /\ arg'[u] = arg[u] /\ written'[u] = written[u]
                     /\ \A l \in Loggers : m_mutex[l] = u => m_mutex'[l] = u
                     /\ \A l \in Loggers : UsesList(u, l) => m_appenders'[l] = m_appenders[l]
  BY DEF Keeps
<1>0. u # Null /\ c \in Threads
  BY LoggerAssumption DEF Threads
<1>. USE DEF CallerStep, AdminStep, getLogger, Log, setFormatter, SetFormatterLock,
             addAppender, delAppender, setOwnFormatter, Call, Acquire, GoTo,
             loggerVars, appVars, confVars, callVars
<1>1. pc'[u] = pc[u]
  BY Functions
<1>2. lg'[u] = lg[u]
  BY Functions
<1>3. tgt'[u] = tgt[u]
  BY Functions
<1>4. at'[u] = at[u]
  BY Functions
<1>5. arg'[u] = arg[u]
  BY Functions
<1>6. written'[u] = written[u]
  BY Functions
<1>7. ASSUME NEW l \in Loggers, m_mutex[l] = u PROVE m_mutex'[l] = u
  BY <1>0, <1>7, Functions
<1>8. ASSUME NEW l \in Loggers, UsesList(u, l) PROVE m_appenders'[l] = m_appenders[l]
  <2>1. m_mutex[l] # Null
    BY <1>0, <1>8 DEF UsesList
  <2>. QED
    BY <2>1, Functions
<1>. QED
  BY <1>1, <1>2, <1>3, <1>4, <1>5, <1>6, <1>7, <1>8

\* The listener: clearAppenders() takes no lock, but where it meets a thread that
\* uses the list the program has failed.
LEMMA ReloadKeeps ==
  ASSUME TypeOK, PlacesOK, ReloadStep \/ \E document \in Documents : Reload(document)
  PROVE  Keeps(Listener)
<1>. SUFFICES ASSUME NEW u \in Threads, u # Listener
              PROVE  /\ pc'[u] = pc[u] /\ lg'[u] = lg[u] /\ tgt'[u] = tgt[u]
                     /\ at'[u] = at[u] /\ arg'[u] = arg[u] /\ written'[u] = written[u]
                     /\ \A l \in Loggers : m_mutex[l] = u => m_mutex'[l] = u
                     /\ \A l \in Loggers : UsesList(u, l) => m_appenders'[l] = m_appenders[l]
  BY DEF Keeps
<1>0. u # Null /\ Listener \in Threads
  BY LoggerAssumption DEF Threads
<1>. USE DEF ReloadStep, Reload, ReloadLogger, ReloadDisable, ReloadFormat, ReloadClear,
             ReloadAppend, ReloadNext, ReloadDone, SetFormatterLock, Call, Acquire, GoTo,
             loggerVars, appVars, confVars, callVars
<1>1. pc'[u] = pc[u]
  BY Functions
<1>2. lg'[u] = lg[u]
  BY Functions
<1>3. tgt'[u] = tgt[u]
  BY Functions
<1>4. at'[u] = at[u]
  BY Functions
<1>5. arg'[u] = arg[u]
  BY Functions
<1>6. written'[u] = written[u]
  BY Functions
<1>7. ASSUME NEW l \in Loggers, m_mutex[l] = u PROVE m_mutex'[l] = u
  BY <1>0, <1>7, Functions
<1>8. ASSUME NEW l \in Loggers, UsesList(u, l) PROVE m_appenders'[l] = m_appenders[l]
  <2>1. UNCHANGED m_appenders \/ \E m \in Loggers : Clear(m)
    <3>1. CASE ReloadClear
      BY <1>0, <3>1 DEF At, PlacesOK, Place
    <3>. QED
      BY <3>1
  <2>2. ASSUME NEW m \in Loggers, Clear(m) PROVE m_appenders'[l] = m_appenders[l]
    BY <1>8, <2>2, Functions DEF Clear
  <2>. QED
    BY <2>1, <2>2
<1>. QED
  BY <1>1, <1>2, <1>3, <1>4, <1>5, <1>6, <1>7, <1>8

\* Whoever is left alone stays where he may be.
LEMMA PlacesStep ==
  ASSUME TypeOK, PlacesOK, NEW t \in Threads, Keeps(t), Place(t)'
  PROVE  PlacesOK'
<1>. SUFFICES ASSUME NEW u \in Threads, u # t PROVE Place(u)'
  BY DEF PlacesOK
<1>1. Place(u)
  BY DEF PlacesOK
<1>2. /\ pc'[u] = pc[u] /\ lg'[u] = lg[u] /\ tgt'[u] = tgt[u]
      /\ at'[u] = at[u] /\ arg'[u] = arg[u]
      /\ \A l \in Loggers : m_mutex[l] = u => m_mutex'[l] = u
  BY DEF Keeps
<1>3. pc[u] \in {"write", "sf", "sfset", "add", "fill"} => UsesList(u, tgt[u]) /\ tgt[u] \in Loggers
  BY <1>1 DEF Place, UsesList
<1>4. pc[u] = "sfset" => m_appenders'[lg[u]] = m_appenders[lg[u]]
  BY <1>1, <1>3 DEF Place, Keeps
<1>. QED
  BY <1>1, <1>2, <1>3, <1>4 DEF Place

\* The steps inside an operation.
LEMMA OpPlaces ==
  ASSUME TypeOK, PlacesOK, NEW t \in Threads, OpStep(t)
  PROVE  PlacesOK'
<1>0. /\ Place(t) /\ Root \in Loggers
      /\ pc = [u \in Threads |-> pc[u]] /\ lg = [u \in Threads |-> lg[u]]
      /\ tgt = [u \in Threads |-> tgt[u]] /\ at = [u \in Threads |-> at[u]]
      /\ m_mutex = [l \in Loggers |-> m_mutex[l]]
      /\ at[t] \in Nat
  BY Functions, LoggerAssumption DEF PlacesOK, TypeOK
<1>. USE DEF Place, CallerLabel, ListenerLabel, At, GoTo
<1>1. ASSUME LogLock(t) PROVE Place(t)'
  BY <1>0, <1>1 DEF LogLock, Acquire
<1>2. ASSUME LogRoot(t) PROVE Place(t)'
  BY <1>0, <1>2 DEF LogRoot, loggerVars
<1>3. ASSUME LogWrite(t) PROVE Place(t)'
  BY <1>0, <1>3 DEF LogWrite, Fail, loggerVars, callVars
<1>4. ASSUME LogReturn(t) PROVE Place(t)'
  BY <1>0, <1>4 DEF LogReturn, Return
<1>5. ASSUME SetFormatterTest(t) PROVE Place(t)'
  BY <1>0, <1>5 DEF SetFormatterTest, loggerVars
<1>6. ASSUME SetFormatterPass(t) PROVE Place(t)'
  BY <1>0, <1>6 DEF SetFormatterPass, loggerVars
<1>7. ASSUME SetFormatterReturn(t) PROVE Place(t)'
  BY <1>0, <1>7 DEF SetFormatterReturn, Return
<1>8. ASSUME AddTest(t) PROVE Place(t)'
  BY <1>0, <1>8 DEF AddTest, loggerVars
<1>9. ASSUME AddInsert(t) \/ AddFill(t) PROVE Place(t)'
  BY <1>0, <1>9 DEF AddInsert, AddFill, PushBack, Return
<1>10. Place(t)'
  BY <1>1, <1>2, <1>3, <1>4, <1>5, <1>6, <1>7, <1>8, <1>9 DEF OpStep
<1>. QED
  BY <1>10, OpKeeps, PlacesStep

\* What callers begin or do.
LEMMA ClientPlaces ==
  ASSUME TypeOK, PlacesOK, NEW c \in Callers, CallerStep(c) \/ AdminStep(c)
  PROVE  PlacesOK'
<1>0. /\ Place(c) /\ c \in Threads /\ c # Listener /\ Spare \subseteq Appenders
      /\ pc = [u \in Threads |-> pc[u]] /\ lg = [u \in Threads |-> lg[u]]
      /\ tgt = [u \in Threads |-> tgt[u]] /\ at = [u \in Threads |-> at[u]]
      /\ arg = [u \in Threads |-> arg[u]]
      /\ m_mutex = [l \in Loggers |-> m_mutex[l]]
      /\ pc[c] = "idle"
  BY Functions, LoggerAssumption
     DEF PlacesOK, Threads, CallerStep, AdminStep, getLogger, Log, setFormatter,
         addAppender, delAppender, setOwnFormatter, MayCall, At
<1>. USE DEF Place, CallerLabel, Call, Acquire, GoTo
<1>1. ASSUME NEW l \in Loggers, NEW level \in 1..MaxLevel, Log(c, l, level)
      PROVE  Place(c)'
  BY <1>0, <1>1 DEF Log
<1>2. ASSUME NEW l \in Loggers, NEW f \in Formatters, setFormatter(c, l, f)
      PROVE  Place(c)'
  BY <1>0, <1>2 DEF setFormatter, SetFormatterLock
<1>3. ASSUME NEW l \in Loggers, NEW a \in Spare, addAppender(c, l, a) PROVE Place(c)'
  BY <1>0, <1>3 DEF addAppender
<1>4. ASSUME UNCHANGED pc PROVE Place(c)'
  BY <1>0, <1>4
<1>5. Place(c)'
  BY <1>1, <1>2, <1>3, <1>4
     DEF CallerStep, AdminStep, getLogger, delAppender, setOwnFormatter, callVars
<1>. QED
  BY <1>0, <1>5, ClientKeeps, PlacesStep

\* What the listener does outside of setFormatter() and addAppender().
LEMMA ReloadPlaces ==
  ASSUME TypeOK, PlacesOK, ConfOK,
         ReloadStep \/ \E document \in Documents : Reload(document)
  PROVE  PlacesOK'
<1>0. /\ Place(Listener) /\ Listener \in Threads
      /\ pc = [u \in Threads |-> pc[u]] /\ lg = [u \in Threads |-> lg[u]]
      /\ tgt = [u \in Threads |-> tgt[u]] /\ at = [u \in Threads |-> at[u]]
      /\ arg = [u \in Threads |-> arg[u]]
      /\ m_mutex = [l \in Loggers |-> m_mutex[l]]
      /\ at[Listener] \in Nat
  BY Functions DEF PlacesOK, Threads, TypeOK
<1>. USE DEF Place, ListenerLabel, Call, Acquire, GoTo, At
<1>1. ASSUME NEW document \in Documents, Reload(document) PROVE Place(Listener)'
  <2>1. Root \in Loggers
    BY LoggerAssumption
  <2>. QED
    BY <1>0, <1>1, <2>1 DEF Reload
<1>2. ASSUME NEW l \in Loggers, ReloadLogger(l) PROVE Place(Listener)'
  BY <1>0, <1>2 DEF ReloadLogger
<1>3. ASSUME NEW l \in Loggers, ReloadDisable(l) PROVE Place(Listener)'
  BY <1>0, <1>3 DEF ReloadDisable, callVars
<1>4. ASSUME ReloadFormat PROVE Place(Listener)'
  BY <1>0, <1>4 DEF ReloadFormat, SetFormatterLock, loggerVars
<1>5. ASSUME ReloadClear PROVE Place(Listener)'
  BY <1>0, <1>5 DEF ReloadClear
<1>6. ASSUME ReloadAppend PROVE Place(Listener)'
  <2>1. /\ Made \in Appenders /\ lg[Listener] \in Loggers
        /\ m_mutex' = [m_mutex EXCEPT ![lg[Listener]] = Listener]
        /\ at' = [at EXCEPT ![Listener] = @ + 1]
        /\ Call(Listener, lg[Listener], Made, "add")
    BY <1>6, AppendMeans
  <2>. QED
    BY <1>0, <2>1
<1>7. ASSUME ReloadNext PROVE Place(Listener)'
  BY <1>0, <1>7 DEF ReloadNext
<1>8. ASSUME ReloadDone PROVE Place(Listener)'
  BY <1>0, <1>8 DEF ReloadDone
<1>9. Place(Listener)'
  BY <1>1, <1>2, <1>3, <1>4, <1>5, <1>6, <1>7, <1>8 DEF ReloadStep
<1>. QED
  BY <1>0, <1>9, ReloadKeeps, PlacesStep

\* The configuration that is applied is one of the variable's values.
LEMMA ConfStep ==
  ASSUME TypeOK, PlacesOK, ConfOK, [Next]_vars
  PROVE  ConfOK'
<1>0. /\ pc = [u \in Threads |-> pc[u]] /\ lg = [u \in Threads |-> lg[u]]
      /\ Listener \in Threads /\ Place(Listener)
  BY Functions DEF PlacesOK, Threads
<1>. USE DEF ConfOK, Between
<1>1. ASSUME UNCHANGED <<conf, new, todo, drop>>,
             \/ UNCHANGED <<pc[Listener], lg[Listener]>>
             \/ pc[Listener] \notin Between /\ pc'[Listener] # "idle"
                /\ UNCHANGED lg[Listener]
             \/ pc[Listener] # "idle" /\ pc'[Listener] \in Between \ {"idle"}
      PROVE  ConfOK'
  BY <1>1
<1>2. ASSUME NEW t \in Threads, OpStep(t) PROVE ConfOK'
  <2>1. UNCHANGED <<conf, new, todo, drop>>
    BY <1>2 DEF OpStep, LogLock, LogRoot, LogWrite, LogReturn, SetFormatterTest,
             SetFormatterPass, SetFormatterReturn,
             AddTest, AddInsert, AddFill, PushBack, Fail, confVars
  <2>2. CASE t # Listener
    BY <1>0, <1>1, <1>2, <2>1, <2>2, OpKeeps DEF Keeps
  <2>3. CASE t = Listener
    <3>1. pc[Listener] \notin {"idle", "reload"}
      BY <1>2, <2>3 DEF OpStep, LogLock, LogRoot, LogWrite, LogReturn, SetFormatterTest,
             SetFormatterPass, SetFormatterReturn,
             AddTest, AddInsert, AddFill, PushBack, At
    <3>2. /\ pc'[Listener] # "idle"
          /\ IF pc[Listener] \in Between THEN pc'[Listener] \in Between
                                         ELSE lg'[Listener] = lg[Listener]
      BY <1>0, <1>2, <2>3 DEF OpStep, LogLock, LogRoot, LogWrite, LogReturn, SetFormatterTest,
             SetFormatterPass, SetFormatterReturn,
             AddTest, AddInsert, AddFill, PushBack, At, Return, GoTo, Fail,
             callVars, Place, ListenerLabel
    <3>. QED
      BY <1>1, <2>1, <3>1, <3>2
  <2>. QED
    BY <2>2, <2>3
<1>3. ASSUME NEW c \in Callers, CallerStep(c) \/ AdminStep(c) PROVE ConfOK'
  <2>1. UNCHANGED <<conf, new, todo, drop>>
    BY <1>3 DEF CallerStep, AdminStep, getLogger, Log, setFormatter, SetFormatterLock,
             addAppender, delAppender, setOwnFormatter, confVars
  <2>2. Listener # c
    BY LoggerAssumption
  <2>. QED
    BY <1>0, <1>1, <1>3, <2>1, <2>2, ClientKeeps DEF Keeps
<1>4. ASSUME NEW document \in Documents, Reload(document) PROVE ConfOK'
  <2>1. PICK d \in Configs : d = FromYaml(document)
    BY <1>4 DEF Reload, Configs
  <2>2. /\ new' = d /\ todo' = Changed(conf, d) /\ drop' = DOMAIN conf \ DOMAIN d
        /\ pc'[Listener] \in {"lock", "reload"} /\ UNCHANGED conf
    BY <1>0, <1>4, <2>1 DEF Reload, Call, GoTo
  <2>. QED
    BY <2>1, <2>2 DEF Changed
<1>5. ASSUME NEW l \in Loggers, ReloadLogger(l) PROVE ConfOK'
  BY <1>0, <1>5 DEF ReloadLogger, Call, GoTo, At
<1>6. ASSUME NEW l \in Loggers, ReloadDisable(l) PROVE ConfOK'
  BY <1>6 DEF ReloadDisable, callVars
<1>7. CASE ReloadFormat
  BY <1>0, <1>1, <1>7 DEF ReloadFormat, SetFormatterLock, Call, GoTo, At, confVars
<1>8. CASE ReloadClear
  BY <1>0, <1>1, <1>8 DEF ReloadClear, GoTo, At, confVars
<1>9. CASE ReloadAppend
  BY <1>0, <1>1, <1>9 DEF ReloadAppend, Call, GoTo, At, confVars
<1>10. CASE ReloadNext
  BY <1>0, <1>1, <1>10 DEF ReloadNext, Call, GoTo, At, confVars
<1>11. CASE ReloadDone
  BY <1>0, <1>11 DEF ReloadDone, GoTo, At
<1>12. CASE UNCHANGED vars \/ Crashed
  BY <1>12 DEF vars, confVars, callVars, Crashed
<1>13. Admins \subseteq Callers
  BY LoggerAssumption
<1>. QED
  BY <1>2, <1>3, <1>4, <1>5, <1>6, <1>7, <1>8, <1>9, <1>10, <1>11, <1>12, <1>13
     DEF Next, ReloadStep

-----------------------------------------------------------------------------
(***************************************************************************)
(* What log() has written.                                                 *)
(***************************************************************************)

\* A thread that is left alone has written the beginning of the list it uses.
LEMMA WritesStep ==
  ASSUME TypeOK, PlacesOK, WritesOK, NEW t \in Threads, Keeps(t), Writes(t)'
  PROVE  WritesOK'
<1>. SUFFICES ASSUME NEW u \in Threads, u # t PROVE Writes(u)'
  BY DEF WritesOK
<1>1. Writes(u)
  BY DEF WritesOK
<1>2. pc'[u] = pc[u] /\ tgt'[u] = tgt[u] /\ at'[u] = at[u] /\ written'[u] = written[u]
  BY DEF Keeps
<1>3. pc[u] = "write" => m_appenders'[tgt[u]] = m_appenders[tgt[u]]
  BY DEF PlacesOK, Place, UsesList, Keeps
<1>. QED
  BY <1>1, <1>2, <1>3 DEF Writes

\* Every step keeps it.
LEMMA WritesNext ==
  ASSUME TypeOK, PlacesOK, ConfOK, WritesOK, [Next]_vars
  PROVE  WritesOK'
<1>0. /\ pc = [u \in Threads |-> pc[u]] /\ at = [u \in Threads |-> at[u]]
      /\ written = [u \in Threads |-> written[u]]
      /\ \A u \in Threads : Writes(u) /\ Place(u) /\ at[u] \in Nat
      /\ Listener \in Threads /\ Callers \subseteq Threads /\ Admins \subseteq Callers
      /\ Listener \notin Callers
  BY Functions, LoggerAssumption DEF TypeOK, PlacesOK, WritesOK, Threads
<1>1. ASSUME NEW t \in Threads, OpStep(t) PROVE WritesOK'
  <2>. USE DEF Writes, At, GoTo
  <2>1. ASSUME LogLock(t) PROVE Writes(t)'
    <3>1. /\ pc[t] = "lock" /\ written[t] = <<>> /\ UNCHANGED <<written, m_appenders, tgt>>
          /\ pc'[t] = "write" => at'[t] = 1
      BY <1>0, <2>1 DEF LogLock
    <3>2. Len(m_appenders[tgt[t]]) >= 0
      BY <1>0, <3>1 DEF Place, TypeOK
    <3>. QED
      BY <3>1, <3>2
  <2>2. ASSUME LogRoot(t) PROVE Writes(t)'
    BY <1>0, <2>2 DEF LogRoot
  <2>3. ASSUME LogWrite(t) PROVE Writes(t)'
    <3>1. /\ pc[t] = "write" /\ UNCHANGED <<pc, m_appenders, tgt>>
          /\ at[t] <= Len(m_appenders[tgt[t]])
          /\ \/ UNCHANGED <<written, at>>
             \/ /\ written' = [written EXCEPT ![t] = Append(@, m_appenders[tgt[t]][at[t]])]
                /\ at' = [at EXCEPT ![t] = @ + 1]
      BY <2>3 DEF LogWrite, Fail, loggerVars, callVars
    <3>2. /\ written[t] \in Seq(Appenders) /\ m_appenders[tgt[t]] \in Seq(Appenders)
          /\ at[t] \in Nat /\ at[t] >= 1
      BY <1>0, <3>1 DEF TypeOK, Place
    <3>3. m_appenders[tgt[t]][at[t]] \in Appenders
      BY <3>1, <3>2
    <3>4. CASE UNCHANGED <<written, at>>
      BY <1>0, <3>1, <3>4
    <3>5. CASE written' = [written EXCEPT ![t] = Append(@, m_appenders[tgt[t]][at[t]])]
               /\ at' = [at EXCEPT ![t] = @ + 1]
      <4>1. /\ written'[t] = Append(written[t], m_appenders[tgt[t]][at[t]])
            /\ at'[t] = at[t] + 1
        BY <1>0, <3>5
      <4>2. /\ Len(written'[t]) = Len(written[t]) + 1
            /\ \A i \in 1..Len(written[t]) : written'[t][i] = written[t][i]
            /\ written'[t][Len(written[t]) + 1] = m_appenders[tgt[t]][at[t]]
        BY <3>2, <3>3, <4>1, AppendElements
      <4>3. Len(written[t]) = at[t] - 1
        BY <1>0, <3>1
      <4>. QED
        BY <1>0, <3>1, <3>2, <4>1, <4>2, <4>3
    <3>. QED
      BY <3>1, <3>4, <3>5
  <2>4. ASSUME LogReturn(t) \/ SetFormatterReturn(t) \/ AddInsert(t) \/ AddFill(t)
        PROVE  Writes(t)'
    BY <1>0, <2>4 DEF LogReturn, SetFormatterReturn, AddInsert, AddFill, PushBack, Return
  <2>5. ASSUME SetFormatterTest(t) \/ SetFormatterPass(t) \/ AddTest(t) PROVE Writes(t)'
    BY <1>0, <2>5 DEF SetFormatterTest, SetFormatterPass, AddTest
  <2>. QED
    BY <1>1, <2>1, <2>2, <2>3, <2>4, <2>5, OpKeeps, WritesStep DEF OpStep
<1>2. ASSUME NEW c \in Callers, CallerStep(c) \/ AdminStep(c) PROVE WritesOK'
  <2>1. pc[c] = "idle" /\ UNCHANGED written /\ pc'[c] # "write"
    BY <1>0, <1>2
       DEF CallerStep, AdminStep, getLogger, Log, setFormatter, SetFormatterLock,
           addAppender, delAppender, setOwnFormatter, MayCall, At, Call, GoTo, callVars
  <2>2. Writes(c)'
    BY <1>0, <2>1 DEF Writes
  <2>. QED
    BY <1>0, <1>2, <2>2, ClientKeeps, WritesStep
<1>3. ASSUME ReloadStep \/ \E document \in Documents : Reload(document) PROVE WritesOK'
  <2>1. UNCHANGED written /\ pc'[Listener] # "write" /\ pc[Listener] # "write"
    BY <1>0, <1>3
       DEF ReloadStep, Reload, ReloadLogger, ReloadDisable, ReloadFormat, ReloadClear,
           ReloadAppend, ReloadNext, ReloadDone, SetFormatterLock, At, Call, GoTo, callVars
  <2>2. Writes(Listener)'
    BY <1>0, <2>1 DEF Writes
  <2>. QED
    BY <1>0, <1>3, <2>2, ReloadKeeps, WritesStep
<1>4. ASSUME UNCHANGED vars \/ Crashed PROVE WritesOK'
  BY <1>4 DEF Crashed, vars, callVars, loggerVars, WritesOK, Writes
<1>. QED
  BY <1>0, <1>1, <1>2, <1>3, <1>4 DEF Next

-----------------------------------------------------------------------------
(***************************************************************************)
(* Which appenders are in which list.                                      *)
(***************************************************************************)

\* A step that lists nothing new and leaves the appenders as they are.
LEMMA ListsSame ==
  ASSUME ListsOK, UNCHANGED <<made, format, m_hasFormatter, taken>>,
         \A a \in Appenders, l \in Loggers : Listed(a, l)' => Listed(a, l),
         \A a \in Appenders, t \in Threads : Added(a, t)' => Added(a, t)
  PROVE  ListsOK'
BY DEF ListsOK

\* push_back() of an appender.
LEMMA ListsAppend ==
  ASSUME TypeOK, NEW l \in Loggers, NEW a \in Appenders,
         m_appenders' = [m_appenders EXCEPT ![l] = Append(@, a)]
  PROVE  \A b \in Appenders, m \in Loggers :
           Listed(b, m)' <=> Listed(b, m) \/ (b = a /\ m = l)
<1>. TAKE b \in Appenders, m \in Loggers
<1>1. m_appenders[l] \in Seq(Appenders) /\ m_appenders = [k \in Loggers |-> m_appenders[k]]
  BY Functions DEF TypeOK
<1>2. CASE m # l
  BY <1>1, <1>2 DEF Listed
<1>3. CASE m = l
  <2>1. m_appenders'[l] = Append(m_appenders[l], a)
    BY <1>1
  <2>2. /\ Len(m_appenders'[l]) = Len(m_appenders[l]) + 1
        /\ \A i \in 1..Len(m_appenders[l]) : m_appenders'[l][i] = m_appenders[l][i]
        /\ m_appenders'[l][Len(m_appenders[l]) + 1] = a
    BY <1>1, <2>1, AppendElements
  <2>3. Len(m_appenders[l]) \in Nat
    BY <1>1
  <2>. QED
    BY <1>3, <2>2, <2>3 DEF Listed
<1>. QED
  BY <1>2, <1>3

\* Where no list grows.
LEMMA ListsShrink ==
  ASSUME TypeOK, NEW l \in Loggers,
         \/ UNCHANGED m_appenders
         \/ m_appenders' = [m_appenders EXCEPT ![l] = <<>>]
         \/ \E i \in 1..Len(m_appenders[l]) :
              m_appenders' = [m_appenders EXCEPT ![l] = RemoveAt(@, i)]
  PROVE  \A a \in Appenders, m \in Loggers : Listed(a, m)' => Listed(a, m)
<1>. SUFFICES ASSUME NEW a \in Appenders, NEW m \in Loggers, Listed(a, m)'
              PROVE  Listed(a, m)
  OBVIOUS
<1>1. m_appenders[l] \in Seq(Appenders) /\ m_appenders = [k \in Loggers |-> m_appenders[k]]
  BY Functions DEF TypeOK
<1>2. CASE UNCHANGED m_appenders
  BY <1>2 DEF Listed
<1>3. CASE m_appenders' = [m_appenders EXCEPT ![l] = <<>>]
  BY <1>1, <1>3 DEF Listed
<1>4. ASSUME NEW i \in 1..Len(m_appenders[l]),
             m_appenders' = [m_appenders EXCEPT ![l] = RemoveAt(@, i)]
      PROVE  Listed(a, m)
  <2>1. CASE m # l
    BY <1>1, <1>4, <2>1 DEF Listed
  <2>2. CASE m = l
    <3>1. m_appenders'[l] = RemoveAt(m_appenders[l], i)
      BY <1>1, <1>4
    <3>2. /\ Len(m_appenders'[l]) = Len(m_appenders[l]) - 1
          /\ \A j \in 1..(Len(m_appenders[l]) - 1) :
               m_appenders'[l][j] = IF j < i THEN m_appenders[l][j] ELSE m_appenders[l][j + 1]
      BY <1>1, <3>1, RemoveAtElements
    <3>3. PICK j \in 1..Len(m_appenders'[l]) : m_appenders'[l][j] = a
      BY <2>2 DEF Listed
    <3>4. Len(m_appenders[l]) \in Nat
      BY <1>1
    <3>5. PICK k \in 1..Len(m_appenders[l]) : m_appenders[l][k] = a
      BY <3>2, <3>3, <3>4
    <3>. QED
      BY <2>2, <3>5 DEF Listed
  <2>. QED
    BY <2>1, <2>2
<1>. QED
  BY <1>2, <1>3, <1>4

\* Who is inside addAppender() after a step of thread t that does not begin one.
LEMMA AddedStep ==
  ASSUME NEW t \in Threads, Keeps(t),
         \/ pc'[t] \notin {"add", "fill"}
         \/ UNCHANGED arg[t] /\ pc[t] \in {"add", "fill"}
  PROVE  \A a \in Appenders, u \in Threads : Added(a, u)' => Added(a, u)
BY DEF Keeps, Added

\* The steps inside an operation.
LEMMA OpLists ==
  ASSUME TypeOK, PlacesOK, ListsOK, NEW t \in Threads, OpStep(t)
  PROVE  ListsOK'
<1>0. /\ pc = [u \in Threads |-> pc[u]] /\ format = [a \in Appenders |-> format[a]]
      /\ \A f \in Formatters : f # Null
      /\ Place(t) /\ Keeps(t)
  BY Functions, OpKeeps, LoggerAssumption DEF TypeOK, PlacesOK
<1>1. ASSUME AddInsert(t) \/ AddFill(t) PROVE ListsOK'
  <2>0. pc[t] \in {"add", "fill"}
    BY <1>1 DEF AddInsert, AddFill, At
  <2>1. PICK a \in Appenders : a = arg[t]
    BY <1>0, <2>0 DEF Place
  <2>2. PICK l \in Loggers : l = lg[t]
    BY <1>0, <2>0 DEF Place
  <2>3. /\ m_appenders' = [m_appenders EXCEPT ![l] = Append(@, a)]
        /\ \/ format' = format /\ format[a] # Null
           \/ format' = [format EXCEPT ![a] = m_formatter[l]]
        /\ UNCHANGED <<m_hasFormatter, taken, made>>
        /\ pc'[t] \notin {"add", "fill"}
    BY <1>0, <1>1, <2>1, <2>2 DEF AddInsert, AddFill, PushBack, Return, GoTo, At
  <2>4. \A b \in Appenders, m \in Loggers :
          Listed(b, m)' <=> Listed(b, m) \/ (b = a /\ m = l)
    BY <2>3, ListsAppend
  <2>5. \A b \in Appenders, u \in Threads : Added(b, u)' => Added(b, u) /\ u # t
    BY <1>0, <2>3, AddedStep DEF Added
  <2>6. Added(a, t)
    BY <2>0, <2>1 DEF Added
  <2>7. /\ format'[a] # Null
        /\ \A b \in Appenders : b # a => format'[b] = format[b]
    <3>1. m_formatter[l] # Null
      BY <1>0 DEF TypeOK
    <3>. QED
      BY <1>0, <2>3, <3>1
  <2>. QED
    BY <2>3, <2>4, <2>5, <2>6, <2>7 DEF ListsOK
<1>2. ASSUME SetFormatterPass(t) PROVE ListsOK'
  <2>1. PICK l \in Loggers : l = lg[t]
    BY <1>0, <1>2 DEF SetFormatterPass, At, Place
  <2>2. at[t] \in 1..Len(m_appenders[l]) /\ m_appenders[l] \in Seq(Appenders)
    BY <1>0, <1>2, <2>1 DEF SetFormatterPass, At, Place, TypeOK
  <2>3. PICK a \in Appenders : a = m_appenders[l][at[t]]
    BY <2>2
  <2>4. Listed(a, l)
    BY <2>2, <2>3 DEF Listed
  <2>5. /\ format' = [format EXCEPT ![a] = m_formatter[l]]
        /\ UNCHANGED <<m_appenders, m_hasFormatter, taken, made>>
        /\ pc'[t] \notin {"add", "fill"}
    BY <1>0, <1>2, <2>1, <2>3 DEF SetFormatterPass, GoTo, loggerVars
  <2>6. m_formatter[l] # Null
    BY <1>0 DEF TypeOK
  <2>7. /\ format'[a] # Null
        /\ \A b \in Appenders : b # a => format'[b] = format[b]
    BY <1>0, <2>5, <2>6
  <2>8. \A b \in Appenders, u \in Threads : Added(b, u)' => Added(b, u) /\ b # a
    BY <1>0, <2>4, <2>5, AddedStep DEF ListsOK
  <2>9. \A b \in Appenders, m \in Loggers : Listed(b, m)' <=> Listed(b, m)
    BY <2>5 DEF Listed
  <2>. QED
    BY <2>5, <2>7, <2>8, <2>9 DEF ListsOK
<1>3. ASSUME \/ LogLock(t) \/ LogRoot(t) \/ LogWrite(t) \/ LogReturn(t)
             \/ SetFormatterTest(t) \/ SetFormatterReturn(t) \/ AddTest(t)
      PROVE  ListsOK'
  <2>1. UNCHANGED <<made, format, m_hasFormatter, taken, m_appenders>>
    BY <1>3 DEF LogLock, LogRoot, LogWrite, LogReturn, SetFormatterTest,
             SetFormatterReturn, AddTest, Fail, loggerVars, appVars
  <2>2. \/ pc'[t] \notin {"add", "fill"}
        \/ UNCHANGED arg[t] /\ pc[t] \in {"add", "fill"}
    BY <1>0, <1>3 DEF LogLock, LogRoot, LogWrite, LogReturn, SetFormatterTest,
             SetFormatterReturn, AddTest, Fail, Return, GoTo, At, callVars
  <2>3. \A a \in Appenders, u \in Threads : Added(a, u)' => Added(a, u)
    BY <1>0, <2>2, AddedStep
  <2>. QED
    BY <2>1, <2>3, ListsSame DEF Listed
<1>. QED
  BY <1>1, <1>2, <1>3 DEF OpStep

\* What callers begin or do.
LEMMA ClientLists ==
  ASSUME TypeOK, PlacesOK, ListsOK, NEW c \in Callers, CallerStep(c) \/ AdminStep(c)
  PROVE  ListsOK'
<1>0. /\ pc = [u \in Threads |-> pc[u]] /\ arg = [u \in Threads |-> arg[u]]
      /\ format = [a \in Appenders |-> format[a]]
      /\ m_hasFormatter = [a \in Appenders |-> m_hasFormatter[a]]
      /\ Spare \subseteq Appenders
      /\ c \in Threads /\ Keeps(c)
  BY Functions, ClientKeeps, LoggerAssumption DEF TypeOK, Threads
<1>1. ASSUME NEW l \in Loggers, NEW a \in Spare, addAppender(c, l, a) PROVE ListsOK'
  <2>1. /\ ~InUse(a) /\ (m_hasFormatter[a] \/ format[a] = Null)
        /\ pc' = [pc EXCEPT ![c] = "add"] /\ arg' = [arg EXCEPT ![c] = a]
        /\ UNCHANGED <<m_appenders, made, format, m_hasFormatter, taken>>
    BY <1>1 DEF addAppender, Call, GoTo, appVars
  <2>2. \A u \in Threads : ~Added(a, u)
    BY <2>1 DEF InUse, Added
  <2>3. \A m \in Loggers : ~Listed(a, m)
    BY <2>1 DEF InUse, Contains, Listed
  <2>4. \A b \in Appenders, u \in Threads : Added(b, u)' => Added(b, u) \/ (b = a /\ u = c)
    BY <1>0, <2>1 DEF Added
  <2>5. a \in made
    BY DEF ListsOK
  <2>6. \A b \in Appenders, m \in Loggers : Listed(b, m)' <=> Listed(b, m)
    BY <2>1 DEF Listed
  <2>. QED
    BY <2>1, <2>2, <2>3, <2>4, <2>5, <2>6 DEF ListsOK
<1>2. ASSUME NEW a \in Spare, NEW f \in Formatters \cup {Null}, setOwnFormatter(c, a, f)
      PROVE  ListsOK'
  <2>1. /\ UNCHANGED <<made, m_appenders, pc, arg>>
        /\ IF m_hasFormatter'[a] THEN format'[a] # Null
                                 ELSE format'[a] = Null /\ a \in taken'
        /\ taken \subseteq taken'
        /\ \A b \in Appenders : b # a => /\ format'[b] = format[b]
                                         /\ m_hasFormatter'[b] = m_hasFormatter[b]
    BY <1>0, <1>2 DEF setOwnFormatter, loggerVars, callVars
  <2>2. /\ \A b \in Appenders, m \in Loggers : Listed(b, m)' <=> Listed(b, m)
        /\ \A b \in Appenders, u \in Threads : Added(b, u)' <=> Added(b, u)
    BY <2>1 DEF Listed, Added
  <2>. QED
    BY <2>1, <2>2 DEF ListsOK
<1>3. ASSUME \/ \E l \in Loggers : getLogger(c, l)
             \/ \E l \in Loggers, level \in 1..MaxLevel : Log(c, l, level)
             \/ \E l \in Loggers, f \in Formatters : setFormatter(c, l, f)
             \/ \E l \in Loggers, a \in Spare : delAppender(c, l, a)
      PROVE  ListsOK'
  <2>1. UNCHANGED <<made, format, m_hasFormatter, taken>>
    BY <1>3 DEF getLogger, Log, setFormatter, SetFormatterLock, delAppender, appVars
  <2>2. pc'[c] \notin {"add", "fill"}
    BY <1>0, <1>3 DEF getLogger, Log, setFormatter, SetFormatterLock, delAppender,
                      MayCall, At, Call, GoTo, callVars
  <2>3. \A a \in Appenders, u \in Threads : Added(a, u)' => Added(a, u)
    BY <1>0, <2>2, AddedStep
  <2>4. \E l \in Loggers :
          \/ UNCHANGED m_appenders
          \/ \E i \in 1..Len(m_appenders[l]) :
               m_appenders' = [m_appenders EXCEPT ![l] = RemoveAt(@, i)]
    BY <1>3 DEF getLogger, Log, setFormatter, SetFormatterLock, delAppender, loggerVars
  <2>5. \A a \in Appenders, m \in Loggers : Listed(a, m)' => Listed(a, m)
    BY <2>4, ListsShrink
  <2>. QED
    BY <2>1, <2>3, <2>5, ListsSame
<1>. QED
  BY <1>1, <1>2, <1>3 DEF CallerStep, AdminStep

\* The listener puts a new appender into a list and clears lists.
LEMMA ReloadLists ==
  ASSUME TypeOK, PlacesOK, ConfOK, ListsOK,
         ReloadStep \/ \E document \in Documents : Reload(document)
  PROVE  ListsOK'
<1>0. /\ pc = [u \in Threads |-> pc[u]] /\ arg = [u \in Threads |-> arg[u]]
      /\ format = [a \in Appenders |-> format[a]]
      /\ m_hasFormatter = [a \in Appenders |-> m_hasFormatter[a]]
      /\ Listener \in Threads /\ Keeps(Listener) /\ Place(Listener)
      /\ \A f \in Formatters : f # Null
  BY Functions, ReloadKeeps, LoggerAssumption DEF TypeOK, PlacesOK, Threads
<1>1. CASE ReloadAppend
  <2>1. /\ Made \in Appenders /\ Made \notin made /\ made' = made \cup {Made}
        /\ format' = [format EXCEPT ![Made] = Own(Wanted)]
        /\ m_hasFormatter' = [m_hasFormatter EXCEPT ![Made] = Own(Wanted) # Null]
        /\ Call(Listener, lg[Listener], Made, "add")
        /\ UNCHANGED <<m_appenders, taken>>
    BY <1>1, AppendMeans
  <2>2. /\ \A b \in Appenders : b # Made => /\ format'[b] = format[b]
                                            /\ m_hasFormatter'[b] = m_hasFormatter[b]
        /\ m_hasFormatter'[Made] <=> format'[Made] # Null
    BY <1>0, <2>1
  <2>3. \A b \in Appenders, u \in Threads :
          Added(b, u)' => Added(b, u) \/ (b = Made /\ u = Listener)
    BY <1>0, <2>1 DEF Added, Call, GoTo
  <2>4. /\ \A m \in Loggers : ~Listed(Made, m)
        /\ \A u \in Threads : ~Added(Made, u)
    BY <2>1 DEF ListsOK
  <2>5. \A b \in Appenders, m \in Loggers : Listed(b, m)' <=> Listed(b, m)
    BY <2>1 DEF Listed
  <2>. QED
    BY <2>1, <2>2, <2>3, <2>4, <2>5 DEF ListsOK
<1>2. CASE ~ReloadAppend
  <2>1. UNCHANGED <<made, format, m_hasFormatter, taken>>
    BY <1>2 DEF ReloadStep, Reload, ReloadLogger, ReloadDisable, ReloadFormat, ReloadClear,
             ReloadNext, ReloadDone, SetFormatterLock, appVars
  <2>2. pc'[Listener] \notin {"add", "fill"}
    BY <1>0, <1>2
       DEF ReloadStep, Reload, ReloadLogger, ReloadDisable, ReloadFormat, ReloadClear,
           ReloadNext, ReloadDone, SetFormatterLock, At, Call, GoTo, callVars
  <2>3. \A a \in Appenders, u \in Threads : Added(a, u)' => Added(a, u)
    BY <1>0, <2>2, AddedStep
  <2>4. \/ UNCHANGED m_appenders
        \/ \E l \in Loggers : Clear(l)
    BY <1>0, <1>2
       DEF ReloadStep, Reload, ReloadLogger, ReloadDisable, ReloadFormat, ReloadClear,
           ReloadNext, ReloadDone, SetFormatterLock, loggerVars, At, Place
  <2>5. \A a \in Appenders, m \in Loggers : Listed(a, m)' => Listed(a, m)
    BY <2>4, ListsShrink DEF Clear, Listed
  <2>. QED
    BY <2>1, <2>3, <2>5, ListsSame
<1>. QED
  BY <1>1, <1>2

-----------------------------------------------------------------------------
(***************************************************************************)
(* Whose formatter an appender has.                                        *)
(***************************************************************************)

\* A position of a list follows its logger, or is going to.
Follows(l, i) ==
  \/ m_hasFormatter[m_appenders[l][i]]
  \/ format[m_appenders[l][i]] = m_formatter[l]
  \/ format[m_appenders[l][i]] = Null /\ m_appenders[l][i] \in taken
  \/ \E t \in Threads : Pending(t, l, i)

\* What others have to do remains.
LEMMA PendingStep ==
  ASSUME NEW t \in Threads, Keeps(t), NEW u \in Threads, u # t,
         NEW l \in Loggers, NEW i, Pending(u, l, i)
  PROVE  Pending(u, l, i)'
BY DEF Keeps, Pending

\* Lists, formatters and what is pending are as they were.
LEMMA FollowsSame ==
  ASSUME FollowsOK, UNCHANGED <<m_appenders, format, m_hasFormatter, taken, m_formatter>>,
         NEW t \in Threads, Keeps(t), pc[t] \notin {"sf", "sfset"}
  PROVE  FollowsOK'
<1>. SUFFICES ASSUME NEW l \in Loggers, NEW i \in 1..Len(m_appenders[l])
              PROVE  Follows(l, i)'
  BY DEF FollowsOK, Follows
<1>1. Follows(l, i)
  BY DEF FollowsOK, Follows
<1>2. \A u \in Threads : Pending(u, l, i) => Pending(u, l, i)'
  BY PendingStep DEF Pending
<1>. QED
  BY <1>1, <1>2 DEF Follows

\* setFormatter() begins: every position of the logger's list is pending.
LEMMA SetFormatterFollows ==
  ASSUME TypeOK, FollowsOK, NEW t \in Threads, Keeps(t), pc[t] \notin {"sf", "sfset"},
         NEW l \in Loggers, NEW f \in Formatters, SetFormatterLock(t, l, f)
  PROVE  FollowsOK'
<1>0. /\ pc = [u \in Threads |-> pc[u]] /\ lg = [u \in Threads |-> lg[u]]
      /\ at = [u \in Threads |-> at[u]]
      /\ m_formatter \in [Loggers -> Formatters]
  BY Functions DEF TypeOK
<1>1. /\ m_formatter' = [m_formatter EXCEPT ![l] = f]
      /\ pc'[t] = "sf" /\ lg'[t] = l /\ at'[t] = 1
      /\ UNCHANGED <<m_appenders, format, m_hasFormatter, taken>>
  BY <1>0 DEF SetFormatterLock, Call, GoTo, appVars
<1>2. SUFFICES ASSUME NEW m \in Loggers, NEW i \in 1..Len(m_appenders[m])
               PROVE  Follows(m, i)'
  BY <1>1 DEF FollowsOK, Follows
<1>3. CASE m = l
  <2>1. Pending(t, m, i)'
    BY <1>1, <1>3 DEF Pending
  <2>. QED
    BY <2>1 DEF Follows
<1>4. CASE m # l
  <2>1. Follows(m, i)
    BY DEF FollowsOK, Follows
  <2>2. \A u \in Threads : Pending(u, m, i) => Pending(u, m, i)'
    BY PendingStep DEF Pending
  <2>3. m_formatter'[m] = m_formatter[m]
    BY <1>0, <1>1, <1>4
  <2>. QED
    BY <1>1, <2>1, <2>2, <2>3 DEF Follows
<1>. QED
  BY <1>3, <1>4

\* The steps inside an operation.
LEMMA OpFollows ==
  ASSUME TypeOK, PlacesOK, ListsOK, FollowsOK, NEW t \in Threads, OpStep(t)
  PROVE  FollowsOK'
<1>0. /\ pc = [u \in Threads |-> pc[u]] /\ format = [a \in Appenders |-> format[a]]
      /\ at = [u \in Threads |-> at[u]] /\ lg = [u \in Threads |-> lg[u]]
      /\ at[t] \in Nat /\ Place(t) /\ Keeps(t)
  BY Functions, OpKeeps DEF TypeOK, PlacesOK
<1>1. \A l \in Loggers : \A i \in 1..Len(m_appenders[l]) :
        /\ Follows(l, i)
        /\ m_appenders[l][i] \in Appenders /\ Listed(m_appenders[l][i], l)
        /\ i \in Nat
  <2>1. ASSUME NEW l \in Loggers PROVE m_appenders[l] \in Seq(Appenders)
    BY DEF TypeOK
  <2>. QED
    BY <2>1 DEF FollowsOK, Follows, Listed
<1>2. ASSUME AddInsert(t) \/ AddFill(t) PROVE FollowsOK'
  <2>0. pc[t] \in {"add", "fill"}
    BY <1>2 DEF AddInsert, AddFill, At
  <2>1. PICK a \in Appenders : a = arg[t]
    BY <1>0, <2>0 DEF Place
  <2>2. PICK l \in Loggers : l = lg[t]
    BY <1>0, <2>0 DEF Place
  <2>3. /\ m_appenders' = [m_appenders EXCEPT ![l] = Append(@, a)]
        /\ \/ format' = format /\ format[a] # Null
           \/ format' = [format EXCEPT ![a] = m_formatter[l]]
        /\ UNCHANGED <<m_hasFormatter, taken, m_formatter>>
    BY <1>2, <2>1, <2>2 DEF AddInsert, AddFill, PushBack
  <2>4. /\ \A m \in Loggers : ~Listed(a, m)
        /\ m_hasFormatter[a] \/ format[a] = Null
    BY <2>0, <2>1 DEF ListsOK, Added
  <2>5. /\ m_appenders[l] \in Seq(Appenders)
        /\ \A m \in Loggers : m # l => m_appenders'[m] = m_appenders[m]
        /\ m_appenders'[l] = Append(m_appenders[l], a)
    BY <2>3, Functions DEF TypeOK
  <2>6. /\ Len(m_appenders'[l]) = Len(m_appenders[l]) + 1
        /\ \A i \in 1..Len(m_appenders[l]) : m_appenders'[l][i] = m_appenders[l][i]
        /\ m_appenders'[l][Len(m_appenders[l]) + 1] = a
        /\ Len(m_appenders[l]) \in Nat
    BY <2>5, AppendElements
  <2>7. ASSUME NEW m \in Loggers, NEW i \in 1..Len(m_appenders[m]),
               m_appenders'[m][i] = m_appenders[m][i]
        PROVE  Follows(m, i)'
    <3>1. m_appenders[m][i] # a
      BY <1>1, <2>4
    <3>2. format'[m_appenders[m][i]] = format[m_appenders[m][i]]
      BY <1>0, <1>1, <2>3, <3>1
    <3>3. \A u \in Threads : Pending(u, m, i) => Pending(u, m, i)'
      BY <1>0, <2>0, PendingStep DEF Pending
    <3>. QED
      BY <1>1, <2>3, <2>7, <3>2, <3>3 DEF Follows
  <2>8. PICK n \in Nat : n = Len(m_appenders[l])
    BY <2>6
  <2>10. Follows(l, n + 1)'
    <3>1. m_hasFormatter[a] \/ format'[a] = m_formatter[l]
      BY <1>0, <2>3, <2>4
    <3>2. m_appenders'[l][n + 1] = a
      BY <2>6, <2>8
    <3>. QED
      BY <2>3, <3>1, <3>2 DEF Follows
  <2>9. ASSUME NEW m \in Loggers, NEW i \in 1..Len(m_appenders'[m]) PROVE Follows(m, i)'
    <3>1. CASE i \in 1..Len(m_appenders[m])
      BY <2>5, <2>6, <2>7, <3>1
    <3>2. CASE i \notin 1..Len(m_appenders[m])
      <4>1. m = l /\ i = n + 1
        BY <2>5, <2>6, <2>8, <3>2
      <4>. QED
        BY <2>10, <4>1
    <3>. QED
      BY <3>1, <3>2
  <2>. QED
    BY <2>9 DEF FollowsOK, Follows
<1>3. ASSUME SetFormatterPass(t) PROVE FollowsOK'
  <2>1. PICK l \in Loggers : l = lg[t]
    BY <1>0, <1>3 DEF SetFormatterPass, At, Place
  <2>2. at[t] \in 1..Len(m_appenders[l])
    BY <1>0, <1>3, <2>1 DEF SetFormatterPass, At, Place, TypeOK
  <2>3. PICK a \in Appenders : a = m_appenders[l][at[t]]
    BY <1>1, <2>2
  <2>4. /\ format' = [format EXCEPT ![a] = m_formatter[l]]
        /\ UNCHANGED <<m_appenders, m_hasFormatter, taken, m_formatter, lg>>
        /\ pc'[t] = "sf" /\ at'[t] = at[t] + 1
    BY <1>0, <1>3, <2>1, <2>3 DEF SetFormatterPass, GoTo, loggerVars
  <2>5. ASSUME NEW m \in Loggers, NEW i \in 1..Len(m_appenders[m]) PROVE Follows(m, i)'
    <3>1. CASE m_appenders[m][i] = a
      <4>1. m = l
        BY <1>1, <2>2, <2>3, <3>1 DEF ListsOK
      <4>2. format'[a] = m_formatter[m]
        BY <1>0, <2>4, <4>1
      <4>. QED
        BY <2>4, <3>1, <4>2 DEF Follows
    <3>2. CASE m_appenders[m][i] # a
      <4>1. format'[m_appenders[m][i]] = format[m_appenders[m][i]]
        BY <1>0, <1>1, <2>4, <3>2
      <4>2. ASSUME Pending(t, m, i) PROVE Pending(t, m, i)'
        <5>1. m = l /\ i >= at[t] /\ i # at[t]
          BY <2>1, <2>3, <3>2, <4>2 DEF Pending
        <5>2. i >= at'[t]
          BY <1>0, <1>1, <2>4, <5>1
        <5>. QED
          BY <2>1, <2>4, <5>1, <5>2 DEF Pending
      <4>3. \A u \in Threads : Pending(u, m, i) => Pending(u, m, i)'
        BY <1>0, <4>2, PendingStep
      <4>. QED
        BY <1>1, <2>4, <4>1, <4>3 DEF Follows
    <3>. QED
      BY <3>1, <3>2
  <2>. QED
    BY <2>4, <2>5 DEF FollowsOK, Follows
<1>4. ASSUME SetFormatterTest(t) PROVE FollowsOK'
  <2>1. PICK l \in Loggers : l = lg[t]
    BY <1>0, <1>4 DEF SetFormatterTest, At, Place
  <2>2. /\ UNCHANGED <<m_appenders, format, m_hasFormatter, taken, m_formatter, lg>>
        /\ pc'[t] \in {"sf", "sfset"}
        /\ at'[t] = at[t] \/ (m_hasFormatter[m_appenders[l][at[t]]] /\ at'[t] = at[t] + 1)
    BY <1>0, <1>4, <2>1 DEF SetFormatterTest, GoTo, At, loggerVars, appVars
  <2>3. ASSUME NEW m \in Loggers, NEW i \in 1..Len(m_appenders[m]) PROVE Follows(m, i)'
    <3>1. CASE m_hasFormatter[m_appenders[m][i]]
      BY <2>2, <3>1 DEF Follows
    <3>2. CASE ~m_hasFormatter[m_appenders[m][i]]
      <4>1. ASSUME Pending(t, m, i) PROVE Pending(t, m, i)'
        <5>1. m = l /\ i >= at[t]
          BY <2>1, <4>1 DEF Pending
        <5>2. at'[t] = at[t] \/ (at'[t] = at[t] + 1 /\ i # at[t])
          BY <2>2, <3>2, <5>1
        <5>3. i >= at'[t]
          BY <1>0, <1>1, <5>1, <5>2
        <5>. QED
          BY <2>1, <2>2, <5>1, <5>3 DEF Pending
      <4>2. \A u \in Threads : Pending(u, m, i) => Pending(u, m, i)'
        BY <1>0, <4>1, PendingStep
      <4>. QED
        BY <1>1, <2>2, <4>2 DEF Follows
    <3>. QED
      BY <3>1, <3>2
  <2>. QED
    BY <2>2, <2>3 DEF FollowsOK, Follows
<1>5. ASSUME SetFormatterReturn(t) PROVE FollowsOK'
  <2>1. /\ UNCHANGED <<m_appenders, format, m_hasFormatter, taken, m_formatter>>
        /\ at[t] > Len(m_appenders[lg[t]])
    BY <1>5 DEF SetFormatterReturn, appVars
  <2>2. ASSUME NEW m \in Loggers, NEW i \in 1..Len(m_appenders[m]) PROVE Follows(m, i)'
    <3>1. Len(m_appenders[m]) \in Nat
      BY DEF TypeOK
    <3>2. ~Pending(t, m, i)
      BY <1>0, <1>1, <2>1, <3>1 DEF Pending
    <3>3. \A u \in Threads : Pending(u, m, i) => Pending(u, m, i)'
      BY <1>0, <3>2, PendingStep
    <3>. QED
      BY <1>1, <2>1, <3>3 DEF Follows
  <2>. QED
    BY <2>1, <2>2 DEF FollowsOK, Follows
<1>6. ASSUME LogLock(t) \/ LogRoot(t) \/ LogWrite(t) \/ LogReturn(t)
             \/ AddTest(t)
      PROVE  FollowsOK'
  <2>1. /\ UNCHANGED <<m_appenders, format, m_hasFormatter, taken, m_formatter>>
        /\ pc[t] \notin {"sf", "sfset"}
    BY <1>6 DEF LogLock, LogRoot, LogWrite, LogReturn, AddTest, Fail, At, loggerVars, appVars
  <2>. QED
    BY <1>0, <2>1, FollowsSame
<1>. QED
  BY <1>2, <1>3, <1>4, <1>5, <1>6 DEF OpStep

\* What callers begin or do; delAppender() has the lock, so nothing is pending.
LEMMA ClientFollows ==
  ASSUME TypeOK, PlacesOK, FollowsOK, NEW c \in Callers, CallerStep(c) \/ AdminStep(c)
  PROVE  FollowsOK'
<1>0. /\ format = [a \in Appenders |-> format[a]]
      /\ m_hasFormatter = [a \in Appenders |-> m_hasFormatter[a]]
      /\ Spare \subseteq Appenders
      /\ c \in Threads /\ Keeps(c) /\ pc[c] \notin {"sf", "sfset"}
  BY ClientKeeps, LoggerAssumption
     DEF TypeOK, Threads, CallerStep, AdminStep, getLogger, Log, setFormatter,
         addAppender, delAppender, setOwnFormatter, MayCall, At
<1>1. ASSUME NEW l \in Loggers, NEW f \in Formatters, setFormatter(c, l, f)
      PROVE  FollowsOK'
  BY <1>0, <1>1, SetFormatterFollows DEF setFormatter
<1>2. ASSUME NEW l \in Loggers, NEW a \in Spare, delAppender(c, l, a) PROVE FollowsOK'
  <2>1. PICK k \in 1..Len(m_appenders[l]) :
          m_appenders' = [m_appenders EXCEPT ![l] = RemoveAt(@, k)]
    BY <1>2 DEF delAppender
  <2>2. /\ m_mutex[l] = Null
        /\ UNCHANGED <<m_formatter, format, m_hasFormatter, taken, pc, lg, at>>
    BY <1>2 DEF delAppender, appVars, callVars
  <2>3. /\ m_appenders[l] \in Seq(Appenders)
        /\ \A m \in Loggers : m # l => m_appenders'[m] = m_appenders[m]
        /\ m_appenders'[l] = RemoveAt(m_appenders[l], k)
    BY <2>1, Functions DEF TypeOK
  <2>4. /\ Len(m_appenders'[l]) = Len(m_appenders[l]) - 1
        /\ \A j \in 1..(Len(m_appenders[l]) - 1) :
             m_appenders'[l][j] = IF j < k THEN m_appenders[l][j] ELSE m_appenders[l][j + 1]
        /\ Len(m_appenders[l]) \in Nat
    <3>1. PICK s \in Seq(Appenders) : s = m_appenders[l]
      BY <2>3
    <3>2. k \in 1..Len(s) /\ Len(s) \in Nat /\ m_appenders'[l] = RemoveAt(s, k)
      BY <2>3, <3>1
    <3>3. /\ Len(RemoveAt(s, k)) = Len(s) - 1
          /\ \A j \in 1..(Len(s) - 1) :
               RemoveAt(s, k)[j] = IF j < k THEN s[j] ELSE s[j + 1]
      BY <3>2, RemoveAtElements
    <3>. QED
      BY <3>1, <3>2, <3>3
  <2>5. \A u \in Threads, i \in 1..Len(m_appenders[l]) : ~Pending(u, l, i)
    BY <2>2, LoggerAssumption DEF PlacesOK, Place, Pending
  <2>6. ASSUME NEW m \in Loggers, NEW i \in 1..Len(m_appenders'[m]) PROVE Follows(m, i)'
    <3>1. CASE m = l
      <4>1. PICK j \in 1..Len(m_appenders[l]) : m_appenders'[l][i] = m_appenders[l][j]
        <5>1. PICK n \in Nat : n = Len(m_appenders[l])
          BY <2>4
        <5>2. i \in 1..(n - 1) /\ i \in 1..n /\ i + 1 \in 1..n
          BY <2>4, <3>1, <5>1
        <5>. QED
          BY <2>4, <5>1, <5>2
      <4>2. \/ m_hasFormatter[m_appenders[l][j]]
            \/ format[m_appenders[l][j]] = m_formatter[l]
            \/ format[m_appenders[l][j]] = Null /\ m_appenders[l][j] \in taken
        BY <2>5 DEF FollowsOK
      <4>. QED
        BY <2>2, <3>1, <4>1, <4>2 DEF Follows
    <3>2. CASE m # l
      BY <2>2, <2>3, <3>2 DEF FollowsOK, Follows, Pending
    <3>. QED
      BY <3>1, <3>2
  <2>. QED
    BY <2>6 DEF FollowsOK, Follows
<1>3. ASSUME NEW a \in Spare, NEW f \in Formatters \cup {Null}, setOwnFormatter(c, a, f)
      PROVE  FollowsOK'
  <2>1. /\ UNCHANGED <<m_appenders, m_formatter, pc, lg, at>>
        /\ m_hasFormatter'[a] \/ (format'[a] = Null /\ a \in taken')
        /\ taken \subseteq taken'
        /\ \A b \in Appenders : b # a => /\ format'[b] = format[b]
                                         /\ m_hasFormatter'[b] = m_hasFormatter[b]
    BY <1>0, <1>3 DEF setOwnFormatter, loggerVars, callVars
  <2>2. ASSUME NEW m \in Loggers, NEW i \in 1..Len(m_appenders[m]) PROVE Follows(m, i)'
    <3>1. Follows(m, i)
      BY DEF FollowsOK, Follows
    <3>2. m_appenders[m][i] \in Appenders
      BY DEF TypeOK
    <3>. QED
      BY <2>1, <3>1, <3>2 DEF Follows, Pending
  <2>. QED
    BY <2>1, <2>2 DEF FollowsOK, Follows
<1>4. ASSUME \/ \E l \in Loggers : getLogger(c, l)
             \/ \E l \in Loggers, level \in 1..MaxLevel : Log(c, l, level)
             \/ \E l \in Loggers, a \in Spare : addAppender(c, l, a)
      PROVE  FollowsOK'
  <2>1. UNCHANGED <<m_appenders, format, m_hasFormatter, taken, m_formatter>>
    BY <1>4 DEF getLogger, Log, addAppender, loggerVars, appVars
  <2>. QED
    BY <1>0, <2>1, FollowsSame
<1>. QED
  BY <1>1, <1>2, <1>3, <1>4 DEF CallerStep, AdminStep

\* The listener: a cleared list has no positions, a new appender is in no list.
LEMMA ReloadFollows ==
  ASSUME TypeOK, PlacesOK, ConfOK, ListsOK, FollowsOK,
         ReloadStep \/ \E document \in Documents : Reload(document)
  PROVE  FollowsOK'
<1>0. /\ format = [a \in Appenders |-> format[a]]
      /\ m_hasFormatter = [a \in Appenders |-> m_hasFormatter[a]]
      /\ Listener \in Threads /\ Keeps(Listener) /\ Place(Listener)
      /\ pc[Listener] \notin {"sf", "sfset"}
  BY ReloadKeeps
     DEF TypeOK, PlacesOK, Threads, ReloadStep, Reload, ReloadLogger, ReloadDisable,
         ReloadFormat, ReloadClear, ReloadAppend, ReloadNext, ReloadDone, At
<1>1. ASSUME ReloadAppend PROVE FollowsOK'
  <2>1. /\ Made \in Appenders /\ Made \notin made
        /\ format' = [format EXCEPT ![Made] = Own(Wanted)]
        /\ m_hasFormatter' = [m_hasFormatter EXCEPT ![Made] = Own(Wanted) # Null]
        /\ UNCHANGED <<m_appenders, taken, m_formatter>>
    BY <1>1, AppendMeans
  <2>2. \A b \in Appenders : b # Made => /\ format'[b] = format[b]
                                         /\ m_hasFormatter'[b] = m_hasFormatter[b]
    BY <1>0, <2>1
  <2>3. ASSUME NEW m \in Loggers, NEW i \in 1..Len(m_appenders[m]) PROVE Follows(m, i)'
    <3>1. Follows(m, i)
      BY DEF FollowsOK, Follows
    <3>2. m_appenders[m][i] \in Appenders /\ m_appenders[m][i] # Made
      BY <2>1 DEF TypeOK, ListsOK, Listed
    <3>3. \A u \in Threads : Pending(u, m, i) => Pending(u, m, i)'
      BY <1>0, PendingStep DEF Pending
    <3>. QED
      BY <2>1, <2>2, <3>1, <3>2, <3>3 DEF Follows
  <2>. QED
    BY <2>1, <2>3 DEF FollowsOK, Follows
<1>2. ASSUME NEW l \in Loggers, Clear(l), UNCHANGED <<m_formatter, format, m_hasFormatter, taken>>
      PROVE  FollowsOK'
  <2>1. CASE UNCHANGED m_appenders
    BY <1>0, <1>2, <2>1, FollowsSame
  <2>2. CASE m_appenders' = [m_appenders EXCEPT ![l] = <<>>]
    <3>1. /\ m_appenders'[l] = <<>>
          /\ \A m \in Loggers : m # l => m_appenders'[m] = m_appenders[m]
      BY <2>2, Functions
    <3>2. ASSUME NEW m \in Loggers, NEW i \in 1..Len(m_appenders'[m]) PROVE Follows(m, i)'
      <4>1. m # l /\ i \in 1..Len(m_appenders[m]) /\ m_appenders'[m] = m_appenders[m]
        BY <3>1
      <4>2. Follows(m, i)
        BY <4>1 DEF FollowsOK, Follows
      <4>3. \A u \in Threads : Pending(u, m, i) => Pending(u, m, i)'
        BY <1>0, PendingStep DEF Pending
      <4>. QED
        BY <1>2, <4>1, <4>2, <4>3 DEF Follows
    <3>. QED
      BY <3>2 DEF FollowsOK, Follows
  <2>. QED
    BY <1>2, <2>1, <2>2 DEF Clear
<1>3. ASSUME NEW l \in Loggers, ReloadDisable(l) PROVE FollowsOK'
  BY <1>2, <1>3 DEF ReloadDisable, appVars
<1>4. ASSUME ReloadClear PROVE FollowsOK'
  <2>1. PICK l \in Loggers : l = lg[Listener]
    BY <1>0, <1>4 DEF ReloadClear, At, Place
  <2>. QED
    BY <1>2, <1>4, <2>1 DEF ReloadClear, appVars
<1>5. ASSUME ReloadFormat, new[lg[Listener]].formatter \in Formatters PROVE FollowsOK'
  <2>1. PICK l \in Loggers : l = lg[Listener]
    BY <1>0, <1>5 DEF ReloadFormat, At, Place
  <2>2. SetFormatterLock(Listener, l, new[l].formatter)
    BY <1>5, <2>1 DEF ReloadFormat
  <2>. QED
    BY <1>0, <1>5, <2>1, <2>2, SetFormatterFollows
<1>6. ASSUME \/ \E document \in Documents : Reload(document)
             \/ \E l \in Loggers : ReloadLogger(l)
             \/ ReloadFormat /\ new[lg[Listener]].formatter \notin Formatters
             \/ ReloadNext \/ ReloadDone
      PROVE  FollowsOK'
  <2>1. UNCHANGED <<m_appenders, format, m_hasFormatter, taken, m_formatter>>
    BY <1>6 DEF Reload, ReloadLogger, ReloadFormat, ReloadNext, ReloadDone,
                loggerVars, appVars
  <2>. QED
    BY <1>0, <2>1, FollowsSame
<1>. QED
  BY <1>1, <1>3, <1>4, <1>5, <1>6 DEF ReloadStep

-----------------------------------------------------------------------------

\* LoggerManager's constructor leaves the invariant.
LEMMA InitLInv == Init => LInv
<1>. SUFFICES ASSUME Init PROVE LInv
  OBVIOUS
<1>0. /\ Root \in Loggers /\ Console \in Appenders /\ Spare \subseteq Appenders
      /\ Default \in Formatters /\ Null \notin Formatters \cup Loggers \cup Threads
      /\ MaxLevel \in Nat \ {0, 1} /\ MaxReloads \in Nat /\ Listener \in Threads
  BY LoggerAssumption DEF Threads
<1>1. TypeOK
  <2>1. m_appenders \in [Loggers -> Seq(Appenders)]
    BY <1>0 DEF Init
  <2>2. written \in [Threads -> Seq(Appenders)]
    BY DEF Init
  <2>3. 1 \in Levels
    BY <1>0 DEF Levels
  <2>4. /\ m_loggers \in SUBSET Loggers
        /\ m_level \in [Loggers -> Levels]
        /\ m_formatter \in [Loggers -> Formatters]
        /\ m_mutex \in [Loggers -> Threads \cup {Null}]
        /\ format \in [Appenders -> Formatters \cup {Null}]
        /\ m_hasFormatter \in [Appenders -> BOOLEAN]
        /\ taken \in SUBSET Appenders
    BY <1>0, <2>3 DEF Init
  <2>5. \A a \in Appenders : target[a].type \in AppenderType
    BY DEF Init, AppenderType
  <2>6. /\ made \in SUBSET Appenders
        /\ DOMAIN conf \subseteq Loggers /\ DOMAIN new \subseteq Loggers
        /\ todo \in SUBSET Loggers /\ drop \in SUBSET Loggers
        /\ reloads \in 0..MaxReloads
    BY <1>0 DEF Init
  <2>7. /\ pc \in [Threads -> Label]
        /\ lg \in [Threads -> Loggers \cup {Null}]
        /\ tgt \in [Threads -> Loggers \cup {Null}]
        /\ at \in [Threads -> Nat]
        /\ arg \in [Threads -> Levels \cup Appenders \cup {Null}]
        /\ failed \in {Null, "null", "race"}
    BY DEF Init, Label
  <2>. QED
    BY <2>1, <2>2, <2>4, <2>5, <2>6, <2>7 DEF TypeOK
<1>2. TargetOK
  BY DEF Init, TargetOK
<1>3. PlacesOK
  BY DEF Init, PlacesOK, Place, CallerLabel, ListenerLabel
<1>4. ConfOK
  BY <1>0 DEF Init, ConfOK, Between
<1>5. \A a \in Appenders, l \in Loggers : Listed(a, l) => a = Console /\ l = Root
  BY DEF Init, Listed
<1>6. ListsOK
  BY <1>0, <1>5 DEF Init, ListsOK, Added
<1>7. FollowsOK
  BY <1>0 DEF Init, FollowsOK
<1>8. WritesOK
  BY DEF Init, WritesOK, Writes
<1>. QED
  BY <1>1, <1>2, <1>3, <1>4, <1>6, <1>7, <1>8 DEF LInv

\* Every step preserves it.
LEMMA NextLInv == LInv /\ [Next]_vars => LInv'
<1>. SUFFICES ASSUME LInv, [Next]_vars PROVE LInv'
  OBVIOUS
<1>. USE DEF LInv
<1>0. Admins \subseteq Callers
  BY LoggerAssumption
<1>1. TargetOK' /\ ConfOK' /\ WritesOK'
  BY TargetStep, ConfStep, WritesNext
<1>2. CASE \E t \in Threads : OpStep(t)
  BY <1>1, <1>2, OpTypes, OpPlaces, OpLists, OpFollows
<1>3. CASE \E c \in Callers : CallerStep(c) \/ AdminStep(c)
  BY <1>1, <1>3, ClientTypes, ClientPlaces, ClientLists, ClientFollows
<1>4. CASE ReloadStep \/ \E document \in Documents : Reload(document)
  BY <1>1, <1>4, ReloadTypes, ReloadPlaces, ReloadLists, ReloadFollows
<1>5. CASE UNCHANGED vars \/ Crashed
  <2>. USE DEF Crashed, vars, loggerVars, appVars, confVars, callVars
  <2>1. TypeOK'
    BY <1>5 DEF TypeOK
  <2>2. PlacesOK'
    BY <1>5 DEF PlacesOK, Place
  <2>3. ListsOK'
    BY <1>5 DEF ListsOK, Listed, Added
  <2>4. FollowsOK'
    BY <1>5 DEF FollowsOK, Pending
  <2>. QED
    BY <1>1, <2>1, <2>2, <2>3, <2>4
<1>. QED
  BY <1>0, <1>2, <1>3, <1>4, <1>5 DEF Next

\* So it holds in every reachable state.
LEMMA Invariance == Spec => []LInv
<1>1. LInv /\ UNCHANGED vars => LInv'
  BY NextLInv
<1>. QED
  BY InitLInv, NextLInv, PTL DEF Spec

\* An appender that has no formatter of its own formats with its logger's formatter
\* whenever nobody holds the logger's lock, although setFormatter() tests
\* m_hasFormatter before it takes the appender's lock (log.cpp:311), and addAppender()
\* gives up that lock between the test and the assignment (log.cpp:286-288); or a
\* client left it without any (log.cpp:255).
THEOREM AlwaysFollows == Spec => []FollowsLogger
<1>1. LInv => FollowsLogger
  <2>. SUFFICES ASSUME LInv, NEW l \in Loggers, m_mutex[l] = Null,
                       NEW i \in 1..Len(m_appenders[l]),
                       ~m_hasFormatter[m_appenders[l][i]]
                PROVE  \/ format[m_appenders[l][i]] = m_formatter[l]
                       \/ format[m_appenders[l][i]] = Null /\ m_appenders[l][i] \in taken
    BY DEF FollowsLogger
  <2>1. \A t \in Threads : ~Pending(t, l, i)
    BY LoggerAssumption DEF LInv, PlacesOK, Place, Pending
  <2>. QED
    BY <2>1 DEF LInv, FollowsOK
<1>. QED
  BY <1>1, Invariance, PTL

\* Only log() meets a null pointer: the root logger's own m_root, or the formatter
\* that was taken from an appender.
LEMMA NullStep ==
  ASSUME LInv, NullOnlyIf, [Next]_vars
  PROVE  NullOnlyIf'
<1>0. /\ TypeOK /\ PlacesOK /\ ListsOK
      /\ Root \in Loggers /\ Admins \subseteq Callers /\ Null # "null"
  BY LoggerAssumption DEF LInv
<1>1. ASSUME NEW t \in Threads, LogLock(t) PROVE NullOnlyIf'
  BY <1>0, <1>1 DEF LogLock, At, NullOnlyIf
<1>2. ASSUME NEW t \in Threads, LogWrite(t) PROVE NullOnlyIf'
  <2>1. /\ pc[t] = "write" /\ at[t] <= Len(m_appenders[tgt[t]])
        /\ failed = Null
    BY <1>2 DEF LogWrite, At
  <2>2. CASE UNCHANGED failed
    BY <1>0, <2>1, <2>2 DEF NullOnlyIf
  <2>3. CASE format[m_appenders[tgt[t]][at[t]]] = Null /\ Fail("null")
    <3>1. tgt[t] \in Loggers /\ at[t] \in Nat /\ at[t] >= 1
      BY <1>0, <2>1 DEF TypeOK, PlacesOK, Place
    <3>2. m_appenders[tgt[t]] \in Seq(Appenders)
      BY <1>0, <3>1 DEF TypeOK
    <3>3. at[t] \in 1..Len(m_appenders[tgt[t]])
      BY <2>1, <3>1, <3>2
    <3>4. PICK a \in Appenders : a = m_appenders[tgt[t]][at[t]]
      BY <3>2, <3>3
    <3>5. Listed(a, tgt[t])
      BY <3>3, <3>4 DEF Listed
    <3>6. a \in taken
      BY <1>0, <2>3, <3>1, <3>4, <3>5 DEF ListsOK
    <3>. QED
      BY <2>1, <2>3, <3>4, <3>6
         DEF NullOnlyIf, Fail, loggerVars, appVars, confVars, callVars
  <2>. QED
    BY <1>2, <2>2, <2>3 DEF LogWrite
<1>3. ASSUME failed = Null, UNCHANGED failed \/ failed' = "race" PROVE NullOnlyIf'
  BY <1>0, <1>3 DEF NullOnlyIf
<1>4. ASSUME NEW t \in Threads,
             \/ LogRoot(t) \/ LogReturn(t) \/ SetFormatterTest(t) \/ SetFormatterPass(t)
             \/ SetFormatterReturn(t) \/ AddTest(t) \/ AddInsert(t) \/ AddFill(t)
      PROVE  NullOnlyIf'
  BY <1>3, <1>4 DEF LogRoot, LogReturn, SetFormatterTest, SetFormatterPass,
                    SetFormatterReturn, AddTest, AddInsert, AddFill, PushBack, At
<1>5. ASSUME NEW c \in Callers, CallerStep(c) \/ AdminStep(c) PROVE NullOnlyIf'
  BY <1>3, <1>5 DEF CallerStep, AdminStep, getLogger, Log, setFormatter, SetFormatterLock,
                    addAppender, delAppender, setOwnFormatter, MayCall, At
<1>6. ASSUME ReloadStep \/ \E document \in Documents : Reload(document)
      PROVE  NullOnlyIf'
  BY <1>3, <1>6
     DEF ReloadStep, Reload, ReloadLogger, ReloadDisable, ReloadFormat, ReloadClear,
         ReloadAppend, ReloadNext, ReloadDone, SetFormatterLock, Clear, At
<1>7. ASSUME UNCHANGED vars PROVE NullOnlyIf'
  BY <1>7 DEF NullOnlyIf, vars, loggerVars, appVars, callVars
<1>. QED
  BY <1>0, <1>1, <1>2, <1>4, <1>5, <1>6, <1>7 DEF Next, OpStep, Crashed

\* For every client: an appender has a formatter before it can write, unless a client
\* took it away, and no null pointer is used otherwise, except when the root logger has
\* no appenders (log.cpp:255, 286-290, 346, 393).
THEOREM OnlyKnownNulls == Spec => []NullOnlyIf
<1>1. Init => NullOnlyIf
  BY LoggerAssumption DEF Init, NullOnlyIf
<1>2. LInv /\ NullOnlyIf /\ [Next]_vars => NullOnlyIf'
  BY NullStep
<1>. QED
  BY <1>1, <1>2, Invariance, PTL DEF Spec

\* An event is written by each appender of the list once, in the order of the
\* list, although clearAppenders() takes no lock (log.cpp:303).
THEOREM WritesEachOnce == Spec => EachOnce
<1>1. LInv /\ [Next]_vars =>
        [\A t \in Threads : pc[t] = "write" /\ pc'[t] # "write" =>
           written[t] = m_appenders[tgt[t]]]_vars
  <2>. SUFFICES ASSUME LInv, Next, NEW c \in Threads, pc[c] = "write", pc'[c] # "write"
                PROVE  written[c] = m_appenders[tgt[c]]
    OBVIOUS
  <2>0. /\ TypeOK /\ PlacesOK /\ ConfOK /\ Writes(c) /\ Place(c)
        /\ Callers \subseteq Threads /\ Listener \in Threads
        /\ Admins \subseteq Callers
    BY LoggerAssumption DEF LInv, WritesOK, PlacesOK, Threads
  <2>1. OpStep(c)
    <3>1. ASSUME NEW t \in Threads, OpStep(t), t # c PROVE FALSE
      BY <2>0, <3>1, OpKeeps DEF Keeps
    <3>2. ASSUME NEW d \in Callers, CallerStep(d) \/ AdminStep(d) PROVE FALSE
      <4>1. CASE d # c
        BY <2>0, <3>2, <4>1, ClientKeeps DEF Keeps
      <4>2. CASE d = c
        BY <3>2, <4>2 DEF CallerStep, AdminStep, getLogger, Log, setFormatter,
                          addAppender, delAppender, setOwnFormatter, MayCall, At
      <4>. QED
        BY <4>1, <4>2
    <3>3. ASSUME ReloadStep \/ \E document \in Documents : Reload(document) PROVE FALSE
      <4>1. CASE c # Listener
        BY <2>0, <3>3, <4>1, ReloadKeeps DEF Keeps
      <4>2. CASE c = Listener
        BY <3>3, <4>2
           DEF ReloadStep, Reload, ReloadLogger, ReloadDisable, ReloadFormat, ReloadClear,
               ReloadAppend, ReloadNext, ReloadDone, At
      <4>. QED
        BY <4>1, <4>2
    <3>4. ~Crashed
      BY DEF Crashed, vars, callVars
    <3>. QED
      BY <2>0, <3>1, <3>2, <3>3, <3>4 DEF Next
  <2>2. at[c] > Len(m_appenders[tgt[c]])
    BY <2>0, <2>1
       DEF OpStep, LogLock, LogRoot, LogWrite, LogReturn, SetFormatterTest,
           SetFormatterPass, SetFormatterReturn, AddTest, AddInsert, AddFill, Fail, At,
           callVars
  <2>3. /\ written[c] \in Seq(Appenders) /\ m_appenders[tgt[c]] \in Seq(Appenders)
        /\ at[c] \in Nat
    BY <2>0 DEF TypeOK, Place
  <2>4. /\ Len(written[c]) = Len(m_appenders[tgt[c]])
        /\ \A i \in 1..Len(written[c]) : written[c][i] = m_appenders[tgt[c]][i]
    BY <2>0, <2>2, <2>3 DEF Writes
  <2>. QED
    BY <2>3, <2>4, SeqEqual
<1>. QED
  BY <1>1, Invariance, PTL DEF Spec, EachOnce

-----------------------------------------------------------------------------
(***************************************************************************)
(* While callers rest.                                                     *)
(***************************************************************************)

\* A step while a configuration is applied is one of the listener's.
LEMMA ListenerOnly ==
  ASSUME Quiet, LInv, RestOK, pc[Listener] # "idle", Next
  PROVE  OpStep(Listener) \/ ReloadStep \/ Crashed
<1>0. Admins \subseteq Callers /\ \A c \in Callers : pc[c] = "idle"
  BY LoggerAssumption DEF RestOK
<1>1. ASSUME NEW c \in Callers, OpStep(c) PROVE FALSE
  BY <1>0, <1>1 DEF OpStep, LogLock, LogRoot, LogWrite, LogReturn, SetFormatterTest,
             SetFormatterPass, SetFormatterReturn,
             AddTest, AddInsert, AddFill, PushBack, At
<1>2. ASSUME NEW c \in Callers, CallerStep(c) \/ AdminStep(c) PROVE FALSE
  BY <1>2 DEF CallerStep, AdminStep, getLogger, Log, setFormatter, addAppender,
              delAppender, setOwnFormatter, MayCall
<1>3. ASSUME NEW document \in Documents, Reload(document) PROVE FALSE
  BY <1>3 DEF Reload, At
<1>. QED
  BY <1>0, <1>1, <1>2, <1>3 DEF Next, Threads

\* Nobody begins a call while a configuration is applied, and the other way round.
LEMMA RestStep ==
  ASSUME Quiet, LInv, RestOK, [Next]_vars
  PROVE  RestOK'
<1>0. /\ TypeOK /\ PlacesOK /\ Listener \in Threads /\ Listener \notin Callers
      /\ Callers \subseteq Threads /\ Admins \subseteq Callers
  BY LoggerAssumption DEF LInv, Threads
<1>1. CASE UNCHANGED vars \/ Crashed
  BY <1>1 DEF Crashed, vars, callVars, RestOK
<1>2. CASE pc[Listener] # "idle" /\ Next
  <2>1. Keeps(Listener) \/ UNCHANGED pc
    BY <1>0, <1>2, ListenerOnly, OpKeeps, ReloadKeeps DEF Crashed, vars, callVars
  <2>. QED
    BY <1>0, <1>2, <2>1 DEF RestOK, Keeps
<1>3. CASE pc[Listener] = "idle" /\ Next
  <2>1. ASSUME NEW t \in Threads, OpStep(t) PROVE RestOK'
    <3>1. t # Listener
      BY <1>3, <2>1 DEF OpStep, LogLock, LogRoot, LogWrite, LogReturn, SetFormatterTest,
             SetFormatterPass, SetFormatterReturn,
             AddTest, AddInsert, AddFill, PushBack, At
    <3>. QED
      BY <1>0, <1>3, <2>1, <3>1, OpKeeps DEF RestOK, Keeps
  <2>2. ASSUME NEW c \in Callers, CallerStep(c) \/ AdminStep(c) PROVE RestOK'
    BY <1>0, <1>3, <2>2, ClientKeeps DEF RestOK, Keeps
  <2>3. ASSUME ReloadStep PROVE RestOK'
    BY <1>3, <2>3 DEF ReloadStep, ReloadLogger, ReloadDisable, ReloadFormat, ReloadClear,
             ReloadAppend, ReloadNext, ReloadDone, At
  <2>4. ASSUME NEW document \in Documents, Reload(document) PROVE RestOK'
    <3>1. \A c \in Callers : pc[c] = "idle"
      BY <2>4 DEF Reload
    <3>2. Keeps(Listener)
      BY <1>0, <2>4, ReloadKeeps
    <3>. QED
      BY <1>0, <3>1, <3>2 DEF RestOK, Keeps
  <2>. QED
    BY <1>0, <1>1, <1>3, <2>1, <2>2, <2>3, <2>4 DEF Next
<1>. QED
  BY <1>1, <1>2, <1>3

\* Then nobody uses the list that the listener clears.
LEMMA ClearAlone ==
  ASSUME LInv, RestOK, NEW l \in Loggers, Clear(l), pc[Listener] \in {"clear", "reload"}
  PROVE  m_appenders' = [m_appenders EXCEPT ![l] = <<>>] /\ UNCHANGED failed
<1>1. \A t \in Threads : ~UsesList(t, l)
  BY DEF RestOK, UsesList, Threads
<1>. QED
  BY <1>1 DEF Clear

-----------------------------------------------------------------------------
(***************************************************************************)
(* What a configuration leaves.                                            *)
(***************************************************************************)

\* Logger l, and what its appenders are, stay as they are.
SameLogger(l) ==
  /\ m_level'[l] = m_level[l] /\ m_formatter'[l] = m_formatter[l]
  /\ m_appenders'[l] = m_appenders[l]
  /\ \A a \in Appenders : Listed(a, l) => format'[a] = format[a] /\ target'[a] = target[a]

\* Then it is still what its definition asks for.
LEMMA AppendersStay ==
  ASSUME TypeOK, NEW l \in Loggers, SameLogger(l), UNCHANGED new,
         NEW n \in Nat, HasAppenders(l, n)
  PROVE  HasAppenders(l, n)'
<1>1. m_appenders[l] \in Seq(Appenders) /\ Len(m_appenders[l]) = n
  BY DEF TypeOK, HasAppenders
<1>2. \A i \in 1..n : m_appenders[l][i] \in Appenders /\ Listed(m_appenders[l][i], l)
  BY <1>1 DEF Listed
<1>. QED
  BY <1>1, <1>2 DEF HasAppenders, SameLogger, Matches

\* A logger that is set up stays so while nobody changes it.
LEMMA SetStays ==
  ASSUME TypeOK, NEW l \in Loggers, SameLogger(l), UNCHANGED new, IsSet(l),
         Len(new[l].appenders) \in Nat
  PROVE  IsSet(l)'
<1>1. PICK n \in Nat : n = Len(new[l].appenders)
  OBVIOUS
<1>2. HasAppenders(l, n)'
  BY <1>1, AppendersStay DEF IsSet
<1>3. n = Len(new'[l].appenders)
  BY <1>1
<1>. QED
  BY <1>2, <1>3 DEF IsSet, SameLogger, HasLevel, HasFormat, HasAppenders

\* A step of the listener that leaves the other loggers alone and does to its own
\* what the definition asks for.
LEMMA AppliedStep ==
  ASSUME LInv, AppliedOK, pc[Listener] # "idle", pc'[Listener] # "idle",
         UNCHANGED <<conf, new, todo, drop>>,
         \A l \in DOMAIN conf \ DOMAIN new : m_appenders'[l] = m_appenders[l],
         \A l \in Changed(conf, new) \ todo : ~Setting(l) => SameLogger(l) /\ ~Setting(l)',
         \A l \in Changed(conf, new) \ todo : Setting(l) =>
            IF Setting(l)' THEN SettingOK(l)' ELSE IsSet(l)',
         pc'[Listener] \notin Between =>
           pc[Listener] \notin Between /\ UNCHANGED lg[Listener]
  PROVE  AppliedOK'
<1>1. Changed(conf, new)' = Changed(conf, new)
  BY DEF Changed
<1>2. ASSUME NEW l \in Changed(conf, new) \ todo, ~Setting(l) PROVE IsSet(l)' /\ ~Setting(l)'
  <2>1. IsSet(l) /\ SameLogger(l) /\ ~Setting(l)'
    BY <1>2 DEF AppliedOK
  <2>2. new \in Configs /\ l \in DOMAIN new /\ TypeOK
    BY <1>2 DEF LInv, ConfOK, Changed
  <2>3. l \in Loggers /\ Len(new[l].appenders) \in Nat
    BY <2>2, ConfigsType
  <2>. QED
    BY <2>1, <2>2, <2>3, SetStays
<1>3. \A l \in Changed(conf, new) \ todo : IF Setting(l)' THEN SettingOK(l)' ELSE IsSet(l)'
  BY <1>2
<1>. QED
  BY <1>1, <1>3 DEF AppliedOK

\* A step in the middle of a definition.
LEMMA SettingStep ==
  ASSUME LInv, AppliedOK, NEW l \in Loggers, l = lg[Listener],
         pc[Listener] \notin Between, pc'[Listener] \notin Between,
         UNCHANGED <<confVars, lg[Listener]>>,
         \A m \in Loggers : m # l => SameLogger(m),
         l \in Changed(conf, new) /\ SettingOK(l) => SettingOK(l)'
  PROVE  AppliedOK'
<1>1. /\ l \in Changed(conf, new) \ todo /\ SettingOK(l)
      /\ pc[Listener] # "idle" /\ pc'[Listener] # "idle"
  BY DEF AppliedOK, Setting, Between
<1>2. l \in DOMAIN new /\ DOMAIN conf \subseteq Loggers /\ DOMAIN new \subseteq Loggers
  BY <1>1 DEF Changed, LInv, TypeOK
<1>3. UNCHANGED <<conf, new, todo, drop>>
  BY DEF confVars
<1>4. \A m \in DOMAIN conf \ DOMAIN new : m_appenders'[m] = m_appenders[m]
  BY <1>2 DEF SameLogger
<1>5. \A m \in Changed(conf, new) \ todo : ~Setting(m) => SameLogger(m) /\ ~Setting(m)'
  BY <1>2 DEF Setting, Changed
<1>6. \A m \in Changed(conf, new) \ todo : Setting(m) =>
        IF Setting(m)' THEN SettingOK(m)' ELSE IsSet(m)'
  BY <1>1 DEF Setting
<1>. QED
  BY <1>1, <1>3, <1>4, <1>5, <1>6, AppliedStep

\* log(), setFormatter() and addAppender() on behalf of the listener.
LEMMA AppliedOp ==
  ASSUME LInv, AppliedOK, OpStep(Listener)
  PROVE  AppliedOK'
<1>0. /\ TypeOK /\ PlacesOK /\ ConfOK /\ ListsOK
      /\ Listener \in Threads /\ Place(Listener)
      /\ pc = [u \in Threads |-> pc[u]] /\ at = [u \in Threads |-> at[u]]
      /\ format = [a \in Appenders |-> format[a]] /\ at[Listener] \in Nat
  BY Functions DEF LInv, Threads, PlacesOK, TypeOK
<1>1. PICK l \in Loggers : l = lg[Listener]
  BY <1>0 DEF OpStep, LogLock, LogRoot, LogWrite, LogReturn, SetFormatterTest,
              SetFormatterPass, SetFormatterReturn, AddTest, AddInsert, AddFill, At, Place
<1>2. ASSUME SetFormatterTest(Listener) \/ SetFormatterReturn(Listener) PROVE AppliedOK'
  <2>1. /\ UNCHANGED <<m_level, m_formatter, m_appenders, format, target, confVars>>
        /\ pc[Listener] = "sf" /\ pc'[Listener] \in {"sf", "sfset", "clear"}
        /\ UNCHANGED lg[Listener]
    BY <1>0, <1>2 DEF SetFormatterTest, SetFormatterReturn, Return, GoTo, At,
                      loggerVars, appVars
  <2>2. \A m \in Loggers : SameLogger(m)
    BY <2>1 DEF SameLogger
  <2>3. SettingOK(l) => SettingOK(l)'
    BY <2>1 DEF SettingOK, HasLevel, HasFormat, confVars
  <2>. QED
    BY <1>1, <2>1, <2>2, <2>3, SettingStep DEF Between
<1>3. ASSUME SetFormatterPass(Listener) PROVE AppliedOK'
  <2>1. at[Listener] \in 1..Len(m_appenders[l])
    BY <1>0, <1>1, <1>3 DEF SetFormatterPass, At, Place, TypeOK
  <2>2. PICK a \in Appenders : a = m_appenders[l][at[Listener]]
    BY <2>1 DEF LInv, TypeOK
  <2>3. /\ UNCHANGED <<m_level, m_formatter, m_appenders, target, confVars, lg>>
        /\ pc[Listener] = "sfset" /\ pc'[Listener] = "sf"
        /\ format' = [format EXCEPT ![a] = m_formatter[l]]
    BY <1>0, <1>1, <1>3, <2>2 DEF SetFormatterPass, GoTo, At, loggerVars
  <2>4. Listed(a, l)
    BY <2>1, <2>2 DEF Listed
  <2>5. ASSUME NEW m \in Loggers, m # l PROVE SameLogger(m)
    <3>1. ~Listed(a, m)
      BY <1>0, <2>4, <2>5 DEF ListsOK
    <3>2. \A b \in Appenders : b # a => format'[b] = format[b]
      BY <1>0, <2>3
    <3>. QED
      BY <2>3, <3>1, <3>2 DEF SameLogger
  <2>6. SettingOK(l) => SettingOK(l)'
    BY <2>3 DEF SettingOK, HasLevel, HasFormat, confVars
  <2>. QED
    BY <1>1, <2>3, <2>5, <2>6, SettingStep DEF Between
<1>4. ASSUME AddInsert(Listener) \/ AddFill(Listener) PROVE AppliedOK'
  <2>1. PICK a \in Appenders : a = arg[Listener]
    BY <1>0, <1>4 DEF AddInsert, AddFill, At, Place
  <2>2. /\ UNCHANGED <<m_level, m_formatter, target, confVars, at>>
        /\ UNCHANGED lg[Listener]
        /\ pc[Listener] \in {"add", "fill"} /\ pc'[Listener] = "append"
        /\ m_appenders' = [m_appenders EXCEPT ![l] = Append(@, a)]
        /\ \/ format' = format /\ format[a] # Null
           \/ /\ pc[Listener] = "fill"
              /\ format' = [format EXCEPT ![a] = m_formatter[l]]
    BY <1>0, <1>1, <1>4, <2>1 DEF AddInsert, AddFill, PushBack, Return, GoTo, At
  <2>3. \A m \in Loggers : ~Listed(a, m)
    BY <1>0, <2>1, <2>2 DEF ListsOK, Added
  <2>4. /\ \A b \in Appenders : b # a => format'[b] = format[b]
        /\ \/ format'[a] = format[a] /\ format[a] # Null
           \/ pc[Listener] = "fill" /\ format'[a] = m_formatter[l]
    BY <1>0, <2>2
  <2>5. /\ m_appenders[l] \in Seq(Appenders)
        /\ \A m \in Loggers : m # l => m_appenders'[m] = m_appenders[m]
        /\ m_appenders'[l] = Append(m_appenders[l], a)
    BY <1>0, <2>2, Functions DEF TypeOK
  <2>6. \A m \in Loggers : m # l => SameLogger(m)
    BY <2>2, <2>3, <2>4, <2>5 DEF SameLogger
  <2>7. ASSUME SettingOK(l) PROVE SettingOK(l)'
    <3>1. PICK k \in Nat : k = at[Listener]
      BY <1>0
    <3>2. PICK n \in Nat : n = k - 2 /\ k - 1 = n + 1
      BY <2>2, <2>7, <3>1 DEF SettingOK
    <3>. DEFINE d == new[l].appenders[k - 1]
    <3>3. /\ HasLevel(l) /\ HasFormat(l) /\ k - 1 <= Len(new[l].appenders)
          /\ HasAppenders(l, n) /\ Matches(a, d)
          /\ format[a] = IF d.formatter \in Formatters THEN d.formatter ELSE Null
          /\ pc[Listener] = "fill" => format[a] = Null
      BY <2>1, <2>2, <2>7, <3>1, <3>2 DEF SettingOK
    <3>4. format'[a] = IF d.formatter \in Formatters THEN d.formatter ELSE m_formatter[l]
      BY <2>4, <3>3, LoggerAssumption
    <3>5. /\ Len(m_appenders'[l]) = n + 1
          /\ \A i \in 1..n : m_appenders'[l][i] = m_appenders[l][i]
          /\ m_appenders'[l][n + 1] = a
      BY <2>5, <3>3, AppendElements DEF HasAppenders
    <3>6. ASSUME NEW i \in 1..n
          PROVE  /\ Matches(m_appenders[l][i], new[l].appenders[i])'
                 /\ format'[m_appenders'[l][i]] =
                      IF new[l].appenders[i].formatter \in Formatters
                      THEN new[l].appenders[i].formatter ELSE m_formatter[l]
      <4>1. Len(m_appenders[l]) = n
        BY <3>3 DEF HasAppenders
      <4>2. m_appenders[l][i] \in Appenders /\ m_appenders[l][i] # a
        BY <2>3, <2>5, <4>1 DEF Listed
      <4>3. /\ Matches(m_appenders[l][i], new[l].appenders[i])
            /\ format[m_appenders[l][i]] =
                 IF new[l].appenders[i].formatter \in Formatters
                 THEN new[l].appenders[i].formatter ELSE m_formatter[l]
        BY <3>3 DEF HasAppenders
      <4>4. PICK b \in Appenders : b = m_appenders[l][i] /\ b = m_appenders'[l][i]
        BY <3>5, <4>2
      <4>5. format'[b] = format[b] /\ target' = target /\ new' = new
        BY <2>2, <2>4, <4>2, <4>4 DEF confVars
      <4>6. PICK e : e = new[l].appenders[i] /\ e = new'[l].appenders[i]
        BY <4>5
      <4>7. Matches(b, e) /\ Matches(b, e)'
        BY <4>3, <4>4, <4>5, <4>6 DEF Matches
      <4>. QED
        BY <4>3, <4>4, <4>5, <4>6, <4>7
    <3>7. HasAppenders(l, n + 1)'
      <4>1. /\ target'[a] = [type |-> d.type, file |-> d.file]
            /\ d = new'[l].appenders[n + 1] /\ m_formatter' = m_formatter
            /\ new' = new
        BY <2>2, <3>2, <3>3 DEF Matches, confVars
      <4>2. ASSUME NEW i \in 1..(n + 1)
            PROVE  /\ Matches(m_appenders[l][i], new[l].appenders[i])'
                   /\ format'[m_appenders'[l][i]] =
                        IF new'[l].appenders[i].formatter \in Formatters
                        THEN new'[l].appenders[i].formatter ELSE m_formatter'[l]
        <5>1. CASE i \in 1..n
          BY <3>6, <4>1, <5>1
        <5>2. CASE i = n + 1
          BY <3>4, <3>5, <4>1, <5>2 DEF Matches
        <5>. QED
          BY <5>1, <5>2
      <4>. QED
        BY <3>5, <4>2 DEF HasAppenders
    <3>8. at'[Listener] - 1 = n + 1 /\ at'[Listener] - 1 <= Len(new'[l].appenders)
      BY <2>2, <3>1, <3>2, <3>3 DEF confVars
    <3>9. HasAppenders(l, at[Listener] - 1)'
      BY <3>7, <3>8
    <3>10. HasLevel(l)' /\ HasFormat(l)'
      BY <2>2, <3>3 DEF HasLevel, HasFormat, confVars
    <3>. QED
      BY <2>2, <3>8, <3>9, <3>10 DEF SettingOK
  <2>. QED
    BY <1>1, <2>2, <2>6, <2>7, SettingStep DEF Between
<1>5. ASSUME AddTest(Listener) PROVE AppliedOK'
  <2>1. /\ UNCHANGED <<m_level, m_formatter, m_appenders, format, target, confVars,
                        lg, at, arg>>
        /\ pc[Listener] = "add" /\ pc'[Listener] = "fill"
        /\ format[arg[Listener]] = Null
    BY <1>0, <1>5 DEF AddTest, GoTo, At, loggerVars, appVars
  <2>2. \A m \in Loggers : SameLogger(m)
    BY <2>1 DEF SameLogger
  <2>3. SettingOK(l) => SettingOK(l)'
    BY <2>1 DEF SettingOK, HasLevel, HasFormat, HasAppenders, Matches, confVars
  <2>. QED
    BY <1>1, <2>1, <2>2, <2>3, SettingStep DEF Between
<1>6. ASSUME \/ LogLock(Listener) \/ LogRoot(Listener) \/ LogWrite(Listener)
             \/ LogReturn(Listener)
      PROVE  AppliedOK'
  <2>1. /\ UNCHANGED <<m_level, m_formatter, m_appenders, format, target, confVars>>
        /\ pc[Listener] \in {"lock", "write"}
        /\ pc'[Listener] \in {"lock", "write", "reload"}
    BY <1>0, <1>6
       DEF LogLock, LogRoot, LogWrite, LogReturn, Fail, Return, GoTo, At, Place,
           ListenerLabel, loggerVars, appVars, callVars
  <2>2. /\ \A m \in Loggers : SameLogger(m)
        /\ \A m : ~Setting(m) /\ ~Setting(m)'
    BY <2>1 DEF SameLogger, Setting, Between
  <2>3. Changed(conf, new) \subseteq Loggers
    BY <1>0 DEF Changed, TypeOK
  <2>. QED
    BY <2>1, <2>2, <2>3, AppliedStep DEF Between, confVars
<1>. QED
  BY <1>2, <1>3, <1>4, <1>5, <1>6 DEF OpStep

\* The listener's own steps.
LEMMA AppliedReload ==
  ASSUME LInv, RestOK, AppliedOK, ReloadStep
  PROVE  AppliedOK'
<1>0. /\ TypeOK /\ PlacesOK /\ ConfOK /\ ListsOK
      /\ Listener \in Threads /\ Place(Listener)
      /\ pc = [u \in Threads |-> pc[u]] /\ lg = [u \in Threads |-> lg[u]]
      /\ at = [u \in Threads |-> at[u]] /\ arg = [u \in Threads |-> arg[u]]
      /\ format = [a \in Appenders |-> format[a]]
      /\ m_level = [m \in Loggers |-> m_level[m]]
      /\ m_formatter = [m \in Loggers |-> m_formatter[m]]
      /\ m_appenders = [m \in Loggers |-> m_appenders[m]]
      /\ at[Listener] \in Nat /\ pc[Listener] # "idle"
      /\ new \in Configs /\ DOMAIN new \subseteq Loggers /\ DOMAIN conf \subseteq Loggers
      /\ \A m \in DOMAIN new : Len(new[m].appenders) \in Nat
  <2>1. pc[Listener] # "idle"
    BY DEF ReloadStep, ReloadLogger, ReloadDisable, ReloadFormat, ReloadClear,
           ReloadAppend, ReloadNext, ReloadDone, At
  <2>2. new \in Configs
    BY <2>1 DEF LInv, ConfOK
  <2>3. /\ format = [a \in Appenders |-> format[a]]
        /\ m_level = [m \in Loggers |-> m_level[m]]
        /\ m_formatter = [m \in Loggers |-> m_formatter[m]]
    BY DEF LInv, TypeOK
  <2>4. at[Listener] \in Nat /\ DOMAIN new \subseteq Loggers /\ DOMAIN conf \subseteq Loggers
    BY DEF LInv, TypeOK, Threads
  <2>. QED
    BY <2>1, <2>2, <2>3, <2>4, Functions, ConfigsType DEF LInv, Threads, PlacesOK
<1>1. ASSUME NEW l \in Loggers, ReloadLogger(l) PROVE AppliedOK'
  <2>1. /\ pc[Listener] = "reload" /\ l \in todo /\ todo' = todo \ {l}
        /\ m_level' = [m_level EXCEPT ![l] = new[l].level]
        /\ UNCHANGED <<m_formatter, m_appenders, format, target, conf, new, drop>>
        /\ pc'[Listener] = "format" /\ lg'[Listener] = l
    BY <1>0, <1>1 DEF ReloadLogger, Call, GoTo, At, appVars
  <2>2. \A m \in Loggers : m # l => SameLogger(m)
    BY <1>0, <2>1 DEF SameLogger
  <2>3. SettingOK(l)'
    BY <1>0, <2>1 DEF SettingOK, HasLevel
  <2>4. ASSUME NEW m \in Changed(conf, new) \ todo PROVE IsSet(m)'
    <3>1. m \in DOMAIN new /\ m # l
      BY <2>1 DEF Changed
    <3>2. IsSet(m)
      BY <1>0, <2>1 DEF AppliedOK, Setting, Between
    <3>. QED
      BY <1>0, <2>1, <2>2, <3>1, <3>2, SetStays
  <2>5. l \in Changed(conf, new) /\ todo \subseteq Changed(conf, new)
    BY <1>0, <2>1 DEF AppliedOK
  <2>6. \A m \in Changed(conf, new) \ todo' : IF Setting(m)' THEN SettingOK(m)' ELSE IsSet(m)'
    BY <2>1, <2>3, <2>4 DEF Setting, Between
  <2>7. Changed(conf, new)' = Changed(conf, new)
    BY <2>1 DEF Changed
  <2>. QED
    BY <1>0, <2>1, <2>5, <2>6, <2>7 DEF AppliedOK
<1>2. ASSUME NEW l \in Loggers, ReloadDisable(l) PROVE AppliedOK'
  <2>1. /\ pc[Listener] = "reload" /\ l \in drop /\ drop' = drop \ {l}
        /\ m_level' = [m_level EXCEPT ![l] = 0]
        /\ m_appenders' = [m_appenders EXCEPT ![l] = <<>>]
        /\ UNCHANGED <<m_formatter, format, target, conf, new, todo, pc, lg, at>>
    BY <1>2, ClearAlone DEF ReloadDisable, At, appVars, callVars
  <2>2. \A m \in Loggers : m # l => SameLogger(m)
    BY <1>0, <2>1 DEF SameLogger
  <2>3. l \notin DOMAIN new
    BY <1>0, <2>1 DEF ConfOK
  <2>4. ASSUME NEW m \in Changed(conf, new) \ todo PROVE IsSet(m)'
    <3>1. m \in DOMAIN new /\ m # l
      BY <2>3 DEF Changed
    <3>2. IsSet(m)
      BY <1>0, <2>1 DEF AppliedOK, Setting, Between
    <3>. QED
      BY <1>0, <2>1, <2>2, <3>1, <3>2, SetStays
  <2>5. \A m \in (DOMAIN conf \ DOMAIN new) \ drop' : m_appenders'[m] = <<>>
    BY <1>0, <2>1 DEF AppliedOK
  <2>6. Changed(conf, new)' = Changed(conf, new)
    BY <2>1 DEF Changed
  <2>. QED
    BY <1>0, <2>1, <2>4, <2>5, <2>6 DEF AppliedOK, Setting, Between
<1>3. ASSUME ReloadFormat PROVE AppliedOK'
  <2>1. PICK l \in Loggers : l = lg[Listener]
    BY <1>0, <1>3 DEF ReloadFormat, At, Place
  <2>2. /\ pc[Listener] = "format" /\ pc'[Listener] \in {"sf", "clear"}
        /\ lg'[Listener] = lg[Listener]
        /\ UNCHANGED <<m_level, m_appenders, format, target, confVars>>
        /\ IF new[l].formatter \in Formatters
           THEN m_formatter' = [m_formatter EXCEPT ![l] = new[l].formatter]
           ELSE UNCHANGED m_formatter
    BY <1>0, <1>3, <2>1 DEF ReloadFormat, SetFormatterLock, Call, GoTo, At, loggerVars, appVars
  <2>3. \A m \in Loggers : m # l => SameLogger(m)
    BY <1>0, <2>2 DEF SameLogger
  <2>4. SettingOK(l) => SettingOK(l)'
    BY <1>0, <2>2 DEF SettingOK, HasLevel, HasFormat, confVars
  <2>. QED
    BY <2>1, <2>2, <2>3, <2>4, SettingStep DEF Between
<1>4. ASSUME ReloadClear PROVE AppliedOK'
  <2>1. PICK l \in Loggers : l = lg[Listener]
    BY <1>0, <1>4 DEF ReloadClear, At, Place
  <2>2. /\ m_appenders' = [m_appenders EXCEPT ![l] = <<>>]
        /\ pc[Listener] = "clear" /\ pc'[Listener] = "append" /\ at'[Listener] = 1
        /\ lg'[Listener] = lg[Listener]
        /\ UNCHANGED <<m_level, m_formatter, format, target, confVars>>
    BY <1>0, <1>4, <2>1, ClearAlone DEF ReloadClear, GoTo, At, appVars
  <2>3. \A m \in Loggers : m # l => SameLogger(m)
    BY <1>0, <2>2 DEF SameLogger
  <2>4. ASSUME SettingOK(l), l \in DOMAIN new PROVE SettingOK(l)'
    <3>1. HasAppenders(l, 0)'
      BY <1>0, <2>2 DEF HasAppenders
    <3>2. at'[Listener] - 1 = 0 /\ 0 <= Len(new'[l].appenders)
      BY <1>0, <2>2, <2>4 DEF confVars
    <3>. QED
      BY <2>2, <2>4, <3>1, <3>2 DEF SettingOK, HasLevel, HasFormat, confVars
  <2>. QED
    BY <2>1, <2>2, <2>3, <2>4, SettingStep DEF Between, Changed
<1>5. ASSUME ReloadAppend PROVE AppliedOK'
  <2>1. PICK l \in Loggers : l = lg[Listener]
    BY <1>0, <1>5, AppendMeans
  <2>2. PICK a \in Appenders : a = Made
    BY <1>0, <1>5, AppendMeans
  <2>3. PICK k \in Nat : k = at[Listener] /\ k \in 1..Len(new[l].appenders)
    BY <1>0, <1>5, <2>1, AppendMeans
  <2>4. PICK d : d = Wanted /\ d = new[l].appenders[k]
    BY <2>1, <2>3 DEF Wanted
  <2>5. /\ a \notin made
        /\ pc[Listener] = "append" /\ pc'[Listener] = "add" /\ at'[Listener] = k + 1
        /\ lg'[Listener] = lg[Listener] /\ arg'[Listener] = a
        /\ target' = [target EXCEPT ![a] = [type |-> d.type, file |-> d.file]]
        /\ format' = [format EXCEPT ![a] = Own(d)]
        /\ UNCHANGED <<m_level, m_formatter, m_appenders, confVars>>
    BY <1>0, <1>5, <2>2, <2>3, <2>4, AppendMeans DEF Call, GoTo
  <2>6. \A m \in Loggers : ~Listed(a, m)
    BY <1>0, <2>5 DEF ListsOK
  <2>7. PICK s : s = target /\ s = [b \in Appenders |-> s[b]]
    BY DEF LInv, TargetOK
  <2>8. /\ target'[a] = [type |-> d.type, file |-> d.file] /\ format'[a] = Own(d)
        /\ \A b \in Appenders : b # a => format'[b] = format[b] /\ target'[b] = target[b]
    BY <1>0, <2>5, <2>7
  <2>9. \A m \in Loggers : SameLogger(m)
    BY <2>5, <2>6, <2>8 DEF SameLogger
  <2>10. ASSUME SettingOK(l) PROVE SettingOK(l)'
    <3>1. HasLevel(l) /\ HasFormat(l) /\ HasAppenders(l, k - 1)
      BY <2>3, <2>5, <2>10 DEF SettingOK
    <3>2. PICK n \in Nat : n = k - 1
      BY <2>3
    <3>3. HasAppenders(l, n)'
      BY <1>0, <2>5, <2>9, <3>1, <3>2, AppendersStay DEF confVars
    <3>4. /\ at'[Listener] >= 2 /\ at'[Listener] - 2 = n /\ at'[Listener] - 1 = k
          /\ k <= Len(new'[l].appenders)
      BY <2>3, <2>5, <3>2 DEF confVars
    <3>5. HasLevel(l)' /\ HasFormat(l)'
      BY <2>5, <3>1 DEF HasLevel, HasFormat, confVars
    <3>6. HasAppenders(l, at[Listener] - 2)'
      BY <3>3, <3>4
    <3>7. d = new'[l].appenders[k]
      BY <2>4, <2>5 DEF confVars
    <3>8. d = new'[l].appenders[at'[Listener] - 1]
      BY <3>4, <3>7
    <3>9. Matches(arg[Listener], new[l].appenders[at[Listener] - 1])'
      BY <2>5, <2>8, <3>8 DEF Matches
    <3>10. format'[arg'[Listener]] =
             IF new'[l].appenders[at'[Listener] - 1].formatter \in Formatters
             THEN new'[l].appenders[at'[Listener] - 1].formatter ELSE Null
      BY <2>5, <2>8, <3>8 DEF Own
    <3>. QED
      BY <2>5, <3>4, <3>5, <3>6, <3>9, <3>10 DEF SettingOK
  <2>. QED
    BY <2>1, <2>5, <2>9, <2>10, SettingStep DEF Between
<1>6. ASSUME ReloadNext PROVE AppliedOK'
  <2>1. PICK l \in Loggers : l = lg[Listener]
    BY <1>0, <1>6 DEF ReloadNext, At, Place
  <2>2. /\ pc[Listener] = "append" /\ pc'[Listener] = "reload"
        /\ at[Listener] > Len(new[l].appenders)
        /\ UNCHANGED <<m_level, m_formatter, m_appenders, format, target>>
        /\ UNCHANGED <<conf, new, todo, drop>>
    BY <1>0, <1>6, <2>1 DEF ReloadNext, Call, GoTo, At, loggerVars, appVars, confVars
  <2>3. l \in Changed(conf, new) \ todo /\ SettingOK(l)
    BY <2>1, <2>2 DEF AppliedOK, Setting, Between
  <2>4. PICK n \in Nat : n = Len(new[l].appenders) /\ n = at[Listener] - 1
    BY <1>0, <2>2, <2>3 DEF SettingOK, Changed
  <2>5. \A m \in Loggers : SameLogger(m)
    BY <2>2 DEF SameLogger
  <2>6. IsSet(l)
    BY <2>2, <2>3, <2>4 DEF SettingOK, IsSet
  <2>7. IsSet(l)'
    BY <1>0, <2>2, <2>4, <2>5, <2>6, SetStays
  <2>8. \A m \in Changed(conf, new) \ todo : ~Setting(m) => SameLogger(m) /\ ~Setting(m)'
    BY <1>0, <2>2, <2>5 DEF Changed, Setting, Between
  <2>9. \A m \in Changed(conf, new) \ todo : Setting(m) =>
          IF Setting(m)' THEN SettingOK(m)' ELSE IsSet(m)'
    BY <2>1, <2>2, <2>7 DEF Setting, Between
  <2>. QED
    BY <1>0, <2>2, <2>8, <2>9, AppliedStep DEF Between
<1>7. ASSUME ReloadDone PROVE AppliedOK'
  <2>1. pc'[Listener] = "idle"
    BY <1>0, <1>7 DEF ReloadDone, GoTo
  <2>. QED
    BY <2>1 DEF AppliedOK
<1>. QED
  BY <1>1, <1>2, <1>3, <1>4, <1>5, <1>6, <1>7 DEF ReloadStep

\* Every step preserves it.
LEMMA AppliedNext ==
  ASSUME Quiet, LInv, RestOK, AppliedOK, [Next]_vars
  PROVE  AppliedOK'
<1>0. /\ TypeOK /\ PlacesOK /\ ConfOK /\ Listener \in Threads /\ Listener \notin Callers
      /\ Admins \subseteq Callers
      /\ pc = [u \in Threads |-> pc[u]]
  BY LoggerAssumption, Functions DEF LInv, Threads
<1>1. CASE UNCHANGED vars
  BY <1>1 DEF vars, loggerVars, appVars, confVars, callVars, AppliedOK, Changed,
              Setting, SettingOK, IsSet, HasLevel, HasFormat, HasAppenders, Matches
<1>2. CASE pc[Listener] # "idle" /\ Next
  BY <1>1, <1>2, ListenerOnly, AppliedOp, AppliedReload DEF Crashed
<1>3. CASE pc[Listener] = "idle" /\ Next
  <2>1. ASSUME NEW t \in Threads, OpStep(t) PROVE AppliedOK'
    <3>1. t # Listener
      BY <1>3, <2>1 DEF OpStep, LogLock, LogRoot, LogWrite, LogReturn, SetFormatterTest,
             SetFormatterPass, SetFormatterReturn,
             AddTest, AddInsert, AddFill, PushBack, At
    <3>. QED
      BY <1>0, <1>3, <2>1, <3>1, OpKeeps DEF AppliedOK, Keeps
  <2>2. ASSUME NEW c \in Callers, CallerStep(c) \/ AdminStep(c) PROVE AppliedOK'
    BY <1>0, <1>3, <2>2, ClientKeeps DEF AppliedOK, Keeps
  <2>3. ASSUME NEW document \in Documents, Reload(document) PROVE AppliedOK'
    <3>1. /\ todo' = Changed(conf', new') /\ drop' = DOMAIN conf' \ DOMAIN new'
          /\ pc'[Listener] \in {"lock", "reload"}
      BY <1>0, <2>3 DEF Reload, Call, GoTo
    <3>2. Changed(conf, new)' = Changed(conf', new')
      BY DEF Changed
    <3>. QED
      BY <3>1, <3>2 DEF AppliedOK, Between
  <2>4. ASSUME ReloadStep PROVE FALSE
    BY <1>3, <2>4 DEF ReloadStep, ReloadLogger, ReloadDisable, ReloadFormat, ReloadClear,
             ReloadAppend, ReloadNext, ReloadDone, At
  <2>. QED
    BY <1>0, <1>1, <1>3, <2>1, <2>2, <2>3, <2>4 DEF Next, Crashed
<1>. QED
  BY <1>1, <1>2, <1>3

\* When the listener has applied a configuration, the loggers are what it says,
\* if callers rest meanwhile (log.cpp:725-775).
THEOREM ConfigurationApplied ==
  ASSUME Quiet
  PROVE  Spec => ReloadApplied
<1>1. Init => LInv /\ RestOK /\ AppliedOK
  BY InitLInv DEF Init, RestOK, AppliedOK, Threads
<1>2. LInv /\ RestOK /\ AppliedOK /\ [Next]_vars => (LInv /\ RestOK /\ AppliedOK)'
  BY NextLInv, RestStep, AppliedNext
<1>3. LInv /\ RestOK /\ AppliedOK /\ [Next]_vars =>
        [pc[Listener] = "reload" /\ pc'[Listener] = "idle" => Applied]_vars
  <2>. SUFFICES ASSUME LInv, RestOK, AppliedOK, Next,
                       pc[Listener] = "reload", pc'[Listener] = "idle"
                PROVE  Applied
    OBVIOUS
  <2>0. pc = [u \in Threads |-> pc[u]] /\ Listener \in Threads
    BY Functions DEF LInv, Threads
  <2>1. todo = {} /\ drop = {}
    <3>1. ReloadStep
      BY <2>0, ListenerOnly
         DEF OpStep, LogLock, LogRoot, LogWrite, LogReturn, SetFormatterTest,
             SetFormatterPass, SetFormatterReturn, AddTest, AddInsert, AddFill, At,
             Crashed, vars, callVars
    <3>. QED
      BY <2>0, <3>1 DEF ReloadStep, ReloadLogger, ReloadDisable, ReloadFormat, ReloadClear,
             ReloadAppend, ReloadNext, ReloadDone, At, Call, GoTo, callVars
  <2>2. ASSUME NEW l \in Changed(conf, new)
        PROVE  IsSet(l) /\ m_appenders[l] \in Seq(Appenders)
    <3>1. IsSet(l)
      BY <2>1 DEF AppliedOK, Setting, Between
    <3>2. l \in Loggers
      BY DEF Changed, LInv, TypeOK
    <3>. QED
      BY <3>1, <3>2 DEF LInv, TypeOK
  <2>3. ASSUME NEW l \in Changed(conf, new)
        PROVE  DOMAIN m_appenders[l] = 1..Len(new[l].appenders)
    BY <2>2 DEF IsSet, HasAppenders
  <2>4. \A l \in DOMAIN conf \ DOMAIN new : m_appenders[l] = <<>>
    BY <2>1 DEF AppliedOK
  <2>. QED
    BY <2>2, <2>3, <2>4 DEF Applied, IsSet, HasLevel, HasFormat, HasAppenders, Matches
<1>. QED
  BY <1>1, <1>2, <1>3, PTL DEF Spec, ReloadApplied

\* Every variable keeps its type; the listener's appenders are made of what the
\* documents define.
THEOREM TypeCorrect == Spec => []TypeOK
BY Invariance, PTL DEF LInv

-----------------------------------------------------------------------------
(***************************************************************************)
(* The dumps.                                                              *)
(***************************************************************************)

\* A level that is written is read back.
LEMMA LevelReads ==
  ASSUME NEW level \in Levels
  PROVE  LevelFromString(LevelNode(level)) = level
<1>1. CASE level = 0
  BY <1>1, LoggerAssumption DEF LevelNode, LevelFromString
<1>2. CASE level # 0
  <2>1. level \in 1..MaxLevel
    BY <1>2, LoggerAssumption DEF Levels
  <2>2. LevelNode(level) = [level |-> level, upper |-> TRUE]
    BY <1>2 DEF LevelNode, LevelToString
  <2>3. LevelNode(level) \in LevelText /\ LevelNode(level).level = level
    BY <2>1, <2>2 DEF LevelText
  <2>. QED
    BY <2>3 DEF LevelFromString
<1>. QED
  BY <1>1, <1>2

\* An appender that is written is read back, except for its level.
LEMMA AppenderReads ==
  ASSUME NEW d, d.type \in AppenderType, d.type = "FileLogAppender" <=> d.file # Null,
         NEW level
  PROVE  LET a == [type |-> d.type, file |-> d.file, level |-> level,
                   formatter |-> d.formatter]
         IN  /\ IsAppender(a)
             /\ AppenderDefine(a) = [type |-> d.type, level |-> 0,
                                     formatter |-> d.formatter, file |-> d.file]
BY DEF AppenderType, IsAppender, AppenderDefine

\* A definition that is written is read back.
LEMMA DefinitionReads ==
  ASSUME NEW l, NEW d, DefinitionOK(d)
  PROVE  DefineNode(l, d).name = l /\ DefineOf(DefineNode(l, d)) = d
<1>. DEFINE node(i) == [type |-> d.appenders[i].type,
                        file |-> d.appenders[i].file,
                        level |-> LevelNode(d.appenders[i].level),
                        formatter |-> d.appenders[i].formatter]
            nodes == [i \in 1..Len(d.appenders) |-> node(i)]
<1>1. /\ d.level \in Levels /\ IsList(d.appenders)
      /\ d = [level |-> d.level, formatter |-> d.formatter, appenders |-> d.appenders]
      /\ d.appenders = [k \in 1..Len(d.appenders) |-> d.appenders[k]]
      /\ \A k \in 1..Len(d.appenders) : AppenderOK(d.appenders[k])
  BY DEF DefinitionOK
<1>2. DefineNode(l, d) = [name |-> l, level |-> LevelNode(d.level),
                          formatter |-> d.formatter, appenders |-> nodes]
  BY <1>1 DEF DefineNode, IsList
<1>3. \A k \in 1..Len(d.appenders) :
        IsAppender(node(k)) /\ AppenderDefine(node(k)) = d.appenders[k]
  BY <1>1, AppenderReads DEF AppenderOK
<1>. HIDE DEF node
<1>4. Len(nodes) = Len(d.appenders) /\ Len(nodes) \in Nat
  BY <1>1 DEF IsList
<1>5. AppenderDefines(nodes) = d.appenders
  <2>. DEFINE ns == nodes
  <2>1. Len(ns) \in Nat /\ Len(ns) = Len(d.appenders)
        /\ \A k \in 1..Len(ns) : IsAppender(ns[k]) /\ AppenderDefine(ns[k]) = d.appenders[k]
    BY <1>3, <1>4
  <2>. HIDE DEF ns
  <2>2. AppenderDefines(ns) = [k \in 1..Len(ns) |-> AppenderDefine(ns[k])]
    BY <2>1, ReadAll
  <2>3. AppenderDefines(ns) = [k \in 1..Len(d.appenders) |-> d.appenders[k]]
    BY <2>1, <2>2
  <2>. QED
    BY <1>1, <2>3 DEF ns
<1>. HIDE DEF nodes
<1>6. DefineOf(DefineNode(l, d)) =
        [level |-> LevelFromString(LevelNode(d.level)), formatter |-> d.formatter,
         appenders |-> AppenderDefines(nodes)]
  BY <1>2 DEF DefineOf
<1>. QED
  BY <1>1, <1>2, <1>5, <1>6, LevelReads

\* toString() of the variable gives its value back.
LEMMA ConfigReads ==
  ASSUME NEW d, IsFiniteSet(DOMAIN d), d = [l \in DOMAIN d |-> d[l]],
         \A l \in DOMAIN d : DefinitionOK(d[l])
  PROVE  FromYaml(ToYaml(d)) = d
<1>. DEFINE S == DOMAIN d
            node == [l \in S |-> DefineNode(l, d[l])]
<1>1. \A l \in S : node[l].name = l /\ DefineOf(node[l]) = d[l]
  BY DefinitionReads
<1>2. ToYaml(d) = Written(S, node)
  BY SetToSeqOf DEF ToYaml, Written
<1>. HIDE DEF node
<1>3. FromYaml(Written(S, node)) = [l \in S |-> DefineOf(node[l])]
  BY <1>1, ReadsWritten
<1>4. [l \in S |-> DefineOf(node[l])] = [l \in S |-> d[l]]
  BY <1>1
<1>. QED
  BY <1>2, <1>3, <1>4

\* The empty configuration.
LEMMA NoConfigReads == FromYaml(ToYaml(<<>>)) = <<>>
<1>1. DOMAIN <<>> = {} /\ <<>> = [l \in {} |-> <<>>[l]]
  BY DOMAIN <<>> = {}
<1>. QED
  BY <1>1, ConfigReads, FS_EmptySet

\* What the dump of the loggers is read back as.
Defined(l) ==
  [level |-> m_level[l], formatter |-> m_formatter[l],
   appenders |-> [i \in DOMAIN m_appenders[l] |->
     LET a == m_appenders[l][i] IN
     [type |-> target[a].type, file |-> target[a].file, level |-> 0,
      formatter |-> IF m_hasFormatter[a] THEN format[a] ELSE Null]]]

\* An appender has a file exactly if it writes to one.
TargetsOK ==
  \A a \in Appenders : target[a].type = "FileLogAppender" <=> target[a].file # Null

\* A logger that is written is read back.
LEMMA LoggerReads ==
  ASSUME TypeOK, TargetsOK, NEW l \in Loggers
  PROVE  LoggerNode(l).name = l /\ DefineOf(LoggerNode(l)) = Defined(l)
<1>. DEFINE s == m_appenders[l]
            nodes == [i \in DOMAIN s |-> AppenderNode(s[i])]
<1>1. s \in Seq(Appenders) /\ m_level[l] \in Levels
  BY DEF TypeOK
<1>2. ASSUME NEW a \in Appenders
      PROVE  IsAppender(AppenderNode(a)) /\ AppenderDefine(AppenderNode(a)) =
               [type |-> target[a].type, file |-> target[a].file, level |-> 0,
                formatter |-> IF m_hasFormatter[a] THEN format[a] ELSE Null]
  <2>1. target[a].type \in AppenderType
        /\ (target[a].type = "FileLogAppender" <=> target[a].file # Null)
    BY DEF TypeOK, TargetsOK
  <2>. QED
    BY <2>1 DEF AppenderType, AppenderNode, IsAppender, AppenderDefine
<1>3. LoggerNode(l) = [name |-> l, level |-> LevelNode(m_level[l]),
                       formatter |-> m_formatter[l], appenders |-> nodes]
  BY DEF LoggerNode
<1>. HIDE DEF s
<1>4. Len(s) \in Nat /\ DOMAIN s = 1..Len(s) /\ \A i \in 1..Len(s) : s[i] \in Appenders
  BY <1>1
<1>5. AppenderDefines(nodes) = [i \in DOMAIN s |-> AppenderDefine(AppenderNode(s[i]))]
  <2>. DEFINE ns == nodes
  <2>1. Len(ns) \in Nat /\ 1..Len(ns) = DOMAIN s
        /\ \A i \in 1..Len(ns) : ns[i] = AppenderNode(s[i]) /\ s[i] \in Appenders
    BY <1>4
  <2>. HIDE DEF ns
  <2>2. \A i \in 1..Len(ns) : IsAppender(ns[i])
    BY <1>2, <2>1
  <2>3. AppenderDefines(ns) = [i \in 1..Len(ns) |-> AppenderDefine(ns[i])]
    BY <2>1, <2>2, ReadAll
  <2>. QED
    BY <2>1, <2>3 DEF ns
<1>6. AppenderDefines(nodes) = Defined(l).appenders
  <2>1. Defined(l).appenders = [i \in DOMAIN s |->
          [type |-> target[s[i]].type, file |-> target[s[i]].file, level |-> 0,
           formatter |-> IF m_hasFormatter[s[i]] THEN format[s[i]] ELSE Null]]
    BY DEF Defined, s
  <2>2. \A i \in DOMAIN s : AppenderDefine(AppenderNode(s[i])) =
          [type |-> target[s[i]].type, file |-> target[s[i]].file, level |-> 0,
           formatter |-> IF m_hasFormatter[s[i]] THEN format[s[i]] ELSE Null]
    BY <1>2, <1>4
  <2>. QED
    BY <1>5, <2>1, <2>2
<1>. HIDE DEF nodes
<1>7. DefineOf(LoggerNode(l)) =
        [level |-> LevelFromString(LevelNode(m_level[l])),
         formatter |-> m_formatter[l], appenders |-> AppenderDefines(nodes)]
  BY <1>3 DEF DefineOf
<1>8. LevelFromString(LevelNode(m_level[l])) = m_level[l]
  BY <1>1, LevelReads
<1>9. Defined(l) = [level |-> m_level[l], formatter |-> m_formatter[l],
                    appenders |-> Defined(l).appenders]
  BY DEF Defined
<1>10. DefineOf(LoggerNode(l)) = Defined(l)
  BY <1>6, <1>7, <1>8, <1>9
<1>. QED
  BY <1>3, <1>10

\* So the dumps are read back.
LEMMA DumpsRead ==
  ASSUME TypeOK, TargetsOK, IsFiniteSet(m_loggers), conf \in Configs \cup {<<>>}
  PROVE  DumpReloads
<1>1. FromYaml(ToYaml(conf)) = conf
  BY ConfigsOK, ConfigReads, NoConfigReads
<1>2. FromYaml(toYamlString) = [l \in m_loggers |-> Defined(l)]
  <2>. DEFINE node == [l \in m_loggers |-> LoggerNode(l)]
  <2>1. \A l \in m_loggers : node[l].name = l /\ DefineOf(node[l]) = Defined(l)
    BY LoggerReads DEF TypeOK
  <2>2. toYamlString = Written(m_loggers, node)
    BY SetToSeqOf DEF toYamlString, Written
  <2>. HIDE DEF node
  <2>3. FromYaml(Written(m_loggers, node)) = [l \in m_loggers |-> DefineOf(node[l])]
    BY <2>1, ReadsWritten
  <2>. QED
    BY <2>1, <2>2, <2>3
<1>. QED
  BY <1>1, <1>2 DEF DumpReloads, Defined

\* What that needs of the state: finitely many loggers, and appenders with a file
\* exactly if they write to one.
DumpOK == IsFiniteSet(m_loggers) /\ TargetsOK

\* Only getLogger() makes loggers, one at a time.
LEMMA LoggersStep ==
  ASSUME IsFiniteSet(m_loggers), [Next]_vars
  PROVE  IsFiniteSet(m_loggers')
<1>1. UNCHANGED m_loggers \/ \E l \in Loggers : m_loggers' = m_loggers \cup {l}
  BY DEF Next, OpStep, CallerStep, AdminStep, ReloadStep, LogLock, LogRoot, LogWrite,
         LogReturn, SetFormatterTest, SetFormatterPass, SetFormatterReturn,
         AddTest, AddInsert, AddFill, PushBack,
         getLogger, Log, setFormatter, SetFormatterLock, addAppender, delAppender,
         setOwnFormatter, Reload, ReloadLogger, ReloadDisable, ReloadFormat,
         ReloadClear, ReloadAppend, ReloadNext, ReloadDone, Crashed, Fail, vars, loggerVars
<1>. QED
  BY <1>1, FS_AddElement

\* Only the listener makes appenders, and their targets are those of a definition.
LEMMA TargetsStep ==
  ASSUME LInv, TargetsOK, [Next]_vars
  PROVE  TargetsOK'
<1>1. CASE ReloadAppend
  <2>1. /\ Made \in Appenders /\ new \in Configs /\ lg[Listener] \in DOMAIN new
        /\ at[Listener] \in 1..Len(new[lg[Listener]].appenders)
        /\ target' = [target EXCEPT ![Made] = [type |-> Wanted.type, file |-> Wanted.file]]
    BY <1>1, AppendMeans DEF LInv
  <2>2. Wanted.type = "FileLogAppender" <=> Wanted.file # Null
    BY <2>1, ConfigsOK DEF DefinitionOK, AppenderOK, Wanted
  <2>3. target = [a \in Appenders |-> target[a]]
    BY DEF LInv, TargetOK
  <2>4. ASSUME NEW a \in Appenders
        PROVE  target'[a].type = "FileLogAppender" <=> target'[a].file # Null
    <3>1. CASE a = Made
      BY <2>1, <2>2, <2>3, <3>1
    <3>2. CASE a # Made
      <4>1. target'[a] = target[a]
        BY <2>1, <2>3, <3>2
      <4>. QED
        BY <4>1 DEF TargetsOK
    <3>. QED
      BY <3>1, <3>2
  <2>. QED
    BY <2>4 DEF TargetsOK
<1>2. CASE ~ReloadAppend
  <2>1. UNCHANGED target
    BY <1>2
       DEF Next, OpStep, CallerStep, AdminStep, ReloadStep, LogLock, LogRoot, LogWrite,
           LogReturn, SetFormatterTest, SetFormatterPass, SetFormatterReturn,
           AddTest, AddInsert, AddFill, PushBack,
           getLogger, Log, setFormatter, SetFormatterLock, addAppender, delAppender,
           setOwnFormatter, Reload, ReloadLogger, ReloadDisable, ReloadFormat,
           ReloadClear, ReloadNext, ReloadDone, Crashed, Fail, vars, appVars
  <2>. QED
    BY <2>1 DEF TargetsOK
<1>. QED
  BY <1>1, <1>2

\* The dumps of the loggers and of the variable, read back as documents, define
\* the loggers and the value they were made from (LoggerManager::toYamlString()
\* and the two LexicalCast of LogDefine).
THEOREM DumpsReload == Spec => []DumpReloads
<1>1. Init => DumpOK
  <2>. SUFFICES ASSUME Init PROVE DumpOK
    OBVIOUS
  <2>1. IsFiniteSet(m_loggers)
    BY FS_Singleton DEF Init
  <2>2. TargetsOK
    BY DEF Init, TargetsOK
  <2>. QED
    BY <2>1, <2>2 DEF DumpOK
<1>2. LInv /\ DumpOK /\ [Next]_vars => DumpOK'
  BY LoggersStep, TargetsStep DEF DumpOK
<1>3. LInv /\ DumpOK => DumpReloads
  BY DumpsRead DEF LInv, ConfOK, DumpOK
<1>. QED
  BY <1>1, <1>2, <1>3, Invariance, PTL DEF Spec

=============================================================================
