------------------------------- MODULE Logger -------------------------------
(***************************************************************************)
(* Logger, LogAppender, LoggerManager and the listener that applies a new  *)
(* value of the "logs" variable (log.h, log.cpp).  A logger's list of      *)
(* appenders is protected by its spinlock, except in clearAppenders(); an  *)
(* appender that has no formatter of its own gets its logger's.  log()     *)
(* keeps the logger's lock while it writes, and takes the root logger's    *)
(* lock on top of it when the logger has no appenders.                     *)
(*                                                                         *)
(* A critical section of an appender's lock is one step.  What appenders   *)
(* write is left out, and so is the use of their levels, which are never   *)
(* above DEBUG unless a client raises them.                                *)
(***************************************************************************)
EXTENDS LogDefine

CONSTANTS
  Root,         \* the root logger, which LoggerManager makes
  Appenders,    \* LogAppender objects
  Console,      \* the root logger's StdoutLogAppender
  Spare,        \* the appenders that callers make; the listener makes others
  Formatters,   \* valid LogFormatter patterns
  Default,      \* the pattern of Logger's constructor
  Callers,      \* threads that log
  Admins,       \* those of them that also change loggers and appenders
  Listener,     \* the thread that changes the "logs" variable
  Documents,    \* what it sets the variable from
  MaxReloads,   \* bound: changes of the variable
  Quiet         \* nobody uses loggers while a configuration is applied

Threads == Callers \cup {Listener}

AppenderType == {"StdoutLogAppender", "FileLogAppender"}

\* The values that the variable can have.
Configs == {FromYaml(doc) : doc \in {doc \in Documents : Accepted(doc)}}

ASSUME LoggerAssumption ==
  /\ Root \in Loggers
  /\ Console \in Appenders /\ Spare \subseteq Appenders \ {Console}
  /\ Default \in Formatters
  /\ MaxLevel \in Nat \ {0, 1} /\ MaxReloads \in Nat
  /\ Admins \subseteq Callers /\ Listener \notin Callers
  /\ Null \notin Formatters \cup Loggers \cup Threads \cup LevelText
  /\ Null \notin {"null", "race"}

\* What a document has where the conversion looks for a sequence or a name.
IsList(s) == Len(s) \in Nat /\ DOMAIN s = 1..Len(s)
ASSUME DocumentsAssumption ==
  \A document \in Documents :
    /\ IsList(document)
    /\ \A i \in DOMAIN document :
         document[i].name \in Loggers \cup {Null} /\ IsList(document[i].appenders)

VARIABLES
  m_loggers,        \* LoggerManager: the loggers that exist
  m_level,          \* of each logger
  m_formatter,      \* of each logger
  m_appenders,      \* of each logger
  m_mutex,          \* of each logger: the thread that holds it, or Null
  format,           \* LogAppender::m_formatter, or Null
  m_hasFormatter,   \* of each appender
  taken,            \* the appenders that a client took the formatter from
  target,           \* of each appender: its type and its file
  made,             \* the appender objects that exist
  conf,             \* value of the "logs" variable
  new,              \* the value that the listener applies
  todo, drop,       \* loggers the listener has still to set up, to disable
  reloads,
  pc,               \* where each thread is
  lg,               \* the logger that was called
  tgt,              \* log(): the logger whose appenders write: lg or Root
  at,               \* position in the list of appenders, or of definitions
  arg,              \* log(): the level, addAppender(): the appender
  written,          \* log(): the appenders that have written the event
  failed            \* "null": a null pointer was used, "race": a freed node

loggerVars == <<m_loggers, m_level, m_formatter, m_appenders, m_mutex>>
appVars == <<format, m_hasFormatter, taken, target, made>>
confVars == <<conf, new, todo, drop, reloads>>
callVars == <<pc, lg, tgt, at, arg, written>>
vars == <<loggerVars, appVars, confVars, callVars, failed>>

Label == {"idle", "lock", "root", "write", "unlock", "sf", "sfset", "add", "fill",
          "reload", "format", "clear", "append"}

TypeOK ==
  /\ m_loggers \in SUBSET Loggers
  /\ m_level \in [Loggers -> Levels]
  /\ m_formatter \in [Loggers -> Formatters]
  /\ m_appenders \in [Loggers -> Seq(Appenders)]
  /\ m_mutex \in [Loggers -> Threads \cup {Null}]
  /\ format \in [Appenders -> Formatters \cup {Null}]
  /\ m_hasFormatter \in [Appenders -> BOOLEAN]
  /\ taken \in SUBSET Appenders
  /\ \A a \in Appenders : target[a].type \in AppenderType
  /\ made \in SUBSET Appenders
  /\ DOMAIN conf \subseteq Loggers /\ DOMAIN new \subseteq Loggers
  /\ todo \in SUBSET Loggers /\ drop \in SUBSET Loggers
  /\ reloads \in 0..MaxReloads
  /\ pc \in [Threads -> Label]
  /\ lg \in [Threads -> Loggers \cup {Null}]
  /\ tgt \in [Threads -> Loggers \cup {Null}]
  /\ at \in [Threads -> Nat]
  /\ arg \in [Threads -> Levels \cup Appenders \cup {Null}]
  /\ written \in [Threads -> Seq(Appenders)]
  /\ failed \in {Null, "null", "race"}

\* LoggerManager::LoggerManager() has returned.
Init ==
  /\ m_loggers = {Root}
  /\ m_level = [l \in Loggers |-> 1]
  /\ m_formatter = [l \in Loggers |-> Default]
  /\ m_appenders = [l \in Loggers |-> IF l = Root THEN <<Console>> ELSE <<>>]
  /\ m_mutex = [l \in Loggers |-> Null]
  /\ format = [a \in Appenders |-> IF a = Console THEN Default ELSE Null]
  /\ m_hasFormatter = [a \in Appenders |-> FALSE]
  /\ taken = {}
  /\ target = [a \in Appenders |-> [type |-> "StdoutLogAppender", file |-> Null]]
  /\ made = {Console} \cup Spare
  /\ conf = <<>> /\ new = <<>> /\ todo = {} /\ drop = {} /\ reloads = 0
  /\ pc = [t \in Threads |-> "idle"]
  /\ lg = [t \in Threads |-> Null]
  /\ tgt = [t \in Threads |-> Null]
  /\ at = [t \in Threads |-> 0]
  /\ arg = [t \in Threads |-> Null]
  /\ written = [t \in Threads |-> <<>>]
  /\ failed = Null

-----------------------------------------------------------------------------
(***************************************************************************)
(* Building blocks.                                                        *)
(***************************************************************************)

At(t, label) == failed = Null /\ pc[t] = label
GoTo(t, label) == pc' = [pc EXCEPT ![t] = label]

Fail(what) ==
  failed' = what /\ UNCHANGED <<loggerVars, appVars, confVars, callVars>>

\* Caller c is free to call something.
MayCall(c) == At(c, "idle") /\ (Quiet => pc[Listener] = "idle")

\* Thread t begins an operation on l with argument x at the given label.
Call(t, l, x, label) ==
  /\ GoTo(t, label)
  /\ lg' = [lg EXCEPT ![t] = l]
  /\ tgt' = [tgt EXCEPT ![t] = l]
  /\ arg' = [arg EXCEPT ![t] = x]
  /\ UNCHANGED written

\* Thread t ends its operation; the listener goes on where it was.
Return(t) ==
  /\ GoTo(t, IF t # Listener THEN "idle"
             ELSE IF pc[t] \in {"add", "fill"} THEN "append"
             ELSE IF pc[t] = "sf" THEN "clear" ELSE "reload")
  /\ IF t = Listener /\ pc[t] \in {"add", "fill", "sf"}
     THEN UNCHANGED <<lg, tgt>>
     ELSE lg' = [lg EXCEPT ![t] = Null] /\ tgt' = [tgt EXCEPT ![t] = Null]
  /\ arg' = [arg EXCEPT ![t] = Null]
  /\ written' = [written EXCEPT ![t] = <<>>]

Acquire(t, l) == m_mutex[l] = Null /\ m_mutex' = [m_mutex EXCEPT ![l] = t]

\* The locks of t are released as its scoped locks end.
Release(t) ==
  m_mutex' = [l \in Loggers |-> IF m_mutex[l] = t THEN Null ELSE m_mutex[l]]

-----------------------------------------------------------------------------
(***************************************************************************)
(* LoggerManager and Logger, as callers use them.                          *)
(***************************************************************************)

\* getLogger(l) of a name that has no logger yet.
getLogger(c, l) ==
  /\ MayCall(c)
  /\ l \notin m_loggers
  /\ m_loggers' = m_loggers \cup {l}
  /\ UNCHANGED <<m_level, m_formatter, m_appenders, m_mutex, appVars, confVars,
                 callVars, failed>>

\* log(level, event): the level is read without the lock.
Log(c, l, level) ==
  /\ MayCall(c)
  /\ l \in m_loggers
  /\ level >= m_level[l]
  /\ Call(c, l, level, "lock")
  /\ UNCHANGED <<loggerVars, appVars, confVars, at, failed>>

\* Mutant of LogLock: the lock is held for the look at the list only.
LogLockShort(c) ==
  /\ At(c, "lock")
  /\ m_mutex[tgt[c]] = Null
  /\ IF m_appenders[tgt[c]] # <<>>
     THEN GoTo(c, "write") /\ at' = [at EXCEPT ![c] = 1] /\ UNCHANGED failed
     ELSE IF tgt[c] = Root
     THEN failed' = "null" /\ UNCHANGED <<pc, at>>
     ELSE GoTo(c, "root") /\ UNCHANGED <<at, failed>>
  /\ UNCHANGED <<loggerVars, appVars, confVars, lg, tgt, arg, written>>

\* Lock, and look whether there are appenders.  The root logger's own m_root is
\* null.
LogLock(c) ==
  /\ At(c, "lock")
  /\ Acquire(c, tgt[c])
  /\ IF m_appenders[tgt[c]] # <<>>
     THEN GoTo(c, "write") /\ at' = [at EXCEPT ![c] = 1] /\ UNCHANGED failed
     ELSE IF tgt[c] = Root
     THEN failed' = "null" /\ UNCHANGED <<pc, at>>
     ELSE GoTo(c, "root") /\ UNCHANGED <<at, failed>>
  /\ UNCHANGED <<m_loggers, m_level, m_formatter, m_appenders, appVars,
                 confVars, lg, tgt, arg, written>>

\* m_root->log(level, event), with the lock of lg still held.
LogRoot(c) ==
  /\ At(c, "root")
  /\ IF arg[c] >= m_level[Root]
     THEN GoTo(c, "lock") /\ tgt' = [tgt EXCEPT ![c] = Root]
     ELSE GoTo(c, "unlock") /\ UNCHANGED tgt
  /\ UNCHANGED <<loggerVars, appVars, confVars, lg, at, arg, written, failed>>

\* The next appender formats and writes the event under its own lock.
LogWrite(c) ==
  /\ At(c, "write")
  /\ at[c] <= Len(m_appenders[tgt[c]])
  /\ LET a == m_appenders[tgt[c]][at[c]] IN
     IF format[a] = Null
     THEN Fail("null")
     ELSE /\ written' = [written EXCEPT ![c] = Append(@, a)]
          /\ at' = [at EXCEPT ![c] = @ + 1]
          /\ UNCHANGED <<loggerVars, appVars, confVars, pc, lg, tgt, arg,
                         failed>>

\* Mutant of LogReturn: the lock of the called logger is kept.
LogReturnLocked(c) ==
  /\ \/ At(c, "write") /\ at[c] > Len(m_appenders[tgt[c]])
     \/ At(c, "unlock")
  /\ m_mutex' = [m_mutex EXCEPT ![Root] = IF @ = c THEN Null ELSE @]
  /\ at' = [at EXCEPT ![c] = 0]
  /\ Return(c)
  /\ UNCHANGED <<m_loggers, m_level, m_formatter, m_appenders, appVars,
                 confVars, failed>>

LogReturn(c) ==
  /\ \/ At(c, "write") /\ at[c] > Len(m_appenders[tgt[c]])
     \/ At(c, "unlock")
  /\ Release(c)
  /\ at' = [at EXCEPT ![c] = 0]
  /\ Return(c)
  /\ UNCHANGED <<m_loggers, m_level, m_formatter, m_appenders, appVars,
                 confVars, failed>>

\* setFormatter(f) on behalf of thread t: lock, m_formatter = f.
SetFormatterLock(t, l, f) ==
  /\ Acquire(t, l)
  /\ m_formatter' = [m_formatter EXCEPT ![l] = f]
  /\ at' = [at EXCEPT ![t] = 1]
  /\ Call(t, l, Null, "sf")
  /\ UNCHANGED <<m_loggers, m_level, m_appenders, appVars, confVars, failed>>

setFormatter(c, l, f) ==
  MayCall(c) /\ l \in m_loggers /\ SetFormatterLock(c, l, f)

\* if(!i->m_hasFormatter), read without the appender's lock.
SetFormatterTest(t) ==
  /\ At(t, "sf")
  /\ at[t] <= Len(m_appenders[lg[t]])
  /\ IF m_hasFormatter[m_appenders[lg[t]][at[t]]]
     THEN at' = [at EXCEPT ![t] = @ + 1] /\ UNCHANGED pc
     ELSE GoTo(t, "sfset") /\ UNCHANGED at
  /\ UNCHANGED <<loggerVars, appVars, confVars, lg, tgt, arg, written, failed>>

\* Mutant of SetFormatterPass: the formatter that the appender gets is lost.
SetFormatterPassNothing(t) ==
  /\ At(t, "sfset")
  /\ at' = [at EXCEPT ![t] = @ + 1]
  /\ GoTo(t, "sf")
  /\ UNCHANGED <<loggerVars, appVars, confVars, lg, tgt, arg, written, failed>>

\* The appender gets the logger's formatter.
SetFormatterPass(t) ==
  /\ At(t, "sfset")
  /\ format' = [format EXCEPT ![m_appenders[lg[t]][at[t]]] = m_formatter[lg[t]]]
  /\ at' = [at EXCEPT ![t] = @ + 1]
  /\ GoTo(t, "sf")
  /\ UNCHANGED <<loggerVars, m_hasFormatter, taken, target, made, confVars, lg,
                 tgt, arg, written, failed>>

SetFormatterReturn(t) ==
  /\ At(t, "sf")
  /\ at[t] > Len(m_appenders[lg[t]])
  /\ Release(t)
  /\ at' = [at EXCEPT ![t] = 0]
  /\ Return(t)
  /\ UNCHANGED <<m_loggers, m_level, m_formatter, m_appenders, appVars,
                 confVars, failed>>

\* Appender a is in a list, or about to be.
InUse(a) ==
  \/ \E l \in Loggers : Contains(m_appenders[l], a)
  \/ \E t \in Threads : pc[t] \in {"add", "fill"} /\ arg[t] = a

\* addAppender(a), begun by a caller.  An appender serves one logger at a time,
\* and one without a formatter of its own only one logger ever.
addAppender(c, l, a) ==
  /\ MayCall(c)
  /\ l \in m_loggers
  /\ ~InUse(a)
  /\ m_hasFormatter[a] \/ format[a] = Null
  /\ Acquire(c, l)
  /\ Call(c, l, a, "add")
  /\ UNCHANGED <<m_loggers, m_level, m_formatter, m_appenders, appVars,
                 confVars, at, failed>>

\* m_appenders.push_back(appender), unlock.
PushBack(t) ==
  /\ m_appenders' = [m_appenders EXCEPT ![lg[t]] = Append(@, arg[t])]
  /\ Release(t)
  /\ Return(t)
  /\ UNCHANGED <<m_loggers, m_level, m_formatter, m_hasFormatter, taken, target,
                 made, confVars, at, failed>>

\* if(!appender->getFormatter()), under the appender's lock.
AddTest(t) ==
  /\ At(t, "add")
  /\ format[arg[t]] = Null
  /\ GoTo(t, "fill")
  /\ UNCHANGED <<loggerVars, appVars, confVars, lg, tgt, at, arg, written, failed>>

\* It has one.
AddInsert(t) ==
  /\ At(t, "add")
  /\ format[arg[t]] # Null
  /\ PushBack(t)
  /\ UNCHANGED format

\* Mutant of AddFill: the appender's missing formatter is not filled in.
AddFillNothing(t) ==
  /\ At(t, "fill")
  /\ PushBack(t)
  /\ UNCHANGED format

\* It has none: it gets the logger's, under its lock again, in place of one of its
\* own that it was given in between.
AddFill(t) ==
  /\ At(t, "fill")
  /\ format' = [format EXCEPT ![arg[t]] = m_formatter[lg[t]]]
  /\ PushBack(t)

\* delAppender(a): the first a is erased.
delAppender(c, l, a) ==
  /\ MayCall(c)
  /\ m_mutex[l] = Null
  /\ \E i \in 1..Len(m_appenders[l]) :
       /\ m_appenders[l][i] = a
       /\ \A j \in 1..(i - 1) : m_appenders[l][j] # a
       /\ m_appenders' = [m_appenders EXCEPT ![l] = RemoveAt(@, i)]
  /\ UNCHANGED <<m_loggers, m_level, m_formatter, m_mutex, appVars, confVars,
                 callVars, failed>>

\* LogAppender::setFormatter(f): the appender has one of its own, or with a null
\* pointer none at all.
setOwnFormatter(c, a, f) ==
  /\ MayCall(c)
  /\ format' = [format EXCEPT ![a] = f]
  /\ m_hasFormatter' = [m_hasFormatter EXCEPT ![a] = f # Null]
  /\ taken' = IF f = Null THEN taken \cup {a} ELSE taken
  /\ UNCHANGED <<loggerVars, target, made, confVars, callVars, failed>>

-----------------------------------------------------------------------------
(***************************************************************************)
(* The listener of the "logs" variable (LogIniter).                        *)
(***************************************************************************)

\* The loggers whose definition is new or different.
Changed(old, d) ==
  {l \in DOMAIN d : l \notin DOMAIN old \/ old[l] # d[l]}

\* LogLevel::INFO.
Info == 2

\* fromString() of a document: refused as a whole, or the listener begins.  First
\* it logs "on_logger_conf_changed" to the root logger.
Reload(document) ==
  LET d == FromYaml(document) IN
  /\ At(Listener, "idle")
  /\ Accepted(document)
  /\ Quiet => \A c \in Callers : pc[c] = "idle"
  /\ reloads < MaxReloads
  /\ d # conf
  /\ new' = d
  /\ todo' = Changed(conf, d)
  /\ drop' = DOMAIN conf \ DOMAIN d
  /\ reloads' = reloads + 1
  /\ IF Info >= m_level[Root]
     THEN Call(Listener, Root, Info, "lock")
     ELSE GoTo(Listener, "reload") /\ UNCHANGED <<lg, tgt, arg, written>>
  /\ UNCHANGED <<loggerVars, appVars, conf, at, failed>>

\* getLogger(), setLevel().
ReloadLogger(l) ==
  /\ At(Listener, "reload")
  /\ l \in todo
  /\ m_loggers' = m_loggers \cup {l}
  /\ m_level' = [m_level EXCEPT ![l] = new[l].level]
  /\ Call(Listener, l, Null, "format")
  /\ todo' = todo \ {l}
  /\ UNCHANGED <<m_formatter, m_appenders, m_mutex, appVars, conf, new, drop,
                 reloads, at, failed>>

\* setFormatter() if the definition names one and it is a pattern without error.
ReloadFormat ==
  /\ At(Listener, "format")
  /\ LET f == new[lg[Listener]].formatter IN
     IF f \in Formatters
     THEN SetFormatterLock(Listener, lg[Listener], f)
     ELSE /\ GoTo(Listener, "clear")
          /\ UNCHANGED <<loggerVars, appVars, confVars, lg, tgt, at, arg,
                         written, failed>>

\* Thread t is inside a critical section of l that uses the list.
UsesList(t, l) ==
  m_mutex[l] = t /\ tgt[t] = l /\ pc[t] \in {"write", "sf", "sfset", "add", "fill"}

\* clearAppenders() of l by the listener, without the lock: whoever is using
\* the list goes on with a freed node.
Clear(l) ==
  IF \E t \in Threads : UsesList(t, l)
  THEN failed' = "race" /\ UNCHANGED m_appenders
  ELSE m_appenders' = [m_appenders EXCEPT ![l] = <<>>] /\ UNCHANGED failed

\* Mutant of ReloadClear: the old appenders stay.
ReloadClearNothing ==
  /\ At(Listener, "clear")
  /\ at' = [at EXCEPT ![Listener] = 1]
  /\ GoTo(Listener, "append")
  /\ UNCHANGED <<loggerVars, appVars, confVars, lg, tgt, arg, written, failed>>

ReloadClear ==
  /\ At(Listener, "clear")
  /\ Clear(lg[Listener])
  /\ at' = [at EXCEPT ![Listener] = 1]
  /\ GoTo(Listener, "append")
  /\ UNCHANGED <<m_loggers, m_level, m_formatter, m_mutex, appVars, confVars,
                 lg, tgt, arg, written>>

\* A new appender, with its own formatter if it is given one without error;
\* addAppender().
ReloadAppend ==
  LET l == lg[Listener]
      d == new[l].appenders[at[Listener]]
      own == IF d.formatter \in Formatters THEN d.formatter ELSE Null
      a == CHOOSE a \in Appenders : a \notin made IN
  /\ At(Listener, "append")
  /\ at[Listener] <= Len(new[l].appenders)
  /\ made # Appenders
  /\ made' = made \cup {a}
  /\ target' = [target EXCEPT ![a] = [type |-> d.type, file |-> d.file]]
  /\ format' = [format EXCEPT ![a] = own]
  /\ m_hasFormatter' = [m_hasFormatter EXCEPT ![a] = own # Null]
  /\ Acquire(Listener, l)
  /\ at' = [at EXCEPT ![Listener] = @ + 1]
  /\ Call(Listener, l, a, "add")
  /\ UNCHANGED <<m_loggers, m_level, m_formatter, m_appenders, taken, confVars,
                 failed>>

ReloadNext ==
  /\ At(Listener, "append")
  /\ at[Listener] > Len(new[lg[Listener]].appenders)
  /\ at' = [at EXCEPT ![Listener] = 0]
  /\ Call(Listener, Null, Null, "reload")
  /\ UNCHANGED <<loggerVars, appVars, confVars, failed>>

\* A logger without a definition any more: level 0, no appenders.
ReloadDisable(l) ==
  /\ At(Listener, "reload")
  /\ todo = {}
  /\ l \in drop
  /\ m_level' = [m_level EXCEPT ![l] = 0]
  /\ Clear(l)
  /\ drop' = drop \ {l}
  /\ UNCHANGED <<m_loggers, m_formatter, m_mutex, appVars, conf, new, todo,
                 reloads, callVars>>

ReloadDone ==
  /\ At(Listener, "reload")
  /\ todo = {} /\ drop = {}
  /\ conf' = new
  /\ GoTo(Listener, "idle")
  /\ UNCHANGED <<loggerVars, appVars, new, todo, drop, reloads, lg, tgt, at,
                 arg, written, failed>>

-----------------------------------------------------------------------------
(***************************************************************************)
(* The dumps, as values.                                                   *)
(***************************************************************************)

\* LogAppender::m_level: DEBUG by default, UNKNOW from the listener.
AppenderLevel(a) == IF a \in {Console} \cup Spare THEN 1 ELSE 0

\* Mutant of AppenderNode: an inherited formatter is written too.
AppenderNodeAlways(a) ==
  [type |-> target[a].type, file |-> target[a].file,
   level |-> LevelNode(AppenderLevel(a)), formatter |-> format[a]]

\* toYamlString() of an appender.
AppenderNode(a) ==
  [type |-> target[a].type, file |-> target[a].file,
   level |-> LevelNode(AppenderLevel(a)),
   formatter |-> IF m_hasFormatter[a] THEN format[a] ELSE Null]

\* Logger::toYamlString().
LoggerNode(l) ==
  [name |-> l, level |-> LevelNode(m_level[l]), formatter |-> m_formatter[l],
   appenders |-> [i \in DOMAIN m_appenders[l] |-> AppenderNode(m_appenders[l][i])]]

\* LoggerManager::toYamlString().
toYamlString ==
  LET names == SetToSeq(m_loggers)
  IN  [i \in DOMAIN names |-> LoggerNode(names[i])]

-----------------------------------------------------------------------------

OpStep(t) ==
  \/ LogLock(t) \/ LogRoot(t) \/ LogWrite(t) \/ LogReturn(t)
  \/ SetFormatterTest(t) \/ SetFormatterPass(t) \/ SetFormatterReturn(t)
  \/ AddTest(t) \/ AddInsert(t) \/ AddFill(t)

ReloadStep ==
  \/ \E l \in Loggers : ReloadLogger(l) \/ ReloadDisable(l)
  \/ ReloadFormat \/ ReloadClear \/ ReloadAppend \/ ReloadNext \/ ReloadDone

CallerStep(c) ==
  \/ \E l \in Loggers : getLogger(c, l)
  \/ \E l \in Loggers, level \in 1..MaxLevel : Log(c, l, level)

AdminStep(c) ==
  \/ \E l \in Loggers, f \in Formatters : setFormatter(c, l, f)
  \/ \E l \in Loggers, a \in Spare :
       addAppender(c, l, a) \/ delAppender(c, l, a)
  \/ \E a \in Spare, f \in Formatters \cup {Null} : setOwnFormatter(c, a, f)

\* The process has ended.
Crashed == failed # Null /\ UNCHANGED vars

Next ==
  \/ \E t \in Threads : OpStep(t)
  \/ \E c \in Callers : CallerStep(c)
  \/ \E c \in Admins : AdminStep(c)
  \/ \E document \in Documents : Reload(document)
  \/ ReloadStep
  \/ Crashed

Spec == Init /\ [][Next]_vars

\* Threads run, and a spinlock does not starve one that spins on it.
FairSpec ==
  /\ Spec
  /\ \A c \in Callers : SF_vars(OpStep(c))
  /\ SF_vars(OpStep(Listener) \/ ReloadStep)

-----------------------------------------------------------------------------

\* An appender that has no formatter of its own follows its logger: whenever nobody
\* is changing that, it formats with the logger's formatter, or it was left without
\* any by setFormatter(nullptr) of a client (log.cpp:250, 286, 312).
FollowsLogger ==
  \A l \in Loggers : m_mutex[l] = Null =>
    \A i \in 1..Len(m_appenders[l]) :
      LET a == m_appenders[l][i] IN
      ~m_hasFormatter[a] => \/ format[a] = m_formatter[l]
                            \/ format[a] = Null /\ a \in taken

\* A null pointer is used only where the root logger has no appenders, or by an
\* appender that a client left without a formatter: whoever else adds an appender,
\* and whatever sets formatters meanwhile, it has one before it can write
\* (log.cpp:286-290, 311, 346, 393).
NullOnlyIf ==
  failed = "null" => \E t \in Threads :
    \/ pc[t] = "lock" /\ tgt[t] = Root /\ m_appenders[Root] = <<>>
    \/ /\ pc[t] = "write" /\ at[t] <= Len(m_appenders[tgt[t]])
       /\ LET a == m_appenders[tgt[t]][at[t]] IN format[a] = Null /\ a \in taken

\* An event that a logger's appenders write, the listener's too, is written by each
\* of them once, in the order of the list, whatever is added and removed meanwhile.
EachOnce ==
  [][\A t \in Threads : pc[t] = "write" /\ pc'[t] # "write" =>
        written[t] = m_appenders[tgt[t]]]_vars

\* Each logger whose definition changed has its level and, unless it has an error,
\* its formatter, and exactly its appenders, each with its target and with its own
\* formatter or, if it has none without error, the logger's; a logger without a
\* definition has no appenders.
Applied ==
  /\ \A l \in Changed(conf, new) :
       /\ m_level[l] = new[l].level
       /\ new[l].formatter \in Formatters => m_formatter[l] = new[l].formatter
       /\ Len(m_appenders[l]) = Len(new[l].appenders)
       /\ \A i \in DOMAIN m_appenders[l] :
            LET a == m_appenders[l][i]
                d == new[l].appenders[i] IN
            /\ target[a] = [type |-> d.type, file |-> d.file]
            /\ format[a] = IF d.formatter \in Formatters THEN d.formatter
                                                         ELSE m_formatter[l]
  /\ \A l \in DOMAIN conf \ DOMAIN new : m_appenders[l] = <<>>

\* That is so when the listener has applied a configuration (log.cpp:725-775).
ReloadApplied ==
  [][pc[Listener] = "reload" /\ pc'[Listener] = "idle" => Applied]_vars

\* What toYamlString() writes of the loggers, read back as a document, defines
\* the same loggers: the same levels, formatters and targets, and an appender
\* follows its logger afterwards if and only if it did before; and toString()
\* of the variable gives its value back.  The levels of appenders are not read.
DumpReloads ==
  /\ FromYaml(ToYaml(conf)) = conf
  /\ (\A l \in Loggers : m_mutex[l] = Null) =>
       FromYaml(toYamlString) = [l \in m_loggers |->
         [level |-> m_level[l], formatter |-> m_formatter[l],
          appenders |-> [i \in DOMAIN m_appenders[l] |->
            LET a == m_appenders[l][i] IN
            [type |-> target[a].type, file |-> target[a].file, level |-> 0,
             formatter |-> IF m_hasFormatter[a] THEN format[a] ELSE Null]]]]

\* Every operation ends, unless one has crashed, so every thread is outside of one
\* again and again: log() holds its logger's lock while it waits for the root
\* logger's, and no thread waits the other way round (log.cpp:336-349).
CallsReturn == \A t \in Threads : []<>(pc[t] = "idle" \/ failed # Null)

=============================================================================
