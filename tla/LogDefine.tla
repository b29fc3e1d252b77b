----------------------------- MODULE LogDefine ------------------------------
(***************************************************************************)
(* The values of the "logs" variable (log.cpp): LogDefine, and its         *)
(* conversions from and to YAML.  A YAML definition is a record in which   *)
(* Null stands for a missing key, a document a sequence of definitions.  A *)
(* value of the variable, an std::set ordered by name, is a function from  *)
(* names to definitions.                                                   *)
(***************************************************************************)
EXTENDS Naturals, Sequences, FiniteSets, SequencesExt

CONSTANTS
  Loggers,      \* the names
  MaxLevel,     \* levels are 1..MaxLevel (from DEBUG on), 0 is UNKNOW
  Null

Levels == 0..MaxLevel

-----------------------------------------------------------------------------
(***************************************************************************)
(* LogLevel: names of levels are known in upper and in lower case.         *)
(***************************************************************************)

LevelText == [level : 1..MaxLevel, upper : BOOLEAN]

LevelFromString(text) == IF text \in LevelText THEN text.level ELSE 0
LevelToString(level) == [level |-> level, upper |-> TRUE]

\* node["level"] of the dumps: left out when it is UNKNOW.
LevelNode(level) == IF level = 0 THEN Null ELSE LevelToString(level)

-----------------------------------------------------------------------------
(***************************************************************************)
(* LexicalCast<std::string, LogDefine>, and the set around it.             *)
(***************************************************************************)

\* An appender without a type, of an unknown type or without its file is
\* skipped.
IsAppender(a) ==
  \/ a.type = "StdoutLogAppender"
  \/ a.type = "FileLogAppender" /\ a.file # Null

\* Its level is not read.
AppenderDefine(a) ==
  [type |-> a.type, level |-> 0, formatter |-> a.formatter,
   file |-> IF a.type = "FileLogAppender" THEN a.file ELSE Null]

\* The appenders of a definition, in their order.
AppenderDefines(nodes) ==
  LET read[k \in 0..Len(nodes)] ==
        IF k = 0 THEN <<>>
        ELSE IF IsAppender(nodes[k])
        THEN Append(read[k - 1], AppenderDefine(nodes[k])) ELSE read[k - 1]
  IN  read[Len(nodes)]

DefineOf(n) ==
  [level |-> LevelFromString(n.level), formatter |-> n.formatter,
   appenders |-> AppenderDefines(n.appenders)]

\* A definition without a name throws, and nothing of the document is used.
Accepted(document) == \A i \in DOMAIN document : document[i].name # Null

\* Of two definitions of one name the set keeps the first.
FromYaml(document) ==
  LET first(l) == CHOOSE i \in DOMAIN document :
                    /\ document[i].name = l
                    /\ \A j \in 1..(i - 1) : document[j].name # l
  IN  [l \in {document[i].name : i \in DOMAIN document} |->
         DefineOf(document[first(l)])]

-----------------------------------------------------------------------------
(***************************************************************************)
(* LexicalCast<LogDefine, std::string>, and the set around it.             *)
(***************************************************************************)

DefineNode(l, d) ==
  [name |-> l, level |-> LevelNode(d.level), formatter |-> d.formatter,
   appenders |-> [i \in DOMAIN d.appenders |->
      [type |-> d.appenders[i].type,
       file |-> d.appenders[i].file,
       level |-> LevelNode(d.appenders[i].level),
       formatter |-> d.appenders[i].formatter]]]

ToYaml(defines) ==
  LET names == SetToSeq(DOMAIN defines)
  IN  [i \in DOMAIN names |-> DefineNode(names[i], defines[names[i]])]

=============================================================================
