------------------------------ MODULE MCLogger ------------------------------
(***************************************************************************)
(* Instances of Logger for TLC.                                            *)
(***************************************************************************)
EXTENDS Logger, TLC

CONSTANTS app, json,     \* a logger and a formatter
          broken, path   \* a pattern with an error, and a file

Text(level, isUpper) == [level |-> level, upper |-> isUpper]
Define(name, level, formatter, appenders) ==
  [name |-> name, level |-> level, formatter |-> formatter,
   appenders |-> appenders]
Output(type, file, formatter) ==
  [type |-> type, file |-> file, level |-> Null, formatter |-> formatter]
Stdout(formatter) == Output("StdoutLogAppender", Null, formatter)
File(file, formatter) == Output("FileLogAppender", file, formatter)

\* A document that defines one logger, without an appender that is complete, and
\* one that defines it and the root logger, which gets two: one with a formatter of
\* its own and one that asks for a broken one; around them what the conversion
\* skips: an appender without its file, one of an unknown type, a second definition
\* of a name.  A document with a definition without a name is refused.  After the
\* second and the first the root logger has no appenders.
App == Define(app, Text(1, FALSE), broken, <<File(Null, Null)>>)
AppOnly == <<App>>
Both ==
  <<Define(Root, Text(2, TRUE), json,
           <<Stdout(broken), Output("Syslog", Null, Null), File(path, Default)>>),
    App, Define(app, Null, Null, <<>>)>>
Nameless == <<Define(app, Null, Null, <<>>), Define(Null, Null, json, <<>>)>>
SomeDocuments == {AppOnly, Both, Nameless}

\* The run is about programs that do not use loggers while a configuration is
\* applied.
ASSUME Rest == Quiet
=============================================================================
