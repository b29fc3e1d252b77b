\* A program that no longer calls anything is at rest.
SPECIFICATION FairSpec
CONSTANTS
  Root = root
  app = app
  json = json
  Loggers = {root, app}
  Console = console
  Spare = {s1}
  Appenders = {console, s1, n1, n2, n3, n4}
  Default = plain
  Formatters = {plain, json}
  MaxLevel = 2
  Callers = {t1, t2}
  Admins = {t1, t2}
  Listener = listener
  broken = broken
  path = path
  Documents <- SomeDocuments
  MaxReloads = 3
  Quiet = TRUE
  Null = Null
INVARIANTS FollowsLogger  DumpReloads
PROPERTIES EachOnce ReloadApplied CallsReturn
