SPECIFICATION Spec
CONSTANTS
  Workers = {}
  Main = main
  UseCaller = TRUE
  ClientFibers = {f1, f2}
  HostFibers = {h1}
  Cbs = {c1}
  Pins = {AnyThread, main}
  MaxReady = 1
  MaxHold = 0
  WakeHome = TRUE
  MayRepeat = TRUE
  MaxTasks = 3
  MaxStarts = 1
  AnyThread = AnyThread
  Null = Null
INVARIANTS NoAbort
