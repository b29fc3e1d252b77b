SPECIFICATION Spec
CONSTANTS
  Workers = {w1, w2}
  Main = main
  UseCaller = FALSE
  ClientFibers = {f1}
  HostFibers = {h1}
  Cbs = {c1}
  Pins = {AnyThread, w1, w2}
  MaxReady = 0
  MaxHold = 2
  WakeHome = TRUE
  MayRepeat = FALSE
  MaxTasks = 0
  MaxStarts = 1
  AnyThread = AnyThread
  Null = Null
SYMMETRY Symmetry
INVARIANTS TypeOK CountersExact OneRunner NoAbort PinRespected
PROPERTIES IdleEndsQuiet
