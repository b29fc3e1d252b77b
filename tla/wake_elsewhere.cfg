SPECIFICATION Spec
CONSTANTS
  Workers = {w1, w2}
  Main = main
  UseCaller = FALSE
  ClientFibers = {f1}
  HostFibers = {}
  Cbs = {}
  Pins = {AnyThread}
  MaxReady = 0
  MaxHold = 2
  WakeHome = FALSE
  MayRepeat = FALSE
  MaxTasks = 0
  MaxStarts = 1
  AnyThread = AnyThread
  Null = Null
INVARIANTS NoAbort
