SPECIFICATION Spec
CONSTANTS
  Workers = {w1, w2}
  Main = main
  UseCaller = FALSE
  ClientFibers = {f1}
  HostFibers = {h1}
  Cbs = {c1}
  Pins = {AnyThread}
  MaxReady = 2
  MaxHold = 0
  WakeHome = TRUE
  MayRepeat = FALSE
  MaxTasks = 0
  MaxStarts = 2
  AnyThread = AnyThread
  Null = Null
SYMMETRY Symmetry
INVARIANTS OneRunner NoAbort NoLostBody
PROPERTIES ImplementsTaskPool StopDrains
