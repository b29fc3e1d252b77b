SPECIFICATION FairSpec
CONSTANTS
  Workers = {w1}
  Main = main
  UseCaller = TRUE
  ClientFibers = {f1}
  HostFibers = {h1}
  Cbs = {c1}
  Pins = {w1, main}
  MaxReady = 1
  MaxHold = 0
  WakeHome = TRUE
  MayRepeat = FALSE
  MaxTasks = 0
  MaxStarts = 1
  AnyThread = AnyThread
  Null = Null
PROPERTIES CallsReturn
