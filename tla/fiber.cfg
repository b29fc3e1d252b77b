\* When the root fiber has gone back(), the thread has no more use for fibers.
SPECIFICATION Spec
CHECK_DEADLOCK FALSE
CONSTANTS
  Fibers = {f1, f2}
  ThreadMain = tmain
  Root = root
  RunFibers = {tmain, root}
  MaxYields = 2
  Null = Null
INVARIANTS ThisIsRunning OwnContext ExecIsRunning NoCrash
