\* When the bounds are reached nothing happens any more.
SPECIFICATION Spec
CHECK_DEADLOCK FALSE
CONSTANTS
  Callers = {t1, t2}
  Capacity = 1
  MaxTime = 3
  MaxEvents = 4
  MaxFaults = 3
  Null = Null
SYMMETRY Symmetry
INVARIANTS Delivered Complete
