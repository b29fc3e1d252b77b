\* Every thread ends, so the system really stops.
SPECIFICATION FairSpec
CHECK_DEADLOCK FALSE
CONSTANTS
  Objs = {a, b, c}
  Dropped = {a}
  Renaming = {b}
  Interrupts = TRUE
INVARIANTS Handshake NoDangling NoThreadLeak
PROPERTIES AllEnd
