\* A parsed pattern stays as it is.
SPECIFICATION Spec
CHECK_DEADLOCK FALSE
CONSTANTS
  Alpha = {"d", "x"}
  Signs = {" "}
  MaxLen = 6
INVARIANTS ReadsBack ErrorExact
PROPERTIES Terminates
