SPECIFICATION Spec
CONSTANTS
  Kinds = {"artifact"}
  Requests = {r1, r2}
  MaxParallelism = 2
  Bounds <- Small
SYMMETRY Alike
INVARIANT VetoHolds
CHECK_DEADLOCK FALSE
