SPECIFICATION Spec
CONSTANTS
  Kinds = {"artifact"}
  Requests = {r1, r2}
  MaxParallelism = 2
  Bounds <- Small
SYMMETRY Alike
INVARIANT ArtifactWrittenOnce
CHECK_DEADLOCK FALSE
