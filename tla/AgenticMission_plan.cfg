SPECIFICATION Spec
CONSTANTS
  Kinds = {"artifact", "live", "compensated", "shadow"}
  Requests = {r1, r2}
  MaxParallelism = 2
  Bounds <- Small
SYMMETRY Alike
INVARIANTS
  TypeOK
  WrittenAsApproved
  CompletedIsVerified
  LiveHoldsClaim
CHECK_DEADLOCK FALSE
