\* Does an interrupted graph that is resumed again and again come to its end?
SPECIFICATION FairSpec
CONSTANTS
  Order <- MCOrder
  Callers = {"c1"}
  Envelopes <- Chain
  MaxNodeAttempts = 2
  MaxTroubles = 1
PROPERTY GraphSettles
CHECK_DEADLOCK FALSE
