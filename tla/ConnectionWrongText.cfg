SPECIFICATION Spec
CONSTANTS
  N_CONNECTIONS = 2
  QUEUE_SIZE = 2
  QUEUE_MSGS = 2
  Names = {"A", "B"}
  Nicks = {"bot"}
  Events = {"MSG"}
  Commands = {"MSG", "DISCONNECT", "RECONNECT"}
  MaxUnderscores = 0
  MaxPids = 2
  MaxFds = 3
  MaxOps = 5
  MaxSignals = 0
  MaxTerms = 0
  MaxFaults = 0
CHECK_DEADLOCK FALSE
INVARIANTS
  DeliveredToTarget
