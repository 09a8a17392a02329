SPECIFICATION FairSpec
CONSTANTS
  N_CONNECTIONS = 1
  QUEUE_SIZE = 4
  QUEUE_MSGS = 2
  Names = {"A"}
  Nicks = {"bot"}
  Events = {"MSG"}
  Commands = {"MSG"}
  MaxUnderscores = 0
  MaxPids = 2
  MaxFds = 3
  MaxOps = 4
  MaxSignals = 1
  MaxTerms = 3
  MaxFaults = 1
CHECK_DEADLOCK FALSE

  
PROPERTIES
  ExitsWithoutChildren
  
