SPECIFICATION Spec
CONSTANTS
  N_CONNECTIONS = 2
  QUEUE_SIZE = 2
  QUEUE_MSGS = 1
  Names = {"A"}
  Nicks = {"bot"}
  Events = {"MSG", "DCC"}
  Commands = {"DISCONNECT"}
  MaxUnderscores = 0
  MaxPids = 3
  MaxFds = 2
  MaxOps = 2
  MaxSignals = 0
  MaxTerms = 3
  MaxFaults = 0
CHECK_DEADLOCK FALSE
INVARIANTS
  NoOrphans
  ReplyDiscipline
  SlotOwned
  RepliesGoHome
PROPERTIES
  RefinesSyncCall
