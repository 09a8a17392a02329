SPECIFICATION FairSpec
CONSTANTS
  N_CONNECTIONS = 2
  QUEUE_SIZE = 2
  QUEUE_MSGS = 1
  Names = {"A"}
  Nicks = {"bot"}
  Events = {"MSG", "CTCP", "NOTICE", "SNOTICE", "CTCPR", "JOIN", "WHO", "PART", "NICK",
            "QUIT", "CONNECT", "TOPIC", "DCC", "INVITE", "NICKINUSE", "JOINFAILURE"}
  Commands = {"MSG", "DISCONNECT", "RECONNECT"}
  MaxUnderscores = 1
  MaxPids = 2
  MaxFds = 2
  MaxOps = 1
  MaxSignals = 0
  MaxTerms = 0
  MaxFaults = 0
CHECK_DEADLOCK FALSE
PROPERTIES
  RequestAnswered
