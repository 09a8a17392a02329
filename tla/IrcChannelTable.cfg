CONSTANTS
  Chans = {"c1"}
  MaxTracked = 1
  RejoinDelay = 1
  FailureDelay = 1
  InitialDelay = 2
  MaxQueued = 2
  MaxJoins = 2
  MaxParts = 2
  MaxFaults = 2
SPECIFICATION Spec
INVARIANTS WantedIsTracked NoForgottenChannel NotLost
PROPERTY JoinsInTheEnd
