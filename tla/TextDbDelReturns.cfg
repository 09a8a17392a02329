CONSTANTS
  Idents = {"h1", "h2"}
  Masks = {1, 2}
  Match <- MatchVal
  Handles = {1, 2}
  Keys = {1}
  Banned = {}
  MaxFds = 2
  MaxOps = 3
  MaxCrashes = 0
SPECIFICATION DbSpec
PROPERTY DelReturns
CHECK_DEADLOCK FALSE
