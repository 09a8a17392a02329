CONSTANTS
  Idents = {"h1", "h2"}
  Masks = {1, 2}
  Match <- MatchVal
  Handles = {1, 2}
  Keys = {1}
  Banned = {1}
  MaxFds = 2
  MaxOps = 4
  MaxCrashes = 1
SPECIFICATION DbSpec
INVARIANTS DbTypeOK DelClears MasksHaveUsers
PROPERTIES OthersUntouched CallReturns
CHECK_DEADLOCK FALSE
