SPECIFICATION Spec
CONSTANTS
  Chars <- MCChars
  Messages <- MCMessages
  Digits <- MCDigits
  PingAfter = 0
  MaxQueued = 2
  MaxChars = 19
  MaxStalls = 1
  MaxFaults = 1
INVARIANTS ClientInv Faithful
PROPERTIES PingsAnswered TimerRuns
CHECK_DEADLOCK FALSE
