CONSTANTS
  Chars = {"A", "a", "b", "1", "*", "$", "!", "@", ".", "~"}
  Lower <- LowerVal
  Digits = {"1"}
  Masks <- MasksVal
  Values <- ValuesVal
  Idents <- IdentsVal
SPECIFICATION Spec
INVARIANTS TypeOK Sound Complete CreatedMatches
PROPERTY Terminates
CHECK_DEADLOCK FALSE
