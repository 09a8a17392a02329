CONSTANTS
  Names = {n1}
  Masks = {"m1"}
  Modes = {"w"}
  Vars = {"v1"}
  Vals = {1}
  MaxUsers = 2
  MaxOps = 2
  MaxFaults = 1
SPECIFICATION Spec
SYMMETRY Symmetry
INVARIANTS SqlInv NamesUnique
PROPERTIES SetupWorks LookupHonest PromiseKept OwnerAdded
CHECK_DEADLOCK FALSE
