------------------------------- MODULE MCSqlSetup -------------------------------
EXTENDS SqlSetup, TLC

Symmetry == Permutations(Names)
=============================================================================
