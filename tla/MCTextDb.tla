------------------------------- MODULE MCTextDb -------------------------------
(* Values of the constants of TextDb for TLC. *)
EXTENDS TextDb

\* Mask 1 matches one host, mask 2 both.
MatchVal == [m \in {1, 2} |-> IF m = 1 THEN {"h1"} ELSE {"h1", "h2"}]
=============================================================================
