------------------------------ MODULE MCUserCache ------------------------------
(* Values of the constants of UserCache for TLC. *)
EXTENDS UserCache

CONSTANTS s1, s2

IdentVal == [n \in Nicks |-> [h \in Hosts |-> n \o "!" \o h]]
IdentsVal == {IdentVal[n][h] : n \in Nicks, h \in Hosts}

\* Mask 1 matches one nick on every host, mask 2 every nick on one host.
MatchVal == [m \in {1, 2} |-> IF m = 1 THEN {IdentVal["n1"][h] : h \in Hosts}
                                        ELSE {IdentVal[n]["h1"] : n \in Nicks}]

\* The networks are interchangeable.
Symmetry == Permutations({s1, s2})
=============================================================================
