--------------------------- MODULE ConnectionCalls ---------------------------
(***************************************************************************)
(* The requests of the children, with their FIFOs, slots and signals,      *)
(* implement the synchronous calls of module SyncCall.                     *)
(***************************************************************************)
EXTENDS Connection

\* Where the call of a child is.  A child that has left its loop calls no
\* more; "lost" is the state of one that waits for an answer nobody will send.
CallOf(p) ==
  CASE cpc[p] = "unborn"                                   -> "none"
    [] cpc[p] \in {"exit", "zombie", "reaped"}             -> "gone"
    [] cpc[p] \in {"init", "connect", "read", "timer", "tail"} -> "idle"
    [] Waiting(p) /\ Asked(p)                              -> "asked"
    [] Waiting(p) /\ ~Asked(p) /\ Served(p)                -> "served"
    [] Waiting(p) /\ ~Asked(p) /\ ~Served(p) /\ Answered(p) -> "answered"
    [] OTHER                                               -> "lost"

\* The children that have read the answer to their HELLO.
KnownChildren ==
  {p \in Pids : \/ cpc[p] \in {"connect", "read", "timer", "tail"}
                \/ Waiting(p) /\ req[p] # "HELLO"}

Calls == INSTANCE SyncCall WITH
           Clients <- Pids,
           call    <- [p \in Pids |-> CallOf(p)],
           known   <- KnownChildren

\* The children and the parent behave as clients and server of synchronous
\* calls, whatever is killed, forked, closed and interrupted meanwhile
\* (send_to_parent, connection_server).
RefinesSyncCall == Calls!Spec
=============================================================================
