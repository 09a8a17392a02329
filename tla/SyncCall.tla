------------------------------ MODULE SyncCall ------------------------------
(***************************************************************************)
(* What the channel between the children and the parent promises: a        *)
(* synchronous call.  A client makes one call at a time and goes on when   *)
(* that call is answered; the server serves one call at a time.  Clients   *)
(* start and stop at any moment.  Only the first call of a client, the one *)
(* that makes it known to the server, can be lost.                         *)
(***************************************************************************)
CONSTANT Clients

VARIABLES
  call,    \* where the call of each client is
  known    \* the clients whose first call has returned

vars == <<call, known>>

States == {"none", "idle", "asked", "served", "answered", "lost", "gone"}

TypeOK == call \in [Clients -> States] /\ known \subseteq Clients

Init ==
  /\ call = [c \in Clients |-> "none"]
  /\ known = {}

Move(c, from, to) ==
  /\ call[c] \in from
  /\ call' = [call EXCEPT ![c] = to]

Start(c) == Move(c, {"none"}, "idle") /\ UNCHANGED known

Call(c) == Move(c, {"idle"}, "asked") /\ UNCHANGED known

\* A call that takes several steps of the server.
Serve(c) ==
  /\ \A d \in Clients : call[d] # "served"
  /\ Move(c, {"asked"}, "served")
  /\ UNCHANGED known

\* The end of such a call, or a call that is served in one step.
Reply(c) ==
  /\ \A d \in Clients \ {c} : call[d] # "served"
  /\ Move(c, {"asked", "served"}, "answered")
  /\ UNCHANGED known

Lose(c) ==
  /\ c \notin known
  /\ Move(c, {"served"}, "lost")
  /\ UNCHANGED known

Return(c) ==
  /\ Move(c, {"answered"}, "idle")
  /\ known' = known \cup {c}

Stop(c) ==
  /\ Move(c, States \ {"none", "gone"}, "gone")
  /\ known' = known \ {c}

Next == \E c \in Clients : \/ Start(c) \/ Call(c) \/ Serve(c) \/ Reply(c)
                           \/ Lose(c) \/ Return(c) \/ Stop(c)

Spec == Init /\ [][Next]_vars
=============================================================================
