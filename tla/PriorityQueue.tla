---------------------------- MODULE PriorityQueue ----------------------------
(***************************************************************************)
(* What the head of irc/irc_queue.c promises of the order of messages:     *)
(* priority 0 is dropped, priority 9 and more is sent at once, the others  *)
(* wait; of those the most urgent leaves first, and of equally urgent ones *)
(* the oldest.  A queue can be opened as direct, and then sends everything *)
(* at once.  Messages are numbered in the order they are inserted.         *)
(***************************************************************************)
EXTENDS Naturals, Sequences

CONSTANT Priorities

VARIABLES
  direct,     \* nothing waits
  inserted,   \* number of messages inserted
  waiting,    \* messages that wait: [id, prio]
  out         \* numbers of the messages sent, in the order they were sent

vars == <<direct, inserted, waiting, out>>

Init ==
  /\ direct \in BOOLEAN
  /\ inserted = 0
  /\ waiting = {}
  /\ out = <<>>

Insert(prio) ==
  /\ inserted' = inserted + 1
  /\ waiting' = IF ~direct /\ prio \in 1 .. 8
                THEN waiting \cup {[id |-> inserted + 1, prio |-> prio]} ELSE waiting
  /\ out' = IF direct \/ prio > 8 THEN Append(out, inserted + 1) ELSE out
  /\ UNCHANGED direct

Before(m, n) == m.prio > n.prio \/ (m.prio = n.prio /\ m.id < n.id)

Send ==
  \E m \in waiting :
    /\ \A n \in waiting \ {m} : Before(m, n)
    /\ waiting' = waiting \ {m}
    /\ out' = Append(out, m.id)
    /\ UNCHANGED <<direct, inserted>>

\* What waited for a connection that is lost is never sent.
Purge ==
  /\ waiting' = {}
  /\ UNCHANGED <<direct, inserted, out>>

Next == (\E prio \in Priorities : Insert(prio)) \/ Send \/ Purge

Spec == Init /\ [][Next]_vars
=============================================================================
