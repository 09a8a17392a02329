------------------------------- MODULE IrcQueue -------------------------------
(***************************************************************************)
(* The output queue of a client (irc/irc_queue.c): a binary heap of        *)
(* messages and the flood control of RFC 2813, section 5.8.                *)
(*                                                                         *)
(* The loops of enqueue() and dequeue() are modelled step by step: between *)
(* two steps one entry of the heap, the hole, is a copy of another.  A     *)
(* message is the number of its insertion with its priority.  No call      *)
(* blocks, so the clock moves between the operations only; it can be set   *)
(* back.  malloc() and realloc() do not fail.                              *)
(***************************************************************************)
EXTENDS Integers, Sequences, FiniteSets

CONSTANTS
  Priorities,    \* priorities used by the callers
  Capacity,      \* messages there is room for before the first realloc()
  PosMax,        \* first value of heap_position, 0x1fffffff
  MaxInserts,    \* bound: messages inserted
  Times          \* bound: values of the clock

\* heap_position does not run through zero: fewer than 2^29 messages are
\* inserted before the heap is empty.
ASSUME QueueAssumption ==
  /\ Priorities \subseteq Int
  /\ Capacity \in Nat \ {0}
  /\ PosMax \in Nat
  /\ MaxInserts \in Nat
  /\ MaxInserts <= PosMax
  /\ Times \subseteq Nat

VARIABLES
  pc,              \* "idle", or in the loop of enqueue() or dequeue()
  heap_item,       \* entries 1, 2, ...
  heap_size,       \* index of the first entry not in use
  heap_capacity,   \* -1 when nothing is queued (DCC)
  heap_position,
  hole,            \* i in enqueue(), parent in dequeue()
  node,            \* the entry that looks for its place
  buf,             \* the entry dequeue() has taken
  timer,           \* flood control: the time up to which messages are paid for
  now,             \* time(0)
  inserted,        \* messages inserted so far
  sent             \* messages given to _irc_net_send: [id, at, queued]

heap == <<heap_item, heap_size, heap_capacity, heap_position>>
loop == <<pc, hole, node, buf>>
vars == <<heap, loop, timer, now, inserted, sent>>

Indices == 1 .. MaxInserts + 1
Ids     == 1 .. MaxInserts
Message == [id : Ids, prio : 1 .. 8]
\* p holds the priority in its 3 bits on the left and the position in the rest.
P(prio, position) == (prio - 1) * (PosMax + 1) + position
Item    == [p : 0 .. 8 * (PosMax + 1) - 1, d : Message]
NoItem  == [p |-> 0, d |-> [id |-> 0, prio |-> 0]]
Entry   == Item \cup {NoItem}
Sent    == [id : Ids, at : Times, queued : BOOLEAN]

TypeOK ==
  /\ pc \in {"idle", "up", "down"}
  /\ heap_item \in [Indices -> Entry]
  /\ heap_size \in Indices
  /\ heap_capacity \in Int
  /\ heap_position \in 0 .. PosMax
  /\ hole \in Indices
  /\ node \in Entry
  /\ buf \in Entry
  /\ timer \in Nat
  /\ now \in Times
  /\ inserted \in 0 .. MaxInserts
  /\ sent \in Seq(Sent)

\* _irc_queue_init: 0 for IRC, -1 for DCC.
Init ==
  /\ pc = "idle"
  /\ heap_item = [i \in Indices |-> NoItem]
  /\ heap_size = 1
  /\ heap_capacity \in {Capacity + 1, -1}
  /\ heap_position = PosMax
  /\ hole = 1
  /\ node = NoItem
  /\ buf = NoItem
  /\ timer = 0
  /\ now \in Times
  /\ inserted = 0
  /\ sent = <<>>

Later(a, b) == IF a < b THEN b ELSE a

Clock ==
  /\ pc = "idle"
  /\ now' \in Times
  /\ UNCHANGED <<heap, loop, timer, inserted, sent>>

(***************************************************************************)
(* Faulty forms of the actions below, each with a mistake that a change of *)
(* the code could make.  None is used.                                     *)
(***************************************************************************)

\* dequeue() that always promotes the left child.
ChildLeft == 2 * hole

\* _irc_queue_update that lets a message out one second early.
GateOpenEarly == Later(timer, now) < now + 11

\* _irc_queue_update that penalizes 10 seconds.
PenalizeTen == timer' = Later(timer, now) + 10

\* enqueue() that writes before it grows the array.
GrowLate == heap_capacity' = IF heap_size > heap_capacity THEN 2 * heap_capacity - 1
                             ELSE heap_capacity

(***************************************************************************)
(* _irc_queue_insert                                                       *)
(***************************************************************************)

\* Every message sent costs two seconds.
Penalize == timer' = Later(timer, now) + 2

\* enqueue() doubles the array when it is full.
Grow == heap_capacity' = IF heap_size >= heap_capacity THEN 2 * heap_capacity - 1
                         ELSE heap_capacity

Transmit(id, queued) == sent' = Append(sent, [id |-> id, at |-> now, queued |-> queued])

NewMessage ==
  /\ pc = "idle"
  /\ inserted < MaxInserts
  /\ inserted' = inserted + 1
  /\ UNCHANGED now

\* Without a queue everything is sent.
InsertUnqueued(prio) ==
  /\ NewMessage
  /\ heap_capacity = -1
  /\ Transmit(inserted + 1, FALSE)
  /\ UNCHANGED <<heap, loop, timer>>

InsertDropped(prio) ==
  /\ NewMessage
  /\ heap_capacity # -1
  /\ prio < 1
  /\ UNCHANGED <<heap, loop, timer, sent>>

InsertUrgent(prio) ==
  /\ NewMessage
  /\ heap_capacity # -1
  /\ prio > 8
  /\ Penalize
  /\ Transmit(inserted + 1, FALSE)
  /\ UNCHANGED <<heap, loop>>

\* enqueue(), up to its loop.
InsertQueued(prio) ==
  /\ NewMessage
  /\ heap_capacity # -1
  /\ prio \in 1 .. 8
  /\ Grow
  /\ node' = [p |-> P(prio, heap_position), d |-> [id |-> inserted + 1, prio |-> prio]]
  /\ heap_position' = heap_position - 1
  /\ hole' = heap_size
  /\ pc' = "up"
  /\ UNCHANGED <<heap_item, heap_size, buf, timer, sent>>

LoopUnchanged == UNCHANGED <<heap_capacity, now, inserted>>

UpStep ==
  /\ pc = "up"
  /\ hole > 1
  /\ heap_item[hole \div 2].p < node.p
  /\ heap_item' = [heap_item EXCEPT ![hole] = heap_item[hole \div 2]]
  /\ hole' = hole \div 2
  /\ UNCHANGED <<pc, node, buf, heap_size, heap_position, timer, sent>>
  /\ LoopUnchanged

UpEnd ==
  /\ pc = "up"
  /\ hole > 1 => heap_item[hole \div 2].p >= node.p
  /\ heap_item' = [heap_item EXCEPT ![hole] = node]
  /\ heap_size' = heap_size + 1
  /\ pc' = "idle"
  /\ UNCHANGED <<hole, node, buf, heap_position, timer, sent>>
  /\ LoopUnchanged

(***************************************************************************)
(* _irc_queue_update and _irc_queue_purge                                  *)
(***************************************************************************)

\* The next message has to wait when the timer is 10 seconds away.
GateOpen == Later(timer, now) < now + 10

\* _irc_queue_update, up to the loop of dequeue().  An empty queue or a
\* closed gate changes nothing.
Update ==
  /\ pc = "idle"
  /\ heap_size # 1
  /\ GateOpen
  /\ Penalize
  /\ buf' = heap_item[1]
  /\ heap_size' = heap_size - 1
  /\ node' = heap_item[heap_size - 1]
  /\ hole' = 1
  /\ pc' = "down"
  /\ UNCHANGED <<heap_item, heap_position, sent>>
  /\ LoopUnchanged

\* The child to promote: the greater one.
Child ==
  IF 2 * hole < heap_size /\ heap_item[2 * hole].p < heap_item[2 * hole + 1].p
  THEN 2 * hole + 1 ELSE 2 * hole

DownStep ==
  /\ pc = "down"
  /\ hole <= heap_size \div 2
  /\ heap_item[Child].p > node.p
  /\ heap_item' = [heap_item EXCEPT ![hole] = heap_item[Child]]
  /\ hole' = Child
  /\ UNCHANGED <<pc, node, buf, heap_size, heap_position, timer, sent>>
  /\ LoopUnchanged

\* The end of dequeue() and the sending of what it has taken.
DownEnd ==
  /\ pc = "down"
  /\ hole <= heap_size \div 2 => heap_item[Child].p <= node.p
  /\ heap_item' = [heap_item EXCEPT ![hole] = node]
  /\ heap_position' = IF heap_size = 1 THEN PosMax ELSE heap_position
  /\ Transmit(buf.d.id, TRUE)
  /\ pc' = "idle"
  /\ UNCHANGED <<hole, node, buf, heap_size, timer>>
  /\ LoopUnchanged

\* client() empties the queue when it has connected.
Purge ==
  /\ pc = "idle"
  /\ heap_size' = 1
  /\ heap_position' = PosMax
  /\ UNCHANGED <<heap_item, heap_capacity, loop, timer, now, inserted, sent>>

-----------------------------------------------------------------------------
Insert(prio) == \/ InsertUnqueued(prio) \/ InsertDropped(prio)
                \/ InsertUrgent(prio) \/ InsertQueued(prio)

Next == \/ \E prio \in Priorities : Insert(prio)
        \/ UpStep \/ UpEnd
        \/ Update \/ DownStep \/ DownEnd
        \/ Purge \/ Clock

Spec == Init /\ [][Next]_vars

-----------------------------------------------------------------------------
(***************************************************************************)
(* Properties                                                              *)
(***************************************************************************)

\* The entries of the heap that hold a message, without the hole.
Live == CASE pc = "idle" -> 1 .. heap_size - 1
          [] pc = "up"   -> (1 .. heap_size) \ {hole}
          [] pc = "down" -> (1 .. heap_size - 1) \ {hole}

\* The messages that wait to be sent.
Waiting == {heap_item[i].d : i \in Live}
           \cup (IF pc # "idle" THEN {node.d} ELSE {})
           \cup (IF pc = "down" THEN {buf.d} ELSE {})

\* The promises on order of the head of irc_queue.c, whatever is inserted and
\* purged when: the heap is a priority queue that is fair to equal priorities.
Abstract == INSTANCE PriorityQueue WITH
              direct  <- heap_capacity = -1,
              waiting <- Waiting,
              out     <- [i \in DOMAIN sent |-> sent[i].id]
RefinesPriorityQueue == Abstract!Spec

\* What has to be paid for message i sent and for those sent after it.
Cost(i) == sent[i].at + 2 * (Len(sent) + 1 - i)

\* Flood control: when a queued message leaves, what has left since any earlier
\* message i has been paid for, but for ten seconds; urgent messages are
\* counted too, and the clock may have been set back (_irc_queue_update).
FloodBound ==
  \A i, j \in DOMAIN sent :
    i < j /\ sent[j].queued => sent[i].at + 2 * (j - i) < sent[j].at + 10

\* No needless delay: the queue is held back only when some message i sent
\* earlier, and those sent after it, have not been paid for.
NoNeedlessDelay ==
  pc = "idle" /\ ~GateOpen => \E i \in DOMAIN sent : Cost(i) >= now + 10

\* enqueue() writes inside the array (heap_capacity entries, 0 included), however
\* often it has grown.
InBounds ==
  heap_capacity # -1 =>
    /\ heap_size <= heap_capacity
    /\ pc = "up" => hole < heap_capacity /\ heap_size < heap_capacity

\* The inductive invariant.  The sizes:
SizeInv ==
  /\ heap_capacity = -1 => pc = "idle" /\ heap_size = 1
  /\ heap_capacity # -1 => heap_capacity >= 2
  /\ heap_size <= inserted + 1
  /\ heap_position >= PosMax - inserted
  /\ pc = "up" => heap_size <= inserted /\ hole <= heap_size
  /\ InBounds

\* The timer is what the messages sent cost, no more and no less.
Owed == IF pc = "down" THEN 2 ELSE 0
FloodInv ==
  /\ heap_capacity = -1 => timer = 0 /\ \A j \in DOMAIN sent : ~sent[j].queued
  /\ heap_capacity # -1 => \A i \in DOMAIN sent : Cost(i) + Owed <= timer
  /\ pc = "down" => now + 2 <= timer /\ \A i \in DOMAIN sent : Cost(i) < now + 10
  /\ \/ timer = 0
     \/ \E i \in DOMAIN sent : Cost(i) + Owed >= timer
     \/ pc = "down" /\ timer = now + 2
  /\ FloodBound

\* Every message that waits is one entry, with a position of its own, and
\* positions fall as messages arrive.
Position(e) == e.p - (e.d.prio - 1) * (PosMax + 1)
Queued(e) == e \in Item /\ Position(e) \in heap_position + 1 .. PosMax
                       /\ e.d.id <= inserted
InOrder(e, f) == \/ e.d.id < f.d.id /\ Position(e) > Position(f)
                 \/ e.d.id > f.d.id /\ Position(e) < Position(f)
ItemsInv ==
  /\ \A i \in Live : Queued(heap_item[i])
  /\ \A i, j \in Live : i # j => InOrder(heap_item[i], heap_item[j])
  /\ pc # "idle" => /\ Queued(node)
                    /\ (pc = "down" /\ heap_size = 1) \/
                       \A i \in Live : InOrder(node, heap_item[i])
  /\ pc = "down" => /\ Queued(buf)
                    /\ \A i \in Live : InOrder(buf, heap_item[i])
                    /\ IF heap_size = 1 THEN node = buf ELSE InOrder(node, buf)

\* Every entry is at least as great as its children; around the hole, the
\* entry that looks for its place is where it can still go.
HeapInv ==
  /\ \A i \in Live : i \div 2 \in Live => heap_item[i \div 2].p >= heap_item[i].p
  /\ pc # "idle" => /\ \A i \in Live : i \div 2 = hole /\ hole \div 2 \in Live =>
                         heap_item[hole \div 2].p >= heap_item[i].p
  /\ pc = "up" => \A i \in Live : i \div 2 = hole => node.p >= heap_item[i].p
  /\ pc = "down" => /\ hole \div 2 \in Live => heap_item[hole \div 2].p >= node.p
                    /\ hole < heap_size \/ heap_size = 1
                    /\ heap_item[heap_size] = node
                    /\ buf.p >= node.p
                    /\ \A i \in Live : buf.p >= heap_item[i].p

QueueInv == TypeOK /\ SizeInv /\ FloodInv /\ ItemsInv /\ HeapInv
=============================================================================
