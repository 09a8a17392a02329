---------------------------- MODULE IrcQueueProofs ----------------------------
(***************************************************************************)
(* Proofs about IrcQueue, for any number of messages below the size of     *)
(* heap_position, any priorities and any behaviour of the clock.           *)
(***************************************************************************)
EXTENDS IrcQueue, SequenceTheorems, FiniteSetTheorems, WellFoundedInduction, TLAPS

-----------------------------------------------------------------------------
(***************************************************************************)
(* Types and sizes                                                         *)
(***************************************************************************)
\* p fits in its 32 bits: the priority in the 3 on the left.
LEMMA PType ==
  ASSUME NEW prio \in 1 .. 8, NEW x \in 0 .. PosMax
  PROVE  P(prio, x) \in 0 .. 8 * (PosMax + 1) - 1
<1>1. PosMax \in Nat
  BY QueueAssumption
<1>2. prio \in {1, 2, 3, 4, 5, 6, 7, 8}
  OBVIOUS
<1> QED BY <1>1, <1>2 DEF P

\* The parent and the greater child of an entry are entries.
LEMMA IndexTypes ==
  ASSUME TypeOK
  PROVE  /\ hole > 1 => hole \div 2 \in Indices /\ hole \div 2 < hole
         /\ hole <= heap_size \div 2 => /\ Child \in Indices /\ Child <= heap_size
                                        /\ Child \in {2 * hole, 2 * hole + 1}
                                        /\ Child \div 2 = hole
BY QueueAssumption DEF TypeOK, Indices, Child

\* A message sent is added to the history.
LEMMA TransmitType ==
  ASSUME TypeOK, NEW id \in Ids, NEW queued \in BOOLEAN, Transmit(id, queued)
  PROVE  sent' \in Seq(Sent)
BY DEF TypeOK, Transmit, Sent

\* The timer only moves forward, by a number of seconds.
LEMMA PenalizeType ==
  ASSUME TypeOK, Penalize
  PROVE  timer' \in Nat /\ timer' >= timer + 2 /\ timer' >= now + 2
BY QueueAssumption DEF TypeOK, Penalize, Later

\* The start of every operation and loop preserves types and sizes.
LEMMA TypeStep ==
  ASSUME TypeOK, SizeInv, ItemsInv, [Next]_vars
  PROVE  TypeOK' /\ SizeInv'
<1> USE DEF SizeInv, InBounds
<1>0. /\ PosMax \in Nat /\ MaxInserts \in Nat /\ MaxInserts <= PosMax
  BY QueueAssumption
<1>1. CASE \E prio \in Priorities : Insert(prio)
  <2>1. PICK prio \in Priorities : Insert(prio)
    BY <1>1
  <2> USE DEF NewMessage, heap, loop
  <2>0. /\ inserted \in Nat /\ inserted < MaxInserts /\ inserted' = inserted + 1
        /\ pc = "idle" /\ now' = now
    <3> HIDE DEF NewMessage
    <3>1. NewMessage
      BY <2>1, Zenon DEF Insert, InsertUnqueued, InsertDropped, InsertUrgent, InsertQueued
    <3> QED BY <3>1, <1>0 DEF NewMessage, TypeOK
  <2>1a. inserted + 1 \in Ids /\ inserted' \in 0 .. MaxInserts
    BY <2>0, <1>0 DEF Ids
  <2>2. CASE UNCHANGED heap /\ UNCHANGED loop /\ timer' \in Nat /\ sent' \in Seq(Sent)
    <3>1. TypeOK'
      BY <2>0, <2>1a, <2>2 DEF TypeOK
    <3> QED BY <3>1, <2>0, <2>2, <1>0 DEF TypeOK
  <2>3. CASE InsertUnqueued(prio)
    <3>1. sent' \in Seq(Sent)
      BY <2>1a, <2>3, TransmitType DEF InsertUnqueued
    <3> QED BY <3>1, <2>2, <2>3 DEF InsertUnqueued, TypeOK
  <2>4. CASE InsertDropped(prio)
    BY <2>2, <2>4 DEF InsertDropped, TypeOK
  <2>5. CASE InsertUrgent(prio)
    <3>1. sent' \in Seq(Sent)
      BY <2>1a, <2>5, TransmitType DEF InsertUrgent
    <3>2. timer' \in Nat
      BY <2>5, PenalizeType DEF InsertUrgent
    <3> QED BY <3>1, <3>2, <2>2, <2>5 DEF InsertUrgent
  <2>6. CASE InsertQueued(prio)
    <3>1. heap_position \in Int /\ heap_position >= 1 /\ heap_position <= PosMax
      BY <1>0, <2>0 DEF TypeOK
    <3>2. node' \in Item
      <4>1. prio \in 1 .. 8 /\ heap_position \in 0 .. PosMax
        BY <2>6, <3>1, <1>0 DEF InsertQueued
      <4>2. P(prio, heap_position) \in 0 .. 8 * (PosMax + 1) - 1
        BY <4>1, PType
      <4> HIDE DEF P
      <4> QED BY <4>1, <4>2, <2>1a, <2>6 DEF InsertQueued, Item, Message
    <3>3. /\ heap_capacity' \in Int /\ heap_capacity' > heap_size
          /\ heap_capacity' >= 2
      BY <2>6 DEF InsertQueued, Grow, TypeOK, Indices
    <3>4. /\ hole' = heap_size /\ heap_size' = heap_size /\ pc' = "up"
          /\ heap_position' = heap_position - 1
          /\ heap_item' = heap_item /\ buf' = buf /\ timer' = timer /\ sent' = sent
          /\ heap_capacity # -1
      BY <2>6 DEF InsertQueued
    <3>5. heap_position - 1 \in 0 .. PosMax
      BY <3>1, <1>0
    <3>6. TypeOK'
      BY <2>0, <2>1a, <3>2, <3>3, <3>4, <3>5 DEF TypeOK, Entry
    <3> QED BY <3>1, <3>3, <3>4, <3>6, <2>0, <1>0 DEF TypeOK, Indices
  <2> QED BY <2>1, <2>3, <2>4, <2>5, <2>6 DEF Insert
<1>2. CASE UpStep
  BY <1>2, IndexTypes DEF UpStep, LoopUnchanged, TypeOK, Indices
<1>3. CASE UpEnd
  BY <1>0, <1>3 DEF UpEnd, LoopUnchanged, TypeOK, Indices
<1>4. CASE Update
  <2>1. heap_size - 1 \in Indices /\ 1 \in Indices
    BY <1>4, <1>0 DEF Update, TypeOK, Indices
  <2>2. TypeOK'
    BY <2>1, <1>4, PenalizeType DEF Update, LoopUnchanged, TypeOK
  <2> QED BY <2>1, <2>2, <1>4 DEF Update, LoopUnchanged, TypeOK, Indices
<1>5. CASE DownStep
  BY <1>5, IndexTypes DEF DownStep, LoopUnchanged, TypeOK
<1>6. CASE DownEnd
  <2>1. buf.d.id \in Ids
    BY <1>6 DEF DownEnd, ItemsInv, Queued, Item, Message
  <2>2. sent' \in Seq(Sent)
    BY <2>1, <1>6, TransmitType DEF DownEnd
  <2> QED BY <2>2, <1>6, <1>0 DEF DownEnd, LoopUnchanged, TypeOK
<1>7. CASE Purge
  BY <1>7, <1>0 DEF Purge, loop, TypeOK, Indices
<1>8. CASE Clock
  BY <1>8 DEF Clock, heap, loop, TypeOK
<1>9. CASE UNCHANGED vars
  BY <1>9 DEF vars, heap, loop, TypeOK
<1> QED BY <1>1, <1>2, <1>3, <1>4, <1>5, <1>6, <1>7, <1>8, <1>9 DEF Next

-----------------------------------------------------------------------------
(***************************************************************************)
(* Flood control                                                           *)
(***************************************************************************)
\* What the n-th message sent adds to the history, and what it costs.
Recorded(n, queued) ==
  /\ n \in Nat
  /\ DOMAIN sent = 1 .. n - 1
  /\ DOMAIN sent' = 1 .. n
  /\ \A i \in DOMAIN sent : /\ sent'[i] = sent[i]
                            /\ sent[i].at \in Nat
                            /\ Cost(i) \in Nat
                            /\ Cost(i)' = Cost(i) + 2
  /\ sent'[n].at = now
  /\ sent'[n].queued = queued
  /\ Cost(n)' = now + 2
  /\ now \in Nat

\* A message sent is recorded, with its cost.
LEMMA Transmitted ==
  ASSUME TypeOK, NEW id \in Ids, NEW queued \in BOOLEAN, Transmit(id, queued),
         NEW n, n = Len(sent) + 1
  PROVE  Recorded(n, queued)
<1>1. sent \in Seq(Sent) /\ now \in Nat
  BY QueueAssumption DEF TypeOK
<1>2. /\ n \in Nat /\ Len(sent) = n - 1 /\ DOMAIN sent = 1 .. n - 1
      /\ \A i \in DOMAIN sent : sent[i] \in Sent
  BY <1>1
<1> DEFINE new == [id |-> id, at |-> now, queued |-> queued]
<1>3. sent' = Append(sent, new)
  BY DEF Transmit
<1>4. /\ Len(sent') = n
      /\ DOMAIN sent' = 1 .. n
      /\ \A i \in DOMAIN sent : sent'[i] = sent[i]
      /\ sent'[n] = new
  <2> HIDE DEF new
  <2>1. new \in Sent
    <3>1. now \in Times
      BY DEF TypeOK
    <3> QED BY <3>1 DEF new, Sent
  <2> QED BY <1>1, <1>2, <1>3, <2>1, AppendProperties
<1>5. \A i \in DOMAIN sent : sent[i].at \in Nat
  <2>1. \A i \in DOMAIN sent : sent[i].at \in Times
    BY <1>2 DEF Sent
  <2> QED BY <2>1, QueueAssumption
<1>6. Cost(n)' = now + 2
  <2>1. Cost(n)' = sent'[n].at + 2 * (Len(sent') + 1 - n)
    BY DEF Cost
  <2>2. sent'[n].at = now
    BY <1>4
  <2> QED BY <1>1, <1>2, <1>4, <2>1, <2>2
<1>7. ASSUME NEW i \in DOMAIN sent
      PROVE  Cost(i) \in Nat /\ Cost(i)' = Cost(i) + 2
  <2>1. i \in Nat /\ i <= n - 1 /\ sent[i].at \in Nat /\ sent'[i].at = sent[i].at
    BY <1>2, <1>4, <1>5
  <2>2. Cost(i)' = sent'[i].at + 2 * (Len(sent') + 1 - i)
    BY DEF Cost
  <2>3. Cost(i) = sent[i].at + 2 * (n - i)
    BY <1>2 DEF Cost
  <2> QED BY <1>2, <1>4, <2>1, <2>2, <2>3
<1> QED BY <1>1, <1>2, <1>4, <1>5, <1>6, <1>7 DEF Recorded

\* A step that leaves the history and the timer alone keeps the account.
LEMMA FloodSame ==
  ASSUME FloodInv, sent' = sent, timer' = timer,
         heap_capacity' = -1 <=> heap_capacity = -1,
         pc' = "down" <=> pc = "down",
         pc' = "down" => now' = now
  PROVE  FloodInv'
<1>1. Owed' = Owed /\ \A i : Cost(i)' = Cost(i)
  BY DEF Owed, Cost
<1>2. FloodBound'
  BY DEF FloodInv, FloodBound
<1> QED BY <1>1, <1>2 DEF FloodInv

\* Every step keeps the account of what the messages sent have cost.
LEMMA FloodStep ==
  ASSUME TypeOK, SizeInv, FloodInv, TypeOK', [Next]_vars, buf.d.id \in Ids \/ pc # "down"
  PROVE  FloodInv'
<1>0. /\ timer \in Nat /\ timer' \in Nat /\ now \in Nat /\ inserted \in Nat
      /\ heap_capacity \in Int
  BY QueueAssumption DEF TypeOK
<1>1. CASE \E prio \in Priorities : InsertUnqueued(prio)
  <2>1. PICK id, n : id = inserted + 1 /\ n = Len(sent) + 1
    OBVIOUS
  <2>1a. /\ id \in Ids /\ Transmit(id, FALSE) /\ heap_capacity' = -1
         /\ heap_capacity = -1 /\ pc' = "idle" /\ timer' = timer
    <3>1. NewMessage /\ Transmit(inserted + 1, FALSE) /\ heap_capacity = -1
          /\ UNCHANGED <<heap, loop, timer>>
      BY <1>1, Zenon DEF InsertUnqueued
    <3>2. id \in Ids
      BY <3>1, <2>1, <1>0, QueueAssumption DEF NewMessage, Ids
    <3> QED BY <3>1, <3>2, <2>1 DEF NewMessage, heap, loop
  <2>1b. Recorded(n, FALSE)
    BY <2>1, <2>1a, Transmitted, Zenon
  <2>2. timer = 0 /\ \A j \in DOMAIN sent : ~sent[j].queued
    BY <2>1a DEF FloodInv
  <2>3. \A j \in DOMAIN sent' : ~sent'[j].queued
    BY <2>1b, <2>2 DEF Recorded
  <2>4. FloodBound'
    BY <2>3 DEF FloodBound
  <2> QED BY <2>1a, <2>2, <2>3, <2>4 DEF FloodInv
<1>2. CASE \E prio \in Priorities : InsertUrgent(prio)
  <2>0. PICK id, n : id = inserted + 1 /\ n = Len(sent) + 1
    OBVIOUS
  <2>1. /\ id \in Ids /\ Transmit(id, FALSE) /\ n = Len(sent) + 1
        /\ heap_capacity' = heap_capacity /\ heap_capacity # -1
        /\ pc = "idle" /\ pc' = "idle" /\ Penalize
    <3>1. /\ NewMessage /\ Transmit(inserted + 1, FALSE) /\ heap_capacity # -1
          /\ UNCHANGED <<heap, loop>> /\ Penalize
      BY <1>2, Zenon DEF InsertUrgent
    <3>2. id \in Ids
      BY <3>1, <2>0, <1>0, QueueAssumption DEF NewMessage, Ids
    <3> QED BY <3>1, <3>2, <2>0 DEF NewMessage, heap, loop
  <2>1a. Recorded(n, FALSE)
    BY <2>1, Transmitted, Zenon
  <2>2. n \in DOMAIN sent' /\ Cost(n)' = now + 2 /\ \A i \in DOMAIN sent' : i = n \/ i \in DOMAIN sent
    <3>1. n \in Nat /\ n = Len(sent) + 1 /\ Len(sent) \in Nat
      BY <2>1, <2>1a DEF Recorded, TypeOK
    <3>2. DOMAIN sent = 1 .. n - 1 /\ DOMAIN sent' = 1 .. n /\ Cost(n)' = now + 2
      BY <2>1a DEF Recorded
    <3> QED BY <3>1, <3>2
  <2>3. Owed = 0 /\ Owed' = 0
    BY <2>1 DEF Owed
  <2>4. \A i \in DOMAIN sent : /\ Cost(i) \in Nat /\ Cost(i) <= timer
                               /\ i \in DOMAIN sent'
                               /\ Cost(i)' = Cost(i) + 2
    <3>1. \A i \in DOMAIN sent : Cost(i) + Owed <= timer
      BY <2>1 DEF FloodInv
    <3>2. \A i \in DOMAIN sent : Cost(i) \in Nat /\ Cost(i)' = Cost(i) + 2 /\ i \in DOMAIN sent'
      BY <2>1a DEF Recorded
    <3> QED BY <3>1, <3>2, <2>3
  <2>5. timer' = (IF timer < now THEN now ELSE timer) + 2
    BY <2>1 DEF Penalize, Later
  <2>6. \A i \in DOMAIN sent' : Cost(i)' + Owed' <= timer'
    <3>1. \A i \in DOMAIN sent : Cost(i)' + Owed' <= timer'
      BY <2>3, <2>4, <2>5, <1>0
    <3> QED BY <2>2, <2>3, <2>5, <3>1, <1>0
  <2>7. timer' = 0 \/ \E i \in DOMAIN sent' : Cost(i)' + Owed' >= timer'
    <3>1. CASE timer <= now
      BY <3>1, <2>2, <2>3, <2>5, <1>0
    <3>2. CASE timer > now
      <4>1. PICK i \in DOMAIN sent : Cost(i) + Owed >= timer
        BY <3>2, <2>1, <1>0 DEF FloodInv
      <4> QED BY <4>1, <3>2, <2>3, <2>4, <2>5, <1>0
    <3> QED BY <3>1, <3>2, <1>0
  <2>8. FloodBound'
    <3>1. ASSUME NEW i \in DOMAIN sent', NEW j \in DOMAIN sent', i < j, sent'[j].queued
          PROVE  sent'[i].at + 2 * (j - i) < sent'[j].at + 10
      <4>1. j # n
        <5>1. ~sent'[n].queued
          BY <2>1a DEF Recorded
        <5> QED BY <3>1, <5>1
      <4>2. i \in 1 .. n - 1 /\ j \in 1 .. n - 1 /\ DOMAIN sent = 1 .. n - 1
        BY <3>1, <4>1, <2>1a DEF Recorded
      <4>3. j \in DOMAIN sent /\ i \in DOMAIN sent /\ sent'[i] = sent[i] /\ sent'[j] = sent[j]
        BY <4>2, <2>1a DEF Recorded
      <4> QED BY <3>1, <4>3 DEF FloodInv, FloodBound
    <3> QED BY <3>1 DEF FloodBound
  <2> QED BY <2>1, <2>6, <2>7, <2>8 DEF FloodInv
<1>3. CASE Update
  <2>1. /\ heap_capacity' = heap_capacity /\ heap_capacity # -1
        /\ pc = "idle" /\ pc' = "down" /\ Penalize /\ GateOpen
        /\ sent' = sent /\ now' = now
    BY <1>3 DEF Update, LoopUnchanged, SizeInv
  <2>2. Owed = 0 /\ Owed' = 2 /\ \A i : Cost(i)' = Cost(i)
    BY <2>1 DEF Owed, Cost
  <2>3. timer' = (IF timer < now THEN now ELSE timer) + 2 /\ timer < now + 10
    BY <2>1, <1>0 DEF Penalize, Later, GateOpen
  <2>4. \A i \in DOMAIN sent : Cost(i) \in Nat /\ Cost(i) <= timer
    <3>1. \A i \in DOMAIN sent : Cost(i) + Owed <= timer
      BY <2>1 DEF FloodInv
    <3>2. sent \in Seq(Sent) /\ Times \subseteq Nat
      BY QueueAssumption DEF TypeOK
    <3>3. \A i \in DOMAIN sent : sent[i] \in Sent /\ i \in 1 .. Len(sent)
      BY <3>2
    <3>3a. \A i \in DOMAIN sent : sent[i].at \in Nat
      BY <3>2, <3>3 DEF Sent
    <3>4. \A i \in DOMAIN sent : Cost(i) \in Nat
      BY <3>2, <3>3, <3>3a DEF Cost
    <3> QED BY <3>1, <3>4, <2>2
  <2>5. \A i \in DOMAIN sent : Cost(i)' + Owed' <= timer' /\ Cost(i)' < now' + 10
    BY <2>1, <2>2, <2>3, <2>4, <1>0
  <2>6. \/ timer' = now' + 2
        \/ \E i \in DOMAIN sent : Cost(i)' + Owed' >= timer'
    <3>1. CASE timer <= now
      BY <3>1, <2>1, <2>3, <1>0
    <3>2. CASE timer > now
      <4>1. PICK i \in DOMAIN sent : Cost(i) + Owed >= timer
        BY <3>2, <2>1, <1>0 DEF FloodInv
      <4> QED BY <4>1, <3>2, <2>2, <2>3, <2>4, <1>0
    <3> QED BY <3>1, <3>2, <1>0
  <2>7. FloodBound' /\ now' + 2 <= timer'
    BY <2>1, <2>3, <1>0 DEF FloodInv, FloodBound
  <2> QED BY <2>1, <2>5, <2>6, <2>7 DEF FloodInv
<1>4. CASE DownEnd
  <2>0. PICK id, n : id = buf.d.id /\ n = Len(sent) + 1
    OBVIOUS
  <2>1. /\ id \in Ids /\ Transmit(id, TRUE) /\ n = Len(sent) + 1
        /\ heap_capacity' = heap_capacity /\ heap_capacity # -1
        /\ pc = "down" /\ pc' = "idle" /\ timer' = timer /\ now' = now
    BY <1>4, <2>0 DEF DownEnd, LoopUnchanged, SizeInv
  <2>1a. Recorded(n, TRUE)
    BY <2>1, Transmitted, Zenon
  <2>2. n \in DOMAIN sent' /\ Cost(n)' = now + 2 /\ \A i \in DOMAIN sent' : i = n \/ i \in DOMAIN sent
    <3>1. n \in Nat /\ n = Len(sent) + 1 /\ Len(sent) \in Nat
      BY <2>1, <2>1a DEF Recorded, TypeOK
    <3>2. DOMAIN sent = 1 .. n - 1 /\ DOMAIN sent' = 1 .. n /\ Cost(n)' = now + 2
      BY <2>1a DEF Recorded
    <3> QED BY <3>1, <3>2
  <2>3. Owed = 2 /\ Owed' = 0
    BY <2>1 DEF Owed
  <2>4. /\ \A i \in DOMAIN sent : /\ Cost(i) + 2 <= timer
                                  /\ Cost(i) < now + 10
        /\ now + 2 <= timer
    BY <2>1, <2>3 DEF FloodInv
  <2>5. \A i \in DOMAIN sent : Cost(i) \in Nat /\ Cost(i)' = Cost(i) + 2 /\ i \in DOMAIN sent'
    BY <2>1a DEF Recorded
  <2>6. \A i \in DOMAIN sent' : Cost(i)' + Owed' <= timer'
    <3> QED BY <2>1, <2>2, <2>3, <2>4, <2>5, <1>0
  <2>7. timer' = 0 \/ \E i \in DOMAIN sent' : Cost(i)' + Owed' >= timer'
    <3>1. \/ timer = 0
          \/ \E i \in DOMAIN sent : Cost(i) + 2 >= timer
          \/ timer = now + 2
      BY <2>3 DEF FloodInv
    <3> QED BY <3>1, <2>1, <2>2, <2>3, <2>5, <1>0
  <2>8. FloodBound'
    <3>1. ASSUME NEW i \in DOMAIN sent', NEW j \in DOMAIN sent', i < j, sent'[j].queued
          PROVE  sent'[i].at + 2 * (j - i) < sent'[j].at + 10
      <4>0. i \in 1 .. n - 1
        BY <3>1, <2>1a DEF Recorded
      <4>1. /\ i \in DOMAIN sent /\ sent'[i] = sent[i] /\ n \in Nat /\ i \in 1 .. n - 1
            /\ sent[i].at \in Nat
        BY <4>0, <2>1a DEF Recorded
      <4>2. CASE j \in DOMAIN sent
        <5>1. sent'[j] = sent[j]
          BY <4>2, <2>1a DEF Recorded
        <5> QED BY <3>1, <4>1, <4>2, <5>1 DEF FloodInv, FloodBound
      <4>3. CASE j = n
        <5>1. sent'[j].at = now
          BY <4>3, <2>1a DEF Recorded
        <5>2. Cost(i) < now + 10
          BY <4>1, <2>4
        <5>3. Cost(i) = sent[i].at + 2 * (n - i)
          <6>1. Len(sent) \in Nat
            BY DEF TypeOK
          <6> QED BY <6>1, <2>1, <4>1 DEF Cost
        <5> QED BY <4>1, <4>3, <5>1, <5>2, <5>3, <1>0
      <4> QED BY <4>2, <4>3, <2>2
    <3> QED BY <3>1 DEF FloodBound
  <2> QED BY <2>1, <2>6, <2>7, <2>8 DEF FloodInv
<1>5. CASE \E prio \in Priorities : InsertDropped(prio)
  BY <1>5, FloodSame DEF InsertDropped, NewMessage, heap, loop
<1>6. CASE \E prio \in Priorities : InsertQueued(prio)
  <2>1. /\ heap_capacity # -1 /\ heap_capacity' # -1 /\ sent' = sent /\ timer' = timer
        /\ pc = "idle" /\ pc' = "up"
    BY <1>6, <1>0 DEF InsertQueued, NewMessage, Grow, SizeInv
  <2> QED BY <2>1, FloodSame
<1>7. CASE UpStep \/ UpEnd \/ DownStep
  BY <1>7, FloodSame DEF UpStep, UpEnd, DownStep, LoopUnchanged
<1>8. CASE Purge \/ Clock
  BY <1>8, FloodSame DEF Purge, Clock, heap, loop
<1>9. CASE UNCHANGED vars
  BY <1>9, FloodSame DEF vars, heap, loop
<1> QED BY <1>1, <1>2, <1>3, <1>4, <1>5, <1>6, <1>7, <1>8, <1>9 DEF Next, Insert

-----------------------------------------------------------------------------
(***************************************************************************)
(* The heap                                                                *)
(***************************************************************************)
\* Which entries hold a message.
LiveFacts ==
  /\ heap_size \in Nat /\ heap_size >= 1 /\ hole \in Nat /\ hole >= 1
  /\ pc = "idle" => \A i : i \in Live <=> i \in Nat /\ i >= 1 /\ i < heap_size
  /\ pc = "up"   => \A i : i \in Live <=> i \in Nat /\ i >= 1 /\ i <= heap_size /\ i # hole
  /\ pc = "down" => \A i : i \in Live <=> i \in Nat /\ i >= 1 /\ i < heap_size /\ i # hole
  /\ Live \subseteq Indices

\* They are entries of the array, and the hole is not one of them.
LEMMA LiveTypes == TypeOK => LiveFacts
<1> SUFFICES ASSUME TypeOK PROVE LiveFacts
  OBVIOUS
<1>1. heap_size \in Nat /\ heap_size >= 1 /\ hole \in Nat /\ hole >= 1
  BY QueueAssumption DEF TypeOK, Indices
<1>2. MaxInserts \in Nat /\ heap_size <= MaxInserts + 1
  BY QueueAssumption DEF TypeOK, Indices
<1>3. CASE pc = "idle"
  <2>1. Live = 1 .. heap_size - 1
    BY <1>3 DEF Live
  <2> QED BY <1>1, <1>2, <1>3, <2>1 DEF Indices, LiveFacts
<1>4. CASE pc = "up"
  <2>1. Live = (1 .. heap_size) \ {hole}
    BY <1>4 DEF Live
  <2> QED BY <1>1, <1>2, <1>4, <2>1 DEF Indices, LiveFacts
<1>5. CASE pc = "down"
  <2>1. Live = (1 .. heap_size - 1) \ {hole}
    BY <1>5 DEF Live
  <2> QED BY <1>1, <1>2, <1>5, <2>1 DEF Indices, LiveFacts
<1> QED BY <1>1, <1>3, <1>4, <1>5 DEF TypeOK, LiveFacts

\* The same of the next state.
LEMMA LiveTypesNext == TypeOK' => LiveFacts'
<1>1. (TypeOK => LiveFacts)'
  BY LiveTypes, PTL
<1> QED BY <1>1

\* The order of two entries does not depend on which is named first.
LEMMA InOrderSymmetric ==
  ASSUME NEW e \in Item, NEW f \in Item, InOrder(e, f)
  PROVE  InOrder(f, e)
BY DEF InOrder

\* What Queued says of an entry e after a step.
QueuedNext(e) == e \in Item /\ Position(e) \in heap_position' + 1 .. PosMax
                           /\ e.d.id <= inserted'

\* What is queued stays so, as positions fall and insertions are counted.
LEMMA QueuedStays ==
  ASSUME TypeOK, TypeOK', heap_position' <= heap_position, inserted' >= inserted,
         NEW e, Queued(e)
  PROVE  QueuedNext(e)
<1>1. /\ heap_position \in Int /\ heap_position' \in Int /\ PosMax \in Int
      /\ inserted \in Int /\ inserted' \in Int
  BY QueueAssumption DEF TypeOK
<1>2. e \in Item /\ Position(e) \in heap_position + 1 .. PosMax /\ e.d.id <= inserted
  BY DEF Queued
<1>3. Position(e) \in heap_position' + 1 .. PosMax
  BY <1>1, <1>2
<1>4. e.d.id \in Int
  BY <1>2 DEF Item, Message, Ids
<1> QED BY <1>1, <1>2, <1>3, <1>4 DEF QueuedNext

\* A step that moves the entries to other places, and keeps the node and what
\* dequeue() has taken, keeps them in order.
LEMMA ItemsMoved ==
  ASSUME TypeOK, TypeOK', ItemsInv,
         NEW from,
         \A i \in Live' : from[i] \in Live /\ heap_item'[i] = heap_item[from[i]],
         \A i, j \in Live' : i # j => from[i] # from[j],
         pc' = pc, node' = node, buf' = buf, heap_size' = heap_size,
         heap_position' = heap_position, inserted' >= inserted
  PROVE  ItemsInv'
<1>1. \A e : Queued(e) => QueuedNext(e)
  <2>1. heap_position' <= heap_position
    BY DEF TypeOK
  <2> QED BY <2>1, QueuedStays
<1>2. \A i \in Live' : Queued(heap_item[i])'
  BY <1>1 DEF ItemsInv, QueuedNext, Queued
<1>3. \A i, j \in Live' : i # j => InOrder(heap_item[i], heap_item[j])'
  <2> SUFFICES ASSUME NEW i \in Live', NEW j \in Live', i # j
               PROVE  InOrder(heap_item'[i], heap_item'[j])
    BY DEF InOrder
  <2>1. InOrder(heap_item[from[i]], heap_item[from[j]])
    BY Zenon DEF ItemsInv
  <2> QED BY <2>1
<1>4. pc' # "idle" => /\ Queued(node)'
                      /\ \/ pc' = "down" /\ heap_size' = 1
                         \/ \A i \in Live' : InOrder(node, heap_item[i])'
  <2> SUFFICES ASSUME pc # "idle"
               PROVE  /\ Queued(node)'
                      /\ \/ pc = "down" /\ heap_size = 1
                         \/ \A i \in Live' : InOrder(node, heap_item'[i])
    BY DEF InOrder
  <2>1. Queued(node)'
    BY <1>1 DEF ItemsInv, QueuedNext, Queued
  <2>2. \/ pc = "down" /\ heap_size = 1
        \/ \A i \in Live : InOrder(node, heap_item[i])
    BY Zenon DEF ItemsInv
  <2>3. ASSUME \A i \in Live : InOrder(node, heap_item[i])
        PROVE  \A i \in Live' : InOrder(node, heap_item'[i])
    BY <2>3
  <2> QED BY <2>1, <2>2, <2>3
<1>5. pc' = "down" => /\ Queued(buf)'
                      /\ \A i \in Live' : InOrder(buf, heap_item[i])'
                      /\ IF heap_size' = 1 THEN node' = buf' ELSE InOrder(node, buf)'
  <2> SUFFICES ASSUME pc = "down"
               PROVE  /\ Queued(buf)'
                      /\ \A i \in Live' : InOrder(buf, heap_item'[i])
                      /\ IF heap_size = 1 THEN node = buf ELSE InOrder(node, buf)
    BY DEF InOrder
  <2>1. Queued(buf)'
    BY <1>1 DEF ItemsInv, QueuedNext, Queued
  <2>2. \A i \in Live : InOrder(buf, heap_item[i])
    BY Zenon DEF ItemsInv
  <2>3. IF heap_size = 1 THEN node = buf ELSE InOrder(node, buf)
    BY Zenon DEF ItemsInv
  <2> QED BY <2>1, <2>2, <2>3
<1> QED BY <1>2, <1>3, <1>4, <1>5 DEF ItemsInv

\* enqueue() gives the new entry the lowest position and the highest number.
LEMMA ItemsQueued ==
  ASSUME TypeOK, SizeInv, ItemsInv, TypeOK', NEW prio \in 1 .. 8, InsertQueued(prio)
  PROVE  ItemsInv'
<1>1. /\ pc = "idle" /\ pc' = "up" /\ heap_item' = heap_item
      /\ heap_size' = heap_size /\ hole' = heap_size
      /\ node' = [p |-> P(prio, heap_position), d |-> [id |-> inserted + 1, prio |-> prio]]
      /\ heap_position' = heap_position - 1 /\ inserted' = inserted + 1
  BY DEF InsertQueued, NewMessage
<1>2. /\ PosMax \in Nat /\ heap_position \in Int /\ heap_position <= PosMax
      /\ inserted \in Int /\ inserted' \in Ids /\ heap_size \in Int
  BY QueueAssumption DEF TypeOK, Ids, Indices, InsertQueued, NewMessage
<1>3. Live' = Live /\ \A i \in Live : i # heap_size
  <2>1. Live = 1 .. heap_size - 1
    BY <1>1 DEF Live
  <2>2. Live' = (1 .. heap_size) \ {heap_size}
    BY <1>1 DEF Live
  <2> QED BY <2>1, <2>2, <1>2
<1>4. \A e : Queued(e) => QueuedNext(e)
  <2>1. heap_position' <= heap_position /\ inserted' >= inserted
    BY <1>1, <1>2
  <2> QED BY <2>1, QueuedStays
<1>5. /\ Position(node') = heap_position /\ node'.d.id = inserted + 1
      /\ node' \in Item
  <2>1. heap_position \in 0 .. PosMax
    BY DEF TypeOK
  <2>2. P(prio, heap_position) \in 0 .. 8 * (PosMax + 1) - 1
    BY <2>1, PType
  <2>3. node' \in Item
    <3> HIDE DEF P
    <3> QED BY <1>1, <1>2, <2>2 DEF Item, Message
  <2>4. Position(node') = heap_position
    <3>1. node'.p = P(prio, heap_position) /\ node'.d.prio = prio
      BY <1>1
    <3> DEFINE w == (prio - 1) * (PosMax + 1)
    <3>2. w \in Int
      BY <1>2
    <3>3. Position(node') = (w + heap_position) - w
      BY <3>1 DEF Position, P
    <3> HIDE DEF w
    <3> QED BY <3>2, <3>3, <1>2
  <2> QED BY <1>1, <2>3, <2>4
<1>6. QueuedNext(node')
  BY <1>1, <1>2, <1>5 DEF QueuedNext
<1>7. \A e : Queued(e) => InOrder(node', e)
  <2> SUFFICES ASSUME NEW e, Queued(e) PROVE InOrder(node', e)
    OBVIOUS
  <2>1. /\ e.d.id \in Int /\ e.d.id <= inserted
        /\ Position(e) \in Int /\ Position(e) >= heap_position + 1
    BY <1>2 DEF Queued, Item, Message, Ids
  <2> QED BY <2>1, <1>2, <1>5 DEF InOrder
<1>8. /\ \A i \in Live' : Queued(heap_item[i])'
      /\ Queued(node)'
      /\ \A i \in Live' : InOrder(node', heap_item'[i])
  BY <1>1, <1>3, <1>4, <1>6, <1>7 DEF ItemsInv, QueuedNext, Queued
<1>9. \A i, j \in Live' : i # j => InOrder(heap_item'[i], heap_item'[j])
  BY <1>1, <1>3, Zenon DEF ItemsInv
<1> QED BY <1>1, <1>8, <1>9 DEF ItemsInv, InOrder

\* The loop of enqueue() ends with the new entry in its place.
LEMMA ItemsUpEnd ==
  ASSUME TypeOK, SizeInv, ItemsInv, TypeOK', UpEnd
  PROVE  ItemsInv'
<1>1. /\ pc = "up" /\ pc' = "idle" /\ hole \in Indices /\ heap_item \in [Indices -> Entry]
      /\ heap_item' = [heap_item EXCEPT ![hole] = node]
      /\ heap_size' = heap_size + 1
      /\ heap_position' = heap_position /\ inserted' = inserted
  BY DEF UpEnd, LoopUnchanged, TypeOK
<1>2. Live' = Live \cup {hole} /\ hole \notin Live
  <2>1. LiveFacts /\ LiveFacts' /\ hole <= heap_size /\ hole \in Nat /\ hole >= 1
    BY <1>1, LiveTypes, LiveTypesNext DEF SizeInv, LiveFacts
  <2>2. \A i : i \in Live <=> i \in Nat /\ i >= 1 /\ i <= heap_size /\ i # hole
    BY <1>1, <2>1 DEF LiveFacts
  <2>3. \A i : i \in Live' <=> i \in Nat /\ i >= 1 /\ i <= heap_size
    BY <1>1, <2>1 DEF LiveFacts
  <2> QED BY <2>1, <2>2, <2>3
<1>3. \A i \in Live : heap_item'[i] = heap_item[i]
  BY <1>1, <1>2
<1>4. heap_item'[hole] = node
  BY <1>1
<1>5. \A e : Queued(e) => QueuedNext(e)
  BY <1>1, QueuedStays DEF TypeOK
<1>6. Queued(node) /\ (\A i \in Live : Queued(heap_item[i]))
      /\ \A i \in Live : InOrder(node, heap_item[i])
  BY <1>1, Zenon DEF ItemsInv
<1>7. \A i \in Live' : Queued(heap_item[i])'
  <2>1. \A i \in Live' : QueuedNext(heap_item'[i])
    BY <1>2, <1>3, <1>4, <1>5, <1>6, Zenon
  <2> QED BY <2>1 DEF QueuedNext, Queued
<1>8. \A i, j \in Live' : i # j => InOrder(heap_item'[i], heap_item'[j])
  <2>1. \A i, j \in Live : i # j => InOrder(heap_item[i], heap_item[j])
    BY Zenon DEF ItemsInv
  <2>2. \A i \in Live : InOrder(heap_item[i], node)
    <3>1. node \in Item /\ \A i \in Live : heap_item[i] \in Item
      BY <1>6 DEF Queued
    <3> QED BY <3>1, <1>6, InOrderSymmetric
  <2> QED BY <1>2, <1>3, <1>4, <1>6, <2>1, <2>2, Zenon
<1> QED BY <1>1, <1>7, <1>8 DEF ItemsInv, InOrder

\* dequeue() takes the first entry; the last one looks for a place.
LEMMA ItemsUpdate ==
  ASSUME TypeOK, SizeInv, ItemsInv, TypeOK', Update
  PROVE  ItemsInv'
<1>1. /\ pc = "idle" /\ pc' = "down" /\ heap_item' = heap_item
      /\ heap_size' = heap_size - 1 /\ heap_size # 1 /\ hole' = 1
      /\ buf' = heap_item[1] /\ node' = heap_item[heap_size - 1]
      /\ heap_position' = heap_position /\ inserted' = inserted
  BY DEF Update, LoopUnchanged
<1>2. /\ LiveFacts /\ LiveFacts' /\ heap_size \in Nat /\ heap_size >= 2
      /\ \A i : i \in Live <=> i \in Nat /\ i >= 1 /\ i < heap_size
      /\ \A i : i \in Live' <=> i \in Nat /\ i >= 1 /\ i < heap_size - 1 /\ i # 1
  BY <1>1, LiveTypes, LiveTypesNext DEF LiveFacts
<1>3. 1 \in Live /\ heap_size - 1 \in Live /\ \A i \in Live' : i \in Live /\ i # 1 /\ i # heap_size - 1
  BY <1>2
<1>4. \A e : Queued(e) => QueuedNext(e)
  BY <1>1, QueuedStays DEF TypeOK
<1>5. \A i \in Live : Queued(heap_item[i])
  BY DEF ItemsInv
<1>6. \A i, j \in Live : i # j => InOrder(heap_item[i], heap_item[j])
  BY Zenon DEF ItemsInv
<1>7. /\ \A i \in Live' : QueuedNext(heap_item'[i])
      /\ QueuedNext(node') /\ QueuedNext(buf')
  BY <1>1, <1>3, <1>4, <1>5
<1>8. /\ \A i, j \in Live' : i # j => InOrder(heap_item'[i], heap_item'[j])
      /\ \A i \in Live' : InOrder(node', heap_item'[i])
      /\ \A i \in Live' : InOrder(buf', heap_item'[i])
  BY <1>1, <1>3, <1>6, Zenon
<1>9. IF heap_size' = 1 THEN node' = buf' ELSE InOrder(node', buf')
  <2>1. CASE heap_size = 2
    BY <2>1, <1>1
  <2>2. CASE heap_size # 2
    <3>1. heap_size - 1 # 1 /\ heap_size' # 1
      BY <2>2, <1>1, <1>2
    <3>2. InOrder(heap_item[heap_size - 1], heap_item[1])
      BY <3>1, <1>3, <1>6, Zenon
    <3> QED BY <3>1, <3>2, <1>1
  <2> QED BY <2>1, <2>2
<1> QED BY <1>1, <1>7, <1>8, <1>9 DEF ItemsInv, InOrder, QueuedNext, Queued

\* The loop of dequeue() ends with the last entry in its new place.
LEMMA ItemsDownEnd ==
  ASSUME TypeOK, SizeInv, ItemsInv, HeapInv, TypeOK', DownEnd
  PROVE  ItemsInv'
<1>1. /\ pc = "down" /\ pc' = "idle" /\ hole \in Indices /\ heap_item \in [Indices -> Entry]
      /\ heap_item' = [heap_item EXCEPT ![hole] = node]
      /\ heap_size' = heap_size /\ inserted' = inserted
      /\ heap_size # 1 => heap_position' = heap_position
      /\ hole < heap_size \/ heap_size = 1
  BY DEF DownEnd, LoopUnchanged, TypeOK, HeapInv
<1>2. /\ LiveFacts /\ heap_size \in Nat /\ heap_size >= 1 /\ hole \in Nat /\ hole >= 1
      /\ \A i : i \in Live <=> i \in Nat /\ i >= 1 /\ i < heap_size /\ i # hole
      /\ \A i : i \in Live' <=> i \in Nat /\ i >= 1 /\ i < heap_size
  BY <1>1, LiveTypes, LiveTypesNext DEF LiveFacts
<1>3. CASE heap_size = 1
  <2>1. \A i : i \notin Live'
    BY <1>2, <1>3
  <2> QED BY <1>1, <2>1 DEF ItemsInv
<1>4. CASE heap_size # 1
  <2>1. Live' = Live \cup {hole} /\ hole \notin Live
    BY <1>1, <1>2, <1>4
  <2>2. \A i \in Live : heap_item'[i] = heap_item[i]
    BY <1>1, <2>1
  <2>3. heap_item'[hole] = node
    BY <1>1
  <2>4. \A e : Queued(e) => QueuedNext(e)
    BY <1>1, <1>4, QueuedStays DEF TypeOK
  <2>5. Queued(node) /\ (\A i \in Live : Queued(heap_item[i]))
        /\ \A i \in Live : InOrder(node, heap_item[i])
    BY <1>1, <1>4, Zenon DEF ItemsInv
  <2>6. \A i \in Live' : Queued(heap_item[i])'
    <3>1. \A i \in Live' : QueuedNext(heap_item'[i])
      BY <2>1, <2>2, <2>3, <2>4, <2>5, Zenon
    <3> QED BY <3>1 DEF QueuedNext, Queued
  <2>7. \A i, j \in Live' : i # j => InOrder(heap_item'[i], heap_item'[j])
    <3>1. \A i, j \in Live : i # j => InOrder(heap_item[i], heap_item[j])
      BY Zenon DEF ItemsInv
    <3>2. \A i \in Live : InOrder(heap_item[i], node)
      <4>1. node \in Item /\ \A i \in Live : heap_item[i] \in Item
        BY <2>5 DEF Queued
      <4> QED BY <4>1, <2>5, InOrderSymmetric
    <3> QED BY <2>1, <2>2, <2>3, <2>5, <3>1, <3>2, Zenon
  <2> QED BY <1>1, <2>6, <2>7 DEF ItemsInv, InOrder
<1> QED BY <1>3, <1>4

\* What a step of the loop of enqueue() does: the parent takes the place of the
\* hole.
LEMMA UpShift ==
  ASSUME TypeOK, SizeInv, TypeOK', UpStep, NEW h, h = hole, NEW q, q = hole \div 2
  PROVE  /\ h \in Nat /\ q \in Nat /\ q >= 1 /\ q < h /\ hole' = q /\ h \div 2 = q
         /\ q \in Live /\ h \notin Live /\ q \notin Live' /\ h \in Live'
         /\ \A i : i \in Live' <=> (i \in Live /\ i # q) \/ i = h
         /\ heap_item'[h] = heap_item[q]
         /\ \A i \in Live' : i # h => heap_item'[i] = heap_item[i]
         /\ heap_item[q].p < node.p
         /\ Live \subseteq Nat
<1>1. /\ pc = "up" /\ pc' = "up" /\ h \in Indices /\ heap_item \in [Indices -> Entry]
      /\ heap_item' = [heap_item EXCEPT ![h] = heap_item[q]]
      /\ heap_size' = heap_size /\ hole' = q /\ h > 1
      /\ heap_item[q].p < node.p
  BY DEF UpStep, TypeOK
<1>2. /\ LiveFacts /\ heap_size \in Nat
      /\ \A i : i \in Live <=> i \in Nat /\ i >= 1 /\ i <= heap_size /\ i # h
      /\ \A i : i \in Live' <=> i \in Nat /\ i >= 1 /\ i <= heap_size /\ i # q
  BY <1>1, LiveTypes, LiveTypesNext DEF LiveFacts
<1>3. h \in Nat /\ h <= heap_size
  BY <1>1, <1>2 DEF SizeInv, LiveFacts
<1>4. q \in Nat /\ q >= 1 /\ q < h
  BY <1>1, <1>3
<1>5. q \in Live /\ h \notin Live /\ q \notin Live' /\ h \in Live'
  BY <1>1, <1>2, <1>3, <1>4
<1>6. \A i : i \in Live' <=> (i \in Live /\ i # q) \/ i = h
  BY <1>1, <1>2, <1>3, <1>4
<1>7. heap_item'[h] = heap_item[q]
  BY <1>1
<1>8. \A i \in Live' : i # h => heap_item'[i] = heap_item[i]
  BY <1>1, <1>2, <1>6 DEF LiveFacts
<1> QED BY <1>1, <1>2, <1>3, <1>4, <1>5, <1>6, <1>7, <1>8

\* The greater child of the hole of dequeue().
LEMMA ChildFacts ==
  ASSUME TypeOK, pc = "down", NEW h, h = hole, NEW c, c = Child, h <= heap_size \div 2
  PROVE  /\ h \in Nat /\ c \in Nat /\ c > h /\ c <= heap_size /\ c \div 2 = h
         /\ \A i \in Live : i \div 2 = h => heap_item[c].p >= heap_item[i].p
<1>1. /\ LiveFacts /\ heap_size \in Nat /\ h \in Nat /\ h >= 1
      /\ \A i : i \in Live <=> i \in Nat /\ i >= 1 /\ i < heap_size /\ i # h
  BY LiveTypes DEF LiveFacts
<1>2. \A i \in Indices : heap_item[i].p \in Int
  BY QueueAssumption DEF TypeOK, Entry, Item, NoItem
<1>3. /\ c \in {2 * h, 2 * h + 1} /\ c \in Nat /\ c > h /\ c <= heap_size /\ c \div 2 = h
  BY <1>1 DEF Child
<1>4. c \in Indices /\ heap_size \in Indices
  BY <1>1, <1>3, QueueAssumption DEF TypeOK, Indices
<1>5. ASSUME NEW i \in Live, i \div 2 = h
      PROVE  heap_item[c].p >= heap_item[i].p
  <2>1. i \in {2 * h, 2 * h + 1} /\ i \in Nat /\ i < heap_size /\ i \in Indices
    BY <1>1, <1>5 DEF LiveFacts
  <2>2. CASE i = c
    BY <1>2, <2>1, <2>2
  <2>3. CASE i = 2 * h /\ c = 2 * h + 1
    <3>1. 2 * h < heap_size /\ heap_item[2 * h].p < heap_item[2 * h + 1].p
      BY <2>3, <1>1 DEF Child
    <3> QED BY <3>1, <2>3, <1>2, <1>4, <2>1
  <2>4. CASE i = 2 * h + 1 /\ c = 2 * h
    <3>1. 2 * h < heap_size
      BY <2>1, <2>4, <1>1
    <3>2. ~(heap_item[2 * h].p < heap_item[2 * h + 1].p)
      BY <3>1, <2>4, <1>1 DEF Child
    <3>3. ~(heap_item[c].p < heap_item[i].p) /\ heap_item[c].p \in Int /\ heap_item[i].p \in Int
      BY <3>2, <2>4, <1>2, <1>4, <2>1
    <3> QED BY <3>3
  <2> QED BY <1>3, <2>1, <2>2, <2>3, <2>4
<1> QED BY <1>1, <1>2, <1>3, <1>4, <1>5 DEF LiveFacts

\* What a step of the loop of dequeue() does: the greater child takes the place
\* of the hole; it is not the last entry, which is the node itself.
LEMMA DownShift ==
  ASSUME TypeOK, SizeInv, HeapInv, TypeOK', DownStep, NEW h, h = hole, NEW c, c = Child
  PROVE  /\ h \in Nat /\ c \in Nat /\ h >= 1 /\ h < c /\ c < heap_size
         /\ hole' = c /\ c \div 2 = h
         /\ c \in Live /\ h \notin Live /\ c \notin Live' /\ h \in Live'
         /\ \A i : i \in Live' <=> (i \in Live /\ i # c) \/ i = h
         /\ heap_item'[h] = heap_item[c]
         /\ \A i \in Live' : i # h => heap_item'[i] = heap_item[i]
         /\ heap_item'[heap_size] = heap_item[heap_size]
         /\ heap_item[c].p > node.p
         /\ \A i \in Live : i \div 2 = h => heap_item[c].p >= heap_item[i].p
         /\ Live \subseteq Nat /\ heap_size \in Nat
<1>1. /\ pc = "down" /\ pc' = "down" /\ h \in Indices /\ heap_item \in [Indices -> Entry]
      /\ heap_item' = [heap_item EXCEPT ![h] = heap_item[c]]
      /\ heap_size' = heap_size /\ hole' = c /\ h <= heap_size \div 2
      /\ heap_item[c].p > node.p
  BY DEF DownStep, TypeOK
<1>2. /\ LiveFacts /\ heap_size \in Nat /\ heap_size \in Indices
      /\ \A i : i \in Live <=> i \in Nat /\ i >= 1 /\ i < heap_size /\ i # h
      /\ \A i : i \in Live' <=> i \in Nat /\ i >= 1 /\ i < heap_size /\ i # c
  BY <1>1, LiveTypes, LiveTypesNext DEF LiveFacts, TypeOK
<1>3. /\ h \in Nat /\ c \in Nat /\ c > h /\ c <= heap_size /\ c \div 2 = h /\ h >= 1
      /\ \A i \in Live : i \div 2 = h => heap_item[c].p >= heap_item[i].p
  BY <1>1, <1>2, ChildFacts DEF LiveFacts
<1>4. c < heap_size
  <2>1. heap_item[heap_size] = node
    BY <1>1 DEF HeapInv
  <2>2. node.p \in Int
    BY QueueAssumption DEF TypeOK, Entry, Item, NoItem
  <2>3. c # heap_size
    BY <1>1, <2>1, <2>2
  <2> QED BY <2>3, <1>2, <1>3
<1>5. c \in Live /\ h \notin Live /\ c \notin Live' /\ h \in Live'
  BY <1>1, <1>2, <1>3, <1>4
<1>6. \A i : i \in Live' <=> (i \in Live /\ i # c) \/ i = h
  BY <1>1, <1>2, <1>3, <1>4
<1>7. heap_item'[h] = heap_item[c] /\ heap_item'[heap_size] = heap_item[heap_size]
  BY <1>1, <1>2, <1>3, <1>4
<1>8. \A i \in Live' : i # h => heap_item'[i] = heap_item[i]
  BY <1>1, <1>2, <1>6 DEF LiveFacts
<1> QED BY <1>1, <1>2, <1>3, <1>4, <1>5, <1>6, <1>7, <1>8

\* Every step keeps what is queued, and in order.
LEMMA ItemsStep ==
  ASSUME TypeOK, SizeInv, ItemsInv, HeapInv, TypeOK', [Next]_vars
  PROVE  ItemsInv'
<1>0. inserted \in Int /\ Live \subseteq Indices
  BY LiveTypes DEF TypeOK, LiveFacts
<1>1. ASSUME UNCHANGED <<heap_item, heap_size, heap_position, pc, hole, node, buf>>,
             inserted' >= inserted
      PROVE  ItemsInv'
  <2>1. Live' = Live
    BY <1>1 DEF Live
  <2>2. PICK from : from = [i \in Live |-> i]
    OBVIOUS
  <2> QED BY <1>1, <2>1, <2>2, ItemsMoved
<1>2. CASE \E prio \in Priorities : Insert(prio)
  <2>1. PICK prio \in Priorities : Insert(prio)
    BY <1>2
  <2>2. CASE InsertUnqueued(prio) \/ InsertDropped(prio) \/ InsertUrgent(prio)
    <3>1. UNCHANGED <<heap, loop>> /\ inserted' = inserted + 1
      BY <2>2, Zenon DEF InsertUnqueued, InsertDropped, InsertUrgent, NewMessage
    <3> QED BY <3>1, <1>0, <1>1 DEF heap, loop
  <2>3. CASE InsertQueued(prio)
    BY <2>3, ItemsQueued DEF InsertQueued
  <2> QED BY <2>1, <2>2, <2>3 DEF Insert
<1>3. CASE UpStep
  <2>1. PICK h, q : h = hole /\ q = hole \div 2
    OBVIOUS
  <2>2. /\ q \in Live /\ h \notin Live
        /\ \A i : i \in Live' <=> (i \in Live /\ i # q) \/ i = h
        /\ heap_item'[h] = heap_item[q]
        /\ \A i \in Live' : i # h => heap_item'[i] = heap_item[i]
    BY <1>3, <2>1, UpShift
  <2>3. PICK from : from = [i \in Live' |-> IF i = h THEN q ELSE i]
    OBVIOUS
  <2>4. /\ \A i \in Live' : from[i] \in Live /\ heap_item'[i] = heap_item[from[i]]
        /\ \A i, j \in Live' : i # j => from[i] # from[j]
    BY <2>2, <2>3
  <2>5. /\ pc' = pc /\ node' = node /\ buf' = buf /\ heap_size' = heap_size
        /\ heap_position' = heap_position /\ inserted' >= inserted
    BY <1>0, <1>3 DEF UpStep, LoopUnchanged
  <2> QED BY <2>4, <2>5, ItemsMoved
<1>4. CASE UpEnd
  BY <1>4, ItemsUpEnd
<1>5. CASE Update
  BY <1>5, ItemsUpdate
<1>6. CASE DownStep
  <2>1. PICK h, c : h = hole /\ c = Child
    OBVIOUS
  <2>2. /\ c \in Live /\ h \notin Live
        /\ \A i : i \in Live' <=> (i \in Live /\ i # c) \/ i = h
        /\ heap_item'[h] = heap_item[c]
        /\ \A i \in Live' : i # h => heap_item'[i] = heap_item[i]
    BY <1>6, <2>1, DownShift
  <2>3. PICK from : from = [i \in Live' |-> IF i = h THEN c ELSE i]
    OBVIOUS
  <2>4. /\ \A i \in Live' : from[i] \in Live /\ heap_item'[i] = heap_item[from[i]]
        /\ \A i, j \in Live' : i # j => from[i] # from[j]
    BY <2>2, <2>3
  <2>5. /\ pc' = pc /\ node' = node /\ buf' = buf /\ heap_size' = heap_size
        /\ heap_position' = heap_position /\ inserted' >= inserted
    BY <1>0, <1>6 DEF DownStep, LoopUnchanged
  <2> QED BY <2>4, <2>5, ItemsMoved
<1>7. CASE DownEnd
  BY <1>7, ItemsDownEnd
<1>8. CASE Purge
  <2>1. pc = "idle" /\ pc' = "idle" /\ heap_size' = 1
    BY <1>8 DEF Purge, loop
  <2>2. Live' = {}
    BY <2>1 DEF Live
  <2> QED BY <2>1, <2>2 DEF ItemsInv
<1>9. CASE Clock \/ UNCHANGED vars
  BY <1>9, <1>0, <1>1 DEF Clock, vars, heap, loop
<1> QED BY <1>2, <1>3, <1>4, <1>5, <1>6, <1>7, <1>8, <1>9 DEF Next

\* A set of natural numbers has a least one.
LEMMA LeastNatural ==
  ASSUME NEW S \in SUBSET Nat, S # {}
  PROVE  \E m \in S : \A n \in S : m <= n
<1> DEFINE Below(n) == 0 .. n
           T == {Below(n) : n \in S}
<1>1. T \subseteq FiniteSubsetsOf(Nat) /\ T # {}
  <2>1. \A n \in S : 0 .. n \in FiniteSubsetsOf(Nat)
    BY FS_Interval DEF FiniteSubsetsOf
  <2> QED BY <2>1
<1>2. PICK x \in T : \A y \in T : <<y, x>> \notin StrictSubsetOrdering(Nat)
  <2> HIDE DEF T
  <2> QED BY <1>1, FS_StrictSubsetOrderingWellFounded, WFMin
<1>3. PICK m \in S : x = Below(m)
  OBVIOUS
<1>4. ASSUME NEW n \in S, n < m
      PROVE  FALSE
  <2>1. Below(n) \subseteq Below(m) /\ m \in Below(m) /\ m \notin Below(n)
    BY <1>4
  <2>2. <<Below(n), x>> \in StrictSubsetOrdering(Nat)
    BY <1>3, <2>1 DEF StrictSubsetOrdering
  <2> QED BY <1>2, <2>2
<1> QED BY <1>4

\* The first entry of a heap is the greatest.
LEMMA RootGreatest ==
  ASSUME TypeOK, HeapInv, pc = "idle", NEW i \in Live
  PROVE  heap_item[1].p >= heap_item[i].p
<1>0. LiveFacts /\ \A k : k \in Live <=> k \in Nat /\ k >= 1 /\ k < heap_size
  BY LiveTypes DEF LiveFacts
<1>1. \A k \in Live : heap_item[k].p \in Int
  BY <1>0, QueueAssumption DEF TypeOK, Entry, Item, NoItem, LiveFacts
<1> DEFINE Over == {k \in Live : heap_item[k].p > heap_item[1].p}
<1>2. SUFFICES ASSUME Over # {} PROVE FALSE
  <2>1. 1 \in Live
    BY <1>0 DEF LiveFacts
  <2> QED BY <1>1, <2>1
<1>3. PICK k \in Over : \A n \in Over : k <= n
  <2>1. Over \in SUBSET Nat
    BY <1>0 DEF LiveFacts
  <2> HIDE DEF Over
  <2> QED BY <1>2, <2>1, LeastNatural
<1>4. k \in Live /\ k \in Nat /\ k # 1 /\ k >= 1 /\ 1 \in Live /\ heap_item[k].p > heap_item[1].p
  BY <1>0, <1>1, <1>3 DEF LiveFacts
<1>5. k \div 2 \in Live /\ k \div 2 < k
  BY <1>0, <1>4 DEF LiveFacts
<1>6. heap_item[k \div 2].p >= heap_item[k].p
  BY <1>4, <1>5 DEF HeapInv
<1>7. k \div 2 \in Over
  BY <1>1, <1>4, <1>5, <1>6
<1> QED BY <1>3, <1>4, <1>5, <1>7

\* The loop of enqueue() keeps the order between parents and children.
LEMMA HeapUpStep ==
  ASSUME TypeOK, SizeInv, HeapInv, TypeOK', UpStep
  PROVE  HeapInv'
<1>1. PICK h, q : h = hole /\ q = hole \div 2
  OBVIOUS
<1>2. /\ pc = "up" /\ pc' = "up" /\ node' = node
  BY DEF UpStep
<1>3. /\ h \in Nat /\ q \in Nat /\ q >= 1 /\ q < h /\ hole' = q /\ h \div 2 = q
      /\ q \in Live /\ h \notin Live /\ q \notin Live' /\ h \in Live'
      /\ \A i : i \in Live' <=> (i \in Live /\ i # q) \/ i = h
      /\ heap_item'[h] = heap_item[q]
      /\ \A i \in Live' : i # h => heap_item'[i] = heap_item[i]
      /\ heap_item[q].p < node.p
      /\ Live \subseteq Nat
  BY <1>1, UpShift
<1>4. /\ \A i \in Live : heap_item[i].p \in Int
      /\ node.p \in Int
  <2>1. \A e \in Entry : e.p \in Int
    BY QueueAssumption DEF Entry, Item, NoItem
  <2>2. node \in Entry
    BY Zenon DEF TypeOK
  <2>3. heap_item \in [Indices -> Entry]
    BY Zenon DEF TypeOK
  <2>4. Live \subseteq Indices
    BY LiveTypes, Zenon DEF LiveFacts
  <2>5. \A i \in Live : heap_item[i] \in Entry
    BY <2>3, <2>4
  <2> QED BY <2>1, <2>2, <2>5
<1>5. /\ \A i \in Live : i \div 2 \in Live => heap_item[i \div 2].p >= heap_item[i].p
      /\ \A i \in Live : i \div 2 = h /\ q \in Live => heap_item[q].p >= heap_item[i].p
      /\ \A i \in Live : i \div 2 = h => node.p >= heap_item[i].p
  BY <1>1, <1>2 DEF HeapInv
<1>6. \A i \in Live' : i \div 2 \in Live' => heap_item'[i \div 2].p >= heap_item'[i].p
  <2> SUFFICES ASSUME NEW i \in Live', i \div 2 \in Live'
               PROVE  heap_item'[i \div 2].p >= heap_item'[i].p
    OBVIOUS
  <2>1. i # h
    BY <1>3
  <2>2. CASE i \div 2 = h
    BY <1>3, <1>5, <2>1, <2>2
  <2>3. CASE i \div 2 # h
    BY <1>3, <1>5, <2>1, <2>3
  <2> QED BY <2>2, <2>3
<1>7. \A i \in Live' : i \div 2 = q /\ q \div 2 \in Live' => heap_item'[q \div 2].p >= heap_item'[i].p
  <2> SUFFICES ASSUME NEW i \in Live', i \div 2 = q, q \div 2 \in Live'
               PROVE  heap_item'[q \div 2].p >= heap_item'[i].p
    OBVIOUS
  <2>1. q \div 2 # h /\ q \div 2 \in Live
    BY <1>3
  <2>2. heap_item'[q \div 2].p >= heap_item[q].p
    BY <1>3, <1>5, <2>1
  <2>3. heap_item[q].p >= heap_item'[i].p
    BY <1>3, <1>4, <1>5
  <2>4. heap_item'[q \div 2].p \in Int /\ heap_item[q].p \in Int /\ heap_item'[i].p \in Int
    BY <1>3, <1>4, <2>1
  <2> QED BY <2>2, <2>3, <2>4
<1>8. \A i \in Live' : i \div 2 = q => node.p >= heap_item'[i].p
  BY <1>3, <1>4, <1>5
<1> QED BY <1>2, <1>3, <1>6, <1>7, <1>8 DEF HeapInv

\* The new entry is put below an entry that is not smaller.
LEMMA HeapUpEnd ==
  ASSUME TypeOK, SizeInv, HeapInv, TypeOK', UpEnd
  PROVE  HeapInv'
<1>1. /\ pc = "up" /\ pc' = "idle" /\ hole \in Indices /\ heap_item \in [Indices -> Entry]
      /\ heap_item' = [heap_item EXCEPT ![hole] = node] /\ heap_size' = heap_size + 1
      /\ hole > 1 => heap_item[hole \div 2].p >= node.p
  BY DEF UpEnd, TypeOK
<1>2. PICK h : h = hole
  OBVIOUS
<1>3. /\ LiveFacts /\ h \in Nat /\ h >= 1 /\ h <= heap_size /\ heap_size \in Nat
      /\ \A i : i \in Live <=> i \in Nat /\ i >= 1 /\ i <= heap_size /\ i # h
      /\ \A i : i \in Live' <=> i \in Nat /\ i >= 1 /\ i <= heap_size
      /\ Live \subseteq Indices
  BY <1>1, <1>2, LiveTypes, LiveTypesNext DEF SizeInv, LiveFacts
<1>4. heap_item'[h] = node /\ \A i \in Live : heap_item'[i] = heap_item[i]
  BY <1>1, <1>2, <1>3
<1>5. /\ \A i \in Live : i \div 2 \in Live => heap_item[i \div 2].p >= heap_item[i].p
      /\ \A i \in Live : i \div 2 = h => node.p >= heap_item[i].p
  BY <1>1, <1>2 DEF HeapInv
<1>6. \A i \in Live' : i \div 2 \in Live' => heap_item'[i \div 2].p >= heap_item'[i].p
  <2> SUFFICES ASSUME NEW i \in Live', i \div 2 \in Live'
               PROVE  heap_item'[i \div 2].p >= heap_item'[i].p
    OBVIOUS
  <2>1. CASE i = h
    <3>1. i > 1 /\ i \div 2 \in Live
      BY <1>3, <2>1
    <3> QED BY <1>1, <1>2, <1>4, <2>1, <3>1
  <2>2. CASE i # h /\ i \div 2 = h
    BY <1>3, <1>4, <1>5, <2>2
  <2>3. CASE i # h /\ i \div 2 # h
    BY <1>3, <1>4, <1>5, <2>3
  <2> QED BY <2>1, <2>2, <2>3
<1> QED BY <1>1, <1>6 DEF HeapInv

\* The first entry is taken; the hole is above all others.
LEMMA HeapUpdate ==
  ASSUME TypeOK, SizeInv, HeapInv, TypeOK', Update
  PROVE  HeapInv'
<1>1. /\ pc = "idle" /\ pc' = "down" /\ heap_item' = heap_item
      /\ heap_size' = heap_size - 1 /\ heap_size # 1 /\ hole' = 1
      /\ buf' = heap_item[1] /\ node' = heap_item[heap_size - 1]
  BY DEF Update
<1>2. /\ LiveFacts /\ heap_size \in Nat /\ heap_size >= 2
      /\ \A i : i \in Live <=> i \in Nat /\ i >= 1 /\ i < heap_size
      /\ \A i : i \in Live' <=> i \in Nat /\ i >= 1 /\ i < heap_size - 1 /\ i # 1
  BY <1>1, LiveTypes, LiveTypesNext DEF LiveFacts
<1>3. 1 \in Live /\ heap_size - 1 \in Live /\ \A i \in Live' : i \in Live
  BY <1>2
<1>4. \A i \in Live : heap_item[1].p >= heap_item[i].p
  BY <1>1, RootGreatest
<1>5. 1 \div 2 = 0 /\ 0 \notin Live'
  BY <1>2
<1>6. /\ \A i \in Live' : i \div 2 \in Live' => heap_item'[i \div 2].p >= heap_item'[i].p
  BY <1>1, <1>3 DEF HeapInv
<1>7. /\ \A i \in Live' : buf'.p >= heap_item'[i].p
      /\ buf'.p >= node'.p
      /\ heap_item'[heap_size'] = node'
      /\ hole' < heap_size' \/ heap_size' = 1
      /\ hole' \div 2 \notin Live'
  BY <1>1, <1>2, <1>3, <1>4, <1>5
<1> QED BY <1>1, <1>6, <1>7 DEF HeapInv

\* The loop of dequeue() keeps the order between parents and children.
LEMMA HeapDownStep ==
  ASSUME TypeOK, SizeInv, HeapInv, TypeOK', DownStep
  PROVE  HeapInv'
<1>1. PICK h, c : h = hole /\ c = Child
  OBVIOUS
<1>2. /\ pc = "down" /\ pc' = "down" /\ node' = node /\ buf' = buf /\ heap_size' = heap_size
  BY DEF DownStep
<1>3. /\ h \in Nat /\ c \in Nat /\ h >= 1 /\ h < c /\ c < heap_size
      /\ hole' = c /\ c \div 2 = h
      /\ c \in Live /\ h \notin Live /\ c \notin Live' /\ h \in Live'
      /\ \A i : i \in Live' <=> (i \in Live /\ i # c) \/ i = h
      /\ heap_item'[h] = heap_item[c]
      /\ \A i \in Live' : i # h => heap_item'[i] = heap_item[i]
      /\ heap_item'[heap_size] = heap_item[heap_size]
      /\ heap_item[c].p > node.p
      /\ \A i \in Live : i \div 2 = h => heap_item[c].p >= heap_item[i].p
      /\ Live \subseteq Nat /\ heap_size \in Nat
  BY <1>1, DownShift
<1>4. /\ \A i \in Live : heap_item[i].p \in Int
      /\ node.p \in Int
  <2>1. \A e \in Entry : e.p \in Int
    BY QueueAssumption DEF Entry, Item, NoItem
  <2>2. node \in Entry
    BY Zenon DEF TypeOK
  <2>3. heap_item \in [Indices -> Entry]
    BY Zenon DEF TypeOK
  <2>4. Live \subseteq Indices
    BY LiveTypes, Zenon DEF LiveFacts
  <2>5. \A i \in Live : heap_item[i] \in Entry
    BY <2>3, <2>4
  <2> QED BY <2>1, <2>2, <2>5
<1>5. /\ \A i \in Live : i \div 2 \in Live => heap_item[i \div 2].p >= heap_item[i].p
      /\ \A i \in Live : i \div 2 = h /\ h \div 2 \in Live => heap_item[h \div 2].p >= heap_item[i].p
      /\ heap_item[heap_size] = node
      /\ buf.p >= node.p
      /\ \A i \in Live : buf.p >= heap_item[i].p
  BY <1>1, <1>2 DEF HeapInv
<1>6. \A i \in Live' : i \div 2 \in Live' => heap_item'[i \div 2].p >= heap_item'[i].p
  <2> SUFFICES ASSUME NEW i \in Live', i \div 2 \in Live'
               PROVE  heap_item'[i \div 2].p >= heap_item'[i].p
    OBVIOUS
  <2>0. i \in Nat /\ i \div 2 # c
    BY <1>3
  <2>1. CASE i = h
    <3>1. h \div 2 # h /\ h \div 2 \in Live
      BY <1>3, <2>1
    <3> QED BY <1>3, <1>5, <2>1, <3>1
  <2>2. CASE i # h /\ i \div 2 = h
    BY <1>3, <2>2
  <2>3. CASE i # h /\ i \div 2 # h
    BY <1>3, <1>5, <2>3
  <2> QED BY <2>1, <2>2, <2>3
<1>7. \A i \in Live' : i \div 2 = c /\ c \div 2 \in Live' => heap_item'[c \div 2].p >= heap_item'[i].p
  <2> SUFFICES ASSUME NEW i \in Live', i \div 2 = c
               PROVE  heap_item'[h].p >= heap_item'[i].p
    BY <1>3
  <2>1. i # h /\ i \in Live
    BY <1>3
  <2> QED BY <1>3, <1>5, <2>1
<1>8. /\ c \div 2 \in Live' => heap_item'[c \div 2].p >= node.p
      /\ c < heap_size
      /\ heap_item'[heap_size] = node
      /\ buf.p >= node.p
      /\ \A i \in Live' : buf.p >= heap_item'[i].p
  BY <1>3, <1>4, <1>5
<1> QED BY <1>2, <1>3, <1>6, <1>7, <1>8 DEF HeapInv

\* The last entry is put above its children.
LEMMA HeapDownEnd ==
  ASSUME TypeOK, SizeInv, HeapInv, TypeOK', DownEnd
  PROVE  HeapInv'
<1>1. /\ pc = "down" /\ pc' = "idle" /\ hole \in Indices /\ heap_item \in [Indices -> Entry]
      /\ heap_item' = [heap_item EXCEPT ![hole] = node] /\ heap_size' = heap_size
      /\ hole <= heap_size \div 2 => heap_item[Child].p <= node.p
  BY DEF DownEnd, LoopUnchanged, TypeOK
<1>2. PICK h, c : h = hole /\ c = Child
  OBVIOUS
<1>3. /\ LiveFacts /\ h \in Nat /\ h >= 1 /\ heap_size \in Nat
      /\ \A i : i \in Live <=> i \in Nat /\ i >= 1 /\ i < heap_size /\ i # h
      /\ \A i : i \in Live' <=> i \in Nat /\ i >= 1 /\ i < heap_size
      /\ Live \subseteq Indices
  BY <1>1, <1>2, LiveTypes, LiveTypesNext DEF LiveFacts
<1>4. heap_item'[h] = node /\ \A i \in Live : heap_item'[i] = heap_item[i]
  BY <1>1, <1>2, <1>3
<1>5. /\ \A i \in Live : i \div 2 \in Live => heap_item[i \div 2].p >= heap_item[i].p
      /\ h \div 2 \in Live => heap_item[h \div 2].p >= node.p
  BY <1>1, <1>2 DEF HeapInv
<1>6. \A i \in Live : i \div 2 = h => node.p >= heap_item[i].p
  <2> SUFFICES ASSUME NEW i \in Live, i \div 2 = h PROVE node.p >= heap_item[i].p
    OBVIOUS
  <2>1. h <= heap_size \div 2
    BY <1>3
  <2>2. heap_item[c].p <= node.p
    BY <2>1, <1>1, <1>2
  <2>3. /\ c \in Nat /\ c <= heap_size /\ c > h
        /\ \A k \in Live : k \div 2 = h => heap_item[c].p >= heap_item[k].p
    BY <1>1, <1>2, <2>1, ChildFacts
  <2>4. \A k \in Indices : heap_item[k].p \in Int
    BY QueueAssumption DEF TypeOK, Entry, Item, NoItem
  <2>5. heap_size \in Indices /\ node \in Entry
    BY DEF TypeOK
  <2>6. node.p \in Int
    BY <2>5, QueueAssumption DEF Entry, Item, NoItem
  <2>7. c \in Indices
    BY <1>3, <2>3, <2>5 DEF Indices
  <2>8. i \in Indices
    BY <1>3
  <2> QED BY <2>2, <2>3, <2>4, <2>6, <2>7, <2>8
<1>7. \A i \in Live' : i \div 2 \in Live' => heap_item'[i \div 2].p >= heap_item'[i].p
  <2> SUFFICES ASSUME NEW i \in Live', i \div 2 \in Live'
               PROVE  heap_item'[i \div 2].p >= heap_item'[i].p
    OBVIOUS
  <2>1. CASE i = h
    <3>1. i \div 2 \in Live
      BY <1>3, <2>1
    <3> QED BY <1>4, <1>5, <2>1, <3>1
  <2>2. CASE i # h /\ i \div 2 = h
    BY <1>3, <1>4, <1>6, <2>2
  <2>3. CASE i # h /\ i \div 2 # h
    BY <1>3, <1>4, <1>5, <2>3
  <2> QED BY <2>1, <2>2, <2>3
<1> QED BY <1>1, <1>7 DEF HeapInv

\* Every step keeps the heap a heap.
LEMMA HeapStep ==
  ASSUME TypeOK, SizeInv, HeapInv, TypeOK', [Next]_vars
  PROVE  HeapInv'
<1>1. ASSUME UNCHANGED <<heap_item, heap_size, pc, hole, node, buf>>
      PROVE  HeapInv'
  <2>1. Live' = Live
    BY <1>1 DEF Live
  <2> QED BY <1>1, <2>1 DEF HeapInv
<1>2. CASE \E prio \in Priorities : Insert(prio)
  <2>1. PICK prio \in Priorities : Insert(prio)
    BY <1>2
  <2>2. CASE InsertUnqueued(prio) \/ InsertDropped(prio) \/ InsertUrgent(prio)
    <3>1. UNCHANGED <<heap, loop>>
      BY <2>2, Zenon DEF InsertUnqueued, InsertDropped, InsertUrgent
    <3> QED BY <3>1, <1>1 DEF heap, loop
  <2>3. CASE InsertQueued(prio)
    <3>1. /\ pc = "idle" /\ pc' = "up" /\ heap_item' = heap_item
          /\ heap_size' = heap_size /\ hole' = heap_size
      BY <2>3 DEF InsertQueued, NewMessage
    <3>2. /\ \A i : i \in Live <=> i \in Nat /\ i >= 1 /\ i < heap_size
          /\ \A i : i \in Live' <=> i \in Nat /\ i >= 1 /\ i < heap_size
          /\ heap_size \in Nat
      <4>1. /\ heap_size \in Nat
            /\ \A i : i \in Live <=> i \in Nat /\ i >= 1 /\ i < heap_size
            /\ \A i : i \in Live' <=> i \in Nat /\ i >= 1 /\ i <= heap_size /\ i # heap_size
        BY <3>1, LiveTypes, LiveTypesNext DEF LiveFacts
      <4> QED BY <4>1
    <3>3. \A i \in Live' : i \in Live /\ i \div 2 # heap_size
      BY <3>2
    <3>4. \A i \in Live' : i \div 2 \in Live' => heap_item'[i \div 2].p >= heap_item'[i].p
      BY <3>1, <3>3 DEF HeapInv
    <3> QED BY <3>1, <3>3, <3>4 DEF HeapInv
  <2> QED BY <2>1, <2>2, <2>3 DEF Insert
<1>3. CASE UpStep
  BY <1>3, HeapUpStep
<1>4. CASE UpEnd
  BY <1>4, HeapUpEnd
<1>5. CASE Update
  BY <1>5, HeapUpdate
<1>6. CASE DownStep
  BY <1>6, HeapDownStep
<1>7. CASE DownEnd
  BY <1>7, HeapDownEnd
<1>8. CASE Purge
  <2>1. pc = "idle" /\ pc' = "idle" /\ heap_size' = 1
    BY <1>8 DEF Purge, loop
  <2>2. Live' = {}
    BY <2>1 DEF Live
  <2> QED BY <2>1, <2>2 DEF HeapInv
<1>9. CASE Clock \/ UNCHANGED vars
  BY <1>9, <1>1 DEF Clock, vars, heap, loop
<1> QED BY <1>2, <1>3, <1>4, <1>5, <1>6, <1>7, <1>8, <1>9 DEF Next

-----------------------------------------------------------------------------
(***************************************************************************)
(* The invariant and what follows from it                                  *)
(***************************************************************************)
\* The queue starts empty, with nothing to pay for.
LEMMA InitQueue == Init => QueueInv
<1> SUFFICES ASSUME Init PROVE QueueInv
  OBVIOUS
<1>1. TypeOK
  <2>1. 1 \in Indices /\ NoItem \in Entry /\ PosMax \in 0 .. PosMax
    BY QueueAssumption DEF Indices, Entry
  <2>2. heap_capacity \in Int /\ sent \in Seq(Sent) /\ 0 \in 0 .. MaxInserts
    BY QueueAssumption DEF Init
  <2> QED BY <2>1, <2>2 DEF Init, TypeOK
<1>2. SizeInv
  BY QueueAssumption DEF Init, SizeInv, InBounds
<1>3. FloodInv
  BY DEF Init, FloodInv, FloodBound
<1>4. Live = {}
  BY DEF Init, Live
<1>5. ItemsInv /\ HeapInv
  BY <1>4 DEF Init, ItemsInv, HeapInv
<1> QED BY <1>1, <1>2, <1>3, <1>5 DEF QueueInv

\* Every step keeps the invariant.
LEMMA NextQueue == QueueInv /\ [Next]_vars => QueueInv'
<1> SUFFICES ASSUME QueueInv, [Next]_vars PROVE QueueInv'
  OBVIOUS
<1>1. TypeOK /\ SizeInv /\ FloodInv /\ ItemsInv /\ HeapInv
  BY DEF QueueInv
<1>2. TypeOK' /\ SizeInv'
  BY <1>1, TypeStep
<1>3. ItemsInv'
  BY <1>1, <1>2, ItemsStep
<1>4. HeapInv'
  BY <1>1, <1>2, HeapStep
<1>5. FloodInv'
  <2>1. buf.d.id \in Ids \/ pc # "down"
    BY <1>1 DEF ItemsInv, Queued, Item, Message
  <2> QED BY <1>1, <1>2, <2>1, FloodStep
<1> QED BY <1>2, <1>3, <1>4, <1>5 DEF QueueInv

\* The queue is a heap of distinct messages, inside its array, whose timer is
\* what the messages sent have cost, before and after every step of the loops.
THEOREM QueueInvariance == Spec => []QueueInv
BY InitQueue, NextQueue, PTL DEF Spec

\* enqueue() writes inside the array, however often it has grown (irc_queue.c).
THEOREM WritesInBounds == Spec => []InBounds
<1>1. QueueInv => InBounds
  BY DEF QueueInv, SizeInv
<1> QED BY <1>1, QueueInvariance, PTL

\* No server sees more messages than RFC 2813 allows, whatever the clock does.
THEOREM FloodControl == Spec => []FloodBound
<1>1. QueueInv => FloodBound
  BY DEF QueueInv, FloodInv
<1> QED BY <1>1, QueueInvariance, PTL

\* The queue is never held back without messages that have to be paid for.
THEOREM HeldBackForAReason == Spec => []NoNeedlessDelay
<1>1. QueueInv => NoNeedlessDelay
  <2> SUFFICES ASSUME QueueInv, pc = "idle", ~GateOpen
               PROVE  \E i \in DOMAIN sent : Cost(i) >= now + 10
    BY DEF NoNeedlessDelay
  <2>1. timer \in Nat /\ now \in Nat /\ sent \in Seq(Sent) /\ Times \subseteq Nat
    BY QueueAssumption DEF QueueInv, TypeOK
  <2>2. timer >= now + 10
    BY <2>1 DEF GateOpen, Later
  <2>3. PICK i \in DOMAIN sent : Cost(i) + Owed >= timer
    BY <2>1, <2>2 DEF QueueInv, FloodInv
  <2>4. Cost(i) \in Int
    <3>1. i \in 1 .. Len(sent) /\ sent[i] \in Sent /\ Len(sent) \in Nat
      BY <2>1
    <3>2. sent[i].at \in Nat
      BY <2>1, <3>1 DEF Sent
    <3> QED BY <2>1, <3>1, <3>2 DEF Cost
  <2>5. Owed = 0
    BY DEF Owed
  <2> QED BY <2>1, <2>2, <2>3, <2>4, <2>5
<1> QED BY <1>1, QueueInvariance, PTL

-----------------------------------------------------------------------------
(***************************************************************************)
(* The queue implements PriorityQueue                                      *)
(***************************************************************************)
\* The numbers p are in the order in which messages have to leave.
LEMMA GreaterIsBefore ==
  ASSUME heap_position \in 0 .. PosMax, NEW e, NEW f, Queued(e), Queued(f), InOrder(e, f), e.p >= f.p
  PROVE  Abstract!Before(e.d, f.d)
<1> DEFINE W == PosMax + 1
<1>1. W \in Nat /\ W > 0
  BY QueueAssumption
<1>2. PICK a, b, x, y : a = e.d.prio /\ b = f.d.prio /\ x = Position(e) /\ y = Position(f)
  OBVIOUS
<1>3. a \in {1, 2, 3, 4, 5, 6, 7, 8} /\ b \in {1, 2, 3, 4, 5, 6, 7, 8}
  BY <1>2 DEF Queued, Item, Message
<1>4. /\ e.p \in Int /\ f.p \in Int /\ x \in Int /\ y \in Int
      /\ 0 <= x /\ x < W /\ 0 <= y /\ y < W
  BY <1>1, <1>2, QueueAssumption DEF Queued, Item
<1>5. x = e.p - (a - 1) * W /\ y = f.p - (b - 1) * W
  BY <1>2 DEF Position
<1> HIDE DEF W
<1>6. (a - 1) * W + x >= (b - 1) * W + y
  BY <1>1, <1>3, <1>4, <1>5
<1>7. a >= b
  BY <1>1, <1>3, <1>4, <1>6
<1>8. CASE a > b
  BY <1>2, <1>8 DEF Abstract!Before
<1>9. CASE a = b
  <2>1. x >= y
    BY <1>1, <1>3, <1>4, <1>6, <1>9
  <2>2. e.d.id < f.d.id
    BY <1>2, <1>4, <2>1 DEF InOrder
  <2> QED BY <1>2, <1>9, <2>2 DEF Abstract!Before
<1> QED BY <1>3, <1>7, <1>8, <1>9

Out == [i \in DOMAIN sent |-> sent[i].id]

\* A message sent is the last one of the abstract output.
LEMMA OutAppended ==
  ASSUME TypeOK, NEW id \in Ids, NEW queued \in BOOLEAN, Transmit(id, queued)
  PROVE  Out' = Append(Out, id)
<1>1. PICK n : n = Len(sent) + 1
  OBVIOUS
<1>2. sent \in Seq(Sent) /\ Len(sent) = n - 1 /\ n \in Nat /\ DOMAIN sent = 1 .. n - 1
  BY <1>1 DEF TypeOK
<1> DEFINE new == [id |-> id, at |-> now, queued |-> queued]
<1>3. new \in Sent
  <2>1. now \in Times
    BY DEF TypeOK
  <2> QED BY <2>1 DEF Sent
<1>4. sent' = Append(sent, new)
  BY DEF Transmit
<1>5. /\ DOMAIN sent' = 1 .. n
      /\ \A i \in 1 .. n - 1 : sent'[i] = sent[i]
      /\ sent'[n] = new
  <2> HIDE DEF new
  <2> QED BY <1>1, <1>2, <1>3, <1>4, AppendProperties
<1>6. Out \in Seq(Ids) /\ Len(Out) = n - 1
  <2>1. \A i \in 1 .. n - 1 : sent[i] \in Sent
    BY <1>2
  <2>2. \A i \in 1 .. n - 1 : sent[i].id \in Ids
    BY <2>1 DEF Sent
  <2>3. Out \in [1 .. n - 1 -> Ids]
    BY <1>2, <2>2 DEF Out
  <2> QED BY <1>2, <2>3
<1>7. Append(Out, id) = [i \in 1 .. n |-> IF i = n THEN id ELSE Out[i]]
  <2>1. PICK o : o = Out
    OBVIOUS
  <2>2. o \in Seq(Ids) /\ Len(o) = n - 1
    BY <1>6, <2>1
  <2>3. PICK a : a = Append(o, id)
    OBVIOUS
  <2>4. /\ a \in Seq(Ids) /\ Len(a) = n
        /\ \A i \in 1 .. n - 1 : a[i] = o[i]
        /\ a[n] = id
    BY <1>2, <2>2, <2>3, AppendProperties
  <2>5. \A i \in 1 .. n : a[i] = IF i = n THEN id ELSE o[i]
    <3>1. \A i \in 1 .. n : i # n => i \in 1 .. n - 1
      BY <1>2
    <3> QED BY <2>4, <3>1
  <2>6. a = [i \in 1 .. n |-> a[i]]
    BY <2>4
  <2> QED BY <2>1, <2>3, <2>5, <2>6
<1>8. \A i \in 1 .. n : sent'[i].id = IF i = n THEN id ELSE Out[i]
  <2>1. sent'[n].id = id
    BY <1>5
  <2>2. \A i \in 1 .. n : i # n => i \in 1 .. n - 1
    BY <1>2
  <2>3. \A i \in 1 .. n - 1 : Out[i] = sent[i].id
    BY <1>2 DEF Out
  <2> QED BY <1>5, <2>1, <2>2, <2>3
<1>9. Out' = [i \in 1 .. n |-> sent'[i].id]
  BY <1>5 DEF Out
<1> QED BY <1>7, <1>8, <1>9

\* What leaves is the message that comes before all others that wait.
LEMMA SendImplemented ==
  ASSUME QueueInv, TypeOK', DownEnd
  PROVE  Abstract!Send
<1>1. /\ pc = "down" /\ pc' = "idle" /\ buf \in Item /\ buf.d.id \in Ids
      /\ heap_item' = [heap_item EXCEPT ![hole] = node] /\ heap_size' = heap_size
      /\ heap_capacity' = heap_capacity /\ inserted' = inserted
      /\ Transmit(buf.d.id, TRUE)
      /\ hole < heap_size \/ heap_size = 1
  BY DEF QueueInv, DownEnd, LoopUnchanged, ItemsInv, HeapInv, Queued, Item, Message
<1>2. TypeOK /\ heap_position \in 0 .. PosMax /\ hole \in Indices /\ heap_item \in [Indices -> Entry]
  BY DEF QueueInv, TypeOK
<1>3. /\ LiveFacts /\ heap_size \in Nat /\ heap_size >= 1 /\ hole \in Nat /\ hole >= 1
      /\ \A i : i \in Live <=> i \in Nat /\ i >= 1 /\ i < heap_size /\ i # hole
      /\ \A i : i \in Live' <=> i \in Nat /\ i >= 1 /\ i < heap_size
      /\ Live \subseteq Indices
  BY <1>1, <1>2, LiveTypes, LiveTypesNext DEF LiveFacts
<1>4. /\ Queued(buf) /\ Queued(node) /\ \A i \in Live : Queued(heap_item[i])
      /\ \A i \in Live : InOrder(buf, heap_item[i]) /\ buf.p >= heap_item[i].p
      /\ heap_size = 1 => node = buf
      /\ heap_size # 1 => InOrder(buf, node)
      /\ buf.p >= node.p
  <2>1. /\ Queued(buf) /\ Queued(node) /\ \A i \in Live : Queued(heap_item[i])
        /\ \A i \in Live : InOrder(buf, heap_item[i])
        /\ heap_size = 1 => node = buf
        /\ heap_size # 1 => InOrder(node, buf)
    BY <1>1, Zenon DEF QueueInv, ItemsInv
  <2>2. /\ \A i \in Live : buf.p >= heap_item[i].p
        /\ buf.p >= node.p
    BY <1>1, Zenon DEF QueueInv, HeapInv
  <2>3. node \in Item
    BY <2>1 DEF Queued
  <2> QED BY <1>1, <2>1, <2>2, <2>3, InOrderSymmetric
<1>5. Waiting = {heap_item[i].d : i \in Live} \cup {node.d, buf.d}
  BY <1>1 DEF Waiting
<1>6. Waiting' = {heap_item'[i].d : i \in Live'}
  BY <1>1 DEF Waiting
<1>7. Waiting' = Waiting \ {buf.d}
  <2>1. CASE heap_size = 1
    <3>1. (\A i : i \notin Live) /\ (\A i : i \notin Live')
      BY <1>3, <2>1
    <3> QED BY <1>4, <1>5, <1>6, <2>1, <3>1
  <2>2. CASE heap_size # 1
    <3>1. /\ \A i : i \in Live' <=> i \in Live \/ i = hole
          /\ hole \notin Live
      BY <1>1, <1>3, <2>2
    <3>2. heap_item'[hole] = node /\ \A i \in Live : heap_item'[i] = heap_item[i]
      BY <1>1, <1>2, <1>3, <3>1
    <3>3. Waiting' = {heap_item[i].d : i \in Live} \cup {node.d}
      BY <1>6, <3>1, <3>2
    <3>4. buf.d # node.d /\ \A i \in Live : buf.d # heap_item[i].d
      <4>1. \A e \in Item : InOrder(buf, e) => buf.d.id # e.d.id
        BY <1>1 DEF InOrder, Item, Message, Ids
      <4>2. node \in Item /\ \A i \in Live : heap_item[i] \in Item
        BY <1>4 DEF Queued
      <4> QED BY <1>4, <2>2, <4>1, <4>2
    <3> QED BY <1>5, <3>3, <3>4
  <2> QED BY <2>1, <2>2
<1>8. \A m \in Waiting \ {buf.d} : Abstract!Before(buf.d, m)
  <2>1. \A i \in Live : Abstract!Before(buf.d, heap_item[i].d)
    BY <1>2, <1>4, GreaterIsBefore
  <2>2. heap_size # 1 => Abstract!Before(buf.d, node.d)
    BY <1>2, <1>4, GreaterIsBefore
  <2>3. heap_size = 1 => node.d = buf.d
    BY <1>4
  <2> QED BY <1>5, <2>1, <2>2, <2>3
<1>9. Out' = Append(Out, buf.d.id)
  <2>1. PICK id : id = buf.d.id
    OBVIOUS
  <2>2. id \in Ids /\ Transmit(id, TRUE)
    BY <1>1, <2>1
  <2>3. Out' = Append(Out, id)
    BY <1>2, <2>2, OutAppended, Zenon
  <2> QED BY <2>1, <2>3
<1>10. buf.d \in Waiting
  BY <1>5
<1>11. UNCHANGED <<heap_capacity = -1, inserted>>
  BY <1>1
<1> QED BY <1>7, <1>8, <1>9, <1>10, <1>11 DEF Abstract!Send, Out

\* Moving entries about changes nothing for the caller.
LEMMA SameWaiting ==
  ASSUME Waiting' = Waiting, heap_capacity' = heap_capacity,
         inserted' = inserted, sent' = sent
  PROVE  UNCHANGED Abstract!vars
<1>1. Out' = Out
  BY DEF Out
<1> QED BY <1>1 DEF Abstract!vars, Out

\* An insertion is one of PriorityQueue.
LEMMA InsertImplemented ==
  ASSUME QueueInv, TypeOK', NEW prio \in Priorities, Insert(prio)
  PROVE  Abstract!Insert(prio)
<1>0. prio \in Int /\ TypeOK /\ inserted \in Int
  BY QueueAssumption DEF QueueInv, TypeOK
<1> DEFINE m == [id |-> inserted + 1, prio |-> prio]
<1>1. NewMessage
  BY Zenon DEF Insert, InsertUnqueued, InsertDropped, InsertUrgent, InsertQueued
<1>2. pc = "idle" /\ inserted' = inserted + 1
  BY <1>1 DEF NewMessage
<1>3. ASSUME UNCHANGED <<heap, loop>> PROVE Waiting' = Waiting /\ heap_capacity' = heap_capacity
  BY <1>3 DEF Waiting, Live, heap, loop
<1>4. ASSUME NEW queued \in BOOLEAN, Transmit(inserted + 1, queued)
      PROVE  Out' = Append(Out, inserted + 1)
  <2>1. PICK id : id = inserted + 1
    OBVIOUS
  <2>2. id \in Ids
    BY <1>0, <1>1, <2>1, QueueAssumption DEF NewMessage, TypeOK, Ids
  <2>3. Out' = Append(Out, id)
    BY <1>0, <1>4, <2>1, <2>2, OutAppended, Zenon
  <2> QED BY <2>1, <2>3
<1>5. CASE InsertUnqueued(prio)
  <2>1. heap_capacity = -1 /\ UNCHANGED <<heap, loop>> /\ Transmit(inserted + 1, FALSE)
    BY <1>5 DEF InsertUnqueued
  <2>2. Waiting' = Waiting /\ heap_capacity' = heap_capacity /\ Out' = Append(Out, inserted + 1)
    BY <1>3, <1>4, <2>1, Zenon
  <2> QED BY <1>2, <2>1, <2>2 DEF Abstract!Insert, Out
<1>6. CASE InsertDropped(prio)
  <2>1. heap_capacity # -1 /\ prio < 1 /\ UNCHANGED <<heap, loop>> /\ sent' = sent
    BY <1>6 DEF InsertDropped
  <2>2. Waiting' = Waiting /\ heap_capacity' = heap_capacity /\ Out' = Out
    BY <1>3, <2>1 DEF Out
  <2>3. prio \notin 1 .. 8 /\ ~(prio > 8)
    BY <1>0, <2>1
  <2> QED BY <1>2, <2>1, <2>2, <2>3 DEF Abstract!Insert, Out
<1>7. CASE InsertUrgent(prio)
  <2>1. heap_capacity # -1 /\ prio > 8 /\ UNCHANGED <<heap, loop>> /\ Transmit(inserted + 1, FALSE)
    BY <1>7 DEF InsertUrgent
  <2>2. Waiting' = Waiting /\ heap_capacity' = heap_capacity /\ Out' = Append(Out, inserted + 1)
    BY <1>3, <1>4, <2>1, Zenon
  <2>3. prio \notin 1 .. 8
    BY <1>0, <2>1
  <2> QED BY <1>2, <2>1, <2>2, <2>3 DEF Abstract!Insert, Out
<1>8. CASE InsertQueued(prio)
  <2>1. /\ heap_capacity # -1 /\ heap_capacity' # -1 /\ prio \in 1 .. 8
        /\ heap_item' = heap_item /\ heap_size' = heap_size /\ hole' = heap_size
        /\ pc' = "up" /\ node'.d = m /\ sent' = sent
    <3>1. heap_capacity \in Int /\ (heap_capacity # -1 => heap_capacity >= 2)
      BY <1>0 DEF QueueInv, SizeInv, TypeOK
    <3>2. /\ heap_capacity # -1 /\ prio \in 1 .. 8 /\ Grow
          /\ heap_item' = heap_item /\ heap_size' = heap_size /\ hole' = heap_size
          /\ pc' = "up" /\ node'.d = m /\ sent' = sent
      BY <1>8 DEF InsertQueued
    <3>3. heap_capacity' # -1
      BY <3>1, <3>2 DEF Grow
    <3> QED BY <3>2, <3>3
  <2>2. Live' = Live
    <3>1. LiveFacts /\ LiveFacts' /\ heap_size \in Nat
      BY <1>0, LiveTypes, LiveTypesNext DEF LiveFacts
    <3>2. /\ \A i : i \in Live <=> i \in Nat /\ i >= 1 /\ i < heap_size
          /\ \A i : i \in Live' <=> i \in Nat /\ i >= 1 /\ i <= heap_size /\ i # heap_size
      BY <1>2, <2>1, <3>1 DEF LiveFacts
    <3>3. \A i : i \in Live' <=> i \in Live
      BY <3>1, <3>2
    <3>4. Live = 1 .. heap_size - 1 /\ Live' = (1 .. heap_size) \ {heap_size}
      BY <1>2, <2>1 DEF Live
    <3> QED BY <3>1, <3>4
  <2>3. Waiting = {heap_item[i].d : i \in Live}
    BY <1>2 DEF Waiting
  <2>4. Waiting' = {heap_item'[i].d : i \in Live'} \cup {node'.d}
    BY <2>1 DEF Waiting
  <2>5. Waiting' = Waiting \cup {m}
    BY <2>1, <2>2, <2>3, <2>4
  <2>6. Out' = Out /\ ~(prio > 8)
    BY <1>0, <2>1 DEF Out
  <2> QED BY <1>2, <2>1, <2>5, <2>6 DEF Abstract!Insert, Out
<1> QED BY <1>5, <1>6, <1>7, <1>8 DEF Insert

\* The steps of the loops are silent.
LEMMA LoopImplemented ==
  ASSUME QueueInv, TypeOK', UpStep \/ UpEnd \/ Update \/ DownStep
  PROVE  UNCHANGED Abstract!vars
<1>0. TypeOK /\ SizeInv /\ HeapInv /\ heap_item \in [Indices -> Entry] /\ hole \in Indices
  BY DEF QueueInv, TypeOK
<1>1. CASE UpStep
  <2>1. PICK h, q : h = hole /\ q = hole \div 2
    OBVIOUS
  <2>2. /\ q \in Live /\ h \notin Live
        /\ \A i : i \in Live' <=> (i \in Live /\ i # q) \/ i = h
        /\ heap_item'[h] = heap_item[q]
        /\ \A i \in Live' : i # h => heap_item'[i] = heap_item[i]
    BY <1>0, <1>1, <2>1, UpShift
  <2>3. {heap_item'[i].d : i \in Live'} = {heap_item[i].d : i \in Live}
    BY <2>2
  <2>4. /\ pc = "up" /\ pc' = "up" /\ node' = node /\ heap_capacity' = heap_capacity
        /\ inserted' = inserted /\ sent' = sent
    BY <1>1 DEF UpStep, LoopUnchanged
  <2>5. Waiting' = Waiting
    BY <2>3, <2>4 DEF Waiting
  <2> QED BY <2>4, <2>5, SameWaiting
<1>2. CASE UpEnd
  <2>1. /\ pc = "up" /\ pc' = "idle" /\ heap_capacity' = heap_capacity
        /\ inserted' = inserted /\ sent' = sent /\ heap_size' = heap_size + 1
        /\ heap_item' = [heap_item EXCEPT ![hole] = node]
    BY <1>2 DEF UpEnd, LoopUnchanged
  <2>2. Live' = Live \cup {hole} /\ hole \notin Live /\ Live \subseteq Indices
    <3>1. LiveFacts /\ LiveFacts' /\ hole <= heap_size /\ hole \in Nat /\ hole >= 1
      BY <1>0, <2>1, LiveTypes, LiveTypesNext DEF SizeInv, LiveFacts
    <3>2. \A i : i \in Live <=> i \in Nat /\ i >= 1 /\ i <= heap_size /\ i # hole
      BY <2>1, <3>1 DEF LiveFacts
    <3>3. \A i : i \in Live' <=> i \in Nat /\ i >= 1 /\ i <= heap_size
      BY <2>1, <3>1 DEF LiveFacts
    <3> QED BY <3>1, <3>2, <3>3 DEF LiveFacts
  <2>3. heap_item'[hole] = node /\ \A i \in Live : heap_item'[i] = heap_item[i]
    BY <1>0, <2>1, <2>2
  <2>4. Waiting = {heap_item[i].d : i \in Live} \cup {node.d}
    BY <2>1 DEF Waiting
  <2>5. Waiting' = {heap_item'[i].d : i \in Live'}
    BY <2>1 DEF Waiting
  <2>6. Waiting' = Waiting
    BY <2>2, <2>3, <2>4, <2>5
  <2> QED BY <2>1, <2>6, SameWaiting
<1>3. CASE Update
  <2>1. /\ pc = "idle" /\ pc' = "down" /\ heap_capacity' = heap_capacity
        /\ inserted' = inserted /\ sent' = sent /\ heap_size' = heap_size - 1
        /\ heap_item' = heap_item /\ hole' = 1 /\ heap_size # 1
        /\ buf' = heap_item[1] /\ node' = heap_item[heap_size - 1]
    BY <1>3 DEF Update, LoopUnchanged
  <2>2. /\ heap_size \in Nat /\ heap_size >= 2
        /\ \A i : i \in Live <=> i \in Nat /\ i >= 1 /\ i < heap_size
        /\ \A i : i \in Live' <=> i \in Nat /\ i >= 1 /\ i < heap_size - 1 /\ i # 1
    BY <1>0, <2>1, LiveTypes, LiveTypesNext DEF LiveFacts
  <2>3. \A i : i \in Live <=> i \in Live' \/ i = 1 \/ i = heap_size - 1
    BY <2>2
  <2>4. Waiting = {heap_item[i].d : i \in Live}
    BY <2>1 DEF Waiting
  <2>5. Waiting' = {heap_item[i].d : i \in Live'} \cup {node'.d, buf'.d}
    BY <2>1 DEF Waiting
  <2>6. Waiting' = Waiting
    BY <2>1, <2>3, <2>4, <2>5
  <2> QED BY <2>1, <2>6, SameWaiting
<1>4. CASE DownStep
  <2>1. PICK h, c : h = hole /\ c = Child
    OBVIOUS
  <2>2. /\ c \in Live /\ h \notin Live
        /\ \A i : i \in Live' <=> (i \in Live /\ i # c) \/ i = h
        /\ heap_item'[h] = heap_item[c]
        /\ \A i \in Live' : i # h => heap_item'[i] = heap_item[i]
    BY <1>0, <1>4, <2>1, DownShift
  <2>3. {heap_item'[i].d : i \in Live'} = {heap_item[i].d : i \in Live}
    BY <2>2
  <2>4. /\ pc = "down" /\ pc' = "down" /\ node' = node /\ buf' = buf
        /\ heap_capacity' = heap_capacity /\ inserted' = inserted /\ sent' = sent
    BY <1>4 DEF DownStep, LoopUnchanged
  <2>5. Waiting' = Waiting
    BY <2>3, <2>4 DEF Waiting
  <2> QED BY <2>4, <2>5, SameWaiting
<1> QED BY <1>1, <1>2, <1>3, <1>4

\* The binary heap with its flood control is a priority queue that is fair to
\* messages of equal priority (the head of irc_queue.c), for any number of
\* insertions the positions allow and any priorities the callers use.
THEOREM ImplementsPriorityQueue == Spec => RefinesPriorityQueue
<1>1. Init => Abstract!Init
  <2> SUFFICES ASSUME Init PROVE Abstract!Init
    OBVIOUS
  <2>1. Waiting = {}
    BY DEF Init, Waiting, Live
  <2>2. Out = <<>>
    BY DEF Init, Out
  <2> QED BY <2>1, <2>2 DEF Init, Abstract!Init, Out
<1>2. QueueInv /\ QueueInv' /\ [Next]_vars => [Abstract!Next]_(Abstract!vars)
  <2> SUFFICES ASSUME QueueInv, QueueInv', [Next]_vars
               PROVE  Abstract!Next \/ UNCHANGED Abstract!vars
    OBVIOUS
  <2>1. TypeOK'
    BY DEF QueueInv
  <2>2. CASE \E prio \in Priorities : Insert(prio)
    BY <2>1, <2>2, InsertImplemented DEF Abstract!Next
  <2>3. CASE UpStep \/ UpEnd \/ Update \/ DownStep
    BY <2>1, <2>3, LoopImplemented
  <2>4. CASE DownEnd
    BY <2>1, <2>4, SendImplemented DEF Abstract!Next
  <2>5. CASE Purge
    <3>1. /\ pc = "idle" /\ pc' = "idle" /\ heap_size' = 1 /\ heap_capacity' = heap_capacity
          /\ inserted' = inserted /\ sent' = sent
      BY <2>5 DEF Purge, loop
    <3>2. Waiting' = {}
      BY <3>1 DEF Waiting, Live
    <3>3. Out' = Out
      BY <3>1 DEF Out
    <3> QED BY <3>1, <3>2, <3>3 DEF Abstract!Next, Abstract!Purge, Out
  <2>6. CASE Clock \/ UNCHANGED vars
    <3>1. /\ UNCHANGED <<heap_item, heap_size, pc, hole, node, buf>>
          /\ UNCHANGED <<heap_capacity, inserted, sent>>
      BY <2>6 DEF Clock, vars, heap, loop
    <3>2. Waiting' = Waiting
      BY <3>1 DEF Waiting, Live
    <3> QED BY <3>1, <3>2, SameWaiting
  <2> QED BY <2>2, <2>3, <2>4, <2>5, <2>6 DEF Next
<1> QED BY <1>1, <1>2, QueueInvariance, PTL DEF Spec, RefinesPriorityQueue, Abstract!Spec
=============================================================================
