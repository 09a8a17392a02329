--------------------------- MODULE IrcChannelProofs ---------------------------
(***************************************************************************)
(* Proofs about IrcChannel, for any set of channels, any size of the       *)
(* table, any delays and any number of commands and faults.                *)
(***************************************************************************)
EXTENDS IrcChannel, FiniteSetTheorems, TLAPS

-----------------------------------------------------------------------------
(***************************************************************************)
(* The table                                                               *)
(***************************************************************************)

\* A table that can hold all channels is never full.
LEMMA RoomForAll ==
  ASSUME TypeOK, Cardinality(Chans) <= MaxTracked, NEW c \in Chans
  PROVE  Room(c)
<1> DEFINE T == {d \in Chans : Tracked(d)}
<1> SUFFICES ASSUME ~Tracked(c) PROVE Cardinality(T) < MaxTracked
  BY DEF Room
<1>1. IsFiniteSet(Chans) /\ MaxTracked \in Nat
  BY ChannelAssumption
<1>2. T \in SUBSET Chans /\ T # Chans
  OBVIOUS
<1>3. /\ Cardinality(T) <= Cardinality(Chans)
      /\ Cardinality(T) = Cardinality(Chans) => Chans = T
      /\ IsFiniteSet(T)
  BY <1>1, <1>2, FS_Subset
<1>4. Cardinality(T) \in Nat /\ Cardinality(Chans) \in Nat
  BY <1>1, <1>3, FS_CardinalityType
<1> HIDE DEF T
<1> QED BY <1>1, <1>2, <1>3, <1>4

Fits(st) == Cardinality({d \in Chans : st[d] # "none"}) <= MaxTracked

\* A channel gets a state only when the table has room for it.
LEMMA SetFits ==
  ASSUME TypeOK, NEW c \in Chans, Room(c), NEW s \in Status
  PROVE  Fits([status EXCEPT ![c] = s])
<1> DEFINE T == {d \in Chans : status[d] # "none"}
           U == {d \in Chans : [status EXCEPT ![c] = s][d] # "none"}
<1>0. IsFiniteSet(Chans) /\ MaxTracked \in Nat
  BY ChannelAssumption
<1>1. T \in SUBSET Chans /\ U \in SUBSET (T \cup {c})
  BY DEF TypeOK
<1>2. IsFiniteSet(T) /\ Cardinality(T) \in Nat
  BY <1>0, <1>1, FS_Subset, FS_CardinalityType
<1>3. /\ IsFiniteSet(T \cup {c})
      /\ Cardinality(T \cup {c}) = IF c \in T THEN Cardinality(T) ELSE Cardinality(T) + 1
  BY <1>2, FS_AddElement
<1>4. IsFiniteSet(U) /\ Cardinality(U) <= Cardinality(T \cup {c})
  BY <1>1, <1>3, FS_Subset
<1>5. Cardinality(U) \in Nat
  BY <1>4, FS_CardinalityType
<1>6. Cardinality(T) <= MaxTracked /\ (c \notin T => Cardinality(T) < MaxTracked)
  BY DEF TypeOK, Room, Tracked
<1> SUFFICES Cardinality(U) <= MaxTracked
  BY DEF Fits
<1> HIDE DEF T, U
<1> QED BY <1>0, <1>2, <1>3, <1>4, <1>5, <1>6

\* Fewer channels fit too.
LEMMA FewerFit ==
  ASSUME TypeOK, NEW st, \A d \in Chans : st[d] # "none" => Tracked(d)
  PROVE  Fits(st)
<1> DEFINE T == {d \in Chans : Tracked(d)}
           U == {d \in Chans : st[d] # "none"}
<1>0. IsFiniteSet(Chans) /\ MaxTracked \in Nat
  BY ChannelAssumption
<1>1. T \in SUBSET Chans /\ U \in SUBSET T
  OBVIOUS
<1>2. IsFiniteSet(T) /\ Cardinality(T) \in Nat
  BY <1>0, <1>1, FS_Subset, FS_CardinalityType
<1>3. IsFiniteSet(U) /\ Cardinality(U) <= Cardinality(T)
  BY <1>1, <1>2, FS_Subset
<1>4. Cardinality(U) \in Nat /\ Cardinality(T) <= MaxTracked
  BY <1>3, FS_CardinalityType DEF TypeOK
<1> SUFFICES Cardinality(U) <= MaxTracked
  BY DEF Fits
<1> HIDE DEF T, U
<1> QED BY <1>0, <1>2, <1>3, <1>4

-----------------------------------------------------------------------------
(***************************************************************************)
(* Messages underway                                                       *)
(***************************************************************************)

\* What a sequence says when a message is added.
LEMMA AppendSays ==
  ASSUME NEW q \in Seq(Messages), NEW m \in Messages, NEW c,
         NEW r, r = Append(q, m)
  PROVE  /\ r \in Seq(Messages)
         /\ SaysIn(r, c) <=> SaysIn(q, c) \/ m = <<"JOIN", c>>
         /\ m \in {<<"KICK", c>>, <<"REFUSED", c>>} => SaysOut(r, c)
         /\ SaysOut(q, c) /\ m # <<"JOIN", c>> => SaysOut(r, c)
<1>1. PICK n : n = Len(q)
  OBVIOUS
<1>2. /\ r \in Seq(Messages)
      /\ n \in Nat
      /\ DOMAIN q = 1 .. n
      /\ DOMAIN r = 1 .. n + 1
      /\ \A i \in 1 .. n : r[i] = q[i]
      /\ r[n + 1] = m
  BY <1>1
<1>3. SaysIn(q, c) => SaysIn(r, c)
  BY <1>2 DEF SaysIn
<1>4. m = <<"JOIN", c>> => SaysIn(r, c)
  BY <1>2 DEF SaysIn
<1>5. ASSUME SaysIn(r, c) PROVE SaysIn(q, c) \/ m = <<"JOIN", c>>
  <2>1. PICK i \in DOMAIN r : r[i] = <<"JOIN", c>>
    BY <1>5 DEF SaysIn
  <2>2. CASE i = n + 1
    BY <1>2, <2>1, <2>2
  <2>3. CASE i # n + 1
    <3>1. i \in DOMAIN q /\ r[i] = q[i]
      BY <1>2, <2>1, <2>3
    <3> QED BY <2>1, <3>1, Zenon DEF SaysIn
  <2> QED BY <2>2, <2>3
<1>6. m \in {<<"KICK", c>>, <<"REFUSED", c>>} => SaysOut(r, c)
  BY <1>2 DEF SaysOut
<1>7. ASSUME SaysOut(q, c), m # <<"JOIN", c>> PROVE SaysOut(r, c)
  <2>1. PICK i \in DOMAIN q : /\ q[i] \in {<<"KICK", c>>, <<"REFUSED", c>>}
                              /\ \A j \in DOMAIN q : i < j => q[j] # <<"JOIN", c>>
    BY <1>7 DEF SaysOut
  <2>2. i \in DOMAIN r /\ r[i] = q[i]
    BY <1>2, <2>1
  <2>3. ASSUME NEW j \in DOMAIN r, i < j PROVE r[j] # <<"JOIN", c>>
    <3>1. CASE j = n + 1
      BY <1>2, <1>7, <3>1
    <3>2. CASE j # n + 1
      <4>1. j \in DOMAIN q /\ r[j] = q[j]
        BY <1>2, <2>3, <3>2
      <4> QED BY <2>1, <2>3, <4>1
    <3> QED BY <3>1, <3>2
  <2> QED BY <2>1, <2>2, <2>3 DEF SaysOut
<1>8. r \in Seq(Messages)
  BY <1>2
<1>9. SaysIn(r, c) <=> SaysIn(q, c) \/ m = <<"JOIN", c>>
  BY <1>3, <1>4, <1>5
<1> QED BY <1>6, <1>7, <1>8, <1>9

\* What it says when the first message has been read.
LEMMA TailSays ==
  ASSUME NEW q \in Seq(Messages), q # <<>>, NEW c,
         NEW r, r = Tail(q), NEW h, h = Head(q)
  PROVE  /\ r \in Seq(Messages) /\ h \in Messages
         /\ SaysIn(r, c) => SaysIn(q, c)
         /\ SaysIn(q, c) /\ h # <<"JOIN", c>> => SaysIn(r, c)
         /\ SaysOut(q, c) /\ h \notin {<<"KICK", c>>, <<"REFUSED", c>>} => SaysOut(r, c)
         /\ SaysOut(q, c) /\ SaysIn(r, c) => SaysOut(r, c)
<1>1. PICK n : n = Len(q)
  OBVIOUS
<1>2. /\ r \in Seq(Messages)
      /\ n \in Nat \ {0}
      /\ DOMAIN q = 1 .. n
      /\ DOMAIN r = 1 .. n - 1
      /\ \A i \in 1 .. n - 1 : r[i] = q[i + 1]
      /\ h = q[1] /\ h \in Messages
  BY <1>1
<1>3. \A i \in 2 .. n : i - 1 \in 1 .. n - 1 /\ r[i - 1] = q[i]
  BY <1>2
<1>4. ASSUME SaysIn(r, c) PROVE SaysIn(q, c)
  <2>1. PICK i \in DOMAIN r : r[i] = <<"JOIN", c>>
    BY <1>4 DEF SaysIn
  <2>2. i + 1 \in DOMAIN q /\ q[i + 1] = r[i]
    BY <1>2, <2>1
  <2> QED BY <2>1, <2>2, Zenon DEF SaysIn
<1>5. ASSUME SaysIn(q, c), h # <<"JOIN", c>> PROVE SaysIn(r, c)
  <2>1. PICK i \in DOMAIN q : q[i] = <<"JOIN", c>>
    BY <1>5 DEF SaysIn
  <2>2. i \in 2 .. n
    BY <1>2, <1>5, <2>1
  <2>3. i - 1 \in DOMAIN r /\ r[i - 1] = q[i]
    BY <1>2, <1>3, <2>2
  <2> QED BY <2>1, <2>3, Zenon DEF SaysIn
<1>6. ASSUME NEW i \in 2 .. n, q[i] \in {<<"KICK", c>>, <<"REFUSED", c>>},
             \A j \in DOMAIN q : i < j => q[j] # <<"JOIN", c>>
      PROVE  SaysOut(r, c)
  <2>1. i - 1 \in DOMAIN r /\ r[i - 1] \in {<<"KICK", c>>, <<"REFUSED", c>>}
    BY <1>2, <1>3, <1>6
  <2>2. \A j \in DOMAIN r : i - 1 < j => r[j] # <<"JOIN", c>>
    BY <1>2, <1>6
  <2> QED BY <2>1, <2>2 DEF SaysOut
<1>7. SaysOut(q, c) /\ h \notin {<<"KICK", c>>, <<"REFUSED", c>>} => SaysOut(r, c)
  <2> SUFFICES ASSUME SaysOut(q, c), h \notin {<<"KICK", c>>, <<"REFUSED", c>>}
               PROVE  SaysOut(r, c)
    OBVIOUS
  <2>1. PICK i \in DOMAIN q : /\ q[i] \in {<<"KICK", c>>, <<"REFUSED", c>>}
                              /\ \A j \in DOMAIN q : i < j => q[j] # <<"JOIN", c>>
    BY DEF SaysOut
  <2>2. i \in 2 .. n
    BY <1>2, <2>1
  <2> QED BY <1>6, <2>1, <2>2
<1>8. SaysOut(q, c) /\ SaysIn(r, c) => SaysOut(r, c)
  <2> SUFFICES ASSUME SaysOut(q, c), SaysIn(r, c)
               PROVE  SaysOut(r, c)
    OBVIOUS
  <2>1. PICK i \in DOMAIN q : /\ q[i] \in {<<"KICK", c>>, <<"REFUSED", c>>}
                              /\ \A j \in DOMAIN q : i < j => q[j] # <<"JOIN", c>>
    BY DEF SaysOut
  <2>2. PICK k \in DOMAIN r : r[k] = <<"JOIN", c>>
    BY DEF SaysIn
  <2>3. k + 1 \in DOMAIN q /\ q[k + 1] = <<"JOIN", c>>
    BY <1>2, <2>2
  <2>4. i \in 2 .. n
    BY <1>2, <2>1, <2>2, <2>3
  <2> QED BY <1>6, <2>1, <2>4
<1> QED BY <1>2, <1>4, <1>5, <1>7, <1>8, Zenon

-----------------------------------------------------------------------------
(***************************************************************************)
(* Types                                                                   *)
(***************************************************************************)

\* The table of states after a channel may have got another.
TableStep(c, new) ==
  /\ status' \in [Chans -> Status] /\ Fits(status')
  /\ age' = age /\ key' = key
  /\ \A d \in Chans : Tracked(d) => status'[d] # "none"
  /\ \A d \in Chans : d # c => status'[d] = status[d]
  /\ status'[c] = new \/ (~Room(c) /\ status'[c] = "none")

\* A state that is set is a state, and fits; a channel is not taken out.
LEMMA SetStatusStep ==
  ASSUME TypeOK, NEW c \in Chans, NEW s \in Status \ {"none"}, SetStatus(c, s)
  PROVE  TableStep(c, s)
<1>1. age' = age /\ key' = key
  BY DEF SetStatus
<1>2. CASE Room(c)
  <2>1. status' = [status EXCEPT ![c] = s]
    BY <1>2 DEF SetStatus
  <2>2. Fits(status')
    BY <1>2, <2>1, SetFits
  <2>3. status' \in [Chans -> Status]
    BY <2>1 DEF TypeOK
  <2>4. status'[c] = s /\ \A d \in Chans : d # c => status'[d] = status[d]
    BY <2>1 DEF TypeOK
  <2>5. \A d \in Chans : Tracked(d) => status'[d] # "none"
    BY <2>4 DEF Tracked
  <2>6. status'[c] = s \/ (~Room(c) /\ status'[c] = "none")
    BY <2>4
  <2>7. \A d \in Chans : d # c => status'[d] = status[d]
    BY <2>4
  <2>8. age' = age /\ key' = key
    BY <1>1
  <2>9. /\ status' \in [Chans -> Status] /\ Fits(status')
    BY <2>2, <2>3
  <2> QED BY <2>5, <2>6, <2>7, <2>8, <2>9 DEF TableStep
<1>3. CASE ~Room(c)
  <2>1. status' = status
    BY <1>3 DEF SetStatus
  <2>2. Fits(status)
    BY FewerFit DEF Tracked
  <2>3. Fits(status')
    BY <2>1, <2>2
  <2>4. status[c] = "none"
    BY <1>3 DEF Room, Tracked
  <2> QED BY <1>1, <1>3, <2>1, <2>3, <2>4 DEF TypeOK, Tracked, TableStep
<1> QED BY <1>2, <1>3

\* The handlers: the message read, and the state it gives.
Handled(c, m, new) ==
  \/ m = <<"JOIN", c>> /\ new = "ok"
  \/ m = <<"KICK", c>> /\ new = "rejoin"
  \/ m = <<"REFUSED", c>> /\ new = "fail"
  \/ m = <<"PART", c>> /\ new = status[c]
LEMMA HandlerStep ==
  ASSUME TypeOK, Handle
  PROVE  \E c \in Chans, m \in Messages, new \in Status :
           /\ Handled(c, m, new)
           /\ TableStep(c, new)
           /\ inbox # <<>> /\ m = Head(inbox) /\ inbox' = Tail(inbox)
           /\ pc = "read" /\ pc' = "timer"
           /\ UNCHANGED <<quit, out, in, want, joins, parts, faults>>
           /\ refused' \in [Chans -> BOOLEAN]
<1>1. PICK c \in Chans :
        HandleJoin(c) \/ HandleKick(c) \/ HandlePart(c) \/ HandleJoinFailure(c)
  BY DEF Handle
<1>2. {"ok", "rejoin", "fail"} \subseteq Status \ {"none"}
  BY DEF Status
<1>3. {<<"JOIN", c>>, <<"KICK", c>>, <<"REFUSED", c>>, <<"PART", c>>} \subseteq Messages
  BY DEF Messages
<1>4. CASE HandleJoin(c)
  <2>1. TableStep(c, "ok")
    BY <1>2, <1>4, SetStatusStep DEF HandleJoin
  <2> QED BY <1>2, <1>3, <1>4, <2>1 DEF HandleJoin, Read, Handled, TypeOK
<1>5. CASE HandleKick(c)
  <2>1. TableStep(c, "rejoin")
    BY <1>2, <1>5, SetStatusStep DEF HandleKick
  <2> QED BY <1>2, <1>3, <1>5, <2>1 DEF HandleKick, Read, Handled, TypeOK
<1>6. CASE HandleJoinFailure(c)
  <2>1. TableStep(c, "fail")
    BY <1>2, <1>6, SetStatusStep DEF HandleJoinFailure
  <2>2. refused' \in [Chans -> BOOLEAN]
    <3>1. refused \in [Chans -> BOOLEAN]
      BY DEF TypeOK
    <3>2. PICK b : b = (refused[c] \/ status[c] = "join")
      OBVIOUS
    <3>3. b \in BOOLEAN
      BY <3>2
    <3>4. refused' = [refused EXCEPT ![c] = b]
      BY <1>6, <3>2 DEF HandleJoinFailure, Refusal
    <3> QED BY <3>1, <3>3, <3>4
  <2> QED BY <1>2, <1>3, <1>6, <2>1, <2>2 DEF HandleJoinFailure, Refusal, Read, Handled
<1>7. CASE HandlePart(c)
  <2>1. status' = status /\ age' = age /\ key' = key
    BY <1>7 DEF HandlePart, table
  <2>2. Fits(status)
    BY FewerFit DEF Tracked
  <2>3. Fits(status')
    BY <2>1, <2>2
  <2>4. TableStep(c, status[c]) /\ status[c] \in Status
    BY <2>1, <2>3 DEF TypeOK, Tracked, TableStep
  <2>5. Handled(c, <<"PART", c>>, status[c])
    BY DEF Handled
  <2>6. /\ inbox # <<>> /\ Head(inbox) = <<"PART", c>> /\ inbox' = Tail(inbox)
        /\ pc = "read" /\ pc' = "timer"
        /\ UNCHANGED <<quit, out, in, want, joins, parts, faults>>
        /\ refused' \in [Chans -> BOOLEAN]
    BY <1>7 DEF HandlePart, Read, TypeOK
  <2> QED BY <1>3, <2>4, <2>5, <2>6
<1> QED BY <1>1, <1>4, <1>5, <1>6, <1>7

\* Every step preserves the types.
LEMMA TypeStep ==
  ASSUME TypeOK, [Next]_vars
  PROVE  TypeOK'
<1>0. /\ MaxTracked \in Nat /\ InitialDelay \in Nat /\ Never \in Nat
      /\ MaxQueued \in Nat /\ MaxQueued > 0
      /\ MaxJoins \in Nat /\ MaxParts \in Nat /\ MaxFaults \in Nat
  BY ChannelAssumption DEF Never
<1>1. Fits(status)
  BY FewerFit DEF Tracked
<1>2. SUFFICES /\ pc' \in {"read", "timer", "join", "send"}
               /\ quit' \in BOOLEAN
               /\ status' \in [Chans -> Status] /\ Fits(status')
               /\ age' \in [Chans -> 0 .. Never]
               /\ key' \in [Chans -> Keys]
               /\ out' \in [Chans -> [{"JOIN", "PART"} -> 0 .. MaxQueued]]
               /\ inbox' \in Seq(Messages)
               /\ in' \in SUBSET Chans
               /\ want' \in [Chans -> BOOLEAN]
               /\ refused' \in [Chans -> BOOLEAN]
               /\ joins' \in 0 .. MaxJoins /\ parts' \in 0 .. MaxParts
               /\ faults' \in 0 .. MaxFaults
  BY DEF TypeOK, Fits, Tracked
<1>3. CASE Handle
  <2>1. PICK c \in Chans, new \in Status :
          /\ TableStep(c, new)
          /\ inbox # <<>> /\ inbox' = Tail(inbox)
          /\ pc' = "timer"
          /\ UNCHANGED <<quit, out, in, want, joins, parts, faults>>
          /\ refused' \in [Chans -> BOOLEAN]
    BY <1>3, HandlerStep
  <2>2. inbox' \in Seq(Messages)
    BY <2>1 DEF TypeOK
  <2> QED BY <2>1, <2>2 DEF TableStep, TypeOK
<1>4. CASE HandleError
  <2>1. inbox' \in Seq(Messages)
    BY <1>4 DEF HandleError, TypeOK
  <2> QED BY <1>1, <1>4, <2>1 DEF HandleError, table, history, TypeOK
<1>5. CASE ReadNothing \/ TimerDone \/ LoopEnd
  BY <1>1, <1>5 DEF ReadNothing, TimerDone, LoopEnd, table, server, history, TypeOK
<1>6. CASE ChanJoin
  <2>1. \A d \in Chans : status'[d] # "none" => Tracked(d)
    BY <1>6 DEF ChanJoin, Tracked
  <2>2. Fits(status')
    <3>1. PICK st : st = status'
      OBVIOUS
    <3> QED BY <2>1, <3>1, FewerFit
  <2>3. status' \in [Chans -> Status]
    BY <1>6 DEF ChanJoin, TypeOK, Status
  <2>4. age' \in [Chans -> 0 .. Never]
    BY <1>0, <1>6 DEF ChanJoin, TypeOK
  <2>5. out' \in [Chans -> [{"JOIN", "PART"} -> 0 .. MaxQueued]]
    BY <1>0, <1>6 DEF ChanJoin, TypeOK
  <2> QED BY <1>6, <2>2, <2>3, <2>4, <2>5 DEF ChanJoin, server, history, TypeOK
<1>7. CASE Reconnect
  <2>1. \A d \in Chans : status'[d] # "none" => Tracked(d)
    BY <1>7 DEF Reconnect
  <2>2. Fits(status')
    <3>1. PICK st : st = status'
      OBVIOUS
    <3> QED BY <2>1, <3>1, FewerFit
  <2>3. status' \in [Chans -> Status]
    BY <1>7 DEF Reconnect, Status
  <2>4. age' \in [Chans -> 0 .. Never]
    BY <1>0, <1>7 DEF Reconnect
  <2>5. out' \in [Chans -> [{"JOIN", "PART"} -> 0 .. MaxQueued]]
    BY <1>0, <1>7 DEF Reconnect, NoCommands
  <2>6. inbox' \in Seq(Messages)
    BY <1>7 DEF Reconnect
  <2> QED BY <1>7, <2>2, <2>3, <2>4, <2>5, <2>6 DEF Reconnect, history, TypeOK
<1>8. CASE \E c \in Chans, k \in Keys : IrcJoin(c, k)
  <2>1. PICK c \in Chans, k \in Keys : IrcJoin(c, k)
    BY <1>8
  <2>2. joins' \in 0 .. MaxJoins
    BY <1>0, <2>1 DEF IrcJoin, TypeOK
  <2>3. status' \in [Chans -> Status] /\ Fits(status')
    <3>1. CASE Room(c)
      <4>1. status' = [status EXCEPT ![c] = "join"] /\ "join" \in Status
        BY <2>1, <3>1 DEF IrcJoin, Status
      <4>2. Fits([status EXCEPT ![c] = "join"])
        BY <3>1, <4>1, SetFits
      <4> QED BY <4>1, <4>2 DEF TypeOK
    <3>2. CASE ~Room(c)
      BY <1>1, <2>1, <3>2 DEF IrcJoin, TypeOK
    <3> QED BY <3>1, <3>2
  <2>4. /\ key' \in [Chans -> Keys] /\ want' \in [Chans -> BOOLEAN]
    BY <2>1 DEF IrcJoin, TypeOK
  <2> QED BY <2>1, <2>2, <2>3, <2>4 DEF IrcJoin, server, TypeOK
<1>9. CASE \E c \in Chans : IrcPart(c)
  <2>1. PICK c \in Chans : IrcPart(c)
    BY <1>9
  <2>2. parts' \in 0 .. MaxParts
    BY <1>0, <2>1 DEF IrcPart, TypeOK
  <2>3. \A d \in Chans : status'[d] # "none" => Tracked(d)
    BY <2>1 DEF IrcPart, Delete, TypeOK, Tracked
  <2>4. Fits(status')
    <3>1. PICK st : st = status'
      OBVIOUS
    <3> QED BY <2>3, <3>1, FewerFit
  <2>5. status' \in [Chans -> Status]
    BY <2>1 DEF IrcPart, Delete, TypeOK, Status
  <2>6. age' \in [Chans -> 0 .. Never]
    <3>1. age \in [Chans -> 0 .. Never] /\ Never \in 0 .. Never
      BY <1>0 DEF TypeOK
    <3>2. age' = [age EXCEPT ![c] = Never]
      BY <2>1 DEF IrcPart, Delete
    <3> QED BY <3>1, <3>2
  <2>7. key' \in [Chans -> Keys] /\ want' \in [Chans -> BOOLEAN]
    BY <2>1 DEF IrcPart, Delete, TypeOK, Keys
  <2>8. out' \in [Chans -> [{"JOIN", "PART"} -> 0 .. MaxQueued]]
    BY <1>0, <2>1 DEF IrcPart, TypeOK
  <2> QED BY <2>1, <2>2, <2>4, <2>5, <2>6, <2>7, <2>8 DEF IrcPart, server, TypeOK
<1>10. CASE IrcReconnect \/ ReadError
  <2>1. faults' \in 0 .. MaxFaults
    BY <1>0, <1>10 DEF IrcReconnect, ReadError, TypeOK
  <2> QED BY <1>1, <1>10, <2>1 DEF IrcReconnect, ReadError, table, server, history, TypeOK
<1>11. CASE \E c \in Chans : SendJoin(c)
  <2>1. PICK c \in Chans : SendJoin(c)
    BY <1>11
  <2>2. out' \in [Chans -> [{"JOIN", "PART"} -> 0 .. MaxQueued]]
    BY <1>0, <2>1 DEF SendJoin, Sent, TypeOK
  <2>3. /\ <<"JOIN", c>> \in Messages /\ <<"REFUSED", c>> \in Messages
    BY DEF Messages
  <2>4. /\ Append(inbox, <<"JOIN", c>>) \in Seq(Messages)
        /\ Append(inbox, <<"REFUSED", c>>) \in Seq(Messages)
    BY <2>3 DEF TypeOK
  <2>5. /\ inbox' \in Seq(Messages)
        /\ in' \in SUBSET Chans
        /\ faults' \in 0 .. MaxFaults
    <3> HIDE DEF Messages
    <3>1. faults' = faults \/ (faults < MaxFaults /\ faults' = faults + 1)
      BY <2>1 DEF SendJoin, server
    <3>2. faults' \in 0 .. MaxFaults
      BY <1>0, <3>1 DEF TypeOK
    <3>3. inbox' \in Seq(Messages) /\ in' \in SUBSET Chans
      BY <2>1, <2>4, Zenon DEF SendJoin, server, TypeOK
    <3> QED BY <3>2, <3>3
  <2> QED BY <1>1, <2>1, <2>2, <2>5 DEF SendJoin, Sent, table, history, TypeOK
<1>12. CASE \E c \in Chans : SendPart(c)
  <2>1. PICK c \in Chans : SendPart(c)
    BY <1>12
  <2>2. out' \in [Chans -> [{"JOIN", "PART"} -> 0 .. MaxQueued]]
    BY <1>0, <2>1 DEF SendPart, Sent, TypeOK
  <2>3. <<"PART", c>> \in Messages
    BY DEF Messages
  <2>4. inbox' \in Seq(Messages)
    BY <2>1, <2>3 DEF SendPart, TypeOK
  <2> QED BY <1>1, <2>1, <2>2, <2>4 DEF SendPart, Sent, table, history, TypeOK
<1>13. CASE Tick
  <2>1. age' \in [Chans -> 0 .. Never]
    BY <1>0, <1>13 DEF Tick, TypeOK, Never
  <2> QED BY <1>1, <1>13, <2>1 DEF Tick, server, history, TypeOK
<1>14. CASE (\E c \in Chans : Kick(c)) \/ Error
  <2>1. faults' \in 0 .. MaxFaults
    BY <1>0, <1>14 DEF Kick, Error, TypeOK
  <2>2. inbox' \in Seq(Messages)
    <3>1. PICK m \in Messages : inbox' = Append(inbox, m)
      BY <1>14 DEF Kick, Error, Messages
    <3> QED BY <3>1 DEF TypeOK
  <2> QED BY <1>1, <1>14, <2>1, <2>2 DEF Kick, Error, table, history, TypeOK
<1>15. CASE UNCHANGED vars
  BY <1>1, <1>15 DEF vars, table, server, history, TypeOK
<1> QED BY <1>3, <1>4, <1>5, <1>6, <1>7, <1>8, <1>9, <1>10, <1>11, <1>12, <1>13, <1>14,
           <1>15 DEF Next, Loop, Script, Transmit

-----------------------------------------------------------------------------
(***************************************************************************)
(* The inductive invariant, channel by channel                             *)
(***************************************************************************)
AllTracked == Cardinality(Chans) <= MaxTracked

\* What the invariant says of one channel, in a state and in the next.
Here(c) ==
  /\ want[c] => status[c] # "none"
  /\ AllTracked /\ c \in in =>
       status[c] # "none" \/ out[c]["PART"] > 0 \/ SaysIn(inbox, c)
  /\ out[c]["PART"] > 0 =>
       /\ age[c] = Never \/ out[c]["JOIN"] > 0
       /\ want[c] => out[c]["JOIN"] > 0 \/ AttemptNext(c)
  /\ (/\ c \notin in /\ out[c]["JOIN"] = 0
      /\ status[c] = "ok" \/ SaysIn(inbox, c)
      /\ want[c] \/ age[c] # Never) => SaysOut(inbox, c) \/ AttemptNext(c)

AttemptThen(c) == pc' \in {"timer", "join"} /\ status'[c] = "join" /\ age'[c] = Never
Then(c) ==
  /\ want'[c] => status'[c] # "none"
  /\ AllTracked /\ c \in in' =>
       status'[c] # "none" \/ out'[c]["PART"] > 0 \/ SaysIn(inbox', c)
  /\ out'[c]["PART"] > 0 =>
       /\ age'[c] = Never \/ out'[c]["JOIN"] > 0
       /\ want'[c] => out'[c]["JOIN"] > 0 \/ AttemptThen(c)
  /\ (/\ c \notin in' /\ out'[c]["JOIN"] = 0
      /\ status'[c] = "ok" \/ SaysIn(inbox', c)
      /\ want'[c] \/ age'[c] # Never) => SaysOut(inbox', c) \/ AttemptThen(c)

LEMMA InvHere ==
  ASSUME ChannelInv, NEW c \in Chans
  PROVE  Here(c)
<1>1. want[c] => status[c] # "none"
  BY DEF ChannelInv, WantedKept, Tracked
<1>2. AllTracked /\ c \in in =>
        status[c] # "none" \/ out[c]["PART"] > 0 \/ SaysIn(inbox, c)
  BY DEF ChannelInv, JoinAnswered, Tracked, AllTracked
<1> QED BY <1>1, <1>2 DEF ChannelInv, PartBehindJoin, MistakeResolved, Mistaken, Here

LEMMA ThenInv ==
  ASSUME TypeOK', \A c \in Chans : Then(c)
  PROVE  ChannelInv'
<1>1. WantedKept'
  BY DEF Then, WantedKept, Tracked
<1>2. JoinAnswered'
  BY DEF Then, JoinAnswered, Tracked, AllTracked, TypeOK
<1>3. PartBehindJoin'
  BY DEF Then, PartBehindJoin, AttemptNext, AttemptThen
<1>4. MistakeResolved'
  BY DEF Then, MistakeResolved, Mistaken, AttemptNext, AttemptThen
<1> QED BY <1>1, <1>2, <1>3, <1>4 DEF ChannelInv

\* The handlers of messages.
LEMMA HandleKeeps ==
  ASSUME ChannelInv, TypeOK', Handle, NEW c \in Chans
  PROVE  Then(c)
<1>0. TypeOK /\ Here(c)
  BY InvHere DEF ChannelInv
<1>1. PICK d \in Chans, m \in Messages, new \in Status :
        /\ Handled(d, m, new)
        /\ TableStep(d, new)
        /\ inbox # <<>> /\ m = Head(inbox) /\ inbox' = Tail(inbox)
        /\ pc = "read" /\ pc' = "timer"
        /\ UNCHANGED <<quit, out, in, want>>
  BY <1>0, HandlerStep
<1>2. PICK q, r : q = inbox /\ r = inbox'
  OBVIOUS
<1>3. /\ SaysIn(r, c) => SaysIn(q, c)
      /\ SaysIn(q, c) /\ m # <<"JOIN", c>> => SaysIn(r, c)
      /\ SaysOut(q, c) /\ m \notin {<<"KICK", c>>, <<"REFUSED", c>>} => SaysOut(r, c)
      /\ SaysOut(q, c) /\ SaysIn(r, c) => SaysOut(r, c)
  <2>1. q \in Seq(Messages) /\ q # <<>> /\ r = Tail(q) /\ m = Head(q)
    BY <1>0, <1>1, <1>2 DEF TypeOK
  <2> QED BY <2>1, TailSays
<1>4. /\ want'[c] = want[c] /\ age'[c] = age[c] /\ out' = out /\ in' = in
      /\ pc = "read" /\ pc' = "timer"
  BY <1>1 DEF TableStep
<1>5. AllTracked => Room(d)
  BY <1>0, RoomForAll DEF AllTracked
<1>6. status[c] # "none" => status'[c] # "none"
  BY <1>1 DEF TableStep, Tracked
<1>7. m = <<"JOIN", c>> /\ AllTracked => status'[c] # "none"
  BY <1>1, <1>5 DEF TableStep, Handled
<1>8. status'[c] = "ok" =>
        \/ status[c] = "ok" /\ m \notin {<<"KICK", c>>, <<"REFUSED", c>>}
        \/ m = <<"JOIN", c>> /\ SaysIn(q, c)
  <2>1. SaysIn(q, c) \/ m # <<"JOIN", c>>
    <3>1. q \in Seq(Messages) /\ q # <<>> /\ m = Head(q)
      BY <1>0, <1>1, <1>2 DEF TypeOK
    <3>2. 1 \in DOMAIN q /\ q[1] = m
      BY <3>1
    <3> QED BY <3>2 DEF SaysIn
  <2>2. CASE d # c
    BY <1>1, <2>2 DEF TableStep, Handled
  <2>3. CASE d = c
    BY <1>1, <2>1, <2>3 DEF TableStep, Handled
  <2> QED BY <2>2, <2>3
<1>9. ~AttemptNext(c)
  BY <1>1 DEF AttemptNext
<1> HIDE <1>1
<1>10. /\ want'[c] => status'[c] # "none"
       /\ AllTracked /\ c \in in' =>
            status'[c] # "none" \/ out'[c]["PART"] > 0 \/ SaysIn(r, c)
  BY <1>0, <1>2, <1>3, <1>4, <1>6, <1>7 DEF Here
<1>11. out'[c]["PART"] > 0 =>
         /\ age'[c] = Never \/ out'[c]["JOIN"] > 0
         /\ want'[c] => out'[c]["JOIN"] > 0
  BY <1>0, <1>4, <1>9 DEF Here
<1>12. (/\ c \notin in' /\ out'[c]["JOIN"] = 0
        /\ status'[c] = "ok" \/ SaysIn(r, c)
        /\ want'[c] \/ age'[c] # Never) => SaysOut(r, c)
  BY <1>0, <1>2, <1>3, <1>4, <1>8, <1>9 DEF Here
<1> QED BY <1>2, <1>10, <1>11, <1>12 DEF Then

\* The end of a connection, and steps of the loop that change no channel.
LEMMA IdleKeeps ==
  ASSUME ChannelInv, TypeOK', NEW c \in Chans,
         \/ ReadNothing \/ ReadError \/ TimerDone \/ LoopEnd \/ IrcReconnect \/ UNCHANGED vars
  PROVE  Then(c)
<1>0. Here(c)
  BY InvHere
<1>1. UNCHANGED <<table, out, in, inbox, history>>
  BY DEF ReadNothing, ReadError, TimerDone, LoopEnd, IrcReconnect, vars, server
<1>2. AttemptNext(c) => AttemptThen(c)
  BY <1>1 DEF AttemptNext, AttemptThen, ReadNothing, ReadError, TimerDone, LoopEnd,
              IrcReconnect, vars, table
<1>3. /\ status' = status /\ age' = age /\ out' = out /\ in' = in /\ inbox' = inbox
      /\ want' = want
  BY <1>1 DEF table, history
<1> QED BY <1>0, <1>2, <1>3 DEF Here, Then

\* A new connection: the bot is in no channel and nothing is underway.
LEMMA ReconnectKeeps ==
  ASSUME ChannelInv, TypeOK', NEW c \in Chans, Reconnect
  PROVE  Then(c)
<1>0. TypeOK /\ Here(c)
  BY InvHere DEF ChannelInv
<1>1. /\ status'[c] # "ok" /\ (status[c] # "none" => status'[c] # "none")
      /\ in' = {} /\ want' = want /\ out'[c]["PART"] = 0
  BY DEF Reconnect, NoCommands, Tracked, history
<1>2. ~SaysIn(inbox', c)
  BY DEF Reconnect, SaysIn
<1> QED BY <1>0, <1>1, <1>2 DEF Here, Then

\* A message of the server that is not about the bot's channels.
LEMMA ErrorKeeps ==
  ASSUME ChannelInv, TypeOK', NEW c \in Chans, HandleError \/ Error
  PROVE  Then(c)
<1>0. TypeOK /\ Here(c)
  BY InvHere DEF ChannelInv
<1>1. PICK q, r, m : q = inbox /\ r = inbox' /\ m = <<"ERROR">>
  OBVIOUS
<1>2. q \in Seq(Messages) /\ m \in Messages
  BY <1>0, <1>1 DEF TypeOK, Messages
<1>3. m \notin {<<"JOIN", c>>, <<"KICK", c>>, <<"REFUSED", c>>}
  BY <1>1
<1>4. /\ SaysIn(r, c) <=> SaysIn(q, c)
      /\ SaysOut(q, c) => SaysOut(r, c)
  <2>1. CASE HandleError
    <3>1. q # <<>> /\ r = Tail(q) /\ m = Head(q)
      BY <1>1, <2>1 DEF HandleError
    <3> QED BY <1>2, <1>3, <3>1, TailSays
  <2>2. CASE Error
    <3>1. r = Append(q, m)
      BY <1>1, <2>2 DEF Error
    <3> QED BY <1>2, <1>3, <3>1, AppendSays
  <2> QED BY <2>1, <2>2
<1>5. /\ status' = status /\ age' = age /\ out' = out /\ in' = in /\ want' = want
  BY DEF HandleError, Error, table, history
<1>6. AttemptNext(c) => AttemptThen(c)
  BY DEF HandleError, Error, table, AttemptNext, AttemptThen
<1> QED BY <1>0, <1>1, <1>4, <1>5, <1>6 DEF Here, Then

\* Time: an attempt that has not been made is not made by waiting.
LEMMA TickKeeps ==
  ASSUME ChannelInv, TypeOK', NEW c \in Chans, Tick
  PROVE  Then(c)
<1>0. TypeOK /\ Here(c)
  BY InvHere DEF ChannelInv
<1>1. age'[c] = Never <=> age[c] = Never
  BY <1>0, ChannelAssumption DEF Tick, TypeOK, Never
<1>2. /\ status' = status /\ out' = out /\ in' = in /\ inbox' = inbox
      /\ want' = want /\ pc' = pc
  BY DEF Tick, server, history
<1> QED BY <1>0, <1>1, <1>2 DEF Here, Then, AttemptNext, AttemptThen

\* The attempts: whoever is due has a JOIN in the queue.
LEMMA ChanJoinKeeps ==
  ASSUME ChannelInv, TypeOK', NEW c \in Chans, ChanJoin
  PROVE  Then(c)
<1>0. TypeOK /\ Here(c)
  BY InvHere DEF ChannelInv
<1>1. /\ InitialDelay \in Nat /\ MaxQueued \in Nat \ {0} /\ Never = InitialDelay + 1
  BY ChannelAssumption DEF Never
<1>2. /\ out[c]["JOIN"] \in 0 .. MaxQueued /\ out[c]["PART"] \in 0 .. MaxQueued
      /\ age[c] \in 0 .. Never
  BY <1>0 DEF TypeOK
<1>3. out'[c]["PART"] = out[c]["PART"]
  BY <1>0 DEF ChanJoin, TypeOK
<1>4. CASE Due(c)
  <2>1. out'[c]["JOIN"] > 0
    <3>1. CASE out[c]["JOIN"] < MaxQueued
      <4>1. out'[c]["JOIN"] = out[c]["JOIN"] + 1
        BY <1>0, <1>4, <3>1 DEF ChanJoin, TypeOK
      <4> QED BY <1>2, <4>1
    <3>2. CASE ~(out[c]["JOIN"] < MaxQueued)
      <4>1. out'[c] = out[c]
        BY <1>4, <3>2 DEF ChanJoin
      <4> QED BY <1>1, <1>2, <3>2, <4>1
    <3> QED BY <3>1, <3>2
  <2>2. /\ status[c] # "none" => status'[c] # "none"
        /\ in' = in /\ inbox' = inbox /\ want' = want
    BY DEF ChanJoin, server, history
  <2>3. out'[c]["JOIN"] # 0
    BY <2>1
  <2> QED BY <1>0, <1>3, <2>1, <2>2, <2>3 DEF Here, Then
<1>5. CASE ~Due(c)
  <2>1. ~AttemptNext(c)
    BY <1>1, <1>5 DEF AttemptNext, Due
  <2>2. /\ status'[c] = status[c] /\ age'[c] = age[c] /\ out'[c] = out[c]
        /\ in' = in /\ inbox' = inbox /\ want' = want
    BY <1>5 DEF ChanJoin, server, history
  <2> QED BY <1>0, <2>1, <2>2 DEF Here, Then
<1> QED BY <1>4, <1>5

\* joinchan: the attempt follows in the same iteration, or one was made since the
\* last PART.
LEMMA IrcJoinKeeps ==
  ASSUME ChannelInv, TypeOK', NEW c \in Chans, NEW d \in Chans, NEW k \in Keys, IrcJoin(d, k)
  PROVE  Then(c)
<1>0. TypeOK /\ Here(c)
  BY InvHere DEF ChannelInv
<1>1. /\ age' = age /\ out' = out /\ in' = in /\ inbox' = inbox
      /\ pc = "timer" /\ pc' = pc
  BY DEF IrcJoin, server
<1>2. CASE c = d /\ Room(d)
  <2>1. status'[c] = "join"
    BY <1>0, <1>2 DEF IrcJoin, TypeOK
  <2> QED BY <1>0, <1>1, <2>1 DEF Here, Then, AttemptNext, AttemptThen
<1>3. CASE ~(c = d /\ Room(d))
  <2>1. status'[c] = status[c] /\ want'[c] = want[c]
    BY <1>0, <1>3 DEF IrcJoin, TypeOK
  <2> QED BY <1>0, <1>1, <2>1 DEF Here, Then, AttemptNext, AttemptThen
<1> QED BY <1>2, <1>3

\* partchan: the channel is not wanted, has no attempt, and a PART is queued.
LEMMA IrcPartKeeps ==
  ASSUME ChannelInv, TypeOK', NEW c \in Chans, NEW d \in Chans, IrcPart(d)
  PROVE  Then(c)
<1>0. TypeOK /\ Here(c)
  BY InvHere DEF ChannelInv
<1>1. in' = in /\ inbox' = inbox /\ pc' = pc
  BY DEF IrcPart, server
<1>2. CASE c = d
  <2>1. status'[c] = "none" /\ age'[c] = Never /\ ~want'[c]
    BY <1>0, <1>2 DEF IrcPart, Delete, TypeOK
  <2>2. out'[c]["PART"] > 0
    <3>1. out[c]["PART"] \in Nat
      BY <1>0 DEF TypeOK
    <3>2. out'[c]["PART"] = out[c]["PART"] + 1
      BY <1>0, <1>2 DEF IrcPart, TypeOK
    <3> QED BY <3>1, <3>2
  <2> QED BY <2>1, <2>2 DEF Then
<1>3. CASE c # d
  <2>1. /\ status'[c] = status[c] /\ age'[c] = age[c] /\ want'[c] = want[c]
        /\ out'[c] = out[c]
    BY <1>0, <1>3 DEF IrcPart, Delete, TypeOK
  <2> QED BY <1>0, <1>1, <2>1 DEF Here, Then, AttemptNext, AttemptThen
<1> QED BY <1>2, <1>3

\* What a queue sends: one command less, and no PART when it is a JOIN.
LEMMA SentCommand ==
  ASSUME TypeOK, NEW c \in Chans, NEW d \in Chans, NEW cmd \in {"JOIN", "PART"}, Sent(d, cmd)
  PROVE  /\ UNCHANGED <<status, age, want, pc>> /\ pc = "send"
         /\ c # d => out'[c] = out[c]
         /\ \A other \in {"JOIN", "PART"} \ {cmd} : out'[c][other] = out[c][other]
         /\ out[d][cmd] > 0 /\ out'[d][cmd] = out[d][cmd] - 1
BY DEF Sent, table, history, TypeOK

\* A JOIN is sent when no PART is queued; the server's answer is the last word.
LEMMA SendJoinKeeps ==
  ASSUME ChannelInv, TypeOK', NEW c \in Chans, NEW d \in Chans, SendJoin(d)
  PROVE  Then(c)
<1>0. TypeOK /\ Here(c)
  BY InvHere DEF ChannelInv
<1>1. /\ UNCHANGED <<status, age, want, pc>> /\ pc = "send"
      /\ c # d => out'[c] = out[c]
      /\ out'[c]["PART"] = out[c]["PART"]
  BY <1>0, SentCommand DEF SendJoin
<1>2. out[c]["PART"] = 0
  BY DEF SendJoin
<1>3. /\ want'[c] => status'[c] # "none"
      /\ ~(out'[c]["PART"] > 0)
  BY <1>0, <1>1, <1>2 DEF Here
<1>4. ~AttemptNext(c)
  BY <1>1 DEF AttemptNext
<1>5. CASE d \in in /\ UNCHANGED <<inbox, in>>
  BY <1>0, <1>1, <1>2, <1>3, <1>4, <1>5 DEF Here, Then
<1>6. CASE d \notin in /\ \E m \in {<<"JOIN", d>>, <<"REFUSED", d>>} :
             /\ inbox' = Append(inbox, m)
             /\ in' = IF m = <<"JOIN", d>> THEN in \cup {d} ELSE in
  <2>1. PICK m \in {<<"JOIN", d>>, <<"REFUSED", d>>} :
             /\ inbox' = Append(inbox, m)
             /\ in' = IF m = <<"JOIN", d>> THEN in \cup {d} ELSE in
    BY <1>6
  <2>2. PICK q, r : q = inbox /\ r = inbox'
    OBVIOUS
  <2>3. /\ SaysIn(r, c) <=> SaysIn(q, c) \/ m = <<"JOIN", c>>
        /\ m = <<"REFUSED", c>> => SaysOut(r, c)
        /\ SaysOut(q, c) /\ m # <<"JOIN", c>> => SaysOut(r, c)
    <3>1. q \in Seq(Messages) /\ m \in Messages /\ r = Append(q, m)
      BY <1>0, <2>1, <2>2 DEF TypeOK, Messages
    <3> QED BY <3>1, AppendSays
  <2>4. CASE c = d
    <3>1. c \in in' => SaysIn(r, c)
      BY <1>6, <2>1, <2>3, <2>4
    <3>2. c \notin in' => SaysOut(r, c)
      BY <2>1, <2>3, <2>4
    <3> QED BY <1>3, <2>2, <3>1, <3>2 DEF Then
  <2>5. CASE c # d
    <3>1. m # <<"JOIN", c>>
      BY <2>1, <2>5
    <3>2. c \in in' <=> c \in in
      BY <2>1, <2>5
    <3> QED BY <1>0, <1>1, <1>2, <1>3, <1>4, <2>2, <2>3, <2>5, <3>1, <3>2 DEF Here, Then
  <2> QED BY <2>4, <2>5
<1> QED BY <1>5, <1>6 DEF SendJoin, server

\* What is queued of a channel is counted in natural numbers.
LEMMA CommandTypes ==
  ASSUME TypeOK, NEW c \in Chans
  PROVE  out[c]["PART"] \in Nat /\ out[c]["JOIN"] \in Nat
<1>1. out \in [Chans -> [{"JOIN", "PART"} -> 0 .. MaxQueued]]
  BY Zenon DEF TypeOK
<1>2. out[c] \in [{"JOIN", "PART"} -> 0 .. MaxQueued]
  BY <1>1
<1> QED BY <1>2, ChannelAssumption

\* A PART of a channel that is wanted has a JOIN behind it.
LEMMA SendPartKeeps ==
  ASSUME ChannelInv, TypeOK', NEW c \in Chans, NEW d \in Chans, SendPart(d)
  PROVE  Then(c)
<1>0. TypeOK /\ Here(c)
  BY InvHere DEF ChannelInv
<1>1. /\ UNCHANGED <<status, age, want, pc>> /\ pc = "send"
      /\ c # d => out'[c] = out[c]
      /\ out'[c]["JOIN"] = out[c]["JOIN"]
      /\ out[d]["PART"] > 0
      /\ out'[d]["PART"] = out[d]["PART"] - 1
  BY <1>0, SentCommand DEF SendPart
<1>2. ~AttemptNext(c)
  BY <1>1 DEF AttemptNext
<1>3. PICK q, r : q = inbox /\ r = inbox'
  OBVIOUS
<1>4. /\ SaysIn(r, c) <=> SaysIn(q, c)
      /\ SaysOut(q, c) => SaysOut(r, c)
  <2>1. CASE d \in in
    <3>1. PICK m : m = <<"PART", d>>
      OBVIOUS
    <3>2. q \in Seq(Messages) /\ m \in Messages /\ r = Append(q, m) /\ m # <<"JOIN", c>>
      BY <1>0, <1>3, <2>1, <3>1 DEF TypeOK, Messages, SendPart
    <3> QED BY <3>2, AppendSays
  <2>2. CASE d \notin in
    BY <1>3, <2>2 DEF SendPart
  <2> QED BY <2>1, <2>2
<1>5. out[c]["PART"] \in Nat /\ out[c]["JOIN"] \in Nat
  BY <1>0, CommandTypes
<1>6. out'[c]["PART"] > 0 => out[c]["PART"] > 0
  BY <1>1, <1>5
<1>7. CASE c = d
  <2>1. c \notin in'
    BY <1>7 DEF SendPart
  <2>2. out[c]["JOIN"] = 0 => age[c] = Never /\ ~want[c]
    BY <1>0, <1>1, <1>2, <1>5, <1>7 DEF Here
  <2> QED BY <1>0, <1>1, <1>2, <1>5, <1>6, <2>1, <2>2 DEF Here, Then
<1>8. CASE c # d
  <2>1. c \in in' <=> c \in in
    BY <1>8 DEF SendPart
  <2> QED BY <1>0, <1>1, <1>2, <1>3, <1>4, <1>8, <2>1 DEF Here, Then
<1> QED BY <1>7, <1>8

\* A kick is told.
LEMMA KickKeeps ==
  ASSUME ChannelInv, TypeOK', NEW c \in Chans, NEW d \in Chans, Kick(d)
  PROVE  Then(c)
<1>0. TypeOK /\ Here(c)
  BY InvHere DEF ChannelInv
<1>1. /\ UNCHANGED <<pc, status, age, out, want>>
      /\ in' = in \ {d}
  BY DEF Kick, table, history
<1>2. PICK q, r, m : q = inbox /\ r = inbox' /\ m = <<"KICK", d>>
  OBVIOUS
<1>3. /\ SaysIn(r, c) <=> SaysIn(q, c)
      /\ m = <<"KICK", c>> => SaysOut(r, c)
      /\ SaysOut(q, c) => SaysOut(r, c)
  <2>1. q \in Seq(Messages) /\ m \in Messages /\ r = Append(q, m) /\ m # <<"JOIN", c>>
    BY <1>0, <1>2 DEF TypeOK, Messages, Kick
  <2> QED BY <2>1, AppendSays
<1>4. AttemptNext(c) => AttemptThen(c)
  BY <1>1 DEF AttemptNext, AttemptThen
<1>5. c \in in' => c \in in
  BY <1>1
<1>6. c \in in /\ c \notin in' => SaysOut(r, c)
  BY <1>1, <1>2, <1>3
<1> QED BY <1>0, <1>1, <1>2, <1>3, <1>4, <1>5, <1>6 DEF Here, Then

-----------------------------------------------------------------------------
(***************************************************************************)
(* Theorems                                                                *)
(***************************************************************************)
LEMMA InvInit == Init => ChannelInv
<1> SUFFICES ASSUME Init PROVE ChannelInv
  OBVIOUS
<1>0. /\ MaxTracked \in Nat /\ Never \in Nat /\ MaxQueued \in Nat
      /\ MaxJoins \in Nat /\ MaxParts \in Nat /\ MaxFaults \in Nat
  BY ChannelAssumption DEF Never
<1>1. {c \in Chans : Tracked(c)} = {}
  BY DEF Init, Tracked
<1>2. Cardinality({c \in Chans : Tracked(c)}) <= MaxTracked
  BY <1>0, <1>1, FS_EmptySet
<1>3. /\ age = [c \in Chans |-> Never] /\ out = NoCommands /\ inbox = <<>> /\ in = {}
      /\ joins = 0 /\ parts = 0 /\ faults = 0
      /\ want = [c \in Chans |-> FALSE] /\ status = [c \in Chans |-> "none"]
  BY Zenon DEF Init
<1>4. TypeOK
  <2>1. age \in [Chans -> 0 .. Never]
    BY <1>0, <1>3
  <2>2. out \in [Chans -> [{"JOIN", "PART"} -> 0 .. MaxQueued]]
    BY <1>0, <1>3 DEF NoCommands
  <2>3. inbox \in Seq(Messages)
    BY <1>3
  <2>4. /\ status \in [Chans -> Status] /\ key \in [Chans -> Keys]
        /\ want \in [Chans -> BOOLEAN] /\ refused \in [Chans -> BOOLEAN]
    BY DEF Init, Status, Keys
  <2>5. joins \in 0 .. MaxJoins /\ parts \in 0 .. MaxParts /\ faults \in 0 .. MaxFaults
    BY <1>0, <1>3
  <2> QED BY <1>2, <2>1, <2>2, <2>3, <2>4, <2>5 DEF Init, TypeOK
<1>5. ASSUME NEW c PROVE ~SaysIn(inbox, c)
  BY <1>3 DEF SaysIn
<1>6. ASSUME NEW c \in Chans PROVE ~want[c] /\ status[c] # "ok" /\ ~(out[c]["PART"] > 0)
  BY <1>3 DEF NoCommands
<1> QED BY <1>3, <1>4, <1>5, <1>6 DEF ChannelInv, WantedKept, JoinAnswered, PartBehindJoin,
                        MistakeResolved, Mistaken

LEMMA InvStep == ChannelInv /\ [Next]_vars => ChannelInv'
<1> SUFFICES ASSUME ChannelInv, [Next]_vars PROVE ChannelInv'
  OBVIOUS
<1>1. TypeOK'
  BY TypeStep DEF ChannelInv
<1>2. ASSUME NEW c \in Chans PROVE Then(c)
  <2>1. CASE Handle
    BY <1>1, <2>1, HandleKeeps
  <2>2. CASE \/ ReadNothing \/ ReadError \/ TimerDone \/ LoopEnd \/ IrcReconnect
             \/ UNCHANGED vars
    BY <1>1, <2>2, IdleKeeps
  <2>3. CASE HandleError \/ Error
    BY <1>1, <2>3, ErrorKeeps
  <2>4. CASE ChanJoin
    BY <1>1, <2>4, ChanJoinKeeps
  <2>5. CASE Reconnect
    BY <1>1, <2>5, ReconnectKeeps
  <2>6. CASE Tick
    BY <1>1, <2>6, TickKeeps
  <2>7. CASE \E d \in Chans, k \in Keys : IrcJoin(d, k)
    BY <1>1, <2>7, IrcJoinKeeps
  <2>8. CASE \E d \in Chans : IrcPart(d)
    BY <1>1, <2>8, IrcPartKeeps
  <2>9. CASE \E d \in Chans : SendJoin(d)
    BY <1>1, <2>9, SendJoinKeeps
  <2>10. CASE \E d \in Chans : SendPart(d)
    BY <1>1, <2>10, SendPartKeeps
  <2>11. CASE \E d \in Chans : Kick(d)
    BY <1>1, <2>11, KickKeeps
  <2> QED BY <2>1, <2>2, <2>3, <2>4, <2>5, <2>6, <2>7, <2>8, <2>9, <2>10, <2>11
          DEF Next, Loop, Script, Transmit
<1> QED BY <1>1, <1>2, ThenInv

\* The table of channels, the queue and the server stay as the inductive
\* invariant says, through every answer, kick, lost connection and command.
THEOREM ChannelInvariance == Spec => []ChannelInv
BY InvInit, InvStep, PTL DEF Spec

\* A channel that a script wants, and whose first attempt was not refused, stays in
\* the table: no answer to a later attempt takes it out (handle_join_failure).
THEOREM WantedStays == Spec => []WantedIsTracked
<1>1. ChannelInv => WantedIsTracked
  BY DEF ChannelInv, WantedKept, WantedIsTracked
<1> QED BY <1>1, ChannelInvariance, PTL

\* The bot is in no channel that it has forgotten, when the table holds all.
THEOREM NoneForgotten == Spec => []NoForgottenChannel
<1>1. ChannelInv => NoForgottenChannel
  BY DEF ChannelInv, JoinAnswered, NoForgottenChannel, SaysIn, Underway
<1> QED BY <1>1, ChannelInvariance, PTL

\* A channel that is wanted is not taken for joined when it is not.
THEOREM NoneLost == Spec => []NotLost
<1>1. ChannelInv => NotLost
  <2> SUFFICES ASSUME ChannelInv, NEW c \in Chans,
                      want[c], status[c] = "ok", ~Underway(c), c \notin in
               PROVE  out[c]["JOIN"] > 0
    BY DEF NotLost
  <2>1. ~SaysOut(inbox, c)
    BY DEF Underway, SaysOut
  <2>2. out[c]["JOIN"] # 0
    BY <2>1 DEF ChannelInv, MistakeResolved, Mistaken, AttemptNext
  <2>3. out[c]["JOIN"] \in 0 .. MaxQueued
    BY DEF ChannelInv, TypeOK
  <2> QED BY <2>2, <2>3, ChannelAssumption
<1> QED BY <1>1, ChannelInvariance, PTL
=============================================================================
