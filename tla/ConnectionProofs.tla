-------------------------- MODULE ConnectionProofs --------------------------
(***************************************************************************)
(* Proofs about Connection, for any number of slots, processes, texts and  *)
(* commands.  The inductive invariant is IInv.  The steps of the processes *)
(* fall into fifteen shapes by what they do to the variables IInv is       *)
(* about; one lemma shows that each shape preserves IInv, another that     *)
(* every step of Next has one of the shapes.  The requests of the children *)
(* implement the synchronous calls of SyncCall, for any number of slots    *)
(* and forks: each shape of step moves the call of at most one child.      *)
(***************************************************************************)
EXTENDS ConnectionCalls, FiniteSetTheorems, SequenceTheorems, WellFoundedInduction, TLAPS

CoreInv == /\ ControlInv /\ TableInv /\ CountInv /\ RequestInv /\ FifoInv
           /\ UnbornInv /\ NoOrphans

\* The variables of CoreInv.
core == <<ppc, serving, forked, type, fd, pid, count, input, fds, cpc, slot, req, fifo,
          forks>>

-----------------------------------------------------------------------------
(***************************************************************************)
(* The shapes of steps                                                     *)
(***************************************************************************)
Plain(lines) == lines \in Seq(Lines) /\ \A i \in DOMAIN lines : lines[i].cmd # "OK"

SameButFifo == UNCHANGED <<ppc, serving, forked, type, fd, pid, count, input, fds, cpc,
                           slot, req, forks>>

Silent == UNCHANGED core

\* A handler sends lines to the child it serves, and is not done.
Speak == /\ ppc \in {"script", "update"}
         /\ \E lines : Plain(lines) /\ Send(serving.cid, lines)
         /\ SameButFifo

\* A handler ends with OK.
Finish == /\ ppc \in {"script", "update"}
          /\ \E lines : Plain(lines) /\ Send(serving.cid, lines \o <<OK>>)
          /\ ppc' = "server" /\ serving' = NoMsg
          /\ UNCHANGED <<forked, type, fd, pid, count, input, fds, cpc, slot, req, forks>>

\* A request is answered in the step that takes it.
Immediate == /\ ppc = "server" /\ input # <<>>
             /\ Head(input).cmd # "HELLO"
             /\ input' = Tail(input)
             /\ \E lines : Plain(lines) /\ Send(Head(input).cid, lines \o <<OK>>)
             /\ UNCHANGED <<ppc, serving, forked, type, fd, pid, count, fds, cpc, slot,
                            req, forks>>

Begin == /\ ppc = "server" /\ input # <<>>
         /\ input' = Tail(input)
         /\ serving' = Head(input)
         /\ ppc' \in {"hello", "script", "update"}
         /\ ppc' = "hello" <=> Head(input).cmd = "HELLO"
         /\ UNCHANGED <<forked, type, fd, pid, count, fds, cpc, slot, req, fifo, forks>>

\* connection_open or connection_open_dcc with the fork() in it.
Open == /\ ppc \in {"start", "script"} /\ forked = None
        /\ ppc' = ppc \/ (ppc' = "server" /\ ppc = "start")
        /\ \/ UNCHANGED <<type, forked, forks, cpc, slot>>
           \/ \E s \in FreeSlots, t \in {"CLIENT", "DCC"} :
                /\ type' = [type EXCEPT ![s] = t]
                /\ \/ UNCHANGED <<forked, forks, cpc, slot>>
                   \/ /\ forks < MaxPids
                      /\ forks' = forks + 1 /\ forked' = forks + 1
                      /\ cpc' = [cpc EXCEPT ![forks + 1] = "init"]
                      /\ slot' = [slot EXCEPT ![forks + 1] = s]
        /\ UNCHANGED <<serving, fd, pid, count, input, fds, req, fifo>>

\* A child sends a request.
Ask(p) == /\ cpc[p] \in {"init", "read", "timer"}
          /\ \E cmd \in Requests :
               /\ cmd = "HELLO" <=> cpc[p] = "init"
               /\ input' = Append(input, [cid |-> slot[p], cmd |-> cmd, pid |-> p])
               /\ req' = [req EXCEPT ![p] = cmd]
          /\ cpc' = [cpc EXCEPT ![p] = "wait"]
          /\ UNCHANGED <<ppc, serving, forked, type, fd, pid, count, fds, slot, fifo,
                         forks>>

Dies(p) == /\ Alive(p)
           /\ cpc' = [cpc EXCEPT ![p] = "zombie"]
           /\ UNCHANGED <<ppc, serving, forked, type, fd, pid, count, input, fds, slot, req,
                          fifo, forks>>

\* A child goes on without a request.
Moves(p) == /\ cpc[p] \in {"init", "connect", "read", "timer", "tail"}
            /\ \E pc \in {"connect", "read", "timer", "tail", "exit"} :
                 /\ cpc[p] = "init" => pc = "exit"
                 /\ cpc' = [cpc EXCEPT ![p] = pc]
            /\ UNCHANGED <<ppc, serving, forked, type, fd, pid, count, input, fds, slot, req,
                           fifo, forks>>

\* A child reads a line.
Reads(p) == /\ Waiting(p) /\ fifo[p] # <<>>
            /\ fifo' = [fifo EXCEPT ![p] = Tail(@)]
            /\ IF Head(fifo[p]).cmd = "OK"
               THEN \E pc \in {"connect", "timer", "tail"} : cpc' = [cpc EXCEPT ![p] = pc]
               ELSE UNCHANGED cpc
            /\ UNCHANGED <<ppc, serving, forked, type, fd, pid, count, input, fds, slot, req,
                           forks>>

-----------------------------------------------------------------------------
(***************************************************************************)
(* Lemmas about data                                                       *)
(***************************************************************************)
\* The first of a set of numbers, which the code finds with a loop.
LEMMA MinOfNaturals ==
  ASSUME NEW S \in SUBSET Nat, S # {}
  PROVE  /\ Min(S) \in S
         /\ \A x \in S : Min(S) <= x
<1> DEFINE Below(n) == 0 .. n
           T == {Below(n) : n \in S}
<1>1. T \subseteq FiniteSubsetsOf(Nat) /\ T # {}
  <2>1. \A n \in S : IsFiniteSet(0 .. n)
    BY FS_Interval
  <2>2. \A n \in S : 0 .. n \in FiniteSubsetsOf(Nat)
    BY <2>1 DEF FiniteSubsetsOf
  <2> QED BY <2>2
<1>2. PICK x \in T : \A y \in T : <<y, x>> \notin StrictSubsetOrdering(Nat)
  <2> HIDE DEF T
  <2> QED BY <1>1, FS_StrictSubsetOrderingWellFounded, WFMin
<1>3. PICK m \in S : x = Below(m)
  OBVIOUS
<1>4. ASSUME NEW n \in S
      PROVE  m <= n
  <2>1. SUFFICES ASSUME n < m PROVE FALSE
    OBVIOUS
  <2>2. 0 .. n \subseteq 0 .. m /\ m \in 0 .. m /\ m \notin 0 .. n
    BY <2>1
  <2>3. <<Below(n), x>> \in StrictSubsetOrdering(Nat)
    BY <1>3, <2>2 DEF StrictSubsetOrdering
  <2> QED BY <1>2, <2>3
<1> QED BY <1>4 DEF Min

\* The slots are a finite set of numbers (the array connections).
LEMMA SlotsFinite == IsFiniteSet(Slots) /\ Slots \subseteq Nat
<1>1. IsFiniteSet(0 .. N_CONNECTIONS - 1)
  BY SizesAssumption, FS_Interval
<1>2. 0 .. N_CONNECTIONS - 1 \subseteq Nat
  BY SizesAssumption
<1> QED BY <1>1, <1>2 DEF Slots

\* A nick stays a nick when it is cut back to the one asked for or gets one
\* more underscore (server_note, connection_set_nick).
LEMMA NickTypes ==
  /\ NoNick \in Nick
  /\ \A k \in Nicks : <<k, 0>> \in Nick
  /\ \A k \in Nick : k[2] < MaxUnderscores => <<k[1], k[2] + 1>> \in Nick
<1> DEFINE N == Nicks \cup {""}
           U == 0 .. MaxUnderscores
<1>1. Nick = N \X U
  BY DEF Nick
<1>2. 0 \in U
  BY BoundsAssumption
<1>3. "" \in N /\ Nicks \subseteq N
  OBVIOUS
<1>4. \A n \in U : n < MaxUnderscores => n + 1 \in U
  BY BoundsAssumption
<1> HIDE DEF N, U
<1>5. NoNick \in Nick
  BY <1>1, <1>2, <1>3 DEF NoNick
<1>6. \A k \in Nicks : <<k, 0>> \in Nick
  BY <1>1, <1>2, <1>3
<1>7. \A k \in Nick : k[2] < MaxUnderscores => <<k[1], k[2] + 1>> \in Nick
  BY <1>1, <1>4
<1> QED BY <1>5, <1>6, <1>7

\* The lines the parent composes are lines, and no text of the queue is OK.
LEMMA LineTypes ==
  /\ OK \in Lines /\ OK.cmd = "OK"
  /\ Empty \in Texts
  /\ DISCONNECT \in Texts
  /\ Texts \subseteq Lines
  /\ \A l \in Texts : l.cmd # "OK"
  /\ \A k \in Nick : Line("NICK", NoName, k) \in Texts
  /\ \A c \in Commands, n \in Names \cup {NoName} : Line(c, n, NoNick) \in Texts
  /\ Line("MSG", NoName, NoNick) \in Texts
<1>1. \A c \in LineCmds, n \in Names \cup {NoName}, k \in Nick : Line(c, n, k) \in Lines
  BY DEF Line, Lines
<1>2. \A c \in LineCmds \ {"OK"}, n \in Names \cup {NoName}, k \in Nick :
        Line(c, n, k) \in Texts
  BY <1>1 DEF Line, Texts
<1>3. Commands \subseteq LineCmds \ {"OK"}
  BY DataAssumption DEF LineCmds
<1>4. OK \in Lines /\ OK.cmd = "OK"
  BY <1>1, NickTypes DEF OK, Line, LineCmds
<1>5. Empty \in Texts /\ DISCONNECT \in Texts /\ Line("MSG", NoName, NoNick) \in Texts
  BY <1>2, NickTypes DEF Empty, DISCONNECT, LineCmds
<1>6. \A k \in Nick : Line("NICK", NoName, k) \in Texts
  BY <1>2 DEF LineCmds
<1>7. Texts \subseteq Lines /\ \A l \in Texts : l.cmd # "OK"
  BY DEF Texts
<1> QED BY <1>2, <1>3, <1>4, <1>5, <1>6, <1>7, NickTypes

\* Nothing, and one text of the queue, are sendable without an OK.
LEMMA PlainLines ==
  /\ Plain(<<>>)
  /\ \A l \in Texts : Plain(<<l>>)
BY LineTypes DEF Plain

\* Lines without OK followed by OK hold OK in the last place only.
LEMMA OkLast ==
  ASSUME NEW lines, Plain(lines)
  PROVE  /\ lines \o <<OK>> \in Seq(Lines)
         /\ Len(lines \o <<OK>>) = Len(lines) + 1
         /\ (lines \o <<OK>>)[Len(lines) + 1].cmd = "OK"
         /\ \A i \in 1 .. Len(lines) : (lines \o <<OK>>)[i].cmd # "OK"
BY LineTypes DEF Plain

\* Length and elements of lines sent after lines.
LEMMA ConcatLines ==
  ASSUME NEW a \in Seq(Lines), NEW b \in Seq(Lines)
  PROVE  /\ a \o b \in Seq(Lines)
         /\ Len(a \o b) = Len(a) + Len(b)
         /\ DOMAIN (a \o b) = 1 .. Len(a) + Len(b)
         /\ \A i \in DOMAIN (a \o b) :
              \/ i \in DOMAIN a /\ (a \o b)[i] = a[i]
              \/ i - Len(a) \in DOMAIN b /\ (a \o b)[i] = b[i - Len(a)]
OBVIOUS

\* Length and elements of what is left after a child has read a line.
LEMMA TailLines ==
  ASSUME NEW f \in Seq(Lines), f # <<>>
  PROVE  /\ Head(f) = f[1] /\ 1 \in DOMAIN f
         /\ Tail(f) \in Seq(Lines)
         /\ Len(Tail(f)) = Len(f) - 1 /\ Len(f) \in Nat
         /\ DOMAIN Tail(f) = 1 .. Len(f) - 1
         /\ \A i \in DOMAIN Tail(f) : i + 1 \in DOMAIN f /\ Tail(f)[i] = f[i + 1]
OBVIOUS

\* What is sent without OK after lines without OK has no OK.
LEMMA PlainConcat ==
  ASSUME NEW a, Plain(a), NEW b, Plain(b)
  PROVE  Plain(a \o b)
<1>1. a \in Seq(Lines) /\ b \in Seq(Lines)
  BY DEF Plain
<1>2. /\ a \o b \in Seq(Lines)
      /\ \A i \in DOMAIN (a \o b) :
           \/ i \in DOMAIN a /\ (a \o b)[i] = a[i]
           \/ i - Len(a) \in DOMAIN b /\ (a \o b)[i] = b[i - Len(a)]
  BY <1>1, ConcatLines
<1> HIDE <1>1
<1> QED BY <1>2 DEF Plain

\* An answer sent after lines without OK: OK comes last and only there.
LEMMA OkConcat ==
  ASSUME NEW a, Plain(a), NEW b, Plain(b)
  PROVE  LET c == a \o (b \o <<OK>>) IN
         /\ c \in Seq(Lines)
         /\ Len(c) \in DOMAIN c /\ c[Len(c)].cmd = "OK"
         /\ \A i \in DOMAIN c : c[i].cmd = "OK" => i = Len(c)
<1> DEFINE d == b \o <<OK>>
           c == a \o d
<1>1. a \in Seq(Lines) /\ b \in Seq(Lines)
  BY DEF Plain
<1>2. /\ d \in Seq(Lines) /\ Len(d) = Len(b) + 1 /\ d[Len(b) + 1].cmd = "OK"
      /\ \A i \in 1 .. Len(b) : d[i].cmd # "OK"
  BY OkLast
<1> HIDE DEF d
<1>4. /\ a \o d \in Seq(Lines) /\ Len(a \o d) = Len(a) + Len(d)
      /\ DOMAIN (a \o d) = 1 .. Len(a) + Len(d)
      /\ \A i \in DOMAIN (a \o d) :
           \/ i \in DOMAIN a /\ (a \o d)[i] = a[i]
           \/ i - Len(a) \in DOMAIN d /\ (a \o d)[i] = d[i - Len(a)]
  BY <1>1, <1>2, ConcatLines
<1>3. c = a \o d
  OBVIOUS
<1> HIDE DEF c
<1>5. /\ c \in Seq(Lines) /\ Len(c) = Len(a) + Len(d) /\ DOMAIN c = 1 .. Len(a) + Len(d)
      /\ \A i \in DOMAIN c : \/ i \in DOMAIN a /\ c[i] = a[i]
                             \/ i - Len(a) \in DOMAIN d /\ c[i] = d[i - Len(a)]
  BY <1>4, <1>3
<1>6. Len(c) \in DOMAIN c /\ c[Len(c)] = d[Len(d)]
  BY <1>1, <1>2, <1>3
<1>7. ASSUME NEW i \in DOMAIN c, c[i].cmd = "OK"
      PROVE  i = Len(c)
  <2>1. i - Len(a) \in DOMAIN d /\ c[i] = d[i - Len(a)]
    BY <1>5, <1>7 DEF Plain
  <2>2. Len(b) \in Nat /\ i - Len(a) \in 1 .. Len(b) + 1
    BY <1>1, <1>2, <2>1
  <2>3. i - Len(a) \notin 1 .. Len(b)
    BY <1>2, <1>7, <2>1
  <2>4. i - Len(a) = Len(b) + 1
    <3> DEFINE k == i - Len(a)
    <3>1. Len(b) \in Nat /\ k \in 1 .. Len(b) + 1 /\ k \notin 1 .. Len(b)
      BY <2>2, <2>3
    <3> HIDE DEF k
    <3>2. k = Len(b) + 1
      BY <3>1
    <3> QED BY <3>2 DEF k
  <2>5. i \in Int /\ Len(a) \in Nat /\ Len(b) \in Nat /\ Len(c) = Len(a) + (Len(b) + 1)
    BY <1>1, <1>2, <1>5
  <2> HIDE DEF d
  <2> QED BY <2>4, <2>5
<1> QED BY <1>5, <1>6, <1>7, <1>2 DEF c, d

\* What Send does, given that the FIFO it would write to is that of p.
LEMMA SendEffect ==
  ASSUME TypeOK, NEW s \in Slots, NEW lines \in Seq(Lines), Send(s, lines)
  PROVE  /\ fifo' \in [Pids -> Seq(Lines)]
         /\ \A p \in Pids : fifo'[p] = IF CanSend(s) /\ p = fd[s]
                                       THEN fifo[p] \o lines ELSE fifo[p]
<1>1. CASE CanSend(s)
  <2>1. fd[s] \in Pids
    BY <1>1 DEF CanSend, TypeOK, TableType
  <2>2. fifo[fd[s]] \o lines \in Seq(Lines)
    BY <2>1 DEF TypeOK, ChildrenType
  <2> QED BY <1>1, <2>1, <2>2 DEF TypeOK, ChildrenType, Send
<1>2. CASE ~CanSend(s)
  BY <1>2 DEF Send, TypeOK, ChildrenType
<1> QED BY <1>1, <1>2

\* The parent that serves nothing serves no process.
LEMMA NoMsgNoPid == NoMsg \notin Message /\ \A p \in Pids : NoMsg.pid # p
BY DEF NoMsg, None, Pids, Message, Slots

\* A handler that runs in several steps serves a message of a child.
LEMMA ServingType ==
  ASSUME TypeOK, ControlInv, ppc \in {"hello", "script", "update"}
  PROVE  /\ serving \in Message /\ serving.cid \in Slots /\ serving.pid \in Pids
         /\ serving \in Pending
BY DEF TypeOK, ControlType, ControlInv, Message, Pending

-----------------------------------------------------------------------------
(***************************************************************************)
(* Each shape preserves CoreInv                                            *)
(***************************************************************************)
\* A step that changes no variable of CoreInv preserves it.
LEMMA SilentCore ==
  ASSUME CoreInv, Silent
  PROVE  CoreInv'
<1> USE DEF Silent, core
<1>1. (\A p \in Pids : Alive(p)' = Alive(p)) /\ (\A p \in Pids : Waiting(p)' = Waiting(p))
  BY DEF Alive, Waiting
<1>2. ControlInv'
  BY DEF CoreInv, ControlInv
<1>3. TableInv'
  BY DEF CoreInv, TableInv, Alive
<1>4. CountInv'
  BY DEF CoreInv, CountInv
<1>20. NoOrphans'
  BY DEF CoreInv, NoOrphans, Alive
<1>5. RequestInv'
  BY DEF CoreInv, RequestInv, Pending, Alive, Waiting
<1>6. FifoInv'
  BY DEF CoreInv, FifoInv, FifoOf, Alive, Waiting, Asked, Served, Answered
<1>30. UnbornInv'
  BY DEF CoreInv, UnbornInv
<1> QED BY <1>2, <1>3, <1>4, <1>5, <1>6, <1>20, <1>30 DEF CoreInv

\* The process whose request is pending, if it lives: it waits, nothing has
\* answered it, and the FIFO its slot has is its own.
LEMMA PendingProcess ==
  ASSUME TypeOK, CoreInv, NEW m \in Pending,
         NEW p \in Pids, Alive(p), fd[m.cid] = p \/ m.pid = p
  PROVE  /\ m.pid = p /\ m.cid = slot[p]
         /\ Waiting(p) /\ req[p] = m.cmd
         /\ Asked(p) \/ Served(p)
         /\ ~Answered(p)
         /\ m.cmd # "HELLO" => fd[m.cid] = p /\ CanSend(m.cid)
<1>1. fd[m.cid] \in {None, m.pid}
  BY DEF CoreInv, RequestInv
<1>2. m.pid = p
  BY <1>1 DEF Pids, None
<1>3. m.cid = slot[p] /\ Waiting(p) /\ req[p] = m.cmd
  BY <1>2 DEF CoreInv, RequestInv
<1>4. Asked(p) \/ Served(p)
  BY <1>2 DEF Pending, Asked, Served
<1>5. ~Answered(p)
  BY <1>4 DEF CoreInv, FifoInv, FifoOf
<1>6. ASSUME m.cmd # "HELLO"
      PROVE  fd[m.cid] = p /\ CanSend(m.cid)
  <2>1. fd[slot[p]] = p
    BY <1>3, <1>6 DEF CoreInv, FifoInv, FifoOf
  <2>2. slot[p] \in Slots
    BY DEF TypeOK, ChildrenType
  <2>3. type[slot[p]] # "CLOSED"
    BY <2>1, <2>2 DEF CoreInv, TableInv, Pids, None
  <2> QED BY <1>3, <2>1, <2>3 DEF CanSend, Pids, None
<1> QED BY <1>2, <1>3, <1>4, <1>5, <1>6

\* The process a handler writes to or serves waits for this answer and
\* owns the FIFO of its slot (send_to_child inside a handler).
LEMMA ServedProcess ==
  ASSUME TypeOK, CoreInv, ppc \in {"script", "update"},
         NEW p \in Pids, Alive(p), fd[serving.cid] = p \/ serving.pid = p
  PROVE  /\ serving.pid = p /\ serving.cid = slot[p]
         /\ Waiting(p) /\ Served(p) /\ ~Asked(p) /\ ~Answered(p)
         /\ fd[serving.cid] = p /\ CanSend(serving.cid)
<1>1. serving \in Pending /\ serving.cmd # "HELLO" /\ serving # NoMsg
  BY ServingType DEF CoreInv, ControlInv
<1>2. /\ serving.pid = p /\ serving.cid = slot[p] /\ Waiting(p) /\ ~Answered(p)
      /\ fd[serving.cid] = p /\ CanSend(serving.cid)
  BY <1>1, PendingProcess
<1>3. Served(p)
  BY <1>2 DEF Served
<1>4. ASSUME NEW i \in DOMAIN input, input[i].pid = p
      PROVE  FALSE
  <2>1. input[i] \in Pending
    BY DEF Pending
  <2>2. input[i].cid = slot[p]
    BY <1>4, <2>1 DEF CoreInv, RequestInv
  <2>3. serving.pid < input[i].pid
    BY <1>1, <1>2, <2>2 DEF CoreInv, RequestInv
  <2> QED BY <1>2, <1>4, <2>3 DEF Pids
<1> QED BY <1>2, <1>3, <1>4 DEF Asked

\* Lines sent by a handler that goes on preserve CoreInv.
LEMMA SpeakCore ==
  ASSUME TypeOK, CoreInv, Speak
  PROVE  CoreInv'
<1> USE DEF Speak, SameButFifo
<1>1. PICK lines : Plain(lines) /\ Send(serving.cid, lines)
  OBVIOUS
<1>2. /\ serving.cid \in Slots
      /\ lines \in Seq(Lines)
      /\ \A i \in DOMAIN lines : lines[i].cmd # "OK"
  BY <1>1, ServingType DEF CoreInv, Plain
<1>3. \A p \in Pids : fifo'[p] = IF CanSend(serving.cid) /\ p = fd[serving.cid]
                                 THEN fifo[p] \o lines ELSE fifo[p]
  BY <1>1, <1>2, SendEffect
<1>4. \A p \in Pids : /\ Alive(p)' = Alive(p) /\ Waiting(p)' = Waiting(p)
                      /\ Asked(p)' = Asked(p) /\ Served(p)' = Served(p)
  BY DEF Alive, Waiting, Asked, Served
<1>5. ControlInv'
  BY DEF CoreInv, ControlInv
<1>6. TableInv'
  BY DEF CoreInv, TableInv, Alive
<1>7. CountInv'
  BY DEF CoreInv, CountInv
<1>20. NoOrphans'
  BY DEF CoreInv, NoOrphans, Alive
<1>8. RequestInv'
  BY DEF CoreInv, RequestInv, Pending, Alive, Waiting
<1>9. ASSUME NEW p \in Pids, Alive(p)
      PROVE  FifoOf(p)'
  <2>1. fifo[p] \in Seq(Lines)
    BY DEF TypeOK, ChildrenType
  <2>2. CASE p = fd[serving.cid]
    <3>1. /\ serving.cid = slot[p] /\ Waiting(p) /\ Served(p) /\ ~Answered(p)
          /\ fd[slot[p]] = p
      BY <2>2, <1>9, ServedProcess
    <3>2. \A i \in DOMAIN fifo'[p] : fifo'[p][i].cmd # "OK"
      <4>1. Plain(fifo[p])
        BY <2>1, <3>1 DEF Answered, Plain
      <4>2. Plain(fifo[p] \o lines)
        BY <1>1, <4>1, PlainConcat
      <4>3. fifo'[p] = fifo[p] \/ fifo'[p] = fifo[p] \o lines
        BY <1>3
      <4> QED BY <4>1, <4>2, <4>3 DEF Plain
    <3> QED BY <3>1, <3>2, <1>4 DEF FifoOf, Answered
  <2>3. CASE p # fd[serving.cid]
    <3>1. fifo'[p] = fifo[p]
      BY <1>3, <2>3
    <3> QED BY <3>1, <1>4, <1>9 DEF CoreInv, FifoInv, FifoOf, Answered
  <2> QED BY <2>2, <2>3
<1>10. FifoInv'
  BY <1>4, <1>9 DEF FifoInv
<1>30. UnbornInv'
  BY <1>3 DEF CoreInv, UnbornInv, CanSend, Alive
<1> QED BY <1>5, <1>6, <1>7, <1>8, <1>10, <1>20, <1>30 DEF CoreInv

\* The OK at the end of a handler preserves CoreInv.
LEMMA FinishCore ==
  ASSUME TypeOK, CoreInv, Finish
  PROVE  CoreInv'
<1> USE DEF Finish
<1>1. PICK lines : Plain(lines) /\ Send(serving.cid, lines \o <<OK>>)
  OBVIOUS
<1>2. serving.cid \in Slots /\ lines \o <<OK>> \in Seq(Lines)
  BY <1>1, ServingType, OkLast DEF CoreInv
<1>3. \A p \in Pids : fifo'[p] = IF CanSend(serving.cid) /\ p = fd[serving.cid]
                                 THEN fifo[p] \o (lines \o <<OK>>) ELSE fifo[p]
  BY <1>1, <1>2, SendEffect
<1>4. \A p \in Pids : /\ Alive(p)' = Alive(p) /\ Waiting(p)' = Waiting(p)
                      /\ Asked(p)' = Asked(p) /\ ~Served(p)'
  BY NoMsgNoPid DEF Alive, Waiting, Asked, Served
<1>5. ControlInv'
  BY DEF CoreInv, ControlInv, NoMsg
<1>6. TableInv'
  BY DEF CoreInv, TableInv, Alive
<1>7. CountInv'
  BY DEF CoreInv, CountInv
<1>20. NoOrphans'
  BY DEF CoreInv, NoOrphans, Alive
<1>8. RequestInv'
  <2>1. Pending' \subseteq Pending
    BY DEF Pending
  <2> QED BY <2>1 DEF CoreInv, RequestInv, Alive, Waiting
<1>9. ASSUME NEW p \in Pids, Alive(p)
      PROVE  FifoOf(p)'
  <2>1. fifo[p] \in Seq(Lines)
    BY DEF TypeOK, ChildrenType
  <2>2. CASE fd[serving.cid] = p \/ serving.pid = p
    <3>1. /\ serving.cid = slot[p] /\ Waiting(p) /\ ~Answered(p) /\ ~Asked(p)
          /\ fd[slot[p]] = p /\ fifo'[p] = fifo[p] \o (lines \o <<OK>>)
      BY <2>2, <1>9, <1>3, ServedProcess
    <3>2. Plain(fifo[p])
      BY <2>1, <3>1 DEF Answered, Plain
    <3>3. /\ \A i \in DOMAIN fifo'[p] : fifo'[p][i].cmd = "OK" => i = Len(fifo'[p])
          /\ Len(fifo'[p]) \in DOMAIN fifo'[p] /\ fifo'[p][Len(fifo'[p])].cmd = "OK"
      <4> DEFINE c == fifo[p] \o (lines \o <<OK>>)
      <4>1. /\ \A i \in DOMAIN c : c[i].cmd = "OK" => i = Len(c)
            /\ Len(c) \in DOMAIN c /\ c[Len(c)].cmd = "OK"
        BY <1>1, <3>2, OkConcat
      <4>2. fifo'[p] = c
        BY <3>1
      <4> HIDE DEF c
      <4> QED BY <4>1, <4>2
    <3>4. Answered(p)'
      BY <3>3 DEF Answered
    <3> QED BY <3>1, <3>3, <3>4, <1>4 DEF FifoOf
  <2>3. CASE fd[serving.cid] # p /\ serving.pid # p
    <3>1. fifo'[p] = fifo[p]
      BY <1>3, <2>3
    <3> QED BY <2>3, <3>1, <1>4, <1>9 DEF CoreInv, FifoInv, FifoOf, Answered, Served
  <2> QED BY <2>2, <2>3
<1>10. FifoInv'
  BY <1>4, <1>9 DEF FifoInv
<1>30. UnbornInv'
  BY <1>3 DEF CoreInv, UnbornInv, CanSend, Alive
<1> QED BY <1>5, <1>6, <1>7, <1>8, <1>10, <1>20, <1>30 DEF CoreInv

\* What taking the first message leaves.
LEMMA TakeFirst ==
  ASSUME TypeOK, CoreInv, ppc = "server", input # <<>>, input' = Tail(input)
  PROVE  /\ Head(input) \in Message /\ Head(input) \in Pending
         /\ input' \in Seq(Message) /\ DOMAIN input' = 1 .. Len(input) - 1
         /\ \A i \in DOMAIN input' : i + 1 \in DOMAIN input /\ input'[i] = input[i + 1]
         /\ \A i \in DOMAIN input' :
              input'[i].cid = Head(input).cid => Head(input).pid < input'[i].pid
         /\ \A p \in Pids : Asked(p) <=> Asked(p)' \/ Head(input).pid = p
         /\ \A p \in Pids : Alive(p) => ~(Asked(p)' /\ Head(input).pid = p)
<1>1. input \in Seq(Message)
  BY DEF TypeOK, InputType
<1>2. /\ Head(input) = input[1] /\ 1 \in DOMAIN input /\ Head(input) \in Message
      /\ input' \in Seq(Message) /\ DOMAIN input' = 1 .. Len(input) - 1
      /\ \A i \in DOMAIN input' : i + 1 \in DOMAIN input /\ input'[i] = input[i + 1]
  BY <1>1
<1>3. \A i \in DOMAIN input :
        i # 1 => i - 1 \in DOMAIN input' /\ input'[i - 1] = input[i]
  <2> SUFFICES ASSUME NEW i \in DOMAIN input, i # 1
               PROVE  i - 1 \in DOMAIN input' /\ input'[i - 1] = input[i]
    OBVIOUS
  <2>1. i \in 1 .. Len(input) /\ Len(input) \in Nat
    BY <1>1
  <2>2. i - 1 \in 1 .. Len(input) - 1 /\ i - 1 + 1 = i
    BY <2>1
  <2> QED BY <1>2, <2>2
<1>4. Head(input) \in Pending
  BY <1>2 DEF Pending
<1>5. \A i \in DOMAIN input' :
        input'[i].cid = Head(input).cid => Head(input).pid < input'[i].pid
  BY <1>2 DEF CoreInv, RequestInv
<1>6. \A p \in Pids : Asked(p) <=> Asked(p)' \/ Head(input).pid = p
  <2> SUFFICES ASSUME NEW p \in Pids
               PROVE  Asked(p) <=> Asked(p)' \/ Head(input).pid = p
    OBVIOUS
  <2>1. ASSUME NEW i \in DOMAIN input, input[i].pid = p, i # 1
        PROVE  Asked(p)'
    BY <1>3, <2>1 DEF Asked
  <2>2. ASSUME NEW i \in DOMAIN input', input'[i].pid = p
        PROVE  Asked(p)
    BY <1>2, <2>2 DEF Asked
  <2>3. Asked(p) => Asked(p)' \/ Head(input).pid = p
    BY <1>2, <2>1 DEF Asked
  <2>4. Asked(p)' => Asked(p)
    BY <2>2 DEF Asked
  <2>5. Head(input).pid = p => Asked(p)
    BY <1>2 DEF Asked
  <2> QED BY <2>3, <2>4, <2>5
<1>7. ASSUME NEW p \in Pids, Alive(p), Head(input).pid = p, NEW i \in DOMAIN input',
             input'[i].pid = p
      PROVE  FALSE
  <2>1. input'[i] \in Pending
    BY <1>2 DEF Pending
  <2>2. input'[i].cid = slot[p] /\ Head(input).cid = slot[p]
    BY <1>4, <1>7, <2>1 DEF CoreInv, RequestInv
  <2> QED BY <1>5, <1>7, <2>2 DEF Pids
<1> QED BY <1>2, <1>4, <1>5, <1>6, <1>7 DEF Asked

\* The start of a handler (parse_server_input) preserves CoreInv.
LEMMA BeginCore ==
  ASSUME TypeOK, CoreInv, Begin
  PROVE  CoreInv'
<1> USE DEF Begin
<1> DEFINE m == Head(input)
<1>1. /\ m \in Message /\ m \in Pending
      /\ \A i \in DOMAIN input' : i + 1 \in DOMAIN input /\ input'[i] = input[i + 1]
      /\ \A i \in DOMAIN input' : input'[i].cid = m.cid => m.pid < input'[i].pid
      /\ \A p \in Pids : Asked(p) <=> Asked(p)' \/ m.pid = p
      /\ DOMAIN input' \subseteq Int
  BY TakeFirst
<1> HIDE DEF m
<1>2. serving' = m /\ (ppc' = "hello" <=> m.cmd = "HELLO")
  BY DEF m
<1>3. m # NoMsg
  BY <1>1, NoMsgNoPid
<1>4. serving = NoMsg
  BY DEF CoreInv, ControlInv
<1>5. \A p \in Pids : /\ Alive(p)' = Alive(p) /\ Waiting(p)' = Waiting(p)
                      /\ Answered(p)' = Answered(p)
                      /\ Served(p)' <=> m.pid = p
                      /\ ~Served(p)
  BY <1>4, <1>2, NoMsgNoPid DEF Alive, Waiting, Answered, Served
<1>6. ControlInv'
  BY <1>2, <1>3 DEF ControlInv, m
<1>7. TableInv'
  BY DEF CoreInv, TableInv, Alive
<1>8. CountInv'
  BY DEF CoreInv, CountInv
<1>20. NoOrphans'
  BY DEF CoreInv, NoOrphans, Alive
<1>9. RequestInv'
  <2>1. Pending' \subseteq Pending
    BY <1>1 DEF Pending, m
  <2>2. \A i, j \in DOMAIN input' :
          i < j /\ input'[i].cid = input'[j].cid => input'[i].pid < input'[j].pid
    BY <1>1 DEF CoreInv, RequestInv
  <2>3. \A i \in DOMAIN input' : input'[i].cid = serving'.cid => serving'.pid < input'[i].pid
    BY <1>1 DEF m
  <2> QED BY <2>1, <2>2, <2>3 DEF CoreInv, RequestInv, Alive, Waiting
<1>10. FifoInv'
  BY <1>1, <1>5 DEF CoreInv, FifoInv, FifoOf
<1>30. UnbornInv'
  BY DEF CoreInv, UnbornInv
<1> QED BY <1>6, <1>7, <1>8, <1>9, <1>10, <1>20, <1>30 DEF CoreInv

\* A living process has its slot for itself.
LEMMA OwnSlot ==
  ASSUME TypeOK, CoreInv, NEW p \in Pids, Alive(p), NEW q \in Pids, Alive(q),
         slot[p] = slot[q]
  PROVE  p = q
<1>1. p \in Pids /\ q \in Pids /\ p # None /\ q # None
  BY DEF Pids, None
<1>2. CASE p # forked /\ q # forked
  BY <1>2 DEF CoreInv, TableInv
<1>3. CASE p = forked \/ q = forked
  BY <1>1, <1>3 DEF CoreInv, TableInv
<1> QED BY <1>2, <1>3

\* The slot of a living process is in use.
LEMMA OwnSlotOpen ==
  ASSUME TypeOK, CoreInv, NEW p \in Pids, Alive(p)
  PROVE  slot[p] \in Slots /\ type[slot[p]] # "CLOSED" /\ p <= forks
<1>1. slot[p] \in Slots /\ p # None
  BY DEF TypeOK, ChildrenType, Pids, None
<1>2. CASE p = forked
  BY <1>1, <1>2 DEF CoreInv, TableInv
<1>3. CASE p # forked
  BY <1>1, <1>3 DEF CoreInv, TableInv
<1>4. p <= forks
  BY DEF CoreInv, TableInv, Alive, TypeOK, BoundsType, Pids
<1> QED BY <1>1, <1>2, <1>3, <1>4

\* A request answered at once (server_nick, server_note) preserves CoreInv.
LEMMA ImmediateCore ==
  ASSUME TypeOK, CoreInv, Immediate
  PROVE  CoreInv'
<1> USE DEF Immediate
<1> DEFINE m == Head(input)
<1>1. /\ m \in Message /\ m \in Pending
      /\ \A i \in DOMAIN input' : i + 1 \in DOMAIN input /\ input'[i] = input[i + 1]
      /\ \A p \in Pids : Asked(p) <=> Asked(p)' \/ m.pid = p
      /\ \A p \in Pids : Alive(p) => ~(Asked(p)' /\ m.pid = p)
      /\ DOMAIN input' \subseteq Int
  BY TakeFirst
<1>2. m.cmd # "HELLO"
  OBVIOUS
<1>3. PICK lines : Plain(lines) /\ Send(m.cid, lines \o <<OK>>)
  OBVIOUS
<1> HIDE DEF m
<1>4. m.cid \in Slots /\ lines \o <<OK>> \in Seq(Lines)
  BY <1>1, <1>3, OkLast DEF Message
<1>5. \A p \in Pids : fifo'[p] = IF CanSend(m.cid) /\ p = fd[m.cid]
                                 THEN fifo[p] \o (lines \o <<OK>>) ELSE fifo[p]
  BY <1>3, <1>4, SendEffect
<1>6. serving = NoMsg /\ serving' = NoMsg
  BY DEF CoreInv, ControlInv
<1>7. \A p \in Pids : /\ Alive(p)' = Alive(p) /\ Waiting(p)' = Waiting(p)
                      /\ ~Served(p) /\ ~Served(p)'
  BY <1>6, NoMsgNoPid DEF Alive, Waiting, Served
<1>8. ControlInv'
  BY DEF CoreInv, ControlInv
<1>9. TableInv'
  BY DEF CoreInv, TableInv, Alive
<1>10. CountInv'
  BY DEF CoreInv, CountInv
<1>11. NoOrphans'
  BY DEF CoreInv, NoOrphans, Alive
<1>12. RequestInv'
  <2>1. Pending' \subseteq Pending
    BY <1>1 DEF Pending
  <2>2. \A i, j \in DOMAIN input' :
          i < j /\ input'[i].cid = input'[j].cid => input'[i].pid < input'[j].pid
    BY <1>1 DEF CoreInv, RequestInv
  <2> QED BY <1>6, <2>1, <2>2 DEF CoreInv, RequestInv, Alive, Waiting
<1>13. ASSUME NEW p \in Pids, Alive(p)
       PROVE  FifoOf(p)'
  <2>1. fifo[p] \in Seq(Lines)
    BY DEF TypeOK, ChildrenType
  <2>2. CASE fd[m.cid] = p \/ m.pid = p
    <3>1. /\ m.pid = p /\ m.cid = slot[p] /\ Waiting(p) /\ ~Answered(p)
          /\ fd[m.cid] = p /\ CanSend(m.cid)
      BY <2>2, <1>13, <1>1, <1>2, PendingProcess
    <3>2. Plain(fifo[p])
      BY <2>1, <3>1 DEF Answered, Plain
    <3>3. /\ \A i \in DOMAIN fifo'[p] : fifo'[p][i].cmd = "OK" => i = Len(fifo'[p])
          /\ Len(fifo'[p]) \in DOMAIN fifo'[p] /\ fifo'[p][Len(fifo'[p])].cmd = "OK"
      <4> DEFINE c == fifo[p] \o (lines \o <<OK>>)
      <4>1. /\ \A i \in DOMAIN c : c[i].cmd = "OK" => i = Len(c)
            /\ Len(c) \in DOMAIN c /\ c[Len(c)].cmd = "OK"
        BY <1>3, <3>2, OkConcat
      <4>2. fifo'[p] = c
        BY <1>5, <3>1
      <4> HIDE DEF c
      <4> QED BY <4>1, <4>2
    <3>4. Answered(p)'
      BY <3>3 DEF Answered
    <3> QED BY <3>1, <3>3, <3>4, <1>1, <1>7, <1>13 DEF FifoOf
  <2>3. CASE fd[m.cid] # p /\ m.pid # p
    <3>1. fifo'[p] = fifo[p]
      BY <1>5, <2>3
    <3> QED BY <2>3, <3>1, <1>1, <1>7, <1>13 DEF CoreInv, FifoInv, FifoOf, Answered
  <2> QED BY <2>2, <2>3
<1>14. FifoInv'
  BY <1>7, <1>13 DEF FifoInv
<1>30. UnbornInv'
  BY <1>5 DEF CoreInv, UnbornInv, CanSend, Alive
<1> QED BY <1>8, <1>9, <1>10, <1>11, <1>12, <1>14, <1>30 DEF CoreInv

\* The open() of a new child's FIFO, successful or not, preserves CoreInv.
LEMMA HelloOpenCore ==
  ASSUME TypeOK, CoreInv, HelloOpen
  PROVE  CoreInv'
<1> DEFINE s == serving.cid
           h == serving.pid
<1>0. /\ ppc = "hello" /\ forked = None /\ ppc' = "server" /\ serving' = NoMsg
      /\ UNCHANGED <<forked, type, pid, count, input, cpc, slot, req, forks>>
  BY DEF HelloOpen, Main, bounds
<1> USE <1>0
<1>1. s \in Slots /\ h \in Pids /\ serving \in Pending /\ serving.cmd = "HELLO"
      /\ serving # NoMsg
  BY ServingType DEF CoreInv, ControlInv
<1>2. \/ fds = MaxFds /\ fds' = fds /\ fd' = [fd EXCEPT ![s] = None] /\ fifo' = fifo
      \/ /\ fds < MaxFds /\ Alive(h) /\ fds' = fds + 1 /\ fd' = [fd EXCEPT ![s] = h]
         /\ fifo' = IF type[s] = "CLOSED" THEN fifo
                    ELSE [fifo EXCEPT ![h] = Append(@, OK)]
  BY DEF HelloOpen
<1>3. /\ fd[s] \in {None, h} /\ (Alive(h) => fd[s] = None)
      /\ h <= forks /\ s = slot[h]
  BY <1>1 DEF CoreInv, RequestInv
<1>4. /\ fd' \in [Slots -> {None} \cup Pids]
      /\ \A t \in Slots : t # s => fd'[t] = fd[t]
      /\ fd'[s] = IF fds < MaxFds THEN h ELSE None
      /\ fds < MaxFds => Alive(h)
  BY <1>1, <1>2 DEF TypeOK, TableType, InputType, BoundsAssumption
<1> HIDE DEF s, h
<1>5. \A p \in Pids : /\ Alive(p)' = Alive(p) /\ Waiting(p)' = Waiting(p)
                      /\ Asked(p)' = Asked(p) /\ ~Served(p)'
                      /\ Served(p) <=> p = h
  BY NoMsgNoPid DEF Alive, Waiting, Asked, Served, h
<1>6. ControlInv'
  BY DEF CoreInv, ControlInv, NoMsg
<1>7. TableInv'
  <2>1. ASSUME NEW p \in Pids, Alive(p)
        PROVE  fd'[slot[p]] \in {None, p} /\ (cpc[p] = "init" => fd'[slot[p]] = None)
    <3>1. CASE slot[p] = s /\ fds < MaxFds
      <4>1. p = h
        BY <1>1, <1>3, <1>4, <2>1, <3>1, OwnSlot DEF h
      <4>2. Waiting(p)
        BY <4>1, <1>1, <2>1 DEF CoreInv, RequestInv, h
      <4> QED BY <4>1, <4>2, <3>1, <1>4 DEF Waiting
    <3>2. CASE ~(slot[p] = s /\ fds < MaxFds)
      <4>1. slot[p] \in Slots
        BY DEF TypeOK, ChildrenType
      <4> QED BY <4>1, <3>2, <1>4, <2>1 DEF CoreInv, TableInv
    <3> QED BY <3>1, <3>2
  <2>2. ASSUME NEW t \in Slots
        PROVE  /\ type[t] = "CLOSED" => fd'[t] = None
               /\ fd'[t] # None => fd'[t] <= forks /\ slot[fd'[t]] = t
    <3>1. CASE t = s /\ fds < MaxFds
      <4>1. type[s] # "CLOSED"
        BY <3>1, <1>1, <1>3, <1>4, OwnSlotOpen DEF h
      <4> QED BY <3>1, <4>1, <1>3, <1>4
    <3>2. CASE ~(t = s /\ fds < MaxFds)
      BY <3>2, <1>4 DEF CoreInv, TableInv
    <3> QED BY <3>1, <3>2
  <2>3. forked' # None => /\ forked' <= forks'
                          /\ type'[slot'[forked']] # "CLOSED"
                          /\ pid'[slot'[forked']] = None
    BY DEF CoreInv, TableInv
  <2>4. \A p \in Pids : Alive(p) /\ p # forked => pid[slot[p]] = p
    BY DEF CoreInv, TableInv
  <2>5. \A p \in Pids : cpc[p] = "unborn" <=> p > forks
    BY DEF CoreInv, TableInv
  <2>6. \A t \in Slots : /\ type[t] = "CLOSED" => pid[t] = None
                         /\ pid[t] # None => pid[t] <= forks /\ slot[pid[t]] = t
    BY DEF CoreInv, TableInv
  <2> QED BY <2>1, <2>2, <2>3, <2>4, <2>5, <2>6, <1>5 DEF TableInv
<1>8. CountInv'
  BY DEF CoreInv, CountInv
<1>9. NoOrphans'
  BY DEF CoreInv, NoOrphans, Alive
<1>10. RequestInv'
  <2>1. /\ Pending' \subseteq Pending
        /\ \A m \in Pending' : \E i \in DOMAIN input : m = input[i]
    BY DEF Pending
  <2>2. ASSUME NEW m \in Pending'
        PROVE  /\ fd'[m.cid] \in {None, m.pid}
               /\ Alive(m.pid) /\ m.cmd = "HELLO" => fd'[m.cid] = None
    <3> PICK i \in DOMAIN input : m = input[i]
      BY <2>1
    <3>1. m.cid \in Slots /\ m.pid \in Pids /\ m \in Pending
      <4>1. input[i] \in Message
        BY DEF TypeOK, InputType
      <4> QED BY <4>1 DEF Message, Pending
    <3>2. CASE m.cid = s
      <4>1. serving.pid < m.pid
        BY <3>2, <1>1 DEF CoreInv, RequestInv, s
      <4>2. Alive(h) => m.pid <= h
        BY <3>1, <3>2, <1>1, <1>3 DEF CoreInv, RequestInv
      <4>3. ~Alive(h)
        BY <4>1, <4>2, <3>1, <1>1 DEF h, Pids
      <4> QED BY <4>3, <3>2, <1>4
    <3>3. CASE m.cid # s
      BY <3>1, <3>3, <1>4 DEF CoreInv, RequestInv
    <3> QED BY <3>2, <3>3
  <2> QED BY <2>1, <2>2 DEF CoreInv, RequestInv, Alive, Waiting
<1>11. ASSUME NEW p \in Pids, Alive(p)
       PROVE  FifoOf(p)'
  <2>1. fifo[p] \in Seq(Lines) /\ slot[p] \in Slots
    BY DEF TypeOK, ChildrenType
  <2>2. CASE p = h
    <3>1. /\ Waiting(p) /\ req[p] = "HELLO" /\ s = slot[p] /\ ~Asked(p) /\ fd[s] = None
          /\ ~Answered(p)
      <4>1. /\ Waiting(p) /\ req[p] = "HELLO" /\ s = slot[p] /\ fd[s] = None
        BY <1>1, <1>3, <1>11, <2>2 DEF CoreInv, RequestInv, h
      <4>2. ~Answered(p)
        BY <2>2, <1>5, <1>11 DEF CoreInv, FifoInv, FifoOf
      <4>3. ASSUME NEW i \in DOMAIN input, input[i].pid = p
            PROVE  FALSE
        <5>1. input[i] \in Pending
          BY DEF Pending
        <5>2. input[i].cid = slot[p]
          BY <1>11, <4>3, <5>1 DEF CoreInv, RequestInv
        <5>3. serving.pid < input[i].pid
          BY <1>1, <4>1, <5>2 DEF CoreInv, RequestInv, s
        <5> QED BY <2>2, <4>3, <5>3 DEF Pids, h
      <4> QED BY <4>1, <4>2, <4>3 DEF Asked
    <3>2. fifo[p] = <<>>
      BY <3>1, <1>11 DEF CoreInv, FifoInv, FifoOf, None, Pids
    <3>3. CASE fds < MaxFds
      <4>1. type[s] # "CLOSED"
        BY <3>1, <1>11, OwnSlotOpen
      <4>2. fifo'[p] = <<OK>>
        <5>1. fifo' = [fifo EXCEPT ![h] = Append(fifo[h], OK)]
          BY <1>2, <3>3, <4>1 DEF TypeOK, InputType, BoundsAssumption
        <5>2. fifo'[p] = Append(fifo[p], OK)
          BY <5>1, <2>2 DEF TypeOK, ChildrenType
        <5> QED BY <5>2, <3>2
      <4>3. Answered(p)' /\ \A i \in DOMAIN fifo'[p] : i = Len(fifo'[p])
        BY <4>2, LineTypes DEF Answered
      <4> QED BY <3>1, <3>3, <4>2, <4>3, <1>4, <1>5, <2>2 DEF FifoOf
    <3>4. CASE ~(fds < MaxFds)
      <4>1. fifo'[p] = <<>> /\ fds' = MaxFds
        BY <1>2, <3>2, <3>4
      <4>2. ~Answered(p)'
        BY <4>1 DEF Answered
      <4> QED BY <3>1, <4>1, <4>2, <1>5 DEF FifoOf, Waiting
    <3> QED BY <3>3, <3>4
  <2>3. CASE p # h
    <3>1. fifo'[p] = fifo[p]
      BY <1>2, <2>3 DEF TypeOK, ChildrenType, h
    <3>2. slot[p] = s => fd[slot[p]] # p
      BY <1>3, <2>3, <1>1 DEF h, Pids, None
    <3>3. fd[slot[p]] = p => fd'[slot[p]] = p
      BY <3>2, <2>1, <1>4
    <3>4. fds = MaxFds => fds' = MaxFds
      BY <1>2 DEF TypeOK, InputType, BoundsAssumption
    <3> QED BY <3>1, <3>3, <3>4, <2>3, <1>5, <1>11 DEF CoreInv, FifoInv, FifoOf, Answered, Waiting
  <2> QED BY <2>2, <2>3
<1>12. FifoInv'
  BY <1>5, <1>11 DEF FifoInv
<1>30. UnbornInv'
  BY <1>1, <1>2 DEF CoreInv, UnbornInv, Alive, h, TypeOK, ChildrenType
<1> QED BY <1>6, <1>7, <1>8, <1>9, <1>10, <1>12, <1>30 DEF CoreInv

\* Requests not yet answered are messages.
LEMMA PendingType ==
  ASSUME TypeOK
  PROVE  \A m \in Pending : m \in Message /\ m.pid \in Pids /\ m.cid \in Slots
<1>1. \A m \in Pending : m \in Message
  BY DEF TypeOK, InputType, ControlType, Pending
<1> QED BY <1>1 DEF Message

\* The death of a child, at whatever point, preserves CoreInv.
LEMMA DiesCore ==
  ASSUME TypeOK, CoreInv, NEW p \in Pids, Dies(p)
  PROVE  CoreInv'
<1> USE DEF Dies
<1>1. /\ \A q \in Pids : q # p => cpc'[q] = cpc[q]
      /\ cpc'[p] = "zombie" /\ cpc[p] # "unborn"
  BY DEF TypeOK, ChildrenType, Alive
<1>2. \A q \in Pids : /\ Alive(q)' <=> Alive(q) /\ q # p
                      /\ q # p => (Waiting(q)' <=> Waiting(q))
                      /\ Asked(q)' = Asked(q) /\ Served(q)' = Served(q)
                      /\ Answered(q)' = Answered(q)
  BY <1>1 DEF Alive, Waiting, Asked, Served, Answered
<1>3. ControlInv'
  BY DEF CoreInv, ControlInv
<1>4. TableInv'
  <2>1. \A q \in Pids : cpc'[q] = "unborn" <=> q > forks
    BY <1>1 DEF CoreInv, TableInv
  <2>2. \A q \in Pids : Alive(q)' => /\ q # forked => pid[slot[q]] = q
                                     /\ fd[slot[q]] \in {None, q}
                                     /\ cpc'[q] = "init" => fd[slot[q]] = None
    BY <1>1, <1>2 DEF CoreInv, TableInv
  <2> QED BY <2>1, <2>2 DEF CoreInv, TableInv
<1>5. CountInv'
  BY DEF CoreInv, CountInv
<1>6. NoOrphans'
  BY <1>2 DEF CoreInv, NoOrphans
<1>7. RequestInv'
  <2>1. Pending' = Pending
    BY DEF Pending
  <2>2. \A m \in Pending : m.pid \in Pids
    BY PendingType
  <2> QED BY <1>2, <2>1, <2>2 DEF CoreInv, RequestInv
<1>8. FifoInv'
  <2>1. ASSUME NEW q \in Pids, Alive(q), q # p
        PROVE  FifoOf(q)'
    BY <1>1, <1>2, <2>1 DEF CoreInv, FifoInv, FifoOf
  <2> QED BY <1>2, <2>1 DEF FifoInv
<1>30. UnbornInv'
  BY <1>1 DEF CoreInv, UnbornInv
<1> QED BY <1>3, <1>4, <1>5, <1>6, <1>7, <1>8, <1>30 DEF CoreInv

\* A step of a child that neither asks nor reads preserves CoreInv.
LEMMA MovesCore ==
  ASSUME TypeOK, CoreInv, NEW p \in Pids, Moves(p)
  PROVE  CoreInv'
<1> USE DEF Moves
<1>1. PICK pc \in {"connect", "read", "timer", "tail", "exit"} :
        (cpc[p] = "init" => pc = "exit") /\ cpc' = [cpc EXCEPT ![p] = pc]
  OBVIOUS
<1>2. /\ \A q \in Pids : q # p => cpc'[q] = cpc[q]
      /\ cpc'[p] = pc /\ cpc[p] # "wait"
      /\ Alive(p) /\ ~Waiting(p)
  BY <1>1 DEF TypeOK, ChildrenType, Alive, Waiting
<1>3. \A q \in Pids : /\ Alive(q)' <=> Alive(q)
                      /\ Waiting(q)' <=> Waiting(q)
                      /\ Asked(q)' = Asked(q) /\ Served(q)' = Served(q)
                      /\ Answered(q)' = Answered(q)
  BY <1>1, <1>2 DEF Alive, Waiting, Asked, Served, Answered
<1>4. ControlInv'
  BY DEF CoreInv, ControlInv
<1>5. TableInv'
  <2>1. \A q \in Pids : cpc'[q] = "unborn" <=> q > forks
    BY <1>1, <1>2 DEF CoreInv, TableInv, Alive
  <2>2. \A q \in Pids : Alive(q)' => /\ q # forked => pid[slot[q]] = q
                                     /\ fd[slot[q]] \in {None, q}
                                     /\ cpc'[q] = "init" => fd[slot[q]] = None
    BY <1>1, <1>2, <1>3 DEF CoreInv, TableInv
  <2> QED BY <2>1, <2>2 DEF CoreInv, TableInv
<1>6. CountInv'
  BY DEF CoreInv, CountInv
<1>7. NoOrphans'
  BY <1>3 DEF CoreInv, NoOrphans
<1>8. RequestInv'
  <2>1. Pending' = Pending
    BY DEF Pending
  <2>2. \A m \in Pending : m.pid \in Pids
    BY PendingType
  <2> QED BY <1>3, <2>1, <2>2 DEF CoreInv, RequestInv
<1>9. FifoInv'
  <2>1. ASSUME NEW q \in Pids, Alive(q)
        PROVE  FifoOf(q)'
    BY <1>1, <1>2, <1>3, <2>1 DEF CoreInv, FifoInv, FifoOf
  <2> QED BY <1>3, <2>1 DEF FifoInv
<1>30. UnbornInv'
  BY <1>1, <1>2 DEF CoreInv, UnbornInv
<1> QED BY <1>4, <1>5, <1>6, <1>7, <1>8, <1>9, <1>30 DEF CoreInv

\* send_to_parent, the writing half, preserves CoreInv.
LEMMA AskCore ==
  ASSUME TypeOK, CoreInv, NEW p \in Pids, Ask(p)
  PROVE  CoreInv'
<1> USE DEF Ask
<1>1. PICK m \in Message :
        /\ m.cid = slot[p] /\ m.pid = p
        /\ m.cmd = "HELLO" <=> cpc[p] = "init"
        /\ input' = Append(input, m)
        /\ req' = [req EXCEPT ![p] = m.cmd]
  <2>1. PICK cmd \in Requests :
          /\ cmd = "HELLO" <=> cpc[p] = "init"
          /\ input' = Append(input, [cid |-> slot[p], cmd |-> cmd, pid |-> p])
          /\ req' = [req EXCEPT ![p] = cmd]
    OBVIOUS
  <2>2. [cid |-> slot[p], cmd |-> cmd, pid |-> p] \in Message
    BY DEF Message, TypeOK, ChildrenType
  <2> QED BY <2>1, <2>2
<1>2. /\ \A q \in Pids : q # p => cpc'[q] = cpc[q] /\ req'[q] = req[q]
      /\ cpc'[p] = "wait" /\ req'[p] = m.cmd
      /\ Alive(p) /\ ~Waiting(p) /\ slot[p] \in Slots /\ p <= forks
  BY <1>1, OwnSlotOpen DEF TypeOK, ChildrenType, Alive, Waiting
<1>3. /\ input \in Seq(Message) /\ Len(input) \in Nat
      /\ DOMAIN input = 1 .. Len(input) /\ DOMAIN input' = 1 .. Len(input) + 1
      /\ input'[Len(input) + 1] = m
      /\ \A i \in DOMAIN input : i \in DOMAIN input' /\ input'[i] = input[i] /\ i < Len(input) + 1
      /\ \A i \in DOMAIN input' : i = Len(input) + 1 \/ i \in DOMAIN input
  <2>1. input \in Seq(Message) /\ input' = Append(input, m)
    BY <1>1 DEF TypeOK, InputType
  <2> QED BY <2>1
<1>4. /\ Pending' = Pending \cup {m}
      /\ \A n \in Pending : n.pid \in Pids /\ n.cid \in Slots
  BY <1>1, <1>3, PendingType DEF Pending
<1>5. \A n \in Pending : n.pid # p
  BY <1>2 DEF CoreInv, RequestInv
<1>6. \A q \in Pids : /\ Alive(q)' <=> Alive(q)
                      /\ Waiting(q)' <=> Waiting(q) \/ q = p
                      /\ Asked(q)' <=> Asked(q) \/ q = p
                      /\ Served(q)' = Served(q)
                      /\ Answered(q)' = Answered(q)
  <2>1. \A q \in Pids : Alive(q)' <=> Alive(q)
    BY <1>2 DEF Alive
  <2>2. \A q \in Pids : Waiting(q)' <=> Waiting(q) \/ q = p
    BY <1>2 DEF Waiting
  <2>3. \A q \in Pids : Asked(q)' => Asked(q) \/ q = p
    BY <1>1, <1>3 DEF Asked
  <2>4. \A q \in Pids : Asked(q) => Asked(q)'
    BY <1>1, <1>3 DEF Asked
  <2>5. Asked(p)'
    BY <1>1, <1>3 DEF Asked
  <2> QED BY <2>1, <2>2, <2>3, <2>4, <2>5 DEF Served, Answered
<1>7. ControlInv'
  BY DEF CoreInv, ControlInv
<1>8. TableInv'
  <2>1. \A q \in Pids : cpc'[q] = "unborn" <=> q > forks
    BY <1>2 DEF CoreInv, TableInv, Alive
  <2>2. \A q \in Pids : Alive(q)' => /\ q # forked => pid[slot[q]] = q
                                     /\ fd[slot[q]] \in {None, q}
                                     /\ cpc'[q] = "init" => fd[slot[q]] = None
    BY <1>2, <1>6 DEF CoreInv, TableInv
  <2> QED BY <2>1, <2>2 DEF CoreInv, TableInv
<1>9. CountInv'
  BY DEF CoreInv, CountInv
<1>10. NoOrphans'
  BY <1>6 DEF CoreInv, NoOrphans
<1>11. RequestInv'
  <2>1. ASSUME NEW n \in Pending', n # m
        PROVE  /\ n.pid <= forks
               /\ n.cid = slot[n.pid]
               /\ Alive(n.pid)' => Waiting(n.pid)' /\ req'[n.pid] = n.cmd
               /\ \A q \in Pids : Alive(q)' /\ slot[q] = n.cid => n.pid <= q
               /\ fd[n.cid] \in {None, n.pid}
               /\ Alive(n.pid)' /\ n.cmd = "HELLO" => fd[n.cid] = None
    BY <1>1, <1>2, <1>4, <1>5, <1>6, <2>1 DEF CoreInv, RequestInv
  <2>2. /\ m.pid <= forks
        /\ m.cid = slot[m.pid]
        /\ Alive(m.pid)' => Waiting(m.pid)' /\ req'[m.pid] = m.cmd
        /\ \A q \in Pids : Alive(q)' /\ slot[q] = m.cid => m.pid <= q
        /\ fd[m.cid] \in {None, m.pid}
        /\ Alive(m.pid)' /\ m.cmd = "HELLO" => fd[m.cid] = None
    <3>1. \A q \in Pids : Alive(q)' /\ slot[q] = m.cid => q = p
      BY <1>1, <1>2, <1>6, OwnSlot
    <3>2. p <= p
      BY DEF Pids
    <3>3. fd[slot[p]] \in {None, p} /\ (cpc[p] = "init" => fd[slot[p]] = None)
      BY <1>2 DEF CoreInv, TableInv
    <3>4. /\ p <= forks
          /\ Waiting(p)' /\ req'[p] = m.cmd
          /\ \A q \in Pids : Alive(q)' /\ slot[q] = m.cid => p <= q
          /\ m.cmd = "HELLO" => fd[slot[p]] = None
      BY <1>1, <1>2, <1>3, <1>6, <3>1, <3>2, <3>3
    <3> QED BY <1>1, <1>3, <3>3, <3>4
  <2>3. \A n \in Pending : n.cid = slot[p] => n.pid < p
    <3>1. \A n \in Pending : n.cid = slot[p] => n.pid <= p
      BY <1>2 DEF CoreInv, RequestInv
    <3> QED BY <3>1, <1>4, <1>5 DEF Pids
  <2>4. ASSUME NEW i \in DOMAIN input', NEW j \in DOMAIN input', i < j,
               input'[i].cid = input'[j].cid
        PROVE  input'[i].pid < input'[j].pid
    <3>1. i \in DOMAIN input
      BY <1>1, <1>3, <2>4
    <3>2. CASE j \in DOMAIN input
      BY <1>1, <1>3, <2>4, <3>1, <3>2 DEF CoreInv, RequestInv
    <3>3. CASE j = Len(input) + 1
      <4>1. input[i] \in Pending
        BY <3>1 DEF Pending
      <4> QED BY <1>1, <1>3, <2>3, <2>4, <3>1, <3>3, <4>1
    <3> QED BY <1>1, <1>3, <3>2, <3>3
  <2>5. ASSUME serving # NoMsg, NEW i \in DOMAIN input', input'[i].cid = serving.cid
        PROVE  serving.pid < input'[i].pid
    <3>1. CASE i \in DOMAIN input
      BY <1>1, <1>3, <2>5, <3>1 DEF CoreInv, RequestInv
    <3>2. CASE i = Len(input) + 1
      <4>1. serving \in Pending
        BY <2>5 DEF Pending
      <4> QED BY <1>1, <1>3, <2>3, <2>5, <3>2, <4>1
    <3> QED BY <1>1, <1>3, <3>1, <3>2
  <2>6. \A n \in Pending' :
          /\ n.pid <= forks
          /\ n.cid = slot[n.pid]
          /\ Alive(n.pid)' => Waiting(n.pid)' /\ req'[n.pid] = n.cmd
          /\ \A q \in Pids : Alive(q)' /\ slot[q] = n.cid => n.pid <= q
          /\ fd[n.cid] \in {None, n.pid}
          /\ Alive(n.pid)' /\ n.cmd = "HELLO" => fd[n.cid] = None
    BY <2>1, <2>2
  <2> QED BY <2>4, <2>5, <2>6 DEF RequestInv
<1>12. ASSUME NEW q \in Pids, Alive(q)
       PROVE  FifoOf(q)'
  <2>1. CASE q = p
    <3>1. fifo[p] = <<>> /\ (m.cmd # "HELLO" => fd[slot[p]] = p)
      BY <1>1, <1>2 DEF CoreInv, FifoInv, FifoOf
    <3>2. ~Answered(p)
      BY <3>1 DEF Answered
    <3> QED BY <2>1, <3>1, <3>2, <1>2, <1>6 DEF FifoOf, Waiting
  <2>2. CASE q # p
    BY <2>2, <1>2, <1>6, <1>12 DEF CoreInv, FifoInv, FifoOf
  <2> QED BY <2>1, <2>2
<1>13. FifoInv'
  BY <1>6, <1>12 DEF FifoInv
<1>30. UnbornInv'
  BY <1>2 DEF CoreInv, UnbornInv
<1> QED BY <1>7, <1>8, <1>9, <1>10, <1>11, <1>13, <1>30 DEF CoreInv

\* send_to_parent, the reading half, preserves CoreInv.
LEMMA ReadsCore ==
  ASSUME TypeOK, CoreInv, NEW p \in Pids, Reads(p)
  PROVE  CoreInv'
<1> USE DEF Reads
<1>1. /\ fifo[p] \in Seq(Lines) /\ fifo[p] # <<>> /\ cpc[p] = "wait" /\ Alive(p)
      /\ \A q \in Pids : q # p => cpc'[q] = cpc[q] /\ fifo'[q] = fifo[q]
      /\ fifo'[p] = Tail(fifo[p])
      /\ IF Head(fifo[p]).cmd = "OK" THEN cpc'[p] \in {"connect", "timer", "tail"}
                                     ELSE cpc'[p] = "wait"
  BY DEF TypeOK, ChildrenType, Waiting, Alive
<1>2. /\ Head(fifo[p]) = fifo[p][1] /\ 1 \in DOMAIN fifo[p]
      /\ Len(fifo'[p]) = Len(fifo[p]) - 1 /\ Len(fifo[p]) \in Nat
      /\ fifo'[p] \in Seq(Lines)
      /\ DOMAIN fifo'[p] = 1 .. Len(fifo[p]) - 1
      /\ \A i \in DOMAIN fifo'[p] : i + 1 \in DOMAIN fifo[p] /\ fifo'[p][i] = fifo[p][i + 1]
  <2> DEFINE f == fifo[p]
             g == fifo'[p]
  <2>1. f \in Seq(Lines) /\ f # <<>> /\ g = Tail(f)
    BY <1>1
  <2> HIDE DEF f, g
  <2>2. /\ Head(f) = f[1] /\ 1 \in DOMAIN f
        /\ Len(g) = Len(f) - 1 /\ Len(f) \in Nat
        /\ g \in Seq(Lines)
        /\ DOMAIN g = 1 .. Len(f) - 1
        /\ \A i \in DOMAIN g : i + 1 \in DOMAIN f /\ g[i] = f[i + 1]
    BY <2>1, TailLines
  <2> QED BY <2>2 DEF f, g
<1>3. fd[slot[p]] = p /\ FifoOf(p)
  BY <1>1 DEF CoreInv, FifoInv, FifoOf
<1>4. CASE Head(fifo[p]).cmd = "OK"
  <2>1. Answered(p) /\ ~Asked(p) /\ ~Served(p)
    BY <1>2, <1>3, <1>4 DEF Answered, FifoOf
  <2>2. fifo'[p] = <<>>
    BY <1>2, <1>3, <1>4 DEF FifoOf
  <2>3. \A q \in Pids : /\ Alive(q)' <=> Alive(q)
                        /\ Waiting(q)' <=> Waiting(q) /\ q # p
                        /\ Asked(q)' = Asked(q) /\ Served(q)' = Served(q)
                        /\ q # p => (Answered(q)' <=> Answered(q))
    BY <1>1, <1>4 DEF Alive, Waiting, Asked, Served, Answered
  <2>4. ~Answered(p)' /\ cpc'[p] \in {"connect", "timer", "tail"}
    BY <1>1, <1>4, <2>2 DEF Answered
  <2>5. ControlInv' /\ CountInv'
    BY DEF CoreInv, ControlInv, CountInv
  <2>6. TableInv'
    <3>1. \A q \in Pids : cpc'[q] = "unborn" <=> q > forks
      BY <1>1, <2>4 DEF CoreInv, TableInv
    <3>2. \A q \in Pids : Alive(q)' => /\ q # forked => pid[slot[q]] = q
                                       /\ fd[slot[q]] \in {None, q}
                                       /\ cpc'[q] = "init" => fd[slot[q]] = None
      BY <1>1, <2>3, <2>4 DEF CoreInv, TableInv
    <3> QED BY <3>1, <3>2 DEF CoreInv, TableInv
  <2>7. NoOrphans'
    BY <2>3 DEF CoreInv, NoOrphans
  <2>8. RequestInv'
    <3>1. Pending' = Pending /\ \A m \in Pending : m.pid \in Pids
      BY PendingType DEF Pending
    <3>2. \A m \in Pending : m.pid # p
      BY <2>1 DEF Pending, Asked, Served
    <3> QED BY <2>3, <3>1, <3>2 DEF CoreInv, RequestInv
  <2>9. ASSUME NEW q \in Pids, Alive(q)
        PROVE  FifoOf(q)'
    <3>1. CASE q = p
      BY <3>1, <1>3, <2>1, <2>2, <2>3, <2>4 DEF FifoOf
    <3>2. CASE q # p
      BY <3>2, <1>1, <2>3, <2>9 DEF CoreInv, FifoInv, FifoOf
    <3> QED BY <3>1, <3>2
  <2>10. FifoInv'
    BY <2>3, <2>9 DEF FifoInv
  <2>11. UnbornInv'
    BY <1>1, <2>2, <2>4 DEF CoreInv, UnbornInv
  <2> QED BY <2>5, <2>6, <2>7, <2>8, <2>10, <2>11 DEF CoreInv
<1>5. CASE Head(fifo[p]).cmd # "OK"
  <2>0. cpc' = cpc
    BY <1>5
  <2>1. Answered(p)' <=> Answered(p)
    <3>1. \A i \in DOMAIN fifo[p] :
            i # 1 => i - 1 \in DOMAIN fifo'[p] /\ fifo'[p][i - 1] = fifo[p][i]
      BY <1>1, <1>2
    <3>2. ASSUME NEW i \in DOMAIN fifo[p], fifo[p][i].cmd = "OK" PROVE Answered(p)'
      <4>1. i # 1
        BY <1>2, <1>5, <3>2
      <4>2. i - 1 \in DOMAIN fifo'[p] /\ fifo'[p][i - 1].cmd = "OK"
        BY <3>1, <3>2, <4>1
      <4> QED BY <4>2 DEF Answered
    <3>3. Answered(p)' => Answered(p)
      BY <1>2 DEF Answered
    <3> QED BY <3>2, <3>3 DEF Answered
  <2>2. \A q \in Pids : /\ Alive(q)' <=> Alive(q)
                        /\ Waiting(q)' <=> Waiting(q)
                        /\ Asked(q)' = Asked(q) /\ Served(q)' = Served(q)
                        /\ Answered(q)' <=> Answered(q)
    BY <1>1, <2>0, <2>1 DEF Alive, Waiting, Asked, Served, Answered
  <2>3. ControlInv' /\ CountInv' /\ TableInv' /\ NoOrphans'
    BY <2>0, <2>2 DEF CoreInv, ControlInv, CountInv, TableInv, NoOrphans
  <2>4. RequestInv'
    <3>1. Pending' = Pending /\ \A m \in Pending : m.pid \in Pids
      BY PendingType DEF Pending
    <3> QED BY <2>2, <3>1 DEF CoreInv, RequestInv
  <2>5. ASSUME NEW q \in Pids, Alive(q)
        PROVE  FifoOf(q)'
    <3>1. CASE q = p
      <4>1. \A i \in DOMAIN fifo'[p] : fifo'[p][i].cmd = "OK" => i = Len(fifo'[p])
        BY <1>2, <1>3 DEF FifoOf
      <4> QED BY <3>1, <4>1, <1>1, <1>3, <2>0, <2>2 DEF FifoOf, Waiting
    <3>2. CASE q # p
      BY <3>2, <1>1, <2>0, <2>2, <2>5 DEF CoreInv, FifoInv, FifoOf
    <3> QED BY <3>1, <3>2
  <2>6. FifoInv'
    BY <2>2, <2>5 DEF FifoInv
  <2>7. UnbornInv'
    BY <1>1, <2>0 DEF CoreInv, UnbornInv
  <2> QED BY <2>3, <2>4, <2>6, <2>7 DEF CoreInv
<1> QED BY <1>4, <1>5

\* connection_open and connection_open_dcc, whatever fork() returns,
\* preserve CoreInv.
LEMMA OpenCore ==
  ASSUME TypeOK, CoreInv, Open
  PROVE  CoreInv'
<1>1. /\ ppc \in {"start", "script"} /\ forked = None
      /\ ppc' = ppc \/ (ppc' = "server" /\ ppc = "start")
      /\ UNCHANGED <<serving, fd, pid, count, input, fds, req, fifo>>
  BY DEF Open
<1>2. ControlInv'
  BY <1>1 DEF CoreInv, ControlInv
<1>3. CountInv'
  BY <1>1 DEF CoreInv, CountInv
<1>4. NoOrphans'
  BY <1>1 DEF NoOrphans
<1>5. Pending' = Pending
  BY <1>1 DEF Pending
<1>30. ASSUME \A q \in Pids : cpc'[q] = "unborn" => cpc[q] = "unborn"
       PROVE  UnbornInv'
  BY <1>1, <1>30 DEF CoreInv, UnbornInv
<1>6. CASE UNCHANGED <<forked, forks, cpc, slot>> /\ UNCHANGED type
  <2>1. \A q \in Pids : /\ Alive(q)' = Alive(q) /\ Waiting(q)' = Waiting(q)
                        /\ Asked(q)' = Asked(q) /\ Served(q)' = Served(q)
                        /\ Answered(q)' = Answered(q)
    BY <1>1, <1>6 DEF Alive, Waiting, Asked, Served, Answered
  <2>2. TableInv'
    BY <1>1, <1>6, <2>1 DEF CoreInv, TableInv
  <2>3. RequestInv'
    BY <1>1, <1>5, <1>6, <2>1, PendingType DEF CoreInv, RequestInv
  <2>4. FifoInv'
    BY <1>1, <1>6, <2>1 DEF CoreInv, FifoInv, FifoOf
  <2> QED BY <1>2, <1>3, <1>4, <1>6, <1>30, <2>2, <2>3, <2>4 DEF CoreInv
<1>7. ASSUME NEW s \in FreeSlots, NEW t \in {"CLIENT", "DCC"},
             type' = [type EXCEPT ![s] = t],
             UNCHANGED <<forked, forks, cpc, slot>>
      PROVE  CoreInv'
  <2>1. \A q \in Pids : /\ Alive(q)' = Alive(q) /\ Waiting(q)' = Waiting(q)
                        /\ Asked(q)' = Asked(q) /\ Served(q)' = Served(q)
                        /\ Answered(q)' = Answered(q)
    BY <1>1, <1>7 DEF Alive, Waiting, Asked, Served, Answered
  <2>2. \A r \in Slots : type'[r] = "CLOSED" => type[r] = "CLOSED"
    BY <1>7 DEF TypeOK, TableType, FreeSlots
  <2>3. TableInv'
    BY <1>1, <1>7, <2>1, <2>2 DEF CoreInv, TableInv
  <2>4. RequestInv'
    BY <1>1, <1>5, <1>7, <2>1, PendingType DEF CoreInv, RequestInv
  <2>5. FifoInv'
    BY <1>1, <1>7, <2>1 DEF CoreInv, FifoInv, FifoOf
  <2> QED BY <1>2, <1>3, <1>4, <1>7, <1>30, <2>3, <2>4, <2>5 DEF CoreInv
<1>8. ASSUME NEW s \in FreeSlots, NEW t \in {"CLIENT", "DCC"},
             type' = [type EXCEPT ![s] = t],
             forks < MaxPids, forks' = forks + 1, forked' = forks + 1,
             cpc' = [cpc EXCEPT ![forks + 1] = "init"],
             slot' = [slot EXCEPT ![forks + 1] = s]
      PROVE  CoreInv'
  <2> DEFINE p == forks'
  <2>1. p \in Pids /\ p # None /\ forks \in Nat /\ p = forks + 1
    BY <1>8, BoundsAssumption DEF TypeOK, BoundsType, Pids, None
  <2>2. \A q \in Pids : q \in Nat /\ q # None
    BY DEF Pids, None
  <2>3. /\ cpc' = [cpc EXCEPT ![p] = "init"] /\ slot' = [slot EXCEPT ![p] = s] /\ forked' = p
    BY <1>8
  <2> HIDE DEF p
  <2>4. cpc[p] = "unborn" /\ ~Alive(p)
    BY <2>1 DEF CoreInv, TableInv, Alive
  <2>5. /\ s \in Slots /\ type[s] = "CLOSED"
        /\ type'[s] # "CLOSED"
        /\ \A r \in Slots : type'[r] = "CLOSED" => type[r] = "CLOSED"
    BY <1>8 DEF TypeOK, TableType, FreeSlots
  <2>6. /\ \A q \in Pids : q # p => cpc'[q] = cpc[q] /\ slot'[q] = slot[q]
        /\ cpc'[p] = "init" /\ slot'[p] = s
    BY <2>1, <2>3 DEF TypeOK, ChildrenType
  <2>7. pid[s] = None /\ fd[s] = None
    BY <2>5 DEF CoreInv, TableInv
  <2>8. \A q \in Pids : Alive(q) => slot[q] # s
    BY <2>5, OwnSlotOpen
  <2>9. \A q \in Pids : /\ Alive(q)' <=> Alive(q) \/ q = p
                        /\ Waiting(q)' <=> Waiting(q)
                        /\ Asked(q)' = Asked(q) /\ Served(q)' = Served(q)
                        /\ Answered(q)' = Answered(q)
    BY <1>1, <2>4, <2>6 DEF Alive, Waiting, Asked, Served, Answered
  <2>10. \A m \in Pending : /\ m.pid \in Pids /\ m.cid \in Slots
                            /\ m.pid <= forks /\ m.pid # p
    BY <2>1, <2>2, PendingType DEF CoreInv, RequestInv
  <2>11. TableInv'
    <3>1. \A q \in Pids : cpc'[q] = "unborn" <=> q > p
      BY <2>1, <2>2, <2>6 DEF CoreInv, TableInv
    <3>2. p <= p /\ type'[slot'[p]] # "CLOSED" /\ pid[slot'[p]] = None
      BY <2>1, <2>5, <2>6, <2>7
    <3>3. \A r \in Slots : type'[r] = "CLOSED" => pid[r] = None /\ fd[r] = None
      BY <2>5 DEF CoreInv, TableInv
    <3>4. ASSUME NEW r \in Slots
          PROVE  /\ pid[r] # None => pid[r] <= p /\ slot'[pid[r]] = r
                 /\ fd[r] # None => fd[r] <= p /\ slot'[fd[r]] = r
      <4>1. /\ pid[r] \in {None} \cup Pids /\ fd[r] \in {None} \cup Pids
            /\ pid[r] # None => pid[r] <= forks /\ slot[pid[r]] = r
            /\ fd[r] # None => fd[r] <= forks /\ slot[fd[r]] = r
        BY DEF CoreInv, TableInv, TypeOK, TableType
      <4>2. \A q \in Pids : q <= forks => q <= p /\ q # p
        BY <2>1, <2>2
      <4> QED BY <4>1, <4>2, <2>6
    <3>5. ASSUME NEW q \in Pids, Alive(q)'
          PROVE  /\ q # p => pid[slot'[q]] = q
                 /\ fd[slot'[q]] \in {None, q}
                 /\ cpc'[q] = "init" => fd[slot'[q]] = None
      <4>1. CASE q = p
        BY <4>1, <2>6, <2>7
      <4>2. CASE q # p
        BY <4>2, <1>1, <2>2, <2>6, <2>9, <3>5 DEF CoreInv, TableInv
      <4> QED BY <4>1, <4>2
    <3> QED BY <1>1, <2>3, <3>1, <3>2, <3>3, <3>4, <3>5 DEF TableInv, p
  <2>12. RequestInv'
    <3>1. ASSUME NEW m \in Pending
          PROVE  /\ m.pid <= p
                 /\ m.cid = slot'[m.pid]
                 /\ Alive(m.pid)' => Waiting(m.pid)' /\ req'[m.pid] = m.cmd
                 /\ \A q \in Pids : Alive(q)' /\ slot'[q] = m.cid => m.pid <= q
                 /\ fd'[m.cid] \in {None, m.pid}
                 /\ Alive(m.pid)' /\ m.cmd = "HELLO" => fd'[m.cid] = None
      <4>0. m.pid \in Pids /\ m.pid # p /\ m.pid <= forks
        BY <2>10
      <4>1. m.pid \in Pids /\ m.pid # p /\ m.pid <= forks /\ m.pid <= p
        <5>1. \A q \in Pids : q <= forks => q <= p
          BY <2>1, <2>2
        <5> QED BY <4>0, <5>1
      <4>2. ASSUME NEW q \in Pids, Alive(q)', slot'[q] = m.cid
            PROVE  m.pid <= q
        <5>1. CASE q = p
          BY <5>1, <4>1
        <5>2. CASE q # p
          BY <5>2, <2>6, <2>9, <4>2 DEF CoreInv, RequestInv
        <5> QED BY <5>1, <5>2
      <4> QED BY <4>1, <4>2, <1>1, <2>6, <2>9 DEF CoreInv, RequestInv
    <3> QED BY <1>1, <1>5, <3>1 DEF CoreInv, RequestInv, p
  <2>13. ASSUME NEW q \in Pids, Alive(q)'
         PROVE  FifoOf(q)'
    <3>1. CASE q = p
      <4>1. ~Waiting(p) /\ fifo'[p] = <<>>
        BY <1>1, <2>1, <2>4 DEF CoreInv, UnbornInv, Waiting
      <4>2. ~Asked(p) /\ ~Served(p)
        BY <1>1, <2>1, <2>10, NoMsgNoPid DEF Asked, Served, Pending
      <4>3. cpc'[p] = "init"
        BY <2>6
      <4> QED BY <3>1, <4>1, <4>2, <4>3, <2>9 DEF FifoOf
    <3>2. CASE q # p
      BY <3>2, <1>1, <2>6, <2>9, <2>13 DEF CoreInv, FifoInv, FifoOf
    <3> QED BY <3>1, <3>2
  <2>14. FifoInv'
    BY <2>13 DEF FifoInv
  <2>15. UnbornInv'
    BY <1>30, <2>6
  <2> QED BY <1>2, <1>3, <1>4, <2>11, <2>12, <2>14, <2>15 DEF CoreInv
<1> QED BY <1>6, <1>7, <1>8 DEF Open

\* The recording of the pid after fork() preserves CoreInv.
LEMMA RecordPidCore ==
  ASSUME TypeOK, CoreInv, RecordPid
  PROVE  CoreInv'
<1> DEFINE s == slot[forked]
<1>1. /\ Running /\ forked # None
      /\ pid' = [pid EXCEPT ![s] = forked] /\ count' = count + 1 /\ forked' = None
      /\ UNCHANGED <<ppc, serving, type, fd, input, fds, cpc, slot, req, fifo, forks>>
  BY DEF RecordPid, bounds, children
<1>2. forked \in Pids /\ s \in Slots /\ forked <= forks /\ type[s] # "CLOSED" /\ pid[s] = None
  <2>1. forked \in Pids
    BY <1>1 DEF TypeOK, ControlType
  <2> QED BY <1>1, <2>1 DEF TypeOK, ChildrenType, CoreInv, TableInv
<1> HIDE DEF s
<1>3. pid'[s] = forked /\ \A r \in Slots : r # s => pid'[r] = pid[r]
  BY <1>1, <1>2 DEF TypeOK, TableType
<1>4. \A q \in Pids : /\ Alive(q)' = Alive(q) /\ Waiting(q)' = Waiting(q)
                      /\ Asked(q)' = Asked(q) /\ Served(q)' = Served(q)
                      /\ Answered(q)' = Answered(q)
  BY <1>1 DEF Alive, Waiting, Asked, Served, Answered
<1>5. ControlInv' /\ UnbornInv' /\ NoOrphans'
  BY <1>1, <1>4 DEF CoreInv, ControlInv, UnbornInv, NoOrphans
<1>6. TableInv'
  <2>1. \A r \in Slots : /\ type[r] = "CLOSED" => pid'[r] = None
                         /\ pid'[r] # None => pid'[r] <= forks /\ slot[pid'[r]] = r
    BY <1>2, <1>3 DEF CoreInv, TableInv, s
  <2>2. ASSUME NEW q \in Pids, Alive(q)
        PROVE  pid'[slot[q]] = q
    <3>1. CASE q = forked
      BY <3>1, <1>3 DEF s
    <3>2. CASE q # forked
      <4>1. pid[slot[q]] = q /\ q # None /\ slot[q] \in Slots
        BY <2>2, <3>2 DEF CoreInv, TableInv, Pids, None, TypeOK, ChildrenType
      <4> QED BY <4>1, <1>2, <1>3
    <3> QED BY <3>1, <3>2
  <2> QED BY <1>1, <1>4, <2>1, <2>2 DEF CoreInv, TableInv
<1>7. CountInv'
  <2> DEFINE R == {r \in Slots : pid[r] # None}
             T == {r \in Slots : pid'[r] # None}
  <2>1. T = R \cup {s} /\ s \notin R
    <3>1. forked # None
      BY <1>1
    <3> QED BY <3>1, <1>2, <1>3
  <2>2. IsFiniteSet(R)
    BY SlotsFinite, FS_Subset
  <2>3. Cardinality(R \cup {s}) = Cardinality(R) + 1
    BY <2>1, <2>2, FS_AddElement
  <2> QED BY <1>1, <2>1, <2>3 DEF CoreInv, CountInv
<1>8. RequestInv'
  BY <1>1, <1>4, PendingType DEF CoreInv, RequestInv, Pending
<1>9. FifoInv'
  BY <1>1, <1>4 DEF CoreInv, FifoInv, FifoOf
<1> QED BY <1>5, <1>6, <1>7, <1>8, <1>9 DEF CoreInv

\* Reaping a process whose pid is recorded frees its slot, which no living
\* process has.
LEMMA SigchildCore ==
  ASSUME TypeOK, CoreInv, Sigchild
  PROVE  CoreInv'
<1>1. PICK p \in Pids :
        /\ cpc[p] = "zombie"
        /\ cpc' = [cpc EXCEPT ![p] = "reaped"]
        /\ LET found == {s \in Slots : type[s] # "CLOSED" /\ pid[s] = p} IN
           IF found = {}
           THEN UNCHANGED <<type, fd, pid, count>>
           ELSE /\ type' = [type EXCEPT ![Min(found)] = "CLOSED"]
                /\ fd' = [fd EXCEPT ![Min(found)] = None]
                /\ pid' = [pid EXCEPT ![Min(found)] = None]
                /\ count' = count - 1
  BY DEF Sigchild
<1>2. /\ Running
      /\ UNCHANGED <<ppc, serving, forked, input, fds, slot, req, fifo, forks>>
  BY DEF Sigchild, control, bounds
<1>3. /\ \A q \in Pids : q # p => cpc'[q] = cpc[q]
      /\ cpc'[p] = "reaped"
  BY <1>1 DEF TypeOK, ChildrenType
<1>4. \A q \in Pids : /\ Alive(q)' <=> Alive(q)
                      /\ Waiting(q)' <=> Waiting(q)
                      /\ Asked(q)' = Asked(q) /\ Served(q)' = Served(q)
                      /\ Answered(q)' = Answered(q)
                      /\ Alive(q) => q # p /\ cpc'[q] = cpc[q]
  BY <1>1, <1>2, <1>3 DEF Alive, Waiting, Asked, Served, Answered
<1>5. ControlInv' /\ UnbornInv' /\ NoOrphans'
  BY <1>1, <1>2, <1>3, <1>4 DEF CoreInv, ControlInv, UnbornInv, NoOrphans
<1>6. \A q \in Pids : cpc'[q] = "unborn" <=> q > forks
  BY <1>1, <1>3 DEF CoreInv, TableInv
<1>7. CASE UNCHANGED <<type, fd, pid, count>>
  <2>1. TableInv'
    <3>1. \A q \in Pids : Alive(q)' => /\ q # forked => pid[slot[q]] = q
                                       /\ fd[slot[q]] \in {None, q}
                                       /\ cpc'[q] = "init" => fd[slot[q]] = None
      BY <1>4 DEF CoreInv, TableInv
    <3> QED BY <1>2, <1>6, <1>7, <3>1 DEF CoreInv, TableInv
  <2>2. CountInv' /\ RequestInv'
    BY <1>2, <1>4, <1>7, PendingType DEF CoreInv, CountInv, RequestInv, Pending
  <2>3. FifoInv'
    BY <1>2, <1>4, <1>7 DEF CoreInv, FifoInv, FifoOf
  <2> QED BY <1>5, <2>1, <2>2, <2>3 DEF CoreInv
<1>8. ASSUME NEW s \in Slots, type[s] # "CLOSED", pid[s] = p,
             type' = [type EXCEPT ![s] = "CLOSED"],
             fd' = [fd EXCEPT ![s] = None],
             pid' = [pid EXCEPT ![s] = None],
             count' = count - 1
      PROVE  CoreInv'
  <2>1. /\ \A r \in Slots : r # s => type'[r] = type[r] /\ fd'[r] = fd[r] /\ pid'[r] = pid[r]
        /\ type'[s] = "CLOSED" /\ fd'[s] = None /\ pid'[s] = None
    BY <1>8 DEF TypeOK, TableType
  <2>2. p # None
    BY DEF Pids, None
  <2>3. \A q \in Pids : Alive(q) => slot[q] \in Slots /\ slot[q] # s
    <3> SUFFICES ASSUME NEW q \in Pids, Alive(q)
                 PROVE  slot[q] \in Slots /\ slot[q] # s
      OBVIOUS
    <3>1. q # p /\ q # None
      BY <1>4 DEF Pids, None
    <3>2. CASE q # forked
      BY <1>8, <3>1, <3>2, OwnSlotOpen DEF CoreInv, TableInv
    <3>3. CASE q = forked
      BY <1>8, <2>2, <3>1, <3>3, OwnSlotOpen DEF CoreInv, TableInv
    <3> QED BY <3>2, <3>3
  <2>4. TableInv'
    <3>1. forked # None => slot[forked] # s /\ slot[forked] \in Slots
      BY <1>8, <2>2 DEF CoreInv, TableInv, TypeOK, ControlType, ChildrenType
    <3>2. forked' # None => /\ forked' <= forks' /\ type'[slot'[forked']] # "CLOSED"
                            /\ pid'[slot'[forked']] = None
      BY <1>2, <2>1, <3>1 DEF CoreInv, TableInv
    <3>3. \A q \in Pids : Alive(q)' => /\ q # forked => pid'[slot[q]] = q
                                       /\ fd'[slot[q]] \in {None, q}
                                       /\ cpc'[q] = "init" => fd'[slot[q]] = None
      BY <1>4, <2>1, <2>3 DEF CoreInv, TableInv
    <3>4. \A r \in Slots :
             /\ type'[r] = "CLOSED" => pid'[r] = None /\ fd'[r] = None
             /\ pid'[r] # None => pid'[r] <= forks /\ slot[pid'[r]] = r
             /\ fd'[r] # None => fd'[r] <= forks /\ slot[fd'[r]] = r
      BY <2>1 DEF CoreInv, TableInv
    <3> QED BY <1>2, <1>6, <3>2, <3>3, <3>4 DEF TableInv
  <2>5. CountInv'
    <3> DEFINE R == {r \in Slots : pid[r] # None}
               T == {r \in Slots : pid'[r] # None}
    <3>1. T = R \ {s} /\ s \in R
      BY <1>8, <2>1, <2>2
    <3>2. IsFiniteSet(R)
      BY SlotsFinite, FS_Subset
    <3>3. Cardinality(R \ {s}) = Cardinality(R) - 1
      BY <3>1, <3>2, FS_RemoveElement
    <3> QED BY <1>8, <3>1, <3>3 DEF CoreInv, CountInv
  <2>6. RequestInv'
    <3>1. ASSUME NEW m \in Pending
          PROVE  /\ fd'[m.cid] \in {None, m.pid}
                 /\ Alive(m.pid)' /\ m.cmd = "HELLO" => fd'[m.cid] = None
      <4>1. m.cid \in Slots /\ m.pid \in Pids
        BY PendingType
      <4> QED BY <4>1, <1>4, <2>1 DEF CoreInv, RequestInv
    <3>2. Pending' = Pending
      BY <1>2 DEF Pending
    <3> QED BY <1>2, <1>4, <3>1, <3>2, PendingType DEF CoreInv, RequestInv
  <2>7. ASSUME NEW q \in Pids, Alive(q)
        PROVE  FifoOf(q)'
    <3>1. fd'[slot[q]] = fd[slot[q]]
      BY <2>1, <2>3, <2>7
    <3> QED BY <3>1, <1>2, <1>4, <2>7 DEF CoreInv, FifoInv, FifoOf
  <2>8. FifoInv'
    BY <1>4, <2>7 DEF FifoInv
  <2> QED BY <1>5, <2>4, <2>5, <2>6, <2>8 DEF CoreInv
<1>9. CASE ~UNCHANGED <<type, fd, pid, count>>
  <2> DEFINE found == {s \in Slots : type[s] # "CLOSED" /\ pid[s] = p}
  <2>1. found # {}
    BY <1>1, <1>9
  <2>2. found \in SUBSET Nat
    BY SlotsFinite
  <2>3. Min(found) \in found
    BY <2>1, <2>2, MinOfNaturals
  <2>4. /\ type' = [type EXCEPT ![Min(found)] = "CLOSED"]
        /\ fd' = [fd EXCEPT ![Min(found)] = None]
        /\ pid' = [pid EXCEPT ![Min(found)] = None]
        /\ count' = count - 1
    BY <1>1, <2>1
  <2>5. Min(found) \in Slots /\ type[Min(found)] # "CLOSED" /\ pid[Min(found)] = p
    BY <2>3
  <2> QED BY <1>8, <2>4, <2>5
<1> QED BY <1>7, <1>9

\* main can only end when no pid is recorded, so when no child lives.
LEMMA MainExitCore ==
  ASSUME TypeOK, CoreInv, MainExit
  PROVE  CoreInv'
<1>1. /\ ppc = "server" /\ forked = None /\ count = 0 /\ ppc' = "exited"
      /\ UNCHANGED <<serving, forked, type, fd, pid, count, input, fds, cpc, slot, req, fifo,
                     forks>>
  BY DEF MainExit, Main, table, children, bounds
<1>2. \A q \in Pids : /\ Alive(q)' = Alive(q) /\ Waiting(q)' = Waiting(q)
                      /\ Asked(q)' = Asked(q) /\ Served(q)' = Served(q)
                      /\ Answered(q)' = Answered(q)
  BY <1>1 DEF Alive, Waiting, Asked, Served, Answered
<1>3. ControlInv'
  BY <1>1 DEF CoreInv, ControlInv, NoMsg
<1>4. TableInv' /\ CountInv' /\ UnbornInv'
  BY <1>1, <1>2 DEF CoreInv, TableInv, CountInv, UnbornInv
<1>5. RequestInv'
  BY <1>1, <1>2, PendingType DEF CoreInv, RequestInv, Pending
<1>6. FifoInv'
  BY <1>1, <1>2 DEF CoreInv, FifoInv, FifoOf
<1>7. NoOrphans'
  <2>1. \A s \in Slots : pid[s] = None
    <3> DEFINE R == {r \in Slots : pid[r] # None}
    <3>1. IsFiniteSet(R) /\ Cardinality(R) = 0
      BY <1>1, SlotsFinite, FS_Subset DEF CoreInv, CountInv
    <3>2. R = {}
      BY <3>1, FS_EmptySet
    <3> QED BY <3>2
  <2>2. \A p \in Pids : ~Alive(p)
    BY <1>1, <2>1, OwnSlotOpen DEF CoreInv, TableInv, Pids, None
  <2> QED BY <1>2, <2>2 DEF NoOrphans
<1> QED BY <1>3, <1>4, <1>5, <1>6, <1>7 DEF CoreInv

\* The death of the parent preserves CoreInv.
LEMMA ParentCrashCore ==
  ASSUME TypeOK, CoreInv, ParentCrash
  PROVE  CoreInv'
<1>1. /\ ppc' = "crashed"
      /\ UNCHANGED <<serving, forked, type, fd, pid, count, input, fds, cpc, slot, req, fifo,
                     forks>>
  BY DEF ParentCrash, table, children
<1>2. \A q \in Pids : /\ Alive(q)' = Alive(q) /\ Waiting(q)' = Waiting(q)
                      /\ Asked(q)' = Asked(q) /\ Served(q)' = Served(q)
                      /\ Answered(q)' = Answered(q)
  BY <1>1 DEF Alive, Waiting, Asked, Served, Answered
<1>3. ControlInv' /\ NoOrphans'
  BY <1>1 DEF CoreInv, ControlInv, NoOrphans
<1>4. TableInv' /\ CountInv' /\ UnbornInv'
  BY <1>1, <1>2 DEF CoreInv, TableInv, CountInv, UnbornInv
<1>5. RequestInv'
  BY <1>1, <1>2, PendingType DEF CoreInv, RequestInv, Pending
<1>6. FifoInv'
  BY <1>1, <1>2 DEF CoreInv, FifoInv, FifoOf
<1> QED BY <1>3, <1>4, <1>5, <1>6 DEF CoreInv

-----------------------------------------------------------------------------
(***************************************************************************)
(* Every step has a shape                                                  *)
(***************************************************************************)
Shape == \/ Silent \/ Speak \/ Finish \/ Immediate \/ Begin \/ HelloOpen \/ Open
         \/ RecordPid \/ Sigchild \/ MainExit \/ ParentCrash
         \/ \E p \in Pids : Ask(p) \/ Dies(p) \/ Moves(p) \/ Reads(p)

\* Every shape of step preserves CoreInv.
LEMMA ShapeCore ==
  ASSUME TypeOK, CoreInv, Shape
  PROVE  CoreInv'
BY SilentCore, SpeakCore, FinishCore, ImmediateCore, BeginCore, HelloOpenCore, OpenCore,
   RecordPidCore, SigchildCore, MainExitCore, ParentCrashCore, AskCore, DiesCore,
   MovesCore, ReadsCore DEF Shape

\* The answers with no line or one line before OK, as concatenations.
LEMMA OkLines ==
  /\ <<>> \o <<OK>> = <<OK>>
  /\ \A l \in Texts : <<l>> \o <<OK>> = <<l, OK>>
<1>1. \A x, y \in Lines : <<x>> \in Seq(Lines) /\ <<x, y>> \in Seq(Lines)
  OBVIOUS
<1>2. \A x \in Lines : <<>> \o <<x>> = <<x>>
  BY <1>1, ConcatEmptySeq
<1>3. ASSUME NEW x \in Lines, NEW y \in Lines
      PROVE  <<x>> \o <<y>> = <<x, y>>
  <2> DEFINE a == <<x>>
             b == <<y>>
             c == <<x, y>>
  <2>1. /\ a \in Seq(Lines) /\ Len(a) = 1 /\ a[1] = x
        /\ b \in Seq(Lines) /\ Len(b) = 1 /\ b[1] = y
        /\ c \in Seq(Lines) /\ Len(c) = 2 /\ c[1] = x /\ c[2] = y
    BY <1>1
  <2> HIDE DEF a, b, c
  <2>2. /\ a \o b \in Seq(Lines) /\ Len(a \o b) = 2
        /\ \A i \in 1 .. 2 : (a \o b)[i] = IF i <= 1 THEN a[i] ELSE b[i - 1]
    BY <2>1, ConcatProperties
  <2>3. (a \o b)[1] = x /\ (a \o b)[2] = y
    BY <2>1, <2>2
  <2>4. \A i \in 1 .. Len(a \o b) : (a \o b)[i] = c[i]
    BY <2>1, <2>2, <2>3
  <2> QED BY <2>1, <2>2, <2>4, SeqEqual DEF a, b, c
<1> QED BY <1>2, <1>3, LineTypes

\* The first step of every handler starts it or answers at once.
LEMMA ServerShape ==
  ASSUME TypeOK, CoreInv, Server
  PROVE  Begin \/ Immediate
<1>1. ASSUME NEW cmds, NEW pc \in {"script", "update"}, "HELLO" \notin cmds, Enter(cmds, pc)
      PROVE  Begin
  BY <1>1 DEF Enter, Receive, Main, Begin, table, children, bounds
<1>2. ASSUME Enter({"HELLO"}, "hello")
      PROVE  Begin
  BY <1>2 DEF Enter, Receive, Main, Begin, table, children, bounds
<1>3. ASSUME NEW cmds, "HELLO" \notin cmds, Answer(cmds)
      PROVE  Immediate
  <2>1. Send(Head(input).cid, <<>> \o <<OK>>) /\ Plain(<<>>)
    BY <1>3, OkLines, PlainLines DEF Answer
  <2>2. /\ ppc = "server" /\ input # <<>> /\ Head(input).cmd # "HELLO"
        /\ input' = Tail(input)
        /\ UNCHANGED <<ppc, serving, forked, type, fd, pid, count, fds, cpc, slot, req,
                       forks>>
    BY <1>3 DEF Answer, Receive, Main, control, table, bounds
  <2> QED BY <2>1, <2>2 DEF Immediate
<1>4. ASSUME ServerNote
      PROVE  Immediate
  <2> DEFINE s == Head(input).cid
             longer == <<nick[s][1], nick[s][2] + 1>>
  <2>1. /\ ppc = "server" /\ input # <<>> /\ Head(input).cmd # "HELLO"
        /\ input' = Tail(input)
        /\ UNCHANGED <<ppc, serving, forked, type, fd, pid, count, fds, cpc, slot, req,
                       forks>>
    BY <1>4 DEF ServerNote, Receive, Main, control, bounds
  <2>2. CASE Head(input).cmd = "NICKINUSE" /\ nick[s][2] < MaxUnderscores
    <3>1. nick[s] \in Nick
      <4>1. s \in Slots
        BY <2>1, TakeFirst DEF Message
      <4> QED BY <4>1 DEF TypeOK, TableType
    <3>2. Line("NICK", NoName, longer) \in Texts
      BY <2>2, <3>1, NickTypes, LineTypes
    <3>3. Send(s, <<Line("NICK", NoName, longer), OK>>)
      BY <1>4, <2>2 DEF ServerNote
    <3> HIDE DEF longer, s
    <3>4. /\ Plain(<<Line("NICK", NoName, longer)>>)
          /\ Send(s, <<Line("NICK", NoName, longer)>> \o <<OK>>)
      BY <3>2, <3>3, OkLines, PlainLines
    <3> QED BY <2>1, <3>4 DEF Immediate, s
  <2>3. CASE ~(Head(input).cmd = "NICKINUSE" /\ nick[s][2] < MaxUnderscores)
    <3>1. Send(s, <<OK>>)
      BY <1>4, <2>3 DEF ServerNote
    <3>2. Send(s, <<>> \o <<OK>>) /\ Plain(<<>>)
      BY <3>1, OkLines, PlainLines
    <3> QED BY <2>1, <3>2 DEF Immediate
  <2> QED BY <2>2, <2>3
<1> QED BY <1>1, <1>2, <1>3, <1>4
     DEF Server, RunScript, ServerHello, ServerMsg, ServerCtcp, ServerNotice, ServerSnotice,
         ServerCtcpr, ServerJoin, ServerPart, ServerNick, ServerQuit, ServerConnect,
         ServerUpdate, ServerTopic, ServerDcc, ServerInvite

\* The steps of server_update send a line, answer, or send nothing.
LEMMA UpdateShape ==
  ASSUME TypeOK, CoreInv, Update
  PROVE  Silent \/ Speak \/ Finish
<1> USE DEF Main, UpdateUnchanged, table, bounds
<1>0. ppc = "update" => serving.cid \in Slots
  BY ServingType DEF CoreInv
<1>1. CASE UpdateSkip
  BY <1>1 DEF UpdateSkip, Silent, core
<1>2. CASE UpdateSend
  <2> DEFINE l == queue[mq[serving.cid][ui]]
  <2>1. /\ ppc = "update" /\ Send(serving.cid, <<l>>) /\ SameButFifo
        /\ ui < QUEUE_MSGS /\ mq[serving.cid][ui] # NoQid
    BY <1>2 DEF UpdateSend, SameButFifo
  <2>2. l \in Texts
    <3>1. ui \in Entries
      BY <2>1, SizesAssumption DEF TypeOK, ControlType, Entries
    <3>2. mq[serving.cid][ui] \in QIds
      BY <1>0, <2>1, <3>1 DEF TypeOK, TextsType
    <3> QED BY <3>2 DEF TypeOK, TextsType
  <2>3. Plain(<<l>>)
    BY <2>2, PlainLines
  <2> HIDE DEF l
  <2> QED BY <2>1, <2>3 DEF Speak
<1>3. CASE UpdateClear
  BY <1>3 DEF UpdateClear, Silent, core
<1>4. CASE UpdateDone
  <2> DEFINE s == serving.cid
             l == Line("NICK", NoName, new_nick[s])
  <2>1. /\ ppc = "update" /\ ppc' = "server" /\ serving' = NoMsg
        /\ UNCHANGED <<forked, type, fd, pid, count, input, fds, cpc, slot, req, forks>>
        /\ Send(s, <<OK>>) \/ Send(s, <<l, OK>>)
    BY <1>4 DEF UpdateDone
  <2>2. l \in Texts
    <3>1. new_nick[s] \in Nick
      BY <1>0, <2>1 DEF TypeOK, TableType
    <3> QED BY <3>1, LineTypes
  <2> HIDE DEF l
  <2>3. \/ Plain(<<>>) /\ Send(s, <<>> \o <<OK>>)
        \/ Plain(<<l>>) /\ Send(s, <<l>> \o <<OK>>)
    BY <2>1, <2>2, OkLines, PlainLines
  <2> QED BY <2>1, <2>3 DEF Finish
<1> QED BY <1>1, <1>2, <1>3, <1>4 DEF Update

\* The two ways to open a connection have the same shape.
LEMMA OpenShape ==
  ASSUME ppc \in {"start", "script"}, forked = None,
         ppc' = ppc \/ (ppc' = "server" /\ ppc = "start"),
         UNCHANGED <<serving, fd, pid, count, input, fds, req, fifo>>,
         \/ \E n \in Names, k \in Nicks : ConnectionOpen(n, k)
         \/ ConnectionOpenDcc(serving.cid)
  PROVE  Open
<1>1. CASE NotOpened
  BY <1>1 DEF NotOpened, Open
<1>2. ASSUME NEW s \in FreeSlots, NEW t \in {"CLIENT", "DCC"},
             type' = [type EXCEPT ![s] = t], NEW how, Fork(s, how)
      PROVE  Open
  BY <1>2 DEF Fork, Open
<1>3. FreeSlots # {} => Min(FreeSlots) \in FreeSlots
  BY SlotsFinite, MinOfNaturals DEF FreeSlots
<1> QED BY <1>1, <1>2, <1>3 DEF ConnectionOpen, ConnectionOpenDcc

\* The commands of scripts send a line, answer, open a connection, or
\* change no variable of CoreInv.
LEMMA ScriptShape ==
  ASSUME TypeOK, CoreInv, Script
  PROVE  Silent \/ Speak \/ Finish \/ Open
<1> USE DEF Main, table, bounds
<1>1. ASSUME ScriptStep, NEW l \in Texts, Send(serving.cid, <<l>>),
             UNCHANGED <<type, forked, cpc, slot, forks>>
      PROVE  Speak
  BY <1>1, PlainLines DEF ScriptStep, Speak, SameButFifo
<1>2. ASSUME ScriptStep, UNCHANGED <<type, fifo, forked, cpc, slot, forks>>
      PROVE  Silent
  BY <1>2 DEF ScriptStep, Silent, core
<1>3. ASSUME NEW c \in Commands, ScriptSend(c)
      PROVE  Speak \/ Silent
  <2>1. Line(c, NoName, NoNick) \in Texts
    BY LineTypes
  <2> QED BY <1>1, <1>2, <1>3, <2>1 DEF ScriptSend
<1>4. CASE ScriptError
  BY <1>1, <1>4, LineTypes DEF ScriptError
<1>5. CASE \/ \E n \in Names \cup {NoName} : ScriptTarget(n)
           \/ \E k \in Nicks : ScriptSetnick(k)
           \/ ScriptShutdown
  BY <1>2, <1>5 DEF ScriptTarget, ScriptSetnick, ScriptShutdown
<1>6. CASE ScriptConnect
  <2>1. /\ ppc = "script" /\ forked = None /\ ppc' = ppc
        /\ UNCHANGED <<serving, fd, pid, count, input, fds, req, fifo>>
    BY <1>6 DEF ScriptConnect, ScriptStep
  <2>2. \/ \E n \in Names, k \in Nicks : ConnectionOpen(n, k)
        \/ ConnectionOpenDcc(serving.cid)
    BY <1>6 DEF ScriptConnect
  <2>3. ppc \in {"start", "script"} /\ (ppc' = ppc \/ (ppc' = "server" /\ ppc = "start"))
    BY <2>1
  <2>4. Open
    BY <2>1, <2>2, <2>3, OpenShape
  <2> QED BY <2>4
<1>7. CASE ScriptReturn
  <2>1. Plain(<<>>) /\ Send(serving.cid, <<>> \o <<OK>>)
    BY <1>7, OkLines, PlainLines DEF ScriptReturn
  <2>2. /\ ppc = "script" /\ ppc' = "server" /\ serving' = NoMsg
        /\ UNCHANGED <<forked, type, fd, pid, count, input, fds, cpc, slot, req, forks>>
    BY <1>7 DEF ScriptReturn
  <2> QED BY <2>1, <2>2 DEF Finish
<1> QED BY <1>3, <1>4, <1>5, <1>6, <1>7 DEF Script

\* Every step of a child asks, reads, moves, dies, or changes no variable of
\* CoreInv.
LEMMA ChildShape ==
  ASSUME NEW p \in Pids, Child(p) \/ ChildTerm(p), Events \subseteq AllEvents
  PROVE  Silent \/ Ask(p) \/ Dies(p) \/ Moves(p) \/ Reads(p)
<1> USE DEF ChildUnchanged, control, table
<1>1. ASSUME NEW cmd \in Requests, Request(p, cmd), cpc[p] \in {"init", "read", "timer"},
             cmd = "HELLO" <=> cpc[p] = "init",
             UNCHANGED fifo, ChildUnchanged(p)
      PROVE  Ask(p) \/ Dies(p)
  BY <1>1 DEF Request, Die, Ask, Dies, Alive
<1>2. CASE ChildInit(p)
  <2>1. CASE Request(p, "HELLO")
    BY <1>1, <1>2, <2>1 DEF ChildInit, Requests
  <2>2. CASE cpc' = [cpc EXCEPT ![p] = "exit"] /\ UNCHANGED <<req, input>>
    BY <1>2, <2>2 DEF ChildInit, Moves
  <2> QED BY <1>2, <2>1, <2>2 DEF ChildInit
<1>3. CASE ChildReceive(p)
  <2>1. Waiting(p) /\ fifo[p] # <<>> /\ fifo' = [fifo EXCEPT ![p] = Tail(@)]
    BY <1>3 DEF ChildReceive
  <2>2. UNCHANGED <<ppc, serving, forked, type, fd, pid, count, input, fds, slot, req, forks>>
    BY <1>3 DEF ChildReceive
  <2>3. IF Head(fifo[p]).cmd = "OK"
        THEN \E pc \in {"connect", "timer", "tail"} : cpc' = [cpc EXCEPT ![p] = pc]
        ELSE UNCHANGED cpc
    BY <1>3 DEF ChildReceive
  <2> QED BY <2>1, <2>2, <2>3 DEF Reads
<1>4. CASE ChildConnect(p)
  BY <1>4 DEF ChildConnect, Moves
<1>5. CASE ChildReport(p)
  <2>1. PICK e \in Events : Request(p, e)
    BY <1>5 DEF ChildReport
  <2>2. e \in Requests /\ e # "HELLO"
    BY DEF Requests, AllEvents
  <2> QED BY <1>1, <1>5, <2>1, <2>2 DEF ChildReport
<1>6. CASE ChildNoReport(p)
  BY <1>6 DEF ChildNoReport, Moves
<1>7. CASE ChildReadError(p)
  BY <1>7 DEF ChildReadError, Moves
<1>8. CASE ChildTimer(p)
  <2>1. CASE Request(p, "UPDATE")
    BY <1>1, <1>8, <2>1 DEF ChildTimer, Requests
  <2>2. CASE cpc' = [cpc EXCEPT ![p] = "tail"] /\ UNCHANGED <<req, input>>
    BY <1>8, <2>2 DEF ChildTimer, Moves
  <2> QED BY <1>8, <2>1, <2>2 DEF ChildTimer
<1>9. CASE ChildTail(p)
  BY <1>9 DEF ChildTail, Moves
<1>10. CASE ChildExit(p)
  BY <1>10 DEF ChildExit, Die, Dies, Alive
<1>11. CASE ChildTerm(p)
  BY <1>11 DEF ChildTerm, Die, Dies, Silent, core
<1> QED BY <1>2, <1>3, <1>4, <1>5, <1>6, <1>7, <1>8, <1>9, <1>10, <1>11 DEF Child

\* Every step of the specification has one of the shapes.
LEMMA EveryStepHasAShape ==
  ASSUME TypeOK, CoreInv, [Next]_vars
  PROVE  Shape
<1>1. CASE MainOpen
  <2>1. Open
    BY <1>1, OpenShape DEF MainOpen, Main
  <2> QED BY <2>1 DEF Shape
<1>2. CASE RecordPid \/ MainExit \/ HelloOpen \/ Sigchild \/ ParentCrash
  BY <1>2 DEF Shape
<1>3. CASE Server
  BY <1>3, ServerShape DEF Shape
<1>4. CASE Update
  BY <1>4, UpdateShape DEF Shape
<1>5. CASE Script
  BY <1>5, ScriptShape DEF Shape
<1>6. CASE Sigint
  BY <1>6 DEF Sigint, Shape, Silent, core, control, table, children
<1>7. ASSUME NEW p \in Pids, Child(p) \/ ChildTerm(p)
      PROVE  Shape
  BY <1>7, ChildShape, DataAssumption DEF Shape
<1>8. CASE UNCHANGED vars
  BY <1>8 DEF vars, Shape, Silent, core, control, table, children, bounds
<1> QED BY <1>1, <1>2, <1>3, <1>4, <1>5, <1>6, <1>7, <1>8 DEF Next, Parent

-----------------------------------------------------------------------------
(***************************************************************************)
(* Types                                                                   *)
(***************************************************************************)
CoreType ==
  /\ ppc \in {"start", "server", "hello", "script", "update", "exited", "crashed"}
  /\ serving \in Message \cup {NoMsg}
  /\ forked \in {None} \cup Pids
  /\ type \in [Slots -> {"CLOSED", "CLIENT", "DCC"}]
  /\ fd \in [Slots -> {None} \cup Pids]
  /\ pid \in [Slots -> {None} \cup Pids]
  /\ count \in Int
  /\ input \in Seq(Message)
  /\ fds \in Nat
  /\ cpc \in [Pids -> CPc]
  /\ slot \in [Pids -> Slots]
  /\ req \in [Pids -> Requests]
  /\ fifo \in [Pids -> Seq(Lines)]
  /\ forks \in 0 .. MaxPids

\* The types of the variables that are not in core.
HandlerType == /\ ui \in 0 .. QUEUE_MSGS
               /\ usent \in BOOLEAN
               /\ usent => ui < QUEUE_MSGS
               /\ target \in Names \cup {NoName}
NamesType == /\ name \in [Slots -> Names \cup {NoName}]
             /\ nick \in [Slots -> Nick]
             /\ new_nick \in [Slots -> Nick]
             /\ parent \in [Slots -> Slots]
             /\ opened \in [Pids -> [dcc : BOOLEAN, nick : Nick, net : Names \cup {NoName}]]
ProcessType == /\ sigchld \in BOOLEAN
               /\ quit \in [Pids -> {"none", "reconnect", "disconnect"}]
               /\ botnick \in [Pids -> Nick]
               /\ terms \in [Pids -> 0..3]
LimitsType == ops \in Nat /\ signals \in Nat /\ faults \in Nat
RestType == HandlerType /\ NamesType /\ TextsType /\ ProcessType /\ LimitsType

\* TypeOK, split into the variables of CoreInv and the others.
LEMMA TypeParts == TypeOK <=> CoreType /\ RestType
BY DEF TypeOK, ControlType, TableType, TextsType, InputType, ChildrenType, BoundsType,
       CoreType, RestType, HandlerType, NamesType, ProcessType, LimitsType

\* Every shape preserves the types of the variables of CoreInv.
LEMMA ShapeType ==
  ASSUME TypeOK, CoreInv, Shape
  PROVE  CoreType'
<1> USE DEF CoreType
<1>0. CoreType
  BY TypeParts
<1>1. CASE Silent
  BY <1>0, <1>1 DEF Silent, core
<1>2. ASSUME ppc \in {"script", "update"}, NEW lines \in Seq(Lines), Send(serving.cid, lines)
      PROVE  fifo' \in [Pids -> Seq(Lines)]
  BY <1>2, ServingType, SendEffect DEF CoreInv
<1>3. CASE Speak
  BY <1>0, <1>2, <1>3 DEF Speak, SameButFifo, Plain
<1>4. CASE Finish
  <2>1. fifo' \in [Pids -> Seq(Lines)]
    BY <1>2, <1>4, OkLast DEF Finish
  <2> QED BY <1>0, <1>4, <2>1 DEF Finish
<1>5. CASE Immediate
  <2>1. Head(input).cid \in Slots /\ input' \in Seq(Message)
    BY <1>5, TakeFirst DEF Immediate, Message
  <2>2. fifo' \in [Pids -> Seq(Lines)]
    BY <1>5, <2>1, OkLast, SendEffect DEF Immediate
  <2> QED BY <1>0, <1>5, <2>1, <2>2 DEF Immediate
<1>6. CASE Begin
  <2>1. Head(input) \in Message /\ input' \in Seq(Message)
    BY <1>6, TakeFirst DEF Begin
  <2> QED BY <1>0, <1>6, <2>1 DEF Begin
<1>7. CASE HelloOpen
  <2>1. /\ ppc' = "server" /\ serving' = NoMsg
        /\ UNCHANGED <<forked, type, pid, count, input, cpc, slot, req, forks>>
    BY <1>7 DEF HelloOpen, bounds
  <2>2. serving.cid \in Slots /\ serving.pid \in Pids
    BY <1>7, ServingType DEF HelloOpen, Main, CoreInv
  <2>3. fd' \in [Slots -> {None} \cup Pids] /\ fds' \in Nat
    <3>1. \/ fds' = fds /\ fd' = [fd EXCEPT ![serving.cid] = None]
          \/ fds' = fds + 1 /\ fd' = [fd EXCEPT ![serving.cid] = serving.pid]
      BY <1>7 DEF HelloOpen
    <3>2. fd \in [Slots -> {None} \cup Pids] /\ fds \in Nat
      BY <1>0
    <3> HIDE DEF CoreType
    <3> QED BY <2>2, <3>1, <3>2
  <2>4. fifo' \in [Pids -> Seq(Lines)]
    <3>1. Append(fifo[serving.pid], OK) \in Seq(Lines)
      BY <1>0, <2>2, LineTypes
    <3> QED BY <1>0, <1>7, <2>2, <3>1 DEF HelloOpen
  <2> QED BY <1>0, <2>1, <2>3, <2>4
<1>8. CASE Open
  <2>1. /\ ppc' \in {ppc, "server"}
        /\ UNCHANGED <<serving, fd, pid, count, input, fds, req, fifo>>
    BY <1>8 DEF Open
  <2>2. type' \in [Slots -> {"CLOSED", "CLIENT", "DCC"}]
    BY <1>0, <1>8 DEF Open, FreeSlots
  <2>3. \/ UNCHANGED <<forked, forks, cpc, slot>>
        \/ \E s \in Slots : /\ forks < MaxPids
                            /\ forks' = forks + 1 /\ forked' = forks + 1
                            /\ cpc' = [cpc EXCEPT ![forks + 1] = "init"]
                            /\ slot' = [slot EXCEPT ![forks + 1] = s]
    BY <1>8 DEF Open, FreeSlots
  <2>4. forks < MaxPids => forks + 1 \in Pids /\ forks + 1 \in 0 .. MaxPids
    BY <1>0, BoundsAssumption DEF Pids
  <2>5. /\ forked' \in {None} \cup Pids /\ forks' \in 0 .. MaxPids
        /\ cpc' \in [Pids -> CPc] /\ slot' \in [Pids -> Slots]
    <3>1. CASE UNCHANGED <<forked, forks, cpc, slot>>
      BY <1>0, <3>1
    <3>2. ASSUME NEW s \in Slots, forks < MaxPids, forks' = forks + 1, forked' = forks + 1,
                 cpc' = [cpc EXCEPT ![forks + 1] = "init"],
                 slot' = [slot EXCEPT ![forks + 1] = s]
          PROVE  /\ forked' \in {None} \cup Pids /\ forks' \in 0 .. MaxPids
                 /\ cpc' \in [Pids -> CPc] /\ slot' \in [Pids -> Slots]
      <4>1. forked' \in Pids /\ forks' \in 0 .. MaxPids
        BY <2>4, <3>2
      <4>2. cpc \in [Pids -> CPc] /\ slot \in [Pids -> Slots] /\ "init" \in CPc
        BY <1>0 DEF CPc
      <4>3. cpc' \in [Pids -> CPc] /\ slot' \in [Pids -> Slots]
        BY <3>2, <4>2
      <4> QED BY <4>1, <4>3
    <3> QED BY <2>3, <3>1, <3>2
  <2> QED BY <1>0, <2>1, <2>2, <2>5
<1>9. CASE RecordPid
  BY <1>0, <1>9 DEF RecordPid, bounds, children
<1>10. CASE Sigchild
  <2>1. UNCHANGED <<ppc, serving, forked, input, fds, slot, req, fifo, forks>>
    BY <1>10 DEF Sigchild, control, bounds
  <2>2. cpc' \in [Pids -> CPc]
    BY <1>0, <1>10 DEF Sigchild, CPc
  <2>3. /\ type' \in [Slots -> {"CLOSED", "CLIENT", "DCC"}]
        /\ fd' \in [Slots -> {None} \cup Pids]
        /\ pid' \in [Slots -> {None} \cup Pids]
        /\ count' \in Int
    <3>1. \/ UNCHANGED <<type, fd, pid, count>>
          \/ \E s : /\ type' = [type EXCEPT ![s] = "CLOSED"]
                    /\ fd' = [fd EXCEPT ![s] = None]
                    /\ pid' = [pid EXCEPT ![s] = None]
                    /\ count' = count - 1
      BY <1>10 DEF Sigchild
    <3>2. /\ type \in [Slots -> {"CLOSED", "CLIENT", "DCC"}]
          /\ fd \in [Slots -> {None} \cup Pids]
          /\ pid \in [Slots -> {None} \cup Pids]
          /\ count \in Int
      BY <1>0
    <3> HIDE DEF CoreType
    <3> QED BY <3>1, <3>2
  <2> QED BY <1>0, <2>1, <2>2, <2>3
<1>11. CASE MainExit
  BY <1>0, <1>11 DEF MainExit, table, children, bounds
<1>12. CASE ParentCrash
  BY <1>0, <1>12 DEF ParentCrash, table, children
<1>13. ASSUME NEW p \in Pids, Ask(p)
       PROVE  CoreType'
  <2>1. PICK cmd \in Requests :
          /\ input' = Append(input, [cid |-> slot[p], cmd |-> cmd, pid |-> p])
          /\ req' = [req EXCEPT ![p] = cmd]
    BY <1>13 DEF Ask
  <2>2. [cid |-> slot[p], cmd |-> cmd, pid |-> p] \in Message
    BY <1>0 DEF Message
  <2>3. input' \in Seq(Message)
    BY <1>0, <2>1, <2>2
  <2>4. req' \in [Pids -> Requests]
    BY <1>0, <2>1
  <2>5. cpc' \in [Pids -> CPc]
    BY <1>0, <1>13 DEF Ask, CPc
  <2> QED BY <1>0, <1>13, <2>3, <2>4, <2>5 DEF Ask
<1>14. ASSUME NEW p \in Pids, Dies(p) \/ Moves(p)
       PROVE  CoreType'
  <2>1. PICK pc \in CPc : cpc' = [cpc EXCEPT ![p] = pc]
    BY <1>14 DEF Dies, Moves, CPc
  <2>2. UNCHANGED <<ppc, serving, forked, type, fd, pid, count, input, fds, slot, req, fifo,
                    forks>>
    BY <1>14 DEF Dies, Moves
  <2>3. cpc' \in [Pids -> CPc]
    BY <1>0, <2>1
  <2> QED BY <1>0, <2>2, <2>3
<1>15. ASSUME NEW p \in Pids, Reads(p)
       PROVE  CoreType'
  <2>1. Tail(fifo[p]) \in Seq(Lines)
    BY <1>0, <1>15, TailLines DEF Reads
  <2>2. fifo' \in [Pids -> Seq(Lines)]
    BY <1>0, <1>15, <2>1 DEF Reads
  <2>3. cpc' \in [Pids -> CPc]
    BY <1>0, <1>15 DEF Reads, CPc
  <2> QED BY <1>0, <1>15, <2>2, <2>3 DEF Reads
<1> QED BY <1>1, <1>3, <1>4, <1>5, <1>6, <1>7, <1>8, <1>9, <1>10, <1>11, <1>12, <1>13,
           <1>14, <1>15 DEF Shape

\* Every step preserves the types of names, nicks and parents of slots.
LEMMA NamesStep ==
  ASSUME TypeOK, [Next]_vars, CoreInv
  PROVE  NamesType'
<1> USE DEF NamesType
<1>0. NamesType
  BY TypeParts DEF RestType
<1>1. CASE UNCHANGED <<name, nick, new_nick, parent, opened>>
  BY <1>0, <1>1
<1>2. ASSUME NEW s, NEW how \in [dcc : BOOLEAN, nick : Nick, net : Names \cup {NoName}],
             Fork(s, how)
      PROVE  opened' \in [Pids -> [dcc : BOOLEAN, nick : Nick, net : Names \cup {NoName}]]
  <2>1. opened' = opened \/ opened' = [opened EXCEPT ![forks + 1] = how]
    BY <1>2 DEF Fork
  <2> QED BY <1>0, <2>1
<1>3. FreeSlots # {} => Min(FreeSlots) \in FreeSlots /\ Min(FreeSlots) \in Slots
  BY SlotsFinite, MinOfNaturals DEF FreeSlots
<1>4. ASSUME NEW n \in Names, NEW k \in Nicks, ConnectionOpen(n, k)
      PROVE  NamesType'
  <2>1. CASE NotOpened
    BY <1>1, <2>1 DEF NotOpened
  <2>2. ASSUME FreeSlots # {}, NEW s, s = Min(FreeSlots),
               name' = [name EXCEPT ![s] = n], nick' = [nick EXCEPT ![s] = <<k, 0>>],
               UNCHANGED <<new_nick, parent>>,
               Fork(s, [dcc |-> FALSE, nick |-> <<k, 0>>, net |-> n])
        PROVE  NamesType'
    <3>1. <<k, 0>> \in Nick
      BY NickTypes
    <3>2. opened' \in [Pids -> [dcc : BOOLEAN, nick : Nick, net : Names \cup {NoName}]]
      <4>1. [dcc |-> FALSE, nick |-> <<k, 0>>, net |-> n]
              \in [dcc : BOOLEAN, nick : Nick, net : Names \cup {NoName}]
        BY <3>1
      <4> QED BY <1>2, <2>2, <4>1
    <3> QED BY <1>0, <2>2, <3>1, <3>2
  <2> QED BY <1>4, <2>1, <2>2 DEF ConnectionOpen
<1>5. ASSUME ConnectionOpenDcc(serving.cid), serving.cid \in Slots
      PROVE  NamesType'
  <2> DEFINE s == Min(FreeSlots)
             net == ConnectionGetName(serving.cid)
             how == [dcc |-> TRUE, nick |-> NoNick, net |-> net]
  <2>1. CASE NotOpened
    BY <1>1, <2>1 DEF NotOpened
  <2>2. CASE FreeSlots # {}
    <3>1. /\ name' = [name EXCEPT ![s] = NoName] /\ nick' = [nick EXCEPT ![s] = NoNick]
          /\ new_nick' = [new_nick EXCEPT ![s] = NoNick]
          /\ parent' = [parent EXCEPT ![s] = serving.cid]
          /\ Fork(s, how)
      BY <1>5, <2>2 DEF ConnectionOpenDcc
    <3>2. net \in Names \cup {NoName}
      <4>1. parent[serving.cid] \in Slots
        BY <1>0, <1>5
      <4> QED BY <1>0, <1>5, <4>1 DEF ConnectionGetName
    <3> HIDE DEF net
    <3>3. how \in [dcc : BOOLEAN, nick : Nick, net : Names \cup {NoName}]
      BY <3>2, NickTypes
    <3> HIDE DEF how
    <3>4. opened' \in [Pids -> [dcc : BOOLEAN, nick : Nick, net : Names \cup {NoName}]]
      BY <1>2, <3>1, <3>3
    <3> QED BY <1>0, <1>5, <3>1, <3>4, NickTypes
  <2> QED BY <1>5, <2>1, <2>2 DEF ConnectionOpenDcc
<1>6. CASE MainOpen
  BY <1>4, <1>6 DEF MainOpen
<1>7. CASE Script
  <2>0. ppc = "script" => serving.cid \in Slots
    BY ServingType DEF CoreInv
  <2>1. CASE ScriptConnect
    <3>1. serving.cid \in Slots
      BY <2>0, <2>1 DEF ScriptConnect, ScriptStep, Main
    <3> QED BY <1>4, <1>5, <2>1, <3>1 DEF ScriptConnect
  <2>2. ASSUME NEW k \in Nicks, ScriptSetnick(k)
        PROVE  NamesType'
    <3>1. new_nick' = [new_nick EXCEPT ![serving.cid] = <<k, 0>>]
          /\ UNCHANGED <<name, nick, parent, opened>>
      BY <2>2 DEF ScriptSetnick
    <3> QED BY <1>0, <3>1, NickTypes
  <2>3. CASE \/ \E c \in Commands : ScriptSend(c)
             \/ ScriptError
             \/ \E n \in Names \cup {NoName} : ScriptTarget(n)
             \/ ScriptShutdown
             \/ ScriptReturn
    <3>1. UNCHANGED <<name, nick, new_nick, parent, opened>>
      BY <2>3 DEF ScriptSend, ScriptError, ScriptTarget, ScriptShutdown, ScriptReturn,
                  table
    <3> QED BY <1>1, <3>1
  <2> QED BY <1>7, <2>1, <2>2, <2>3 DEF Script
<1>8. CASE Server
  <2>1. ASSUME NEW cmds, NEW pc, Enter(cmds, pc) \/ Answer(cmds)
        PROVE  NamesType'
    BY <1>1, <2>1 DEF Enter, Answer, table, children
  <2>2. CASE ServerNote
    <3> DEFINE s == Head(input).cid
               longer == <<nick[s][1], nick[s][2] + 1>>
    <3>1. UNCHANGED <<name, new_nick, parent, opened>>
      BY <2>2 DEF ServerNote
    <3>2. \/ UNCHANGED nick
          \/ nick[s][2] < MaxUnderscores /\ nick' = [nick EXCEPT ![s] = longer]
      BY <2>2 DEF ServerNote
    <3>3. s \in Slots
      BY <2>2, TakeFirst DEF ServerNote, Receive, Main, Message
    <3>4. nick[s][2] < MaxUnderscores => longer \in Nick
      <4>1. nick[s] \in Nick
        BY <1>0, <3>3
      <4> QED BY <4>1, NickTypes
    <3> HIDE DEF longer
    <3> QED BY <1>0, <3>1, <3>2, <3>4
  <2> QED BY <1>8, <2>1, <2>2
     DEF Server, RunScript, ServerHello, ServerMsg, ServerCtcp, ServerNotice, ServerSnotice,
         ServerCtcpr, ServerJoin, ServerPart, ServerNick, ServerQuit, ServerConnect,
         ServerUpdate, ServerTopic, ServerDcc, ServerInvite
<1>9. CASE Update
  <2>1. CASE UpdateDone
    <3>1. serving.cid \in Slots
      BY <2>1, ServingType DEF UpdateDone, Main, CoreInv
    <3>2. UNCHANGED <<name, parent, opened>>
      BY <2>1 DEF UpdateDone
    <3>3. \/ UNCHANGED <<nick, new_nick>>
          \/ /\ nick' = [nick EXCEPT ![serving.cid] = new_nick[serving.cid]]
             /\ new_nick' = [new_nick EXCEPT ![serving.cid] = NoNick]
      BY <2>1 DEF UpdateDone
    <3> QED BY <1>0, <3>1, <3>2, <3>3, NickTypes
  <2>2. CASE UpdateSkip \/ UpdateSend \/ UpdateClear
    BY <1>1, <2>2 DEF UpdateSkip, UpdateSend, UpdateClear, UpdateUnchanged, table
  <2> QED BY <1>9, <2>1, <2>2 DEF Update
<1>10. CASE RecordPid \/ MainExit \/ HelloOpen \/ Sigchild \/ ParentCrash \/ Sigint
  <2>1. UNCHANGED <<name, nick, new_nick, parent, opened>>
    BY <1>10 DEF RecordPid, MainExit, HelloOpen, Sigchild, ParentCrash, Sigint, table, children
  <2> QED BY <1>1, <2>1
<1>11. ASSUME NEW p \in Pids, Child(p) \/ ChildTerm(p)
       PROVE  NamesType'
  <2>1. ChildUnchanged(p)
    BY <1>11 DEF Child, ChildInit, ChildReceive, ChildConnect, ChildReport, ChildNoReport,
                 ChildReadError, ChildTimer, ChildTail, ChildExit, ChildTerm
  <2> QED BY <1>1, <2>1 DEF ChildUnchanged, table
<1>12. CASE UNCHANGED vars
  BY <1>1, <1>12 DEF vars, table, children
<1> QED BY <1>6, <1>7, <1>8, <1>9, <1>10, <1>11, <1>12 DEF Next, Parent

\* What the actions leave alone, as the lemmas about types need it.
LEMMA Frames ==
  ASSUME [Next]_vars
  PROVE  /\ UNCHANGED <<ui, usent>> \/ Update
         /\ UNCHANGED target \/ \E n \in Names \cup {NoName} : ScriptTarget(n)
         /\ \/ UNCHANGED texts
            \/ \E c \in Commands : ScriptSend(c)
            \/ ScriptShutdown \/ Sigint \/ UpdateClear
         /\ \/ UNCHANGED <<sigchld, quit, botnick, terms>>
            \/ Sigchild
            \/ \E p \in Pids : Child(p) \/ ChildTerm(p)
<1> USE DEF table, children, control
<1>1. CASE MainOpen \/ RecordPid \/ MainExit \/ HelloOpen
  BY <1>1 DEF MainOpen, RecordPid, MainExit, HelloOpen
<1>2. CASE Sigchild \/ ParentCrash \/ Sigint
  BY <1>2 DEF Sigchild, ParentCrash, Sigint
<1>3. CASE Server
  <2>1. ASSUME NEW cmds, NEW pc, Enter(cmds, pc) \/ Answer(cmds) \/ ServerNote
        PROVE  UNCHANGED <<ui, usent, target, texts, sigchld, quit, botnick, terms>>
    BY <2>1 DEF Enter, Answer, ServerNote
  <2>2. UNCHANGED <<ui, usent, target, texts, sigchld, quit, botnick, terms>>
    BY <1>3, <2>1
       DEF Server, RunScript, ServerHello, ServerMsg, ServerCtcp, ServerNotice,
           ServerSnotice, ServerCtcpr, ServerJoin, ServerPart, ServerNick, ServerQuit,
           ServerConnect, ServerUpdate, ServerTopic, ServerDcc, ServerInvite
  <2> QED BY <2>2
<1>4. CASE Update
  <2>1. UNCHANGED <<target, sigchld, quit, botnick, terms>>
    BY <1>4 DEF Update, UpdateSkip, UpdateSend, UpdateClear, UpdateDone, UpdateUnchanged
  <2>2. UNCHANGED texts \/ UpdateClear
    BY <1>4 DEF Update, UpdateSkip, UpdateSend, UpdateDone
  <2> QED BY <1>4, <2>1, <2>2
<1>5. CASE Script
  <2>1. UNCHANGED <<ui, usent, sigchld, quit, botnick, terms>>
    BY <1>5 DEF Script, ScriptSend, ScriptError, ScriptTarget, ScriptSetnick,
                ScriptShutdown, ScriptConnect, ScriptReturn, ScriptStep
  <2>2. UNCHANGED target \/ \E n \in Names \cup {NoName} : ScriptTarget(n)
    BY <1>5 DEF Script, ScriptSend, ScriptError, ScriptSetnick,
                ScriptShutdown, ScriptConnect, ScriptReturn
  <2>3. UNCHANGED texts \/ (\E c \in Commands : ScriptSend(c)) \/ ScriptShutdown
    BY <1>5 DEF Script, ScriptError, ScriptTarget, ScriptSetnick,
                ScriptConnect, ScriptReturn
  <2> QED BY <2>1, <2>2, <2>3
<1>6. ASSUME NEW p \in Pids, Child(p) \/ ChildTerm(p)
      PROVE  UNCHANGED <<ui, usent, target, texts>>
  <2>1. ChildUnchanged(p)
    BY <1>6 DEF Child, ChildInit, ChildReceive, ChildConnect, ChildReport, ChildNoReport,
                ChildReadError, ChildTimer, ChildTail, ChildExit, ChildTerm
  <2> QED BY <2>1 DEF ChildUnchanged
<1>7. CASE UNCHANGED vars
  BY <1>7 DEF vars
<1> QED BY <1>1, <1>2, <1>3, <1>4, <1>5, <1>6, <1>7 DEF Next, Parent

\* Every step keeps the loop of server_update and irctarget in range.
LEMMA HandlerStep ==
  ASSUME TypeOK, [Next]_vars
  PROVE  HandlerType'
<1>0. HandlerType /\ QUEUE_MSGS \in Nat
  BY TypeParts, SizesAssumption DEF RestType
<1>1. target' \in Names \cup {NoName}
  BY <1>0, Frames DEF HandlerType, ScriptTarget
<1>2. /\ ui' \in 0 .. QUEUE_MSGS /\ usent' \in BOOLEAN
      /\ usent' => ui' < QUEUE_MSGS
  <2>1. CASE UNCHANGED <<ui, usent>>
    BY <1>0, <2>1 DEF HandlerType
  <2>2. CASE UpdateSkip \/ UpdateClear
    <3>1. ui < QUEUE_MSGS /\ ui' = ui + 1
      BY <1>0, <2>2 DEF UpdateSkip, UpdateClear, HandlerType
    <3>2. usent' = FALSE
      BY <1>0, <2>2 DEF UpdateSkip, UpdateClear, HandlerType
    <3>3. ui' \in 0 .. QUEUE_MSGS
      BY <1>0, <3>1 DEF HandlerType
    <3> QED BY <3>2, <3>3
  <2>3. CASE UpdateSend
    <3>1. ui < QUEUE_MSGS /\ ui' = ui /\ usent' = TRUE
      BY <2>3 DEF UpdateSend
    <3> QED BY <1>0, <3>1 DEF HandlerType
  <2>4. CASE UpdateDone
    <3>1. ui = QUEUE_MSGS /\ ui' = 0 /\ usent' = usent
      BY <2>4 DEF UpdateDone
    <3>2. ~usent /\ usent \in BOOLEAN
      BY <1>0, <3>1 DEF HandlerType
    <3>3. ui' \in 0 .. QUEUE_MSGS
      BY <1>0, <3>1
    <3> QED BY <3>1, <3>2, <3>3
  <2> QED BY <2>1, <2>2, <2>3, <2>4, Frames DEF Update
<1> QED BY <1>1, <1>2 DEF HandlerType

\* Every step keeps the queue and the entries that refer to it in range.
LEMMA TextsStep ==
  ASSUME TypeOK, [Next]_vars
  PROVE  TextsType'
<1> USE DEF TextsType
<1>0. TextsType
  BY DEF TypeOK
<1>1. CASE UNCHANGED texts
  BY <1>0, <1>1 DEF texts
<1>2. QIds \subseteq Nat /\ Slots \subseteq QIds /\ Entries \subseteq Nat
  BY SizesAssumption DEF QIds, Slots, Entries
<1>3. ASSUME NEW n, NEW text \in Texts, ConnectionQueue(n, text)
      PROVE  TextsType'
  <2>1. CASE UNCHANGED texts
    BY <1>1, <2>1
  <2>2. CASE ~(Named(n) = {} \/ FreeQids = {})
    <3> DEFINE s == ConnectionFind(n)
               q == Min(FreeQids)
    <3>1. q \in QIds
      <4>1. FreeQids # {} /\ FreeQids \in SUBSET Nat
        BY <1>2, <2>2 DEF FreeQids
      <4> QED BY <4>1, MinOfNaturals DEF FreeQids
    <3>2. \/ /\ queue' = [r \in QIds |-> IF r \in FreeQids THEN text ELSE queue[r]]
             /\ mq' = mq
          \/ /\ queue' = [queue EXCEPT ![q] = text]
             /\ mq' = [mq EXCEPT ![s] = [mq[s] EXCEPT ![Min(FreeEntries(s))] = q]]
      BY <1>3, <2>2 DEF ConnectionQueue
    <3>3. s \in Slots
      <4>1. Named(n) # {} /\ Named(n) \in SUBSET Nat
        BY <2>2, SlotsFinite DEF Named
      <4> QED BY <4>1, MinOfNaturals DEF Named, ConnectionFind
    <3> HIDE DEF s, q
    <3>4. queue' \in [QIds -> Texts]
      BY <1>0, <1>3, <3>2
    <3>5. mq' \in [Slots -> [Entries -> {NoQid} \cup QIds]]
      <4>1. \A j : [mq[s] EXCEPT ![j] = q] \in [Entries -> {NoQid} \cup QIds]
        BY <1>0, <3>1, <3>3
      <4> QED BY <1>0, <3>2, <4>1
    <3> QED BY <3>4, <3>5
  <2> QED BY <1>3, <2>1, <2>2 DEF ConnectionQueue
<1>4. ASSUME ConnectionShutdown
      PROVE  TextsType'
  <2>1. \A s \in Slots : [j \in Entries |-> IF j = 0 THEN s ELSE NoQid]
                           \in [Entries -> {NoQid} \cup QIds]
    BY <1>2
  <2>2. mq' \in [Slots -> [Entries -> {NoQid} \cup QIds]]
    BY <1>0, <1>4, <2>1 DEF ConnectionShutdown
  <2>3. queue' \in [QIds -> Texts]
    BY <1>0, <1>4, LineTypes DEF ConnectionShutdown
  <2> QED BY <2>2, <2>3
<1>5. ASSUME NEW c \in Commands, ScriptSend(c)
      PROVE  TextsType'
  <2>1. target \in Names \cup {NoName}
    BY DEF TypeOK, InputType
  <2>2. Line(c, target, NoNick) \in Texts
    BY <2>1, LineTypes
  <2> QED BY <1>1, <1>3, <1>5, <2>2 DEF ScriptSend
<1>6. CASE UpdateClear
  <2>1. /\ queue' = [queue EXCEPT ![ui] = Empty]
        /\ mq' = [mq EXCEPT ![serving.cid] = [mq[serving.cid] EXCEPT ![ui] = NoQid]]
    BY <1>6 DEF UpdateClear
  <2>2. queue' \in [QIds -> Texts]
    BY <1>0, <2>1, LineTypes
  <2>3. mq' \in [Slots -> [Entries -> {NoQid} \cup QIds]]
    <3>1. CASE serving.cid \in Slots
      <4>1. [mq[serving.cid] EXCEPT ![ui] = NoQid] \in [Entries -> {NoQid} \cup QIds]
        BY <1>0, <3>1
      <4> QED BY <1>0, <2>1, <4>1
    <3>2. CASE serving.cid \notin Slots
      BY <1>0, <2>1, <3>2
    <3> QED BY <3>1, <3>2
  <2> QED BY <2>2, <2>3
<1> QED BY <1>1, <1>4, <1>5, <1>6, Frames DEF ScriptShutdown, Sigint

\* Every step preserves the types of what the children keep.
LEMMA ProcessStep ==
  ASSUME TypeOK, [Next]_vars
  PROVE  ProcessType'
<1> USE DEF ProcessType
<1>0. ProcessType /\ TypeOK
  BY TypeParts DEF RestType
<1>1. CASE UNCHANGED <<sigchld, quit, botnick, terms>>
  BY <1>0, <1>1
<1>2. CASE Sigchild
  BY <1>0, <1>2 DEF Sigchild
<1>3. ASSUME NEW p \in Pids, Child(p) \/ ChildTerm(p)
      PROVE  ProcessType'
  <2>1. sigchld' \in BOOLEAN
    BY <1>0, <1>3 DEF Child, ChildInit, ChildReceive, ChildConnect, ChildReport,
         ChildNoReport, ChildReadError, ChildTimer, ChildTail, ChildExit, ChildTerm,
         Die, Request
  <2>2. \/ UNCHANGED quit
        \/ \E v \in {"none", "reconnect", "disconnect"} : quit' = [quit EXCEPT ![p] = v]
    BY <1>3 DEF Child, ChildInit, ChildReceive, ChildConnect, ChildReport,
         ChildNoReport, ChildReadError, ChildTimer, ChildTail, ChildExit, ChildTerm
  <2>3. UNCHANGED botnick \/ \E v \in Nick : botnick' = [botnick EXCEPT ![p] = v]
    <3>1. CASE ChildReceive(p)
      <4>1. Head(fifo[p]) \in Lines
        <5>1. fifo[p] \in Seq(Lines) /\ fifo[p] # <<>>
          BY <3>1 DEF ChildReceive, TypeOK, ChildrenType
        <5>2. \A f \in Seq(Lines) : f # <<>> => Head(f) \in Lines
          OBVIOUS
        <5> QED BY <5>1, <5>2
      <4>2. Head(fifo[p]).nick \in Nick
        BY <4>1 DEF Lines
      <4> QED BY <3>1, <4>2 DEF ChildReceive
    <3>2. CASE ChildConnect(p)
      <4>1. opened[p].nick \in Nick
        BY DEF TypeOK, ChildrenType
      <4> QED BY <3>2, <4>1 DEF ChildConnect
    <3>3. CASE ~ChildReceive(p) /\ ~ChildConnect(p)
      BY <1>3, <3>3 DEF Child, ChildInit, ChildReport, ChildNoReport,
           ChildReadError, ChildTimer, ChildTail, ChildExit, ChildTerm
    <3> QED BY <3>1, <3>2, <3>3
  <2>4. terms' \in [Pids -> 0..3]
    <3>1. CASE ChildTerm(p)
      <4>1. terms' = [terms EXCEPT ![p] = terms[p] + 1] /\ terms[p] < MaxTerms
        BY <3>1 DEF ChildTerm
      <4>2. terms[p] + 1 \in 0..3
        BY <1>0, <4>1, BoundsAssumption
      <4> QED BY <1>0, <4>1, <4>2
    <3>2. CASE ~ChildTerm(p)
      <4>1. UNCHANGED terms
        BY <1>3, <3>2 DEF Child, ChildInit, ChildReceive, ChildConnect, ChildReport,
             ChildNoReport, ChildReadError, ChildTimer, ChildTail, ChildExit
      <4> QED BY <1>0, <4>1
    <3> QED BY <3>1, <3>2
  <2>5. quit' \in [Pids -> {"none", "reconnect", "disconnect"}] /\ botnick' \in [Pids -> Nick]
    BY <1>0, <2>2, <2>3
  <2> QED BY <2>1, <2>4, <2>5
<1> QED BY <1>1, <1>2, <1>3, Frames

\* Every step keeps the counters of the bounds natural numbers.
LEMMA LimitsStep ==
  ASSUME TypeOK, [Next]_vars
  PROVE  LimitsType'
<1> USE DEF LimitsType, bounds
<1>0. LimitsType
  BY TypeParts DEF RestType
<1>1. ASSUME /\ ops' \in {ops, ops + 1}
             /\ signals' \in {signals, signals + 1}
             /\ faults' \in {faults, faults + 1}
      PROVE  LimitsType'
  BY <1>0, <1>1
<1>2. ASSUME NEW s, NEW how, Fork(s, how)
      PROVE  faults' \in {faults, faults + 1}
  BY <1>2 DEF Fork
<1>3. ASSUME NEW n, NEW k, ConnectionOpen(n, k) \/ ConnectionOpenDcc(n)
      PROVE  faults' \in {faults, faults + 1}
  BY <1>2, <1>3 DEF ConnectionOpen, ConnectionOpenDcc, NotOpened
<1>4. CASE MainOpen
  BY <1>1, <1>3, <1>4 DEF MainOpen
<1>5. CASE RecordPid \/ MainExit \/ HelloOpen \/ Sigchild \/ ParentCrash \/ Sigint
  BY <1>1, <1>5 DEF RecordPid, MainExit, HelloOpen, Sigchild, ParentCrash, Sigint
<1>6. CASE Server
  <2>1. ASSUME NEW cmds, NEW pc, Enter(cmds, pc) \/ Answer(cmds) \/ ServerNote
        PROVE  UNCHANGED bounds
    BY <2>1 DEF Enter, Answer, ServerNote
  <2>2. UNCHANGED bounds
    BY <1>6, <2>1
       DEF Server, RunScript, ServerHello, ServerMsg, ServerCtcp, ServerNotice,
           ServerSnotice, ServerCtcpr, ServerJoin, ServerPart, ServerNick, ServerQuit,
           ServerConnect, ServerUpdate, ServerTopic, ServerDcc, ServerInvite
  <2> QED BY <1>1, <2>2
<1>7. CASE Update
  BY <1>1, <1>7 DEF Update, UpdateSkip, UpdateSend, UpdateClear, UpdateDone,
                    UpdateUnchanged
<1>8. CASE Script
  <2>1. CASE ScriptConnect
    BY <1>1, <1>3, <2>1 DEF ScriptConnect, ScriptStep
  <2>2. CASE ScriptReturn
    BY <1>1, <2>2 DEF ScriptReturn
  <2>3. CASE ~ScriptConnect /\ ~ScriptReturn
    <3>1. ops' = ops + 1 /\ UNCHANGED <<signals, faults>>
      BY <1>8, <2>3 DEF Script, ScriptSend, ScriptError, ScriptTarget, ScriptSetnick,
                        ScriptShutdown, ScriptStep
    <3> QED BY <1>1, <3>1
  <2> QED BY <2>1, <2>2, <2>3
<1>9. ASSUME NEW p \in Pids, Child(p) \/ ChildTerm(p)
      PROVE  LimitsType'
  <2>1. UNCHANGED <<ops, signals>>
    BY <1>9 DEF Child, ChildInit, ChildReceive, ChildConnect, ChildReport, ChildNoReport,
                ChildReadError, ChildTimer, ChildTail, ChildExit, ChildTerm, ChildUnchanged
  <2>2. faults' \in {faults, faults + 1}
    BY <1>9 DEF Child, ChildInit, ChildReceive, ChildConnect, ChildReport, ChildNoReport,
                ChildReadError, ChildTimer, ChildTail, ChildExit, ChildTerm
  <2> QED BY <1>1, <2>1, <2>2
<1>10. CASE UNCHANGED vars
  BY <1>1, <1>10 DEF vars
<1> QED BY <1>4, <1>5, <1>6, <1>7, <1>8, <1>9, <1>10 DEF Next, Parent

-----------------------------------------------------------------------------
(***************************************************************************)
(* Theorems                                                                *)
(***************************************************************************)
\* The inductive invariant is the type invariant and CoreInv.
LEMMA IInvParts == IInv <=> TypeOK /\ CoreInv
BY DEF IInv, CoreInv

\* The inductive invariant holds when the parent starts.
LEMMA InitIInv == Init => IInv
<1> SUFFICES ASSUME Init
             PROVE  IInv
  OBVIOUS
<1> USE DEF Init
<1>1. CoreType
  <2>1. /\ 0 \in Slots /\ 0 \in 0 .. MaxPids /\ "HELLO" \in Requests
    BY SizesAssumption, BoundsAssumption DEF Slots, Requests
  <2> QED BY <2>1 DEF CoreType, CPc
<1>2. NamesType /\ TextsType /\ ProcessType
  <2>1. 0 \in Slots
    BY SizesAssumption DEF Slots
  <2>2. NamesType
    BY <2>1, NickTypes DEF NamesType
  <2>3. TextsType
    BY LineTypes DEF TextsType
  <2>4. ProcessType
    <3>1. 0 \in 0..3 /\ NoNick \in Nick
      BY NickTypes
    <3>2. /\ terms \in [Pids -> 0..3] /\ botnick \in [Pids -> Nick]
          /\ quit \in [Pids -> {"none", "reconnect", "disconnect"}]
      BY <3>1
    <3> QED BY <3>2 DEF ProcessType
  <2> QED BY <2>2, <2>3, <2>4
<1>3. HandlerType /\ LimitsType
  <2>1. 0 \in 0 .. QUEUE_MSGS /\ 0 \in Nat
    BY SizesAssumption
  <2> QED BY <2>1 DEF HandlerType, LimitsType
<1>4. TypeOK
  BY <1>1, <1>2, <1>3, TypeParts DEF RestType
<1>5. \A p \in Pids : ~Alive(p) /\ p > 0
  BY DEF Alive, Pids
<1>6. Pending = {}
  BY DEF Pending
<1>7. ControlInv
  BY DEF ControlInv, NoMsg
<1>8. TableInv
  BY <1>5 DEF TableInv
<1>9. CountInv
  <2>1. {s \in Slots : pid[s] # None} = {}
    OBVIOUS
  <2> QED BY <2>1, FS_EmptySet DEF CountInv
<1>10. RequestInv /\ FifoInv /\ UnbornInv /\ NoOrphans
  BY <1>5, <1>6 DEF RequestInv, FifoInv, UnbornInv, NoOrphans
<1> QED BY <1>4, <1>7, <1>8, <1>9, <1>10, IInvParts DEF CoreInv

\* Every step preserves the inductive invariant.
LEMMA NextIInv == IInv /\ [Next]_vars => IInv'
<1> SUFFICES ASSUME TypeOK, CoreInv, [Next]_vars
             PROVE  TypeOK' /\ CoreInv'
  BY DEF IInv, CoreInv
<1>1. Shape
  BY EveryStepHasAShape
<1>2. CoreInv'
  BY <1>1, ShapeCore
<1>3. CoreType'
  BY <1>1, ShapeType
<1>4. RestType'
  BY HandlerStep, NamesStep, TextsStep, ProcessStep, LimitsStep DEF RestType
<1>5. (TypeOK <=> CoreType /\ RestType)'
  BY TypeParts, PTL
<1> QED BY <1>2, <1>3, <1>4, <1>5

\* The inductive invariant holds in every reachable state.
THEOREM Invariance == Spec => []IInv
BY InitIInv, NextIInv, PTL DEF Spec

\* Every variable keeps its type: in particular no handler indexes the table
\* or the queue outside its bounds.
THEOREM TypeCorrectness == Spec => []TypeOK
<1>1. IInv => TypeOK
  BY DEF IInv
<1> QED BY <1>1, Invariance, PTL

\* The inductive invariant says where the request of each living child is.
LEMMA IInvReplies == IInv => ReplyDiscipline
<1>1. ASSUME IInv, NEW p \in Pids, Alive(p)
      PROVE  /\ ~Waiting(p) => ~Asked(p) /\ ~Served(p) /\ fifo[p] = <<>>
             /\ \A i, j \in DOMAIN input : input[i].pid = p /\ input[j].pid = p => i = j
             /\ ~(Asked(p) /\ Served(p))
             /\ ~(Answered(p) /\ (Asked(p) \/ Served(p)))
             /\ \A i \in DOMAIN fifo[p] : fifo[p][i].cmd = "OK" => i = Len(fifo[p])
             /\ Waiting(p) => \/ Asked(p) \/ Served(p) \/ Answered(p)
                              \/ req[p] = "HELLO" /\ fds = MaxFds
  <2>1. FifoOf(p)
    BY <1>1 DEF IInv, FifoInv
  <2>2. \A m \in Pending : m.pid = p => Waiting(p) /\ m.cid = slot[p]
    BY <1>1 DEF IInv, RequestInv
  <2>3. \A i \in DOMAIN input : input[i] \in Pending /\ i \in Nat
    BY <1>1 DEF Pending, IInv, TypeOK, InputType
  <2>4. Served(p) => serving \in Pending /\ serving # NoMsg
    BY NoMsgNoPid DEF Pending, Served
  <2>5. ~Waiting(p) => ~Asked(p) /\ ~Served(p)
    BY <2>2, <2>3, <2>4 DEF Asked, Served
  <2>6. ASSUME NEW i \in DOMAIN input, NEW j \in DOMAIN input, input[i].pid = p,
               input[j].pid = p, i < j
        PROVE  FALSE
    <3>1. input[i].pid < input[j].pid
      BY <1>1, <2>2, <2>3, <2>6 DEF IInv, RequestInv
    <3> QED BY <2>6, <3>1 DEF Pids
  <2>7. \A i, j \in DOMAIN input : input[i].pid = p /\ input[j].pid = p => i = j
    BY <2>3, <2>6
  <2>8. ASSUME Served(p), NEW i \in DOMAIN input, input[i].pid = p
        PROVE  FALSE
    <3>1. serving.cid = slot[p] /\ input[i].cid = slot[p]
      BY <2>2, <2>3, <2>4, <2>8 DEF Served
    <3>2. serving.pid < input[i].pid
      BY <1>1, <2>4, <2>8, <3>1 DEF IInv, RequestInv
    <3> QED BY <2>8, <3>2 DEF Served, Pids
  <2>9. ~(Asked(p) /\ Served(p))
    BY <2>8 DEF Asked
  <2> QED BY <2>1, <2>5, <2>7, <2>9 DEF FifoOf
<1> QED BY <1>1 DEF ReplyDiscipline

\* Requests and answers of a living child never get out of step, for any
\* number of connections and forks, whatever is killed and whenever SIGCHLD
\* arrives (send_to_parent, connection_close, server_hello).
THEOREM RepliesInStep == Spec => []ReplyDiscipline
BY IInvReplies, Invariance, PTL

\* No slot is closed or given away while its child lives, for any number of
\* slots (connection_open, connection_close).
THEOREM SlotsOwned == Spec => []SlotOwned
<1>1. IInv => SlotOwned
  BY IInvParts, OwnSlot, OwnSlotOpen DEF SlotOwned
<1> QED BY <1>1, Invariance, PTL

\* Answers are written to the process that asked, also after its slot has been
\* used again (read_input, connection_close).
THEOREM RepliesReachAsker == Spec => []RepliesGoHome
<1>1. ASSUME IInv
      PROVE  RepliesGoHome
  <2>1. \A m \in Pending : fd[m.cid] \in {None, m.pid}
    BY <1>1 DEF IInv, RequestInv
  <2> QED BY <2>1 DEF RepliesGoHome, Pending
<1> QED BY <1>1, Invariance, PTL

\* main does not end before the last child (connection_server).
THEOREM NoOrphansLeft == Spec => []NoOrphans
<1>1. IInv => NoOrphans
  BY DEF IInv
<1> QED BY <1>1, Invariance, PTL
-----------------------------------------------------------------------------
(***************************************************************************)
(* The queue of a bot with one connection.  server_update clears the text  *)
(* with the number of the entry and not the text it has sent, and a        *)
(* shutdown forgets entries but not their texts.  With one connection this *)
(* does no harm: the text of an entry is never before the entry, since the *)
(* texts before it are those of the entries before it, and when            *)
(* server_update clears text number ui, no entry but ui refers to it.      *)
(***************************************************************************)
Entry(j) == mq[0][j]

QueueInv ==
  /\ ppc \notin {"update", "crashed"} => ui = 0 /\ ~usent
  /\ \A j \in Entries : Entry(j) # NoQid => /\ Entry(j) >= j /\ queue[Entry(j)] # Empty
                                            /\ queue[j] # Empty
  /\ \A j \in Entries : j < ui /\ Entry(j) # NoQid => Entry(j) < ui

\* A step that leaves the queue and server_update alone.
Quiet ==
  /\ UNCHANGED <<ui, usent, mq, queue>>
  /\ \/ ppc' = ppc
     \/ ppc \in {"start", "server", "hello", "script"}
     \/ ppc' = "crashed"

LEMMA QueueFrames ==
  ASSUME [Next]_vars
  PROVE  \/ Quiet
         \/ UpdateSkip \/ UpdateSend \/ UpdateClear \/ UpdateDone
         \/ \E c \in Commands : ScriptSend(c)
         \/ ScriptShutdown \/ Sigint
<1> USE DEF Quiet, texts, control, Main
<1>1. CASE MainOpen \/ RecordPid \/ MainExit \/ HelloOpen
  BY <1>1 DEF MainOpen, RecordPid, MainExit, HelloOpen
<1>2. CASE Sigchild \/ ParentCrash
  BY <1>2 DEF Sigchild, ParentCrash
<1>3. CASE Server
  <2>1. ASSUME NEW cmds, NEW pc, Enter(cmds, pc) \/ Answer(cmds) \/ ServerNote
        PROVE  Quiet
    BY <2>1 DEF Enter, Answer, ServerNote, Receive
  <2> QED BY <1>3, <2>1
       DEF Server, RunScript, ServerHello, ServerMsg, ServerCtcp, ServerNotice,
           ServerSnotice, ServerCtcpr, ServerJoin, ServerPart, ServerNick, ServerQuit,
           ServerConnect, ServerUpdate, ServerTopic, ServerDcc, ServerInvite
<1>4. CASE Update
  BY <1>4 DEF Update
<1>5. CASE Script
  BY <1>5 DEF Script, ScriptError, ScriptTarget, ScriptSetnick, ScriptConnect, ScriptReturn,
              ScriptStep
<1>6. ASSUME NEW p \in Pids, Child(p) \/ ChildTerm(p)
      PROVE  Quiet
  <2>1. ChildUnchanged(p)
    BY <1>6 DEF Child, ChildInit, ChildReceive, ChildConnect, ChildReport, ChildNoReport,
                ChildReadError, ChildTimer, ChildTail, ChildExit, ChildTerm
  <2> QED BY <2>1 DEF ChildUnchanged
<1>7. CASE UNCHANGED vars
  BY <1>7 DEF vars
<1> QED BY <1>1, <1>2, <1>3, <1>4, <1>5, <1>6, <1>7 DEF Next, Parent

LEMMA OneSlot ==
  ASSUME N_CONNECTIONS = 1, TypeOK
  PROVE  /\ Slots = {0} /\ mq \in [Slots -> [Entries -> {NoQid} \cup QIds]]
         /\ queue \in [QIds -> Texts] /\ Entries \subseteq QIds /\ Entries \subseteq Nat
         /\ QIds \subseteq Nat /\ \A j \in Entries : Entry(j) \in {NoQid} \cup QIds
         /\ ui \in Nat /\ usent \in BOOLEAN /\ 0 \in QIds /\ 0 \in Entries
<1>1. Slots = {0} /\ Entries \subseteq QIds /\ Entries \subseteq Nat /\ QIds \subseteq Nat
      /\ 0 \in QIds /\ 0 \in Entries
  BY SizesAssumption DEF Slots, Entries, QIds
<1>2. mq \in [Slots -> [Entries -> {NoQid} \cup QIds]] /\ queue \in [QIds -> Texts]
  BY DEF TypeOK, TextsType
<1>3. ui \in Nat /\ usent \in BOOLEAN
  BY SizesAssumption DEF TypeOK, ControlType
<1> QED BY <1>1, <1>2, <1>3 DEF Entry

LEMMA QuietQueue == ASSUME QueueInv, Quiet, TypeOK PROVE QueueInv'
BY DEF QueueInv, Quiet, Entry, TypeOK, ControlType

\* server_update, entry by entry.
LEMMA UpdateQueue ==
  ASSUME N_CONNECTIONS = 1, IInv, QueueInv, UpdateSkip \/ UpdateSend \/ UpdateClear \/ UpdateDone
  PROVE  QueueInv'
<1>0. /\ TypeOK /\ Slots = {0} /\ mq \in [Slots -> [Entries -> {NoQid} \cup QIds]]
      /\ queue \in [QIds -> Texts] /\ Entries \subseteq QIds /\ Entries \subseteq Nat
      /\ QIds \subseteq Nat /\ \A j \in Entries : Entry(j) \in {NoQid} \cup QIds
      /\ ui \in Nat /\ usent \in BOOLEAN
  BY OneSlot DEF IInv
<1>1. ppc = "update" /\ serving.cid = 0
  <2>1. ppc = "update"
    BY DEF UpdateSkip, UpdateSend, UpdateClear, UpdateDone, Main
  <2>2. serving \in Message
    BY <2>1 DEF IInv, ControlInv, TypeOK, ControlType
  <2> QED BY <1>0, <2>1, <2>2 DEF Message
<1>2. /\ \A j \in Entries : Entry(j) # NoQid => /\ Entry(j) >= j /\ queue[Entry(j)] # Empty
                                                /\ queue[j] # Empty
      /\ \A j \in Entries : j < ui /\ Entry(j) # NoQid => Entry(j) < ui
  BY DEF QueueInv
<1>3. CASE UpdateSkip
  <2>1. ui' = ui + 1 /\ UNCHANGED <<mq, queue, ppc>> /\ Entry(ui) = NoQid
    BY <1>1, <1>3 DEF UpdateSkip, texts, Entry
  <2>2. ASSUME NEW j \in Entries, j < ui + 1, Entry(j) # NoQid
        PROVE  Entry(j) < ui + 1
    <3>1. j < ui
      BY <1>0, <2>1, <2>2
    <3>2. Entry(j) < ui /\ Entry(j) \in Nat
      BY <1>0, <1>2, <2>2, <3>1
    <3> QED BY <1>0, <3>2
  <2> QED BY <1>1, <1>2, <2>1, <2>2 DEF QueueInv, Entry
<1>4. CASE UpdateSend
  <2>1. UNCHANGED <<ui, mq, queue, ppc>>
    BY <1>4 DEF UpdateSend, texts
  <2> QED BY <1>1, <1>2, <2>1 DEF QueueInv, Entry
<1>5. CASE UpdateClear
  <2>1. ui \in Entries
    BY <1>0, <1>5, SizesAssumption DEF UpdateClear, TypeOK, ControlType, Entries
  <2>2. /\ ui' = ui + 1 /\ UNCHANGED ppc
        /\ queue' = [queue EXCEPT ![ui] = Empty]
        /\ mq' = [mq EXCEPT ![0] = [mq[0] EXCEPT ![ui] = NoQid]]
    BY <1>1, <1>5 DEF UpdateClear
  <2>3. \A j \in Entries : mq'[0][j] = IF j = ui THEN NoQid ELSE Entry(j)
    BY <1>0, <2>1, <2>2 DEF Entry
  <2>4. \A q \in QIds : q # ui => queue'[q] = queue[q]
    BY <1>0, <2>2
  <2>5. ASSUME NEW j \in Entries, mq'[0][j] # NoQid
        PROVE  /\ mq'[0][j] >= j /\ queue'[mq'[0][j]] # Empty /\ queue'[j] # Empty
               /\ j < ui + 1 => mq'[0][j] < ui + 1
    <3>1. j # ui /\ mq'[0][j] = Entry(j) /\ Entry(j) # NoQid
      BY <2>3, <2>5
    <3>2. PICK q : q = Entry(j)
      OBVIOUS
    <3>3. q \in QIds /\ q \in Nat /\ q >= j /\ queue[q] # Empty /\ queue[j] # Empty
          /\ (j < ui => q < ui) /\ j \in Nat
      BY <1>0, <1>2, <3>1, <3>2
    <3>4. q # ui
      BY <1>0, <3>1, <3>3
    <3>5. j < ui + 1 => q < ui + 1
      BY <1>0, <3>1, <3>3
    <3> QED BY <1>0, <2>4, <3>1, <3>2, <3>3, <3>4, <3>5
  <2> QED BY <1>1, <2>2, <2>5 DEF QueueInv, Entry
<1>6. CASE UpdateDone
  <2>1. ui' = 0 /\ UNCHANGED <<usent, mq, queue>> /\ ui = QUEUE_MSGS
    BY <1>6 DEF UpdateDone, texts
  <2>2. ~usent
    BY <2>1, SizesAssumption DEF IInv, TypeOK, ControlType
  <2>3. \A j \in Entries : ~(j < 0)
    BY <1>0
  <2> QED BY <1>2, <2>1, <2>2, <2>3 DEF QueueInv, Entry
<1> QED BY <1>3, <1>4, <1>5, <1>6

\* connection_queue: the first free text is not before the first free entry.
LEMMA SendQueue ==
  ASSUME N_CONNECTIONS = 1, TypeOK, QueueInv, NEW c \in Commands, ScriptSend(c)
  PROVE  QueueInv'
<1>0. /\ Slots = {0} /\ mq \in [Slots -> [Entries -> {NoQid} \cup QIds]]
      /\ queue \in [QIds -> Texts] /\ Entries \subseteq QIds /\ Entries \subseteq Nat
      /\ QIds \subseteq Nat /\ \A j \in Entries : Entry(j) \in {NoQid} \cup QIds
  BY OneSlot
<1>1. ppc = "script" /\ UNCHANGED <<ppc, ui, usent>>
  BY DEF ScriptSend, ScriptStep, Main
<1>2. ui = 0 /\ ~usent
  BY <1>1 DEF QueueInv
<1>3. \A j \in Entries : Entry(j) # NoQid => /\ Entry(j) >= j /\ queue[Entry(j)] # Empty
                                             /\ queue[j] # Empty
  BY DEF QueueInv
<1>4. \A j \in Entries : ~(j < 0)
  BY <1>0
<1>5. CASE UNCHANGED texts
  BY <1>1, <1>2, <1>3, <1>4, <1>5 DEF QueueInv, Entry, texts
<1>6. CASE ~UNCHANGED texts
  <2>1. PICK text : text = Line(c, target, NoNick)
    OBVIOUS
  <2>2. text # Empty
    <3>1. c # ""
      BY DataAssumption
    <3> QED BY <2>1, <3>1 DEF Line, Empty
  <2>3. Named(target) # {} /\ FreeQids # {} /\ ConnectionQueue(target, text)
    BY <1>6, <2>1 DEF ScriptSend, ConnectionQueue
  <2>4. PICK s : s = ConnectionFind(target)
    OBVIOUS
  <2>5. s = 0
    <3>1. Named(target) \in SUBSET Nat /\ Named(target) \subseteq {0}
      BY <1>0 DEF Named
    <3> QED BY <2>3, <2>4, <3>1, MinOfNaturals DEF ConnectionFind
  <2>6. CASE FreeEntries(0) = {}
    <3>1. UNCHANGED mq /\ queue' = [q \in QIds |-> IF q \in FreeQids THEN text ELSE queue[q]]
      BY <2>3, <2>4, <2>5, <2>6 DEF ConnectionQueue
    <3>2. \A q \in QIds : queue[q] # Empty => queue'[q] # Empty
      BY <2>2, <3>1
    <3> QED BY <1>0, <1>1, <1>2, <1>3, <1>4, <3>1, <3>2 DEF QueueInv, Entry
  <2>7. CASE FreeEntries(0) # {}
    <3>1. PICK q : q = Min(FreeQids)
      OBVIOUS
    <3>2. PICK i : i = Min(FreeEntries(0))
      OBVIOUS
    <3>3. q \in QIds /\ queue[q] = Empty /\ \A r \in QIds : queue[r] = Empty => q <= r
      <4>1. FreeQids \in SUBSET Nat
        BY <1>0 DEF FreeQids
      <4> QED BY <2>3, <3>1, <4>1, MinOfNaturals DEF FreeQids
    <3>4. i \in Entries /\ Entry(i) = NoQid /\ \A j \in Entries : Entry(j) = NoQid => i <= j
      <4>1. FreeEntries(0) \in SUBSET Nat
        BY <1>0 DEF FreeEntries
      <4> QED BY <2>7, <3>2, <4>1, MinOfNaturals DEF FreeEntries, Entry
    <3>5. /\ queue' = [queue EXCEPT ![q] = text]
          /\ mq' = [mq EXCEPT ![0] = [mq[0] EXCEPT ![i] = q]]
      BY <2>3, <2>4, <2>5, <2>7, <3>1, <3>2 DEF ConnectionQueue
    <3>6. q >= i
      <4>1. q \in Nat /\ i \in Nat
        BY <1>0, <3>3, <3>4
      <4>2. CASE q \in Entries
        <5>1. Entry(q) = NoQid
          BY <1>3, <3>3, <4>2
        <5> QED BY <3>4, <4>1, <4>2, <5>1
      <4>3. CASE q \notin Entries
        BY <3>3, <3>4, <4>1, <4>3, SizesAssumption DEF Entries, QIds
      <4> QED BY <4>2, <4>3
    <3>7. \A j \in Entries : mq'[0][j] = IF j = i THEN q ELSE mq[0][j]
      BY <1>0, <3>4, <3>5
    <3>8. queue'[q] # Empty /\ \A r \in QIds : queue[r] # Empty => queue'[r] # Empty
      BY <1>0, <2>2, <3>3, <3>5
    <3>9. queue'[i] # Empty
      <4>1. CASE i = q
        BY <3>8, <4>1
      <4>2. CASE i # q
        <5>1. ~(q <= i) /\ i \in QIds
          BY <1>0, <3>3, <3>4, <3>6, <4>2
        <5> QED BY <3>3, <3>8, <5>1
      <4> QED BY <4>1, <4>2
    <3>10. ASSUME NEW j \in Entries, mq'[0][j] # NoQid
           PROVE  mq'[0][j] >= j /\ queue'[mq'[0][j]] # Empty /\ queue'[j] # Empty
      <4>1. CASE j = i
        BY <3>6, <3>7, <3>8, <3>9, <4>1
      <4>2. CASE j # i
        <5>1. mq'[0][j] = Entry(j)
          BY <3>7, <4>2 DEF Entry
        <5> QED BY <1>0, <1>3, <3>8, <3>10, <5>1
      <4> QED BY <4>1, <4>2
    <3> QED BY <1>1, <1>2, <1>4, <3>10 DEF QueueInv, Entry
  <2> QED BY <2>6, <2>7
<1> QED BY <1>5, <1>6

\* connection_shutdown, of a script or in the middle of server_update.
LEMMA ShutdownQueue ==
  ASSUME N_CONNECTIONS = 1, TypeOK, QueueInv, ConnectionShutdown, UNCHANGED <<ppc, ui, usent>>
  PROVE  QueueInv'
<1>0. /\ Slots = {0} /\ mq \in [Slots -> [Entries -> {NoQid} \cup QIds]]
      /\ queue \in [QIds -> Texts] /\ Entries \subseteq QIds /\ Entries \subseteq Nat
      /\ QIds \subseteq Nat /\ ui \in Nat /\ 0 \in QIds
  BY OneSlot
<1>1. CASE type[0] = "CLOSED"
  <2>1. mq' = mq
    <3>1. mq' = [s \in Slots |-> mq[s]]
      BY <1>0, <1>1 DEF ConnectionShutdown
    <3> QED BY <1>0, <3>1
  <2>2. queue' = queue
    <3>1. queue' = [q \in QIds |-> queue[q]]
      BY <1>0, <1>1 DEF ConnectionShutdown
    <3> QED BY <1>0, <3>1
  <2> QED BY <2>1, <2>2 DEF QueueInv, Entry
<1>2. CASE type[0] # "CLOSED"
  <2>1. \A j \in Entries : mq'[0][j] = IF j = 0 THEN 0 ELSE NoQid
    BY <1>0, <1>2 DEF ConnectionShutdown
  <2>2. queue'[0] # Empty
    <3>1. queue'[0] = DISCONNECT
      BY <1>0, <1>2 DEF ConnectionShutdown
    <3>2. DISCONNECT.cmd # Empty.cmd
      BY DEF DISCONNECT, Empty, Line
    <3> QED BY <3>1, <3>2
  <2>3. ASSUME NEW j \in Entries, mq'[0][j] # NoQid
        PROVE  /\ mq'[0][j] >= j /\ queue'[mq'[0][j]] # Empty /\ queue'[j] # Empty
               /\ j < ui' => mq'[0][j] < ui'
    <3>1. j = 0 /\ mq'[0][j] = 0
      BY <2>1, <2>3
    <3> QED BY <2>2, <3>1
  <2> QED BY <2>3 DEF QueueInv, Entry
<1> QED BY <1>1, <1>2

LEMMA NextQueue == ASSUME N_CONNECTIONS = 1, IInv, QueueInv, [Next]_vars PROVE QueueInv'
<1>1. TypeOK
  BY DEF IInv
<1>2. CASE Quiet
  BY <1>1, <1>2, QuietQueue
<1>3. CASE UpdateSkip \/ UpdateSend \/ UpdateClear \/ UpdateDone
  BY <1>3, UpdateQueue
<1>4. ASSUME NEW c \in Commands, ScriptSend(c) PROVE QueueInv'
  BY <1>1, <1>4, SendQueue
<1>5. CASE ScriptShutdown \/ Sigint
  <2>1. ConnectionShutdown /\ UNCHANGED <<ppc, ui, usent>>
    BY <1>5 DEF ScriptShutdown, ScriptStep, Sigint, control
  <2> QED BY <1>1, <2>1, ShutdownQueue
<1> QED BY <1>2, <1>3, <1>4, <1>5, QueueFrames

\* With one connection every entry refers to a text that is still there, for queues of
\* any size and with signals at any point, although server_update (connection.c:1340)
\* clears the wrong text.  With two connections this is false.
THEOREM OneConnectionEntriesBacked ==
  ASSUME N_CONNECTIONS = 1
  PROVE  Spec => []EntriesBacked
<1>1. Init => QueueInv
  <2> SUFFICES ASSUME Init PROVE QueueInv
    OBVIOUS
  <2>1. \A j \in Entries : mq[0][j] = NoQid
    BY SizesAssumption DEF Init, Slots
  <2> QED BY <2>1 DEF Init, QueueInv, Entry
<1>2. IInv /\ QueueInv /\ [Next]_vars => QueueInv'
  BY NextQueue
<1>3. IInv /\ QueueInv => EntriesBacked
  <2> SUFFICES ASSUME IInv, QueueInv, NEW s \in Slots, NEW j \in Entries, mq[s][j] # NoQid
               PROVE  queue[mq[s][j]] # Empty
    BY DEF EntriesBacked
  <2>1. s = 0
    BY SizesAssumption DEF Slots
  <2> QED BY <2>1 DEF QueueInv, Entry
<1> QED BY <1>1, <1>2, <1>3, Invariance, PTL DEF Spec

(***************************************************************************)
(* The synchronous calls (ConnectionCalls)                                 *)
(***************************************************************************)
Inv == TypeOK /\ CoreInv /\ ReplyDiscipline

\* CallOf, one state at a time.
LEMMA CallCases ==
  TypeOK => \A p \in Pids :
    /\ cpc[p] = "unborn" => CallOf(p) = "none"
    /\ cpc[p] \in {"exit", "zombie", "reaped"} => CallOf(p) = "gone"
    /\ cpc[p] \in {"init", "connect", "read", "timer", "tail"} => CallOf(p) = "idle"
    /\ Waiting(p) /\ Asked(p) => CallOf(p) = "asked"
    /\ Waiting(p) /\ ~Asked(p) /\ Served(p) => CallOf(p) = "served"
    /\ Waiting(p) /\ ~Asked(p) /\ ~Served(p) /\ Answered(p) => CallOf(p) = "answered"
    /\ Waiting(p) /\ ~Asked(p) /\ ~Served(p) /\ ~Answered(p) => CallOf(p) = "lost"
    /\ cpc[p] \in CPc
BY DEF CallOf, Waiting, TypeOK, ChildrenType, CPc

\* The same after a step.
LEMMA CallCasesNext ==
  ASSUME TypeOK', NEW p \in Pids
  PROVE  /\ cpc'[p] = "unborn" => CallOf(p)' = "none"
         /\ cpc'[p] \in {"exit", "zombie", "reaped"} => CallOf(p)' = "gone"
         /\ cpc'[p] \in {"init", "connect", "read", "timer", "tail"} => CallOf(p)' = "idle"
         /\ Waiting(p)' /\ Asked(p)' => CallOf(p)' = "asked"
         /\ Waiting(p)' /\ ~Asked(p)' /\ Served(p)' => CallOf(p)' = "served"
         /\ Waiting(p)' /\ ~Asked(p)' /\ ~Served(p)' /\ Answered(p)'
              => CallOf(p)' = "answered"
         /\ Waiting(p)' /\ ~Asked(p)' /\ ~Served(p)' /\ ~Answered(p)'
              => CallOf(p)' = "lost"
<1>1. (CallCases)'
  BY CallCases, PTL
<1> QED BY <1>1

\* A call stays where it is when the process does, and its request, and the
\* OK it waits for.
LEMMA SameCall ==
  ASSUME TypeOK, TypeOK', NEW p \in Pids, cpc'[p] = cpc[p],
         Waiting(p) => /\ Asked(p)' <=> Asked(p)
                       /\ Served(p)' <=> Served(p)
                       /\ Asked(p) \/ Served(p) \/ (Answered(p)' <=> Answered(p))
  PROVE  CallOf(p)' = CallOf(p)
<1>1. Waiting(p)' <=> Waiting(p)
  BY DEF Waiting
<1> QED BY <1>1 DEF CallOf

\* A step that moves the call of one child.
LEMMA OneMoves ==
  ASSUME NEW p \in Pids, NEW from, NEW to,
         \A q \in Pids : q # p => CallOf(q)' = CallOf(q),
         CallOf(p) \in from, CallOf(p)' = to
  PROVE  Calls!Move(p, from, to)
BY DEF Calls!Move

\* A step that moves no call and makes no child known.
LEMMA NoneMoves ==
  ASSUME \A q \in Pids : CallOf(q)' = CallOf(q), KnownChildren' = KnownChildren
  PROVE  UNCHANGED Calls!vars
BY DEF Calls!vars

\* The children known do not change when no process or request does.
LEMMA SameKnown ==
  ASSUME \A q \in Pids : cpc'[q] = cpc[q] /\ (Waiting(q) => req'[q] = req[q])
  PROVE  KnownChildren' = KnownChildren
BY DEF KnownChildren, Waiting

\* Only the child whose request a handler runs for has a served call.
LEMMA OnlyServed ==
  ASSUME TypeOK, NEW p \in Pids, p # serving.pid
  PROVE  CallOf(p) # "served"
<1>1. ~Served(p)
  BY DEF Served
<1> QED BY <1>1, CallCases DEF CPc, Waiting

-----------------------------------------------------------------------------
(***************************************************************************)
(* The shapes of steps                                                     *)
(***************************************************************************)
\* Lines sent by a handler that goes on move no call: the child it serves is
\* served before and after.
LEMMA SpeakCalls ==
  ASSUME Inv, TypeOK', Speak
  PROVE  UNCHANGED Calls!vars
<1> USE DEF Inv, Speak, SameButFifo
<1>1. PICK lines : Plain(lines) /\ Send(serving.cid, lines)
  OBVIOUS
<1>2. serving.cid \in Slots /\ lines \in Seq(Lines)
  BY <1>1, ServingType DEF CoreInv, Plain
<1>3. \A p \in Pids : fifo'[p] = IF CanSend(serving.cid) /\ p = fd[serving.cid]
                                 THEN fifo[p] \o lines ELSE fifo[p]
  BY <1>1, <1>2, SendEffect
<1>4. ASSUME NEW p \in Pids
      PROVE  CallOf(p)' = CallOf(p)
  <2>1. (Asked(p)' <=> Asked(p)) /\ (Served(p)' <=> Served(p))
    BY DEF Asked, Served
  <2>2. CASE CanSend(serving.cid) /\ p = fd[serving.cid]
    <3>1. Served(p)
      BY <2>2, ServedProcess DEF CanSend
    <3> QED BY <2>1, <3>1, SameCall
  <2>3. CASE ~(CanSend(serving.cid) /\ p = fd[serving.cid])
    <3>1. Answered(p)' <=> Answered(p)
      BY <1>3, <2>3 DEF Answered
    <3> QED BY <2>1, <3>1, SameCall
  <2> QED BY <2>2, <2>3
<1> QED BY <1>4, SameKnown, NoneMoves

\* A step that changes neither processes nor requests nor FIFOs moves no call.
LEMMA SilentCalls ==
  ASSUME TypeOK, TypeOK', UNCHANGED <<cpc, req, serving, input, fifo>>
  PROVE  UNCHANGED Calls!vars
<1>1. ASSUME NEW p \in Pids
      PROVE  CallOf(p)' = CallOf(p)
  BY SameCall DEF Asked, Served, Answered
<1> QED BY <1>1, SameKnown, NoneMoves

\* The end of a handler is the reply to the child it serves, if that lives.
LEMMA FinishCalls ==
  ASSUME Inv, Inv', Finish
  PROVE  Calls!Next \/ UNCHANGED Calls!vars
<1> USE DEF Inv, Finish
<1>1. PICK lines : Plain(lines) /\ Send(serving.cid, lines \o <<OK>>)
  OBVIOUS
<1>2. serving.cid \in Slots /\ serving.pid \in Pids /\ lines \o <<OK>> \in Seq(Lines)
      /\ serving.cmd # "HELLO" /\ serving \in Pending
  BY <1>1, ServingType, OkLast DEF CoreInv, ControlInv
<1>3. \A p \in Pids : fifo'[p] = IF CanSend(serving.cid) /\ p = fd[serving.cid]
                                 THEN fifo[p] \o (lines \o <<OK>>) ELSE fifo[p]
  BY <1>1, <1>2, SendEffect
<1>4. \A p \in Pids : (Asked(p)' <=> Asked(p)) /\ ~Served(p)'
  BY NoMsgNoPid DEF Asked, Served
<1>5. KnownChildren' = KnownChildren
  BY SameKnown
<1>6. ASSUME NEW p \in Pids, p # serving.pid \/ ~Alive(p)
      PROVE  CallOf(p)' = CallOf(p)
  <2>1. CASE Waiting(p)
    <3>1. p # serving.pid
      BY <1>6, <2>1 DEF Alive, Waiting
    <3>2. ~Served(p)
      BY <3>1 DEF Served
    <3>3. fd[serving.cid] # p
      BY <2>1, <3>1, ServedProcess DEF Alive, Waiting
    <3>4. Answered(p)' <=> Answered(p)
      BY <1>3, <3>3 DEF Answered
    <3> QED BY <1>4, <3>2, <3>4, SameCall
  <2>2. CASE ~Waiting(p)
    BY <2>2, SameCall
  <2> QED BY <2>1, <2>2
<1>7. CASE Alive(serving.pid)
  <2> PICK p \in Pids : p = serving.pid
    BY <1>2
  <2>1. Waiting(p) /\ req[p] # "HELLO" /\ Served(p) /\ ~Asked(p)
    BY <1>2, <1>7, ServedProcess DEF CoreInv, RequestInv
  <2>2. Alive(p)' /\ Waiting(p)'
    BY <1>7, <2>1 DEF Alive, Waiting
  <2>3. Answered(p)'
    BY <1>4, <2>1, <2>2 DEF ReplyDiscipline
  <2>4. CallOf(p) = "served" /\ CallOf(p)' = "answered"
    BY <1>4, <2>1, <2>2, <2>3, CallCases, CallCasesNext
  <2>5. \A d \in Pids \ {p} : CallOf(d) # "served"
    BY OnlyServed
  <2>6. Calls!Move(p, {"asked", "served"}, "answered")
    BY <1>6, <2>4, OneMoves
  <2>7. Calls!Reply(p)
    BY <1>5, <2>5, <2>6 DEF Calls!Reply
  <2> QED BY <2>7 DEF Calls!Next
<1>8. CASE ~Alive(serving.pid)
  BY <1>5, <1>6, <1>8, NoneMoves
<1> QED BY <1>7, <1>8

\* A request answered at once is a reply without service.
LEMMA ImmediateCalls ==
  ASSUME Inv, Inv', Immediate
  PROVE  Calls!Next \/ UNCHANGED Calls!vars
<1> USE DEF Inv, Immediate
<1>1. PICK m \in Message : m = Head(input) /\ m \in Pending
  BY TakeFirst
<1>2. PICK lines : Plain(lines) /\ Send(m.cid, lines \o <<OK>>)
  BY <1>1
<1>3. m.cid \in Slots /\ m.pid \in Pids /\ lines \o <<OK>> \in Seq(Lines)
      /\ m.cmd # "HELLO"
  BY <1>1, <1>2, OkLast DEF Message
<1>4. \A p \in Pids : fifo'[p] = IF CanSend(m.cid) /\ p = fd[m.cid]
                                 THEN fifo[p] \o (lines \o <<OK>>) ELSE fifo[p]
  BY <1>2, <1>3, SendEffect
<1>5. /\ \A p \in Pids : Asked(p) <=> Asked(p)' \/ m.pid = p
      /\ \A p \in Pids : Alive(p) => ~(Asked(p)' /\ m.pid = p)
  BY <1>1, TakeFirst
<1>6. \A p \in Pids : ~Served(p) /\ ~Served(p)' /\ p # serving.pid
  BY NoMsgNoPid DEF Served, CoreInv, ControlInv
<1>7. KnownChildren' = KnownChildren
  BY SameKnown
<1>8. ASSUME NEW p \in Pids, p # m.pid \/ ~Alive(p)
      PROVE  CallOf(p)' = CallOf(p)
  <2>1. CASE Waiting(p)
    <3>1. p # m.pid /\ Alive(p)
      BY <1>8, <2>1 DEF Alive, Waiting
    <3>2. fd[m.cid] # p
      BY <1>1, <3>1, PendingProcess
    <3>3. Answered(p)' <=> Answered(p)
      BY <1>4, <3>2 DEF Answered
    <3> QED BY <1>5, <1>6, <3>1, <3>3, SameCall
  <2>2. CASE ~Waiting(p)
    BY <2>2, SameCall
  <2> QED BY <2>1, <2>2
<1>9. CASE Alive(m.pid)
  <2> PICK p \in Pids : p = m.pid
    BY <1>3
  <2>1. Waiting(p) /\ req[p] # "HELLO" /\ Asked(p) /\ ~Asked(p)'
    BY <1>1, <1>3, <1>5, <1>9, PendingProcess
  <2>2. Alive(p)' /\ Waiting(p)'
    BY <1>9, <2>1 DEF Alive, Waiting
  <2>3. Answered(p)'
    BY <1>6, <2>1, <2>2 DEF ReplyDiscipline
  <2>4. CallOf(p) = "asked" /\ CallOf(p)' = "answered"
    BY <1>6, <2>1, <2>2, <2>3, CallCases, CallCasesNext
  <2>5. \A d \in Pids \ {p} : CallOf(d) # "served"
    BY <1>6, OnlyServed
  <2>6. Calls!Move(p, {"asked", "served"}, "answered")
    BY <1>8, <2>4, OneMoves
  <2>7. Calls!Reply(p)
    BY <1>7, <2>5, <2>6 DEF Calls!Reply
  <2> QED BY <2>7 DEF Calls!Next
<1>10. CASE ~Alive(m.pid)
  BY <1>7, <1>8, <1>10, NoneMoves
<1> QED BY <1>9, <1>10

\* The start of a handler is the service of a call.
LEMMA BeginCalls ==
  ASSUME Inv, Inv', Begin
  PROVE  Calls!Next \/ UNCHANGED Calls!vars
<1> USE DEF Inv, Begin
<1>1. PICK m \in Message : m = Head(input) /\ m \in Pending /\ m.pid \in Pids
  BY TakeFirst DEF Message
<1>2. /\ \A p \in Pids : Asked(p) <=> Asked(p)' \/ m.pid = p
      /\ \A p \in Pids : Alive(p) => ~(Asked(p)' /\ m.pid = p)
  BY <1>1, TakeFirst
<1>3. \A p \in Pids : /\ ~Served(p) /\ p # serving.pid
                      /\ Served(p)' <=> p = m.pid
                      /\ Answered(p)' <=> Answered(p)
  BY <1>1, NoMsgNoPid DEF Served, Answered, CoreInv, ControlInv
<1>4. KnownChildren' = KnownChildren
  BY SameKnown
<1>5. ASSUME NEW p \in Pids, p # m.pid \/ ~Alive(p)
      PROVE  CallOf(p)' = CallOf(p)
  <2>1. CASE Waiting(p)
    BY <1>2, <1>3, <1>5, <2>1, SameCall DEF Alive, Waiting
  <2>2. CASE ~Waiting(p)
    BY <2>2, SameCall
  <2> QED BY <2>1, <2>2
<1>6. CASE Alive(m.pid)
  <2> PICK p \in Pids : p = m.pid
    BY <1>1
  <2>1. Waiting(p) /\ Asked(p) /\ ~Asked(p)'
    BY <1>1, <1>2, <1>6, PendingProcess
  <2>2. Waiting(p)' /\ Served(p)'
    BY <1>3, <2>1 DEF Waiting
  <2>3. CallOf(p) = "asked" /\ CallOf(p)' = "served"
    BY <2>1, <2>2, CallCases, CallCasesNext
  <2>4. \A d \in Pids : CallOf(d) # "served"
    BY <1>3, OnlyServed
  <2>5. Calls!Move(p, {"asked"}, "served")
    BY <1>5, <2>3, OneMoves
  <2>6. Calls!Serve(p)
    BY <1>4, <2>4, <2>5 DEF Calls!Serve
  <2> QED BY <2>6 DEF Calls!Next
<1>7. CASE ~Alive(m.pid)
  BY <1>4, <1>5, <1>7, NoneMoves
<1> QED BY <1>6, <1>7

\* The open() of a new child's FIFO is the reply to its HELLO, or loses it; the
\* child is not known yet.
LEMMA HelloOpenCalls ==
  ASSUME Inv, Inv', HelloOpen
  PROVE  Calls!Next \/ UNCHANGED Calls!vars
<1> USE DEF Inv
<1>1. /\ ppc = "hello" /\ serving' = NoMsg
      /\ UNCHANGED <<input, cpc, slot, req>>
  BY DEF HelloOpen, Main, bounds
<1>2. PICK h \in Pids :
        h = serving.pid /\ serving.cmd = "HELLO" /\ serving \in Pending /\ serving # NoMsg
  BY <1>1, ServingType DEF CoreInv, ControlInv
<1>3. \A p \in Pids : /\ Asked(p)' <=> Asked(p)
                      /\ ~Served(p)'
                      /\ Served(p) <=> p = h
  BY <1>1, <1>2, NoMsgNoPid DEF Asked, Served
<1>4. \A p \in Pids : p # h => (Answered(p)' <=> Answered(p))
  BY <1>2 DEF HelloOpen, Answered, TypeOK, ChildrenType
<1>5. KnownChildren' = KnownChildren
  BY <1>1, SameKnown
<1>6. ASSUME NEW p \in Pids, p # h \/ ~Waiting(p)
      PROVE  CallOf(p)' = CallOf(p)
  BY <1>1, <1>3, <1>4, <1>6, SameCall
<1>7. CASE Waiting(h)
  <2>1. Alive(h) /\ req[h] = "HELLO" /\ ~Asked(h) /\ Served(h)
    BY <1>2, <1>3, <1>7 DEF CoreInv, RequestInv, ReplyDiscipline, Alive, Waiting
  <2>2. Waiting(h)' /\ ~Asked(h)' /\ ~Served(h)'
    BY <1>1, <1>3, <1>7, <2>1 DEF Waiting
  <2>3. CallOf(h) = "served"
    BY <1>7, <2>1, CallCases
  <2>4. CallOf(h)' = "answered" \/ CallOf(h)' = "lost"
    BY <2>2, CallCasesNext
  <2>5. \A d \in Pids \ {h} : CallOf(d) # "served"
    BY <1>2, OnlyServed
  <2>6. CASE CallOf(h)' = "answered"
    <3>1. Calls!Move(h, {"asked", "served"}, "answered")
      BY <1>6, <2>3, <2>6, OneMoves
    <3>2. Calls!Reply(h)
      BY <1>5, <2>5, <3>1 DEF Calls!Reply
    <3> QED BY <3>2 DEF Calls!Next
  <2>7. CASE CallOf(h)' = "lost"
    <3>1. Calls!Move(h, {"served"}, "lost")
      BY <1>6, <2>3, <2>7, OneMoves
    <3>2. h \notin KnownChildren
      BY <1>7, <2>1 DEF KnownChildren, Waiting
    <3>3. Calls!Lose(h)
      BY <1>5, <3>1, <3>2 DEF Calls!Lose
    <3> QED BY <3>3 DEF Calls!Next
  <2> QED BY <2>4, <2>6, <2>7
<1>8. CASE ~Waiting(h)
  BY <1>5, <1>6, <1>8, NoneMoves
<1> QED BY <1>7, <1>8

\* fork() makes a client that has not called yet.
LEMMA OpenCalls ==
  ASSUME Inv, Inv', Open
  PROVE  Calls!Next \/ UNCHANGED Calls!vars
<1> USE DEF Inv
<1>1. UNCHANGED <<serving, input, req, fifo>>
  BY DEF Open
<1>2. \A p \in Pids : /\ Asked(p)' <=> Asked(p)
                      /\ Served(p)' <=> Served(p)
                      /\ Answered(p)' <=> Answered(p)
  BY <1>1 DEF Asked, Served, Answered
<1>3. CASE UNCHANGED cpc
  BY <1>1, <1>3, SilentCalls
<1>4. CASE forks < MaxPids /\ cpc' = [cpc EXCEPT ![forks + 1] = "init"]
  <2>1. PICK c \in Pids : c = forks + 1
    BY <1>4, BoundsAssumption DEF Pids, TypeOK, BoundsType
  <2>2. /\ cpc[c] = "unborn" /\ cpc'[c] = "init"
        /\ \A q \in Pids : q # c => cpc'[q] = cpc[q]
    BY <1>4, <2>1 DEF CoreInv, TableInv, TypeOK, ChildrenType, BoundsType
  <2>3. CallOf(c) = "none" /\ CallOf(c)' = "idle"
    BY <2>2, CallCases, CallCasesNext
  <2>4. \A q \in Pids : q # c => CallOf(q)' = CallOf(q)
    BY <1>2, <2>2, SameCall
  <2>5. KnownChildren' = KnownChildren
    BY <1>1, <2>2 DEF KnownChildren, Waiting
  <2>6. Calls!Move(c, {"none"}, "idle")
    BY <2>3, <2>4, OneMoves
  <2>7. Calls!Start(c)
    BY <2>5, <2>6 DEF Calls!Start
  <2> QED BY <2>7 DEF Calls!Next
<1> QED BY <1>3, <1>4 DEF Open

\* A request is a call.
LEMMA AskCalls ==
  ASSUME Inv, Inv', NEW p \in Pids, Ask(p)
  PROVE  Calls!Next \/ UNCHANGED Calls!vars
<1> USE DEF Inv
<1>0. /\ cpc[p] \in {"init", "read", "timer"}
      /\ cpc' = [cpc EXCEPT ![p] = "wait"]
      /\ UNCHANGED <<serving, fifo>>
  BY DEF Ask
<1>1. PICK m \in Message :
        /\ m.pid = p
        /\ m.cmd = "HELLO" <=> cpc[p] = "init"
        /\ input' = Append(input, m)
        /\ req' = [req EXCEPT ![p] = m.cmd]
  <2>1. PICK cmd \in Requests :
          /\ cmd = "HELLO" <=> cpc[p] = "init"
          /\ input' = Append(input, [cid |-> slot[p], cmd |-> cmd, pid |-> p])
          /\ req' = [req EXCEPT ![p] = cmd]
    BY DEF Ask
  <2>2. [cid |-> slot[p], cmd |-> cmd, pid |-> p] \in Message
    BY DEF Message, TypeOK, ChildrenType
  <2> QED BY <2>1, <2>2
<1>2. /\ input \in Seq(Message) /\ Len(input) \in Nat
      /\ DOMAIN input = 1 .. Len(input) /\ DOMAIN input' = 1 .. Len(input) + 1
      /\ input'[Len(input) + 1] = m
      /\ \A i \in DOMAIN input : i \in DOMAIN input' /\ input'[i] = input[i]
  <2>1. input \in Seq(Message) /\ input' = Append(input, m)
    BY <1>1 DEF TypeOK, InputType
  <2> QED BY <2>1
<1>3. Asked(p)'
  BY <1>1, <1>2 DEF Asked
<1>4. ASSUME NEW q \in Pids, q # p
      PROVE  Asked(q)' <=> Asked(q)
  <2>1. Asked(q) => Asked(q)'
    BY <1>2 DEF Asked
  <2>2. ASSUME NEW i \in DOMAIN input', input'[i].pid = q
        PROVE  Asked(q)
    <3>1. i # Len(input) + 1
      BY <1>1, <1>2, <1>4, <2>2
    <3> QED BY <1>2, <2>2, <3>1 DEF Asked
  <2> QED BY <2>1, <2>2 DEF Asked
<1>5. /\ cpc[p] \in {"init", "read", "timer"} /\ cpc'[p] = "wait"
      /\ \A q \in Pids : q # p => cpc'[q] = cpc[q] /\ req'[q] = req[q]
      /\ req'[p] = m.cmd
  BY <1>0, <1>1 DEF TypeOK, ChildrenType
<1>6. \A q \in Pids : q # p => CallOf(q)' = CallOf(q)
  BY <1>0, <1>4, <1>5, SameCall DEF Served, Answered
<1>7. CallOf(p) = "idle" /\ CallOf(p)' = "asked"
  BY <1>3, <1>5, CallCases, CallCasesNext DEF Waiting
<1>8. KnownChildren' = KnownChildren
  BY <1>1, <1>5 DEF KnownChildren, Waiting
<1>9. Calls!Move(p, {"idle"}, "asked")
  BY <1>6, <1>7, OneMoves
<1>10. Calls!Call(p)
  BY <1>8, <1>9 DEF Calls!Call
<1> QED BY <1>10 DEF Calls!Next

\* A process that ends, or leaves its loop, takes its call with it.
LEMMA StopCalls ==
  ASSUME Inv, Inv', NEW p \in Pids, NEW pc \in {"exit", "zombie", "reaped"},
         cpc[p] # "unborn", cpc' = [cpc EXCEPT ![p] = pc],
         UNCHANGED <<serving, input, req, fifo>>
  PROVE  Calls!Next \/ UNCHANGED Calls!vars
<1> USE DEF Inv
<1>1. /\ \A q \in Pids : q # p => cpc'[q] = cpc[q]
      /\ cpc'[p] = pc
  BY DEF TypeOK, ChildrenType
<1>2. \A q \in Pids : q # p => CallOf(q)' = CallOf(q)
  BY <1>1, SameCall DEF Asked, Served, Answered
<1>3. CallOf(p)' = "gone"
  BY <1>1, CallCasesNext
<1>4. CASE cpc[p] \in {"exit", "zombie", "reaped"}
  <2>1. CallOf(p) = "gone"
    BY <1>4, CallCases
  <2>2. KnownChildren' = KnownChildren
    BY <1>1, <1>4 DEF KnownChildren, Waiting
  <2>3. \A q \in Pids : CallOf(q)' = CallOf(q)
    BY <1>2, <1>3, <2>1
  <2> QED BY <2>2, <2>3, NoneMoves
<1>5. CASE cpc[p] \notin {"exit", "zombie", "reaped"}
  <2>1. CallOf(p) \in Calls!States \ {"none", "gone"}
    BY <1>5, CallCases DEF Calls!States, CPc, Waiting
  <2>2. KnownChildren' = KnownChildren \ {p}
    BY <1>1 DEF KnownChildren, Waiting
  <2>3. Calls!Move(p, Calls!States \ {"none", "gone"}, "gone")
    BY <1>2, <1>3, <2>1, OneMoves
  <2>4. Calls!Stop(p)
    BY <2>2, <2>3 DEF Calls!Stop
  <2> QED BY <2>4 DEF Calls!Next
<1> QED BY <1>4, <1>5

\* A child that reads OK returns from its call; any other line leaves it there.
LEMMA ReadsCalls ==
  ASSUME Inv, Inv', NEW p \in Pids, Reads(p)
  PROVE  Calls!Next \/ UNCHANGED Calls!vars
<1> USE DEF Inv
<1>1. /\ fifo[p] \in Seq(Lines) /\ fifo[p] # <<>> /\ cpc[p] = "wait"
      /\ \A q \in Pids : q # p => cpc'[q] = cpc[q] /\ fifo'[q] = fifo[q]
      /\ fifo'[p] = Tail(fifo[p])
      /\ IF Head(fifo[p]).cmd = "OK" THEN cpc'[p] \in {"connect", "timer", "tail"}
                                     ELSE cpc'[p] = "wait"
      /\ UNCHANGED <<serving, input, req>>
  BY DEF Reads, TypeOK, ChildrenType, Waiting
<1>2. /\ Head(fifo[p]) = fifo[p][1] /\ 1 \in DOMAIN fifo[p]
      /\ \A i \in DOMAIN fifo[p] :
           i # 1 => i - 1 \in DOMAIN fifo'[p] /\ fifo'[p][i - 1] = fifo[p][i]
      /\ \A i \in DOMAIN fifo'[p] : i + 1 \in DOMAIN fifo[p] /\ fifo'[p][i] = fifo[p][i + 1]
  <2> DEFINE f == fifo[p]
             g == fifo'[p]
  <2>1. f \in Seq(Lines) /\ f # <<>> /\ g = Tail(f)
    BY <1>1
  <2> HIDE DEF f, g
  <2>2. /\ Head(f) = f[1] /\ 1 \in DOMAIN f /\ Len(f) \in Nat
        /\ DOMAIN f = 1 .. Len(f) /\ DOMAIN g = 1 .. Len(f) - 1
        /\ \A i \in DOMAIN g : i + 1 \in DOMAIN f /\ g[i] = f[i + 1]
    BY <2>1, TailLines
  <2>3. \A i \in DOMAIN f : i # 1 => i - 1 \in DOMAIN g /\ g[i - 1] = f[i]
    BY <2>2
  <2> QED BY <2>2, <2>3 DEF f, g
<1>3. \A q \in Pids : (Asked(q)' <=> Asked(q)) /\ (Served(q)' <=> Served(q))
  BY <1>1 DEF Asked, Served
<1>4. \A q \in Pids : q # p => CallOf(q)' = CallOf(q)
  BY <1>1, <1>3, SameCall DEF Answered
<1>5. CASE Head(fifo[p]).cmd = "OK"
  <2>1. Answered(p) /\ ~Asked(p) /\ ~Served(p)
    BY <1>1, <1>2, <1>5 DEF Answered, ReplyDiscipline, Alive
  <2>2. cpc'[p] \in {"connect", "timer", "tail"}
    BY <1>1, <1>5
  <2>3. CallOf(p) = "answered" /\ CallOf(p)' = "idle"
    BY <1>1, <2>1, <2>2, CallCases, CallCasesNext DEF Waiting
  <2>4. KnownChildren' = KnownChildren \cup {p}
    BY <1>1, <2>2 DEF KnownChildren, Waiting
  <2>5. Calls!Move(p, {"answered"}, "idle")
    BY <1>4, <2>3, OneMoves
  <2>6. Calls!Return(p)
    BY <2>4, <2>5 DEF Calls!Return
  <2> QED BY <2>6 DEF Calls!Next
<1>6. CASE Head(fifo[p]).cmd # "OK"
  <2>1. \A q \in Pids : cpc'[q] = cpc[q]
    BY <1>1, <1>6
  <2>2. Answered(p)' <=> Answered(p)
    BY <1>2, <1>6 DEF Answered
  <2>3. CallOf(p)' = CallOf(p)
    BY <1>3, <2>1, <2>2, SameCall
  <2>4. KnownChildren' = KnownChildren
    BY <1>1, <2>1, SameKnown
  <2> QED BY <1>4, <2>3, <2>4, NoneMoves
<1> QED BY <1>5, <1>6

\* A child that goes on without a request has no call before or after.
LEMMA MovesCalls ==
  ASSUME Inv, Inv', NEW p \in Pids, Moves(p)
  PROVE  Calls!Next \/ UNCHANGED Calls!vars
<1> USE DEF Inv
<1>1. /\ cpc[p] \in {"init", "connect", "read", "timer", "tail"}
      /\ UNCHANGED <<serving, input, req, fifo>>
  BY DEF Moves
<1>2. PICK pc \in {"connect", "read", "timer", "tail", "exit"} :
        (cpc[p] = "init" => pc = "exit") /\ cpc' = [cpc EXCEPT ![p] = pc]
  BY DEF Moves
<1>3. CASE pc = "exit"
  BY <1>1, <1>2, <1>3, StopCalls
<1>4. CASE pc # "exit"
  <2>1. /\ \A q \in Pids : q # p => cpc'[q] = cpc[q]
        /\ cpc'[p] = pc /\ cpc[p] \in {"connect", "read", "timer", "tail"}
        /\ cpc'[p] \in {"connect", "read", "timer", "tail"}
    BY <1>1, <1>2, <1>4 DEF TypeOK, ChildrenType
  <2>2. \A q \in Pids : q # p => CallOf(q)' = CallOf(q)
    BY <1>1, <2>1, SameCall DEF Asked, Served, Answered
  <2>3. CallOf(p)' = CallOf(p)
    BY <2>1, CallCases, CallCasesNext
  <2>4. KnownChildren' = KnownChildren
    BY <1>1, <2>1 DEF KnownChildren, Waiting
  <2> QED BY <2>2, <2>3, <2>4, NoneMoves
<1> QED BY <1>3, <1>4

\* The rest of the shapes: a child that dies, a child the parent waits for, and
\* the steps of the parent that change none of the variables of the calls.
LEMMA ShapeCalls ==
  ASSUME Inv, Inv', Shape
  PROVE  Calls!Next \/ UNCHANGED Calls!vars
<1>1. ASSUME NEW p \in Pids, Dies(p)
      PROVE  Calls!Next \/ UNCHANGED Calls!vars
  BY <1>1, StopCalls DEF Dies, Alive
<1>2. ASSUME Sigchild
      PROVE  Calls!Next \/ UNCHANGED Calls!vars
  <2>1. PICK p \in Pids : cpc[p] = "zombie" /\ cpc' = [cpc EXCEPT ![p] = "reaped"]
    BY <1>2 DEF Sigchild
  <2>2. UNCHANGED <<serving, input, req, fifo>>
    BY <1>2 DEF Sigchild, control
  <2> QED BY <2>1, <2>2, StopCalls
<1>3. ASSUME Silent \/ RecordPid \/ MainExit \/ ParentCrash
      PROVE  UNCHANGED Calls!vars
  <2>1. UNCHANGED <<cpc, req, serving, input, fifo>>
    BY <1>3 DEF Silent, core, RecordPid, MainExit, ParentCrash, children
  <2> QED BY <2>1, SilentCalls DEF Inv
<1>4. CASE Speak
  BY <1>4, SpeakCalls DEF Inv
<1> QED BY <1>1, <1>2, <1>3, <1>4, FinishCalls, ImmediateCalls, BeginCalls, HelloOpenCalls,
           OpenCalls, AskCalls, ReadsCalls, MovesCalls DEF Shape

\* The parent and the children implement the synchronous calls of SyncCall for
\* any number of connections, forks, texts and scripts (send_to_parent,
\* connection_server): a child never takes the answer of another call for its
\* own, no two calls are served at the same time, and no call is lost but the
\* first of a child.
THEOREM ImplementsSyncCall == Spec => RefinesSyncCall
<1>1. IInv => Inv
  BY IInvParts, IInvReplies DEF Inv
<1>2. Init => Calls!Init
  <2> SUFFICES ASSUME Init
               PROVE  Calls!Init
    OBVIOUS
  <2>1. TypeOK
    BY InitIInv DEF IInv
  <2>2. \A p \in Pids : cpc[p] = "unborn"
    BY DEF Init
  <2>3. \A p \in Pids : CallOf(p) = "none"
    BY <2>1, <2>2, CallCases
  <2>4. KnownChildren = {}
    BY <2>2 DEF KnownChildren, Waiting
  <2> QED BY <2>3, <2>4 DEF Calls!Init
<1>3. Inv /\ Inv' /\ TypeOK /\ CoreInv /\ [Next]_vars => [Calls!Next]_(Calls!vars)
  BY EveryStepHasAShape, ShapeCalls
<1>4. Inv => TypeOK /\ CoreInv
  BY DEF Inv
<1> QED BY <1>1, <1>2, <1>3, <1>4, Invariance, PTL DEF Spec, RefinesSyncCall, Calls!Spec
=============================================================================
