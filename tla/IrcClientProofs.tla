---------------------------- MODULE IrcClientProofs ----------------------------
(***************************************************************************)
(* The line a client has read so far repeats, for all messages, what has   *)
(* arrived of the message being read, and a line that repeats a message is *)
(* taken for it, or for something the client does not know.                *)
(***************************************************************************)
EXTENDS IrcClient, SequenceTheorems, FiniteSetTheorems, TLAPS

\* The first n characters of a message.
Sofar(msg, n) == SubSeq(Line(msg), 1, IF n <= Len(Line(msg)) THEN n ELSE Len(Line(msg)))

\* Which character of t each character of l is: 0 for blanks in front of it.
Follows(h, l, t) ==
  /\ h[0] = 0 /\ h[Len(l)] = Len(t)
  /\ \A i, j \in 0 .. Len(l) : i <= j => h[i] <= h[j]
  /\ \A i \in 1 .. Len(l) : h[i] <= h[i - 1] + 1
  /\ \A i \in 1 .. Len(l) : l[i] = IF h[i] = 0 THEN BLANK ELSE t[h[i]]
Places(l, t) == [0 .. Len(l) -> 0 .. Len(t)]

\* l is t, some characters of which are there several times; or with blanks in front of it.
Repeats(l, t) == \E h \in Places(l, t) : Follows(h, l, t) /\ \A i \in 1 .. Len(l) : h[i] # 0
Loosely(l, t) == \E h \in Places(l, t) : Follows(h, l, t)

\* n characters of a message have been read.
HalfRead(msg, n, l, c, g) ==
  /\ n < Len(Wire[msg])
  /\ n = 0 => c = ""
  /\ n > 0 => c = Wire[msg][n]
  /\ Repeats(l, Sofar(msg, n))
  /\ ~g => l = Sofar(msg, n)

\* It was said by whoever is at the other end.
Heard(msg) == msg \in Messages /\ (msg.from = "dcc" <=> ctype = "DCC")

\* It was said, and it arrived.
Arrived(e) ==
  /\ Heard(e.msg) /\ e.line \in Seq(Chars)
  /\ Repeats(e.line, Line(e.msg))
  /\ ~e.garbled => e.line = Line(e.msg)

LoopInv ==
  /\ pc \in {"select", "recv", "wait", "nothing", "handle"} => quit = "none"
  /\ quit = "none" /\ pc \notin {"recv", "wait", "crashed", "spinning"} => read = 0

ReaderInv ==
  /\ pc \notin {"recv", "wait", "handle", "crashed", "spinning"} =>
       line = <<>> /\ ch = "" /\ garbled = FALSE
  /\ pc \in {"recv", "wait"} =>
       IF said = <<>> THEN peer # "alive" ELSE HalfRead(Head(said), read, line, ch, garbled)
  /\ pc = "wait" => ch # ""

EventInv ==
  /\ \A i \in 1 .. Len(said) : Heard(said[i])
  /\ event # NoEvent => Arrived(event)
  /\ pc = "handle" => event # NoEvent /\ event.line = line

ReadInv == TypeOK /\ LoopInv /\ ReaderInv /\ EventInv /\ Survives

(***************************************************************************)
(* Messages                                                                *)
(***************************************************************************)
LEMMA CharsThere ==
  /\ BLANK \in Chars /\ COLON \in Chars /\ BANG \in Chars /\ AT \in Chars
  /\ CR \in Chars /\ LF \in Chars /\ CTCP \in Chars
BY CharAssumption

LEMMA JoinedType ==
  ASSUME NEW w \in Seq(Chars), NEW d \in Chars, NEW r \in Seq(Chars)
  PROVE  Joined(w, d, r) \in Seq(Chars)
BY DEF Joined

LEMMA MessageParts ==
  ASSUME NEW msg \in Messages
  PROVE  /\ msg.from \in {"server", "user", "nobody", "dcc"}
         /\ msg.ident.nick \in Seq(Chars) /\ msg.ident.user \in Seq(Chars)
         /\ msg.ident.host \in Seq(Chars)
         /\ msg.ident = [nick |-> msg.ident.nick, user |-> msg.ident.user, host |-> msg.ident.host]
         /\ msg.cmd \in Seq(Chars) /\ msg.words \in Seq(Seq(Chars)) /\ msg.rest \in Seq(Chars)
         /\ MessageOK(msg) /\ Without(Line(msg), CR) /\ Without(Line(msg), LF)
<1>1. msg \in MessageType
  BY MessageAssumption
<1>2. msg.ident \in [nick : Seq(Chars), user : Seq(Chars), host : Seq(Chars)]
  BY <1>1 DEF MessageType
<1>3. MessageOK(msg) /\ Without(Line(msg), CR) /\ Without(Line(msg), LF)
  BY MessageAssumption
<1> QED BY <1>1, <1>2, <1>3 DEF MessageType

LEMMA ParamsType ==
  ASSUME NEW msg \in Messages
  PROVE  Further(msg) \in Seq(Chars) /\ Params(msg) \in Seq(Chars)
<1>1. msg.words \in Seq(Seq(Chars)) /\ msg.rest \in Seq(Chars)
  BY MessageParts
<1>2. Further(msg) \in Seq(Chars)
  <2>1. CASE Len(msg.words) = 2
    <3>1. msg.words[2] \in Seq(Chars)
      BY <1>1, <2>1
    <3> QED BY <1>1, <2>1, <3>1, CharsThere, JoinedType DEF Further
  <2> QED BY <1>1, <2>1 DEF Further
<1>3. Params(msg) \in Seq(Chars)
  <2>1. CASE msg.words # <<>>
    <3>1. msg.words[1] \in Seq(Chars)
      BY <1>1, <2>1
    <3> QED BY <1>2, <2>1, <3>1, CharsThere, JoinedType DEF Params
  <2> QED BY <1>1, <2>1 DEF Params
<1> QED BY <1>2, <1>3

LEMMA SourceType ==
  ASSUME NEW msg \in Messages
  PROVE  Source(msg.ident) \in Seq(Chars) /\ <<COLON>> \o Source(msg.ident) \in Seq(Chars)
<1>1. Joined(msg.ident.user, AT, msg.ident.host) \in Seq(Chars)
  BY MessageParts, CharsThere, JoinedType
<1>2. Source(msg.ident) \in Seq(Chars)
  BY <1>1, MessageParts, CharsThere, JoinedType DEF Source
<1>3. <<COLON>> \in Seq(Chars)
  BY CharsThere
<1> QED BY <1>2, <1>3

LEMMA LineType == ASSUME NEW msg \in Messages PROVE Line(msg) \in Seq(Chars)
<1>1. CASE msg.from = "dcc"
  BY <1>1, MessageParts DEF Line
<1>2. Joined(msg.cmd, BLANK, Params(msg)) \in Seq(Chars)
  BY MessageParts, ParamsType, CharsThere, JoinedType
<1>3. CASE msg.from = "nobody"
  BY <1>2, <1>3 DEF Line
<1>4. CASE msg.from \notin {"dcc", "nobody"}
  <2>1. Joined(<<COLON>> \o Source(msg.ident), BLANK, Joined(msg.cmd, BLANK, Params(msg))) \in Seq(Chars)
    BY <1>2, SourceType, CharsThere, JoinedType
  <2> QED BY <1>4, <2>1 DEF Line
<1> QED BY <1>1, <1>3, <1>4

LEMMA WireIs ==
  ASSUME NEW msg \in Messages
  PROVE  /\ Wire[msg] \in Seq(Chars) /\ Len(Wire[msg]) = Len(Line(msg)) + 2
         /\ \A i \in 1 .. Len(Line(msg)) : Wire[msg][i] = Line(msg)[i]
         /\ Wire[msg][Len(Line(msg)) + 1] = CR
         /\ Wire[msg][Len(Line(msg)) + 2] = LF
<1>1. PICK c \in Chars, d \in Chars : c = CR /\ d = LF
  BY CharsThere
<1>2. PICK l \in Seq(Chars) : l = Line(msg)
  BY LineType
<1>3. /\ l \o <<c, d>> \in Seq(Chars) /\ Len(l \o <<c, d>>) = Len(l) + 2
      /\ \A i \in 1 .. Len(l) : (l \o <<c, d>>)[i] = l[i]
      /\ (l \o <<c, d>>)[Len(l) + 1] = c
      /\ (l \o <<c, d>>)[Len(l) + 2] = d
  OBVIOUS
<1>4. Wire[msg] = l \o <<c, d>>
  BY <1>1, <1>2 DEF Wire
<1> QED BY <1>1, <1>2, <1>3, <1>4

LEMMA WireCharacters ==
  ASSUME NEW msg \in Messages, NEW i \in 1 .. Len(Line(msg))
  PROVE  Wire[msg][i] = Line(msg)[i] /\ Wire[msg][i] \in Chars \ {CR, LF}
<1>1. Line(msg)[i] \in Chars
  BY LineType
<1>2. Line(msg)[i] # CR /\ Line(msg)[i] # LF
  BY MessageParts DEF Without
<1> QED BY <1>1, <1>2, WireIs

(***************************************************************************)
(* A line repeats what has been read                                       *)
(***************************************************************************)
LEMMA RepeatsNothing == Repeats(<<>>, <<>>)
<1> DEFINE h == [i \in 0 .. 0 |-> 0]
<1>1. h \in Places(<<>>, <<>>)
  BY DEF Places
<1>2. Follows(h, <<>>, <<>>)
  BY DEF Follows
<1> QED BY <1>1, <1>2 DEF Repeats

LEMMA RepeatsItself ==
  ASSUME NEW l \in Seq(Chars)
  PROVE  Repeats(l, l)
<1> DEFINE h == [i \in 0 .. Len(l) |-> i]
<1>1. h \in Places(l, l)
  BY DEF Places
<1>2. Follows(h, l, l)
  BY DEF Follows
<1> QED BY <1>1, <1>2 DEF Repeats

LEMMA RepeatsMore ==
  ASSUME NEW l \in Seq(Chars), NEW t \in Seq(Chars), NEW u \in Seq(Chars), NEW c \in Chars,
         Repeats(l, t), u # <<>>, c = u[Len(u)],
         Len(t) <= Len(u), Len(u) <= Len(t) + 1,
         \A i \in 1 .. Len(t) : t[i] = u[i]
  PROVE  Repeats(Append(l, c), u)
<1>1. PICK h \in Places(l, t) : Follows(h, l, t) /\ \A i \in 1 .. Len(l) : h[i] # 0
  BY DEF Repeats
<1> DEFINE k == [i \in 0 .. Len(l) + 1 |-> IF i <= Len(l) THEN h[i] ELSE Len(u)]
<1>2. Len(Append(l, c)) = Len(l) + 1 /\ Append(l, c)[Len(l) + 1] = c
  OBVIOUS
<1>3. \A i \in 1 .. Len(l) : Append(l, c)[i] = l[i]
  OBVIOUS
<1>4. \A i \in 0 .. Len(l) : k[i] = h[i] /\ h[i] \in 0 .. Len(t)
  <2>1. h \in [0 .. Len(l) -> 0 .. Len(t)] /\ Len(l) \in Nat
    BY DEF Places
  <2> SUFFICES ASSUME NEW i \in 0 .. Len(l) PROVE k[i] = h[i] /\ h[i] \in 0 .. Len(t)
    OBVIOUS
  <2>2. h[i] \in 0 .. Len(t)
    BY <2>1
  <2>3. i \in 0 .. Len(l) + 1 /\ i <= Len(l)
    BY <2>1
  <2> QED BY <2>2, <2>3
<1>5. k[Len(l) + 1] = Len(u) /\ Len(u) \in Nat /\ Len(u) # 0 /\ Len(t) \in Nat /\ Len(l) \in Nat
  OBVIOUS
<1>6. k \in [0 .. Len(l) + 1 -> 0 .. Len(u)]
  <2>1. \A i \in 0 .. Len(l) + 1 : i <= Len(l) => i \in 0 .. Len(l)
    BY <1>5
  <2>2. ASSUME NEW i \in 0 .. Len(l) + 1
        PROVE  (IF i <= Len(l) THEN h[i] ELSE Len(u)) \in 0 .. Len(u)
    <3>1. CASE i <= Len(l)
      <4>1. h[i] \in 0 .. Len(t)
        BY <2>1, <3>1, <1>4
      <4> QED BY <3>1, <4>1, <1>5
    <3> QED BY <3>1, <1>5
  <2> QED BY <2>2
<1> HIDE DEF k
<1>7. k \in Places(Append(l, c), u)
  BY <1>2, <1>6 DEF Places
<1>8. /\ h[0] = 0 /\ h[Len(l)] = Len(t)
      /\ \A i, j \in 0 .. Len(l) : i <= j => h[i] <= h[j]
      /\ \A i \in 1 .. Len(l) : h[i] <= h[i - 1] + 1
      /\ \A i \in 1 .. Len(l) : l[i] = IF h[i] = 0 THEN BLANK ELSE t[h[i]]
  BY <1>1 DEF Follows
<1>9. k[0] = 0
  BY <1>4, <1>5, <1>8
<1>10. \A i, j \in 0 .. Len(l) + 1 : i <= j => k[i] <= k[j]
  <2> SUFFICES ASSUME NEW i \in 0 .. Len(l) + 1, NEW j \in 0 .. Len(l) + 1, i <= j PROVE k[i] <= k[j]
    OBVIOUS
  <2>1. CASE j <= Len(l)
    <3>1. i \in 0 .. Len(l) /\ j \in 0 .. Len(l)
      BY <1>5, <2>1
    <3>2. k[i] = h[i] /\ k[j] = h[j] /\ h[i] <= h[j]
      BY <1>4, <1>8, <3>1
    <3> QED BY <3>2
  <2>2. CASE j = Len(l) + 1
    BY <2>2, <1>4, <1>5, <1>6
  <2> QED BY <2>1, <2>2, <1>5
<1>11. \A i \in 1 .. Len(l) + 1 : k[i] <= k[i - 1] + 1
  <2> SUFFICES ASSUME NEW i \in 1 .. Len(l) + 1 PROVE k[i] <= k[i - 1] + 1
    OBVIOUS
  <2>1. CASE i <= Len(l)
    <3>1. i \in 0 .. Len(l) /\ i - 1 \in 0 .. Len(l) /\ i \in 1 .. Len(l)
      BY <2>1, <1>5
    <3> QED BY <3>1, <1>4, <1>8
  <2>2. CASE i = Len(l) + 1
    <3>1. i - 1 = Len(l) /\ k[Len(l)] = h[Len(l)]
      BY <2>2, <1>4, <1>5
    <3> QED BY <3>1, <2>2, <1>5, <1>8
  <2> QED BY <2>1, <2>2, <1>5
<1>12. ASSUME NEW i \in 1 .. Len(l) + 1
       PROVE  k[i] # 0 /\ Append(l, c)[i] = u[k[i]]
  <2>1. CASE i <= Len(l)
    <3>1. i \in 1 .. Len(l) /\ i \in 0 .. Len(l)
      BY <2>1, <1>5
    <3>2. h[i] # 0 /\ l[i] = t[h[i]] /\ h[i] \in 1 .. Len(t) /\ k[i] = h[i]
      BY <3>1, <1>1, <1>4, <1>8
    <3> QED BY <3>1, <3>2, <1>3
  <2>2. CASE i = Len(l) + 1
    BY <2>2, <1>2, <1>5
  <2> QED BY <2>1, <2>2, <1>5
<1>13. Follows(k, Append(l, c), u)
  BY <1>2, <1>5, <1>9, <1>10, <1>11, <1>12 DEF Follows
<1> QED BY <1>2, <1>7, <1>12, <1>13 DEF Repeats

LEMMA SofarIs ==
  ASSUME NEW msg \in Messages, NEW n \in Nat
  PROVE  /\ Sofar(msg, n) \in Seq(Chars)
         /\ Len(Sofar(msg, n)) = IF n <= Len(Line(msg)) THEN n ELSE Len(Line(msg))
         /\ \A i \in 1 .. Len(Sofar(msg, n)) : Sofar(msg, n)[i] = Line(msg)[i]
<1>1. PICK l \in Seq(Chars) : l = Line(msg)
  BY LineType
<1>2. PICK m \in 0 .. Len(l) : m = IF n <= Len(l) THEN n ELSE Len(l)
  OBVIOUS
<1>3. /\ SubSeq(l, 1, m) \in Seq(Chars) /\ Len(SubSeq(l, 1, m)) = m
      /\ \A i \in 1 .. m : SubSeq(l, 1, m)[i] = l[i]
  OBVIOUS
<1>4. Sofar(msg, n) = SubSeq(l, 1, m)
  BY <1>1, <1>2 DEF Sofar
<1> QED BY <1>1, <1>2, <1>3, <1>4

LEMMA SofarWhole ==
  ASSUME NEW msg \in Messages, NEW n \in Nat, n >= Len(Line(msg))
  PROVE  Sofar(msg, n) = Line(msg)
<1>1. Len(Sofar(msg, n)) = Len(Line(msg))
  BY SofarIs, LineType
<1> QED BY <1>1, SofarIs, LineType, SeqEqual

LEMMA HalfReadStart ==
  ASSUME NEW msg \in Messages
  PROVE  HalfRead(msg, 0, <<>>, "", FALSE)
<1>1. Len(Sofar(msg, 0)) = 0 /\ Sofar(msg, 0) \in Seq(Chars)
  BY SofarIs, LineType
<1>2. Sofar(msg, 0) = <<>>
  BY <1>1
<1>3. 0 < Len(Wire[msg])
  BY WireIs, LineType
<1> QED BY <1>2, <1>3, RepeatsNothing DEF HalfRead

Stored(l, c) == IF c \in {CR, LF} THEN l ELSE Append(l, c)

LEMMA HalfReadCharacter ==
  ASSUME NEW msg \in Messages, NEW n \in Nat, NEW l \in Seq(Chars), NEW c, NEW g \in BOOLEAN,
         HalfRead(msg, n, l, c, g), Wire[msg][n + 1] # LF
  PROVE  HalfRead(msg, n + 1, Stored(l, Wire[msg][n + 1]), Wire[msg][n + 1], g)
<1>1. Len(Line(msg)) \in Nat /\ Line(msg) \in Seq(Chars)
  BY LineType
<1>2. n < Len(Line(msg)) + 2 /\ n + 1 # Len(Line(msg)) + 2
  BY WireIs DEF HalfRead
<1>3. n + 1 < Len(Wire[msg]) /\ n + 1 # 0 /\ n + 1 \in Nat
  BY <1>1, <1>2, WireIs
<1>4. CASE n < Len(Line(msg))
  <2>1. n + 1 \in 1 .. Len(Line(msg))
    BY <1>1, <1>4
  <2>2. Wire[msg][n + 1] = Line(msg)[n + 1] /\ Wire[msg][n + 1] \in Chars \ {CR, LF}
    BY <2>1, WireCharacters
  <2>3. Stored(l, Wire[msg][n + 1]) = Append(l, Wire[msg][n + 1])
    BY <2>2 DEF Stored
  <2>4. Sofar(msg, n) \in Seq(Chars) /\ Sofar(msg, n + 1) \in Seq(Chars)
    BY SofarIs, <1>3
  <2>5. Len(Sofar(msg, n)) = n /\ Len(Sofar(msg, n + 1)) = n + 1
    BY SofarIs, <1>1, <1>3, <1>4, <2>1
  <2>6. \A i \in 1 .. n + 1 : Sofar(msg, n + 1)[i] = Line(msg)[i]
    BY SofarIs, <1>3, <2>5
  <2>7. \A i \in 1 .. n : Sofar(msg, n)[i] = Line(msg)[i]
    BY SofarIs, <2>5
  <2>8. PICK t \in Seq(Chars), u \in Seq(Chars), x \in Chars :
          t = Sofar(msg, n) /\ u = Sofar(msg, n + 1) /\ x = Wire[msg][n + 1]
    BY <2>2, <2>4
  <2>9. /\ Len(t) = n /\ Len(u) = n + 1 /\ u # <<>> /\ x = u[Len(u)]
        /\ \A i \in 1 .. Len(t) : t[i] = u[i]
    BY <2>1, <2>2, <2>5, <2>6, <2>7, <2>8
  <2>10. Repeats(Append(l, x), u)
    <3>1. Repeats(l, t)
      BY <2>8 DEF HalfRead
    <3> QED BY <2>9, <3>1, RepeatsMore
  <2>11. ~g => Append(l, x) = u
    <3>1. SUFFICES ASSUME l = t PROVE Append(l, x) = u
      BY <2>8 DEF HalfRead
    <3>2. Append(t, x) \in Seq(Chars) /\ Len(Append(t, x)) = Len(u)
      BY <2>9
    <3>3. \A i \in 1 .. Len(u) : Append(t, x)[i] = u[i]
      BY <2>9
    <3> QED BY <3>1, <3>2, <3>3, SeqEqual
  <2> QED BY <1>3, <2>3, <2>8, <2>10, <2>11 DEF HalfRead
<1>5. CASE n = Len(Line(msg))
  <2>1. Wire[msg][n + 1] = CR
    BY <1>5, WireIs
  <2>2. Stored(l, Wire[msg][n + 1]) = l
    BY <2>1 DEF Stored
  <2>3. Sofar(msg, n) = Line(msg) /\ Sofar(msg, n + 1) = Line(msg)
    BY <1>1, <1>3, <1>5, SofarWhole
  <2> QED BY <1>3, <2>2, <2>3 DEF HalfRead
<1> QED BY <1>1, <1>2, <1>4, <1>5

LEMMA HalfReadAgain ==
  ASSUME NEW msg \in Messages, NEW n \in Nat, NEW l \in Seq(Chars), NEW c, NEW g \in BOOLEAN,
         HalfRead(msg, n, l, c, g), n # 0
  PROVE  HalfRead(msg, n, Stored(l, c), c, g \/ c # CR)
<1>1. Len(Line(msg)) \in Nat /\ Line(msg) \in Seq(Chars)
  BY LineType
<1>2. n < Len(Line(msg)) + 2 /\ n > 0 /\ c = Wire[msg][n]
  <2>1. n < Len(Line(msg)) + 2
    BY WireIs DEF HalfRead
  <2>2. n > 0
    OBVIOUS
  <2> QED BY <2>1, <2>2 DEF HalfRead
<1>4. CASE n <= Len(Line(msg))
  <2>1. n \in 1 .. Len(Line(msg))
    BY <1>1, <1>2, <1>4
  <2>2. c = Line(msg)[n] /\ c \in Chars \ {CR, LF}
    BY <1>2, <2>1, WireCharacters
  <2>3. Stored(l, c) = Append(l, c)
    BY <2>2 DEF Stored
  <2>4. PICK t \in Seq(Chars) : t = Sofar(msg, n)
    BY SofarIs
  <2>5. Len(t) = n /\ t[n] = c
    BY <1>1, <2>1, <2>2, <2>4, SofarIs
  <2>6. Repeats(l, t) /\ t # <<>> /\ c \in Chars /\ c = t[Len(t)]
    BY <2>1, <2>2, <2>4, <2>5 DEF HalfRead
  <2>7. Repeats(Append(l, c), t)
    BY <2>6, RepeatsMore
  <2> QED BY <2>2, <2>3, <2>4, <2>7 DEF HalfRead
<1>5. CASE n = Len(Line(msg)) + 1
  <2>1. c = CR
    BY <1>2, <1>5, WireIs
  <2>2. Stored(l, c) = l /\ (g \/ c # CR) = g
    BY <2>1 DEF Stored
  <2> QED BY <2>2
<1> QED BY <1>1, <1>2, <1>4, <1>5

LEMMA HalfReadEnd ==
  ASSUME NEW msg \in Messages, NEW n \in Nat, NEW l \in Seq(Chars), NEW c, NEW g \in BOOLEAN,
         HalfRead(msg, n, l, c, g), Wire[msg][n + 1] = LF
  PROVE  Repeats(l, Line(msg)) /\ (~g => l = Line(msg))
<1>1. Len(Line(msg)) \in Nat /\ Line(msg) \in Seq(Chars)
  BY LineType
<1>2. n < Len(Line(msg)) + 2
  BY WireIs DEF HalfRead
<1>3. ~(n < Len(Line(msg)))
  <2>1. SUFFICES ASSUME n < Len(Line(msg)) PROVE FALSE
    OBVIOUS
  <2>2. n + 1 \in 1 .. Len(Line(msg))
    BY <1>1, <2>1
  <2> QED BY <2>2, WireCharacters
<1>4. Sofar(msg, n) = Line(msg)
  BY <1>1, <1>3, SofarWhole
<1> QED BY <1>4 DEF HalfRead

(***************************************************************************)
(* The PINGs that are owed                                                 *)
(***************************************************************************)
Pongs(q) == {i \in DOMAIN q : q[i] = "PONG"}

LEMMA PongsFinite ==
  ASSUME NEW q \in Seq({"PING", "PONG"})
  PROVE  IsFiniteSet(Pongs(q)) /\ Cardinality(Pongs(q)) \in Nat
<1>1. Pongs(q) \subseteq 1 .. Len(q) /\ Len(q) \in Nat
  BY DEF Pongs
<1>2. IsFiniteSet(1 .. Len(q))
  BY FS_Interval
<1> QED BY <1>1, <1>2, FS_Subset, FS_CardinalityType

LEMMA PongsAdded ==
  ASSUME NEW q \in Seq({"PING", "PONG"})
  PROVE  /\ Cardinality(Pongs(Append(q, "PONG"))) = Cardinality(Pongs(q)) + 1
         /\ Pongs(Append(q, "PING")) = Pongs(q)
<1> DEFINE n == Len(q) + 1
<1>1. n \in Nat /\ DOMAIN q = 1 .. n - 1
  OBVIOUS
<1>2. ASSUME NEW e \in {"PING", "PONG"}
      PROVE  DOMAIN Append(q, e) = 1 .. n /\ \A i \in 1 .. n : Append(q, e)[i] = IF i = n THEN e ELSE q[i]
  OBVIOUS
<1>3. Pongs(Append(q, "PING")) = Pongs(q)
  BY <1>1, <1>2 DEF Pongs
<1>4. Pongs(Append(q, "PONG")) = Pongs(q) \cup {n}
  BY <1>1, <1>2 DEF Pongs
<1>5. n \notin Pongs(q)
  BY <1>1 DEF Pongs
<1> HIDE DEF n
<1> QED BY <1>3, <1>4, <1>5, PongsFinite, FS_AddElement

LEMMA PongsTail ==
  ASSUME NEW q \in Seq({"PING", "PONG"}), q # <<>>
  PROVE  Cardinality(Pongs(Tail(q))) = Cardinality(Pongs(q)) - (IF Head(q) = "PONG" THEN 1 ELSE 0)
<1> DEFINE f == [i \in Pongs(Tail(q)) |-> i + 1]
<1>1. Tail(q) \in Seq({"PING", "PONG"}) /\ DOMAIN Tail(q) = 1 .. Len(q) - 1 /\ Len(q) \in Nat \ {0}
  OBVIOUS
<1>2. \A i \in 1 .. Len(q) - 1 : Tail(q)[i] = q[i + 1]
  OBVIOUS
<1>3. DOMAIN q = 1 .. Len(q) /\ Head(q) = q[1]
  OBVIOUS
<1>4. ASSUME NEW i \in Pongs(Tail(q)) PROVE i \in Nat /\ i + 1 \in Pongs(q) \ {1}
  BY <1>1, <1>2, <1>3 DEF Pongs
<1>5. ASSUME NEW j \in Pongs(q) \ {1} PROVE j - 1 \in Pongs(Tail(q)) /\ j = (j - 1) + 1
  <2>1. j \in 2 .. Len(q) /\ q[j] = "PONG"
    BY <1>1, <1>3 DEF Pongs
  <2>2. j - 1 \in 1 .. Len(q) - 1 /\ (j - 1) + 1 = j
    BY <1>1, <2>1
  <2> QED BY <1>1, <1>2, <2>1, <2>2 DEF Pongs
<1>6. f \in Bijection(Pongs(Tail(q)), Pongs(q) \ {1})
  <2>1. f \in [Pongs(Tail(q)) -> Pongs(q) \ {1}]
    BY <1>4
  <2>2. \A i, j \in Pongs(Tail(q)) : f[i] = f[j] => i = j
    BY <1>4
  <2>3. \A j \in Pongs(q) \ {1} : \E i \in Pongs(Tail(q)) : f[i] = j
    BY <1>5
  <2> QED BY <2>1, <2>2, <2>3 DEF Bijection, Injection, Surjection, IsInjective
<1>7. IsFiniteSet(Pongs(q)) /\ IsFiniteSet(Pongs(Tail(q)))
  BY <1>1, PongsFinite
<1>8. Cardinality(Pongs(Tail(q))) = Cardinality(Pongs(q) \ {1})
  BY <1>6, <1>7, FS_Bijection DEF ExistsBijection
<1>9. 1 \in Pongs(q) <=> Head(q) = "PONG"
  BY <1>1, <1>3 DEF Pongs
<1>10. Cardinality(Pongs(q)) \in Nat
  BY PongsFinite
<1>11. Cardinality(Pongs(q) \ {1}) = IF 1 \in Pongs(q) THEN Cardinality(Pongs(q)) - 1 ELSE Cardinality(Pongs(q))
  BY <1>7, FS_RemoveElement
<1>12. CASE 1 \in Pongs(q)
  BY <1>8, <1>9, <1>11, <1>12
<1>13. CASE 1 \notin Pongs(q)
  <2>1. Cardinality(Pongs(q)) - 0 = Cardinality(Pongs(q))
    BY <1>10
  <2> QED BY <1>8, <1>9, <1>11, <1>13, <2>1
<1> QED BY <1>12, <1>13

(***************************************************************************)
(* Words of a line (strtok)                                                *)
(***************************************************************************)
LEMMA LeastNat ==
  ASSUME NEW S \in SUBSET Nat, S # {}
  PROVE  Least(S) \in S /\ \A x \in S : Least(S) <= x
<1> DEFINE T == {0 .. n : n \in S}
<1>1. T \subseteq FiniteSubsetsOf(Nat) /\ T # {}
  <2>1. \A n \in S : IsFiniteSet(0 .. n)
    BY FS_Interval
  <2>2. \A n \in S : 0 .. n \in FiniteSubsetsOf(Nat)
    BY <2>1 DEF FiniteSubsetsOf
  <2> QED BY <2>2
<1>2. PICK x \in T : \A y \in T : <<y, x>> \notin StrictSubsetOrdering(Nat)
  <2> HIDE DEF T
  <2> QED BY <1>1, FS_StrictSubsetOrderingWellFounded, WFMin
<1>3. PICK n \in S : x = 0 .. n
  OBVIOUS
<1>4. ASSUME NEW k \in S PROVE n <= k
  <2>1. SUFFICES ASSUME k < n PROVE FALSE
    OBVIOUS
  <2>2. 0 .. k \subseteq 0 .. n /\ n \in 0 .. n /\ n \notin 0 .. k
    BY <2>1
  <2>3. <<0 .. k, x>> \in StrictSubsetOrdering(Nat)
    BY <1>3, <2>2 DEF StrictSubsetOrdering
  <2> QED BY <1>2, <2>3
<1> QED BY <1>4 DEF Least

LEMMA LeastIs ==
  ASSUME NEW S \in SUBSET Nat, NEW k \in S, \A i \in S : k <= i
  PROVE  Least(S) = k
<1>1. Least(S) \in S /\ Least(S) <= k
  BY LeastNat
<1>2. k <= Least(S) /\ Least(S) \in Nat /\ k \in Nat
  BY <1>1
<1> QED BY <1>1, <1>2

\* Where a word starts and where it ends.
Bounds(s, d, a, b) ==
  /\ a \in 1 .. Len(s) + 1 /\ b \in a .. Len(s) + 1
  /\ \A i \in 1 .. a - 1 : s[i] = d
  /\ \A i \in a .. b - 1 : s[i] # d
  /\ a <= Len(s) => s[a] # d
  /\ b <= Len(s) => s[b] = d

LEMMA StartIs ==
  ASSUME NEW s \in Seq(Chars), NEW d \in Chars, NEW a, NEW b, Bounds(s, d, a, b)
  PROVE  Start(s, d) = a
<1> DEFINE S == {i \in 1 .. Len(s) : s[i] # d} \cup {Len(s) + 1}
<1>1. Len(s) \in Nat
  OBVIOUS
<1>2. S \in SUBSET Nat
  BY <1>1
<1>3. a \in S
  BY <1>1 DEF Bounds
<1>4. ASSUME NEW i \in S PROVE a <= i
  <2>1. SUFFICES ASSUME i < a PROVE FALSE
    BY <1>1, <1>2, <1>3
  <2>2. i \in 1 .. Len(s) /\ s[i] # d
    BY <1>1, <2>1 DEF Bounds
  <2>3. i \in 1 .. a - 1
    BY <1>1, <2>1, <2>2 DEF Bounds
  <2> QED BY <2>2, <2>3 DEF Bounds
<1> HIDE DEF S
<1>5. Least(S) = a
  BY <1>2, <1>3, <1>4, LeastIs
<1> QED BY <1>5 DEF Start, S

LEMMA EndIs ==
  ASSUME NEW s \in Seq(Chars), NEW d \in Chars, NEW a, NEW b, Bounds(s, d, a, b)
  PROVE  End(s, d) = b
<1> DEFINE S == {i \in a .. Len(s) : s[i] = d} \cup {Len(s) + 1}
<1>1. Len(s) \in Nat /\ a \in Nat
  BY DEF Bounds
<1>2. S \in SUBSET Nat
  BY <1>1
<1>3. b \in S
  BY <1>1 DEF Bounds
<1>4. ASSUME NEW i \in S PROVE b <= i
  <2>1. SUFFICES ASSUME i < b PROVE FALSE
    BY <1>1, <1>2, <1>3
  <2>2. i \in a .. Len(s) /\ s[i] = d
    BY <1>1, <2>1 DEF Bounds
  <2>3. i \in a .. b - 1
    BY <1>1, <2>1, <2>2 DEF Bounds
  <2> QED BY <2>2, <2>3 DEF Bounds
<1> HIDE DEF S
<1>5. Least(S) = b
  BY <1>2, <1>3, <1>4, LeastIs
<1> QED BY <1>5, StartIs DEF End, S

LEMMA WordIs ==
  ASSUME NEW s \in Seq(Chars), NEW d \in Chars, NEW a, NEW b, Bounds(s, d, a, b)
  PROVE  Word(d)[s] = SubSeq(s, a, b - 1) /\ Rest(d)[s] = SubSeq(s, b + 1, Len(s))
BY StartIs, EndIs DEF Word, Rest

LEMMA JoinedIs ==
  ASSUME NEW w \in Seq(Chars), NEW d \in Chars, NEW r \in Seq(Chars), NEW s, s = Joined(w, d, r)
  PROVE  /\ s \in Seq(Chars)
         /\ Len(s) = IF r = <<>> THEN Len(w) ELSE Len(w) + 1 + Len(r)
         /\ \A i \in 1 .. Len(w) : s[i] = w[i]
         /\ r # <<>> => s[Len(w) + 1] = d /\ \A i \in 1 .. Len(r) : s[Len(w) + 1 + i] = r[i]
<1>1. CASE r = <<>>
  BY <1>1 DEF Joined
<1>2. CASE r # <<>>
  <2>1. <<d>> \o r \in Seq(Chars) /\ Len(<<d>> \o r) = 1 + Len(r) /\ (<<d>> \o r)[1] = d
    OBVIOUS
  <2>2. \A i \in 1 .. Len(r) : (<<d>> \o r)[1 + i] = r[i]
    OBVIOUS
  <2>3. PICK u \in Seq(Chars) : u = <<d>> \o r
    BY <2>1
  <2>4. s = w \o u
    BY <1>2, <2>3 DEF Joined
  <2>5. Len(u) = 1 + Len(r) /\ u[1] = d /\ \A i \in 1 .. Len(r) : u[1 + i] = r[i]
    BY <2>1, <2>2, <2>3
  <2>6. /\ s \in Seq(Chars) /\ Len(s) = Len(w) + Len(u)
        /\ \A i \in 1 .. Len(w) : s[i] = w[i]
        /\ \A i \in 1 .. Len(u) : s[Len(w) + i] = u[i]
    BY <2>4
  <2>7. s[Len(w) + 1] = d
    BY <2>5, <2>6
  <2>8. ASSUME NEW i \in 1 .. Len(r) PROVE s[Len(w) + 1 + i] = r[i]
    <3>1. 1 + i \in 1 .. Len(u) /\ Len(w) + (1 + i) = Len(w) + 1 + i
      BY <2>5
    <3> QED BY <2>5, <2>6, <3>1
  <2>9. Len(s) = Len(w) + 1 + Len(r)
    BY <2>5, <2>6
  <2> QED BY <1>2, <2>6, <2>7, <2>8, <2>9
<1> QED BY <1>1, <1>2

LEMMA WholeWord ==
  ASSUME NEW w \in Seq(Chars), NEW d \in Chars, NEW r \in Seq(Chars), w # <<>>, Without(w, d)
  PROVE  Word(d)[Joined(w, d, r)] = w /\ Rest(d)[Joined(w, d, r)] = r
<1>1. PICK s : s = Joined(w, d, r)
  OBVIOUS
<1>2. /\ s \in Seq(Chars)
      /\ Len(s) = IF r = <<>> THEN Len(w) ELSE Len(w) + 1 + Len(r)
      /\ \A i \in 1 .. Len(w) : s[i] = w[i]
      /\ r # <<>> => s[Len(w) + 1] = d /\ \A i \in 1 .. Len(r) : s[Len(w) + 1 + i] = r[i]
  BY <1>1, JoinedIs
<1>3. Len(w) \in Nat \ {0} /\ Len(r) \in Nat /\ (r = <<>> <=> Len(r) = 0)
  OBVIOUS
<1>4. Bounds(s, d, 1, Len(w) + 1)
  <2>1. PICK b \in Nat : b = Len(w) + 1 /\ b >= 2
    BY <1>3
  <2>2. Len(s) \in Nat /\ b <= Len(s) + 1
    BY <1>2, <1>3, <2>1
  <2>3. \A i \in 1 .. b - 1 : s[i] # d
    BY <1>2, <1>3, <2>1 DEF Without
  <2>4. b <= Len(s) => s[b] = d
    BY <1>2, <1>3, <2>1
  <2>5. 1 \in 1 .. b - 1 /\ 1 < b
    BY <2>1
  <2>6. Bounds(s, d, 1, b)
    BY <2>1, <2>2, <2>3, <2>4, <2>5 DEF Bounds
  <2> QED BY <2>1, <2>6
<1>5. Word(d)[s] = SubSeq(s, 1, Len(w)) /\ Rest(d)[s] = SubSeq(s, Len(w) + 2, Len(s))
  <2>1. Len(w) + 1 - 1 = Len(w) /\ Len(w) + 1 + 1 = Len(w) + 2
    BY <1>3
  <2>3. PICK b : b = Len(w) + 1
    OBVIOUS
  <2>4. s \in Seq(Chars) /\ Bounds(s, d, 1, b)
    BY <1>2, <1>4, <2>3
  <2>5. Word(d)[s] = SubSeq(s, 1, b - 1) /\ Rest(d)[s] = SubSeq(s, b + 1, Len(s))
    BY <2>4, WordIs
  <2>2. Word(d)[s] = SubSeq(s, 1, Len(w) + 1 - 1) /\ Rest(d)[s] = SubSeq(s, Len(w) + 1 + 1, Len(s))
    BY <2>3, <2>5
  <2> QED BY <2>1, <2>2
<1>6. SubSeq(s, 1, Len(w)) = w
  <2>1. /\ SubSeq(s, 1, Len(w)) \in Seq(Chars) /\ Len(SubSeq(s, 1, Len(w))) = Len(w)
        /\ \A i \in 1 .. Len(w) : SubSeq(s, 1, Len(w))[i] = w[i]
    BY <1>2, <1>3
  <2> QED BY <2>1, SeqEqual
<1>7. SubSeq(s, Len(w) + 2, Len(s)) = r
  <2>1. CASE r = <<>>
    BY <1>2, <1>3, <2>1
  <2>2. CASE r # <<>>
    <3>1. /\ SubSeq(s, Len(w) + 2, Len(s)) \in Seq(Chars) /\ Len(SubSeq(s, Len(w) + 2, Len(s))) = Len(r)
          /\ \A i \in 1 .. Len(r) : SubSeq(s, Len(w) + 2, Len(s))[i] = s[Len(w) + 1 + i]
      BY <1>2, <1>3, <2>2
    <3>2. \A i \in 1 .. Len(r) : SubSeq(s, Len(w) + 2, Len(s))[i] = r[i]
      BY <1>2, <2>2, <3>1
    <3> QED BY <3>1, <3>2, SeqEqual
  <2> QED BY <2>1, <2>2
<1> QED BY <1>1, <1>5, <1>6, <1>7

LEMMA WholeNothing ==
  ASSUME NEW d \in Chars
  PROVE  Word(d)[<<>>] = <<>> /\ Rest(d)[<<>>] = <<>>
<1>1. PICK s \in Seq(Chars) : s = <<>>
  BY EmptySeq
<1>2. Len(s) = 0
  BY <1>1
<1>3. Bounds(s, d, 1, 1)
  BY <1>2 DEF Bounds
<1>4. Word(d)[s] = SubSeq(s, 1, 1 - 1) /\ Rest(d)[s] = SubSeq(s, 1 + 1, Len(s))
  BY <1>3, WordIs
<1>5. SubSeq(s, 1, 1 - 1) = <<>> /\ SubSeq(s, 1 + 1, Len(s)) = <<>>
  BY <1>2
<1> QED BY <1>1, <1>4, <1>5

(***************************************************************************)
(* Words of a line that repeats another                                    *)
(***************************************************************************)
Guides(h, l, t) ==
  /\ Len(l) \in Nat
  /\ \A i \in 0 .. Len(l) : h[i] \in Nat /\ h[i] <= Len(t)
  /\ h[0] = 0 /\ h[Len(l)] = Len(t)
  /\ \A i \in 1 .. Len(l) : l[i] = IF h[i] = 0 THEN BLANK ELSE t[h[i]]

LEMMA FollowsIs ==
  ASSUME NEW l \in Seq(Chars), NEW t \in Seq(Chars), NEW h \in Places(l, t), Follows(h, l, t)
  PROVE  /\ Guides(h, l, t)
         /\ Len(l) \in Nat /\ Len(t) \in Nat
         /\ h \in [0 .. Len(l) -> 0 .. Len(t)]
         /\ \A i \in 0 .. Len(l) : h[i] \in Nat /\ h[i] <= Len(t)
         /\ h[0] = 0 /\ h[Len(l)] = Len(t)
         /\ \A i, j \in 0 .. Len(l) : i <= j => h[i] <= h[j]
         /\ \A i \in 1 .. Len(l) : h[i] <= h[i - 1] + 1
         /\ \A i \in 1 .. Len(l) : l[i] = IF h[i] = 0 THEN BLANK ELSE t[h[i]]
<1>1. h \in [0 .. Len(l) -> 0 .. Len(t)] /\ Len(l) \in Nat /\ Len(t) \in Nat
  BY DEF Places
<1>2. \A i \in 0 .. Len(l) : h[i] \in Nat /\ h[i] <= Len(t)
  BY <1>1
<1> QED BY <1>1, <1>2 DEF Follows, Guides

\* The first character of l that is the one at k of t.
LEMMA FirstAt ==
  ASSUME NEW l \in Seq(Chars), NEW t \in Seq(Chars), NEW h \in Places(l, t), Follows(h, l, t),
         NEW k \in 1 .. Len(t)
  PROVE  \E a \in 1 .. Len(l) :
            /\ h[a] = k /\ h[a - 1] = k - 1
            /\ \A i \in 0 .. a - 1 : h[i] < k
            /\ \A i \in a .. Len(l) : h[i] >= k
<1>1. /\ Len(l) \in Nat /\ Len(t) \in Nat /\ h[0] = 0 /\ h[Len(l)] = Len(t)
      /\ \A i \in 0 .. Len(l) : h[i] \in Nat
      /\ \A i, j \in 0 .. Len(l) : i <= j => h[i] <= h[j]
      /\ \A i \in 1 .. Len(l) : h[i] <= h[i - 1] + 1
  BY FollowsIs
<1> DEFINE S == {i \in 0 .. Len(l) : h[i] >= k}
<1>2. S \in SUBSET Nat /\ S # {}
  <2>1. Len(l) \in S
    BY <1>1
  <2> QED BY <1>1, <2>1
<1>3. PICK a \in S : \A i \in S : a <= i
  <2> HIDE DEF S
  <2> QED BY <1>2, LeastNat
<1>4. a \in 0 .. Len(l) /\ h[a] >= k /\ k \in Nat \ {0}
  BY <1>1
<1>5. a # 0
  BY <1>1, <1>4
<1>6. a \in 1 .. Len(l) /\ a - 1 \in 0 .. Len(l) /\ a \in Nat
  BY <1>1, <1>4, <1>5
<1>7. ASSUME NEW i \in 0 .. a - 1 PROVE h[i] < k
  <2>1. i \in 0 .. Len(l) /\ ~(a <= i)
    BY <1>1, <1>6
  <2>2. i \notin S
    BY <1>3, <2>1
  <2> QED BY <1>1, <1>4, <2>1, <2>2
<1>8. ASSUME NEW i \in a .. Len(l) PROVE h[i] >= k
  <2>1. i \in 0 .. Len(l) /\ a <= i
    BY <1>1, <1>6
  <2>2. h[a] <= h[i] /\ h[i] \in Nat /\ h[a] \in Nat
    BY <1>1, <1>4, <2>1
  <2> QED BY <1>4, <2>2
<1>9. h[a] = k /\ h[a - 1] = k - 1
  <2>1. a - 1 \in 0 .. a - 1
    BY <1>6
  <2>2. h[a - 1] < k
    BY <1>7, <2>1
  <2>3. h[a] <= h[a - 1] + 1 /\ h[a] \in Nat /\ h[a - 1] \in Nat
    BY <1>1, <1>4, <1>6
  <2> QED BY <1>4, <2>2, <2>3
<1> QED BY <1>6, <1>7, <1>8, <1>9

LEMMA Between ==
  ASSUME NEW x \in Nat, NEW y \in Nat, NEW z \in Nat, x <= y, y <= z
  PROVE  y - x \in 0 .. z - x
OBVIOUS

LEMMA Shifted ==
  ASSUME NEW x \in Nat, NEW y \in Nat, NEW z \in Nat, y <= z + 1
  PROVE  y - x <= (z - x) + 1
OBVIOUS

\* A piece of l, and the piece of t it is.
PieceOf(l, h, a, b, u) ==
  /\ Len(u) = h[b] - h[a]
  /\ \A i \in a + 1 .. b : l[i] = IF h[i] = h[a] THEN BLANK ELSE u[h[i] - h[a]]

LEMMA Cut ==
  ASSUME NEW l \in Seq(Chars), NEW t \in Seq(Chars), NEW h \in Places(l, t), Follows(h, l, t),
         NEW a \in 0 .. Len(l), NEW b \in a .. Len(l), NEW u \in Seq(Chars), PieceOf(l, h, a, b, u)
  PROVE  /\ Loosely(SubSeq(l, a + 1, b), u)
         /\ (\A i \in a + 1 .. b : h[i] # h[a]) => Repeats(SubSeq(l, a + 1, b), u)
<1>1. /\ Len(l) \in Nat /\ Len(t) \in Nat
      /\ \A i \in 0 .. Len(l) : h[i] \in Nat
      /\ \A i, j \in 0 .. Len(l) : i <= j => h[i] <= h[j]
      /\ \A i \in 1 .. Len(l) : h[i] <= h[i - 1] + 1
  BY FollowsIs
<1>2. a \in Nat /\ b \in Nat /\ a <= b /\ b <= Len(l)
  BY <1>1
<1>3. PICK n \in Nat : n = b - a
  <2>1. b - a \in Nat
    BY <1>2
  <2> QED BY <2>1
<1>4. PICK s \in Seq(Chars) : s = SubSeq(l, a + 1, b)
  <2>1. SubSeq(l, a + 1, b) \in Seq(Chars)
    BY <1>1, <1>2
  <2> QED BY <2>1
<1>5. Len(s) = n /\ \A i \in 1 .. n : s[i] = l[a + i]
  BY <1>1, <1>2, <1>3, <1>4
<1>6. \A i \in 0 .. n : a + i \in 0 .. Len(l) /\ a <= a + i /\ a + i <= b /\ b \in 0 .. Len(l)
  BY <1>1, <1>2, <1>3
<1>7. \A i \in 0 .. n : h[a] <= h[a + i] /\ h[a + i] <= h[b] /\ h[a + i] \in Nat /\ h[a] \in Nat /\ h[b] \in Nat
  BY <1>1, <1>6
<1>8. \A i \in 0 .. n : h[a + i] - h[a] \in 0 .. Len(u)
  <2>1. Len(u) = h[b] - h[a]
    BY DEF PieceOf
  <2> QED BY <1>7, <2>1, Between
<1> DEFINE k == [i \in 0 .. n |-> h[a + i] - h[a]]
<1>9. k \in [0 .. n -> 0 .. Len(u)]
  BY <1>8
<1>10. \A i \in 0 .. n : k[i] = h[a + i] - h[a]
  OBVIOUS
<1> HIDE DEF k
<1>11. k[0] = 0 /\ k[n] = Len(u)
  <2>1. 0 \in 0 .. n /\ n \in 0 .. n /\ a + 0 = a /\ a + n = b
    BY <1>2, <1>3
  <2>2. k[0] = h[a] - h[a] /\ k[n] = h[b] - h[a]
    BY <1>10, <2>1
  <2>3. h[a] \in Nat /\ Len(u) = h[b] - h[a]
    BY <1>7, <2>1 DEF PieceOf
  <2> QED BY <2>2, <2>3
<1>12. \A i, j \in 0 .. n : i <= j => k[i] <= k[j]
  <2> SUFFICES ASSUME NEW i \in 0 .. n, NEW j \in 0 .. n, i <= j PROVE k[i] <= k[j]
    OBVIOUS
  <2>1. a + i \in 0 .. Len(l) /\ a + j \in 0 .. Len(l) /\ a + i <= a + j
    <3>1. a + i <= a + j
      BY <1>2
    <3> QED BY <1>6, <3>1
  <2>2. h[a + i] <= h[a + j]
    BY <1>1, <2>1
  <2>3. h[a + i] \in Nat /\ h[a + j] \in Nat /\ h[a] \in Nat
    BY <1>7
  <2>4. k[i] = h[a + i] - h[a] /\ k[j] = h[a + j] - h[a]
    BY <1>10
  <2> QED BY <2>2, <2>3, <2>4
<1>13. \A i \in 1 .. n : k[i] <= k[i - 1] + 1
  <2> SUFFICES ASSUME NEW i \in 1 .. n PROVE k[i] <= k[i - 1] + 1
    OBVIOUS
  <2>1. i \in 0 .. n /\ i - 1 \in 0 .. n /\ a + i \in 1 .. Len(l) /\ (a + i) - 1 = a + (i - 1)
    BY <1>2, <1>3
  <2>2. h[a + i] <= h[a + (i - 1)] + 1
    BY <1>1, <2>1
  <2>3. h[a + i] \in Nat /\ h[a + (i - 1)] \in Nat /\ h[a] \in Nat
    BY <1>7, <2>1
  <2>4. k[i] = h[a + i] - h[a] /\ k[i - 1] = h[a + (i - 1)] - h[a]
    BY <1>10, <2>1
  <2>5. h[a + i] - h[a] <= (h[a + (i - 1)] - h[a]) + 1
    BY <2>2, <2>3, Shifted
  <2> QED BY <2>4, <2>5
<1>14. \A i \in 1 .. n : s[i] = (IF k[i] = 0 THEN BLANK ELSE u[k[i]])
  <2> SUFFICES ASSUME NEW i \in 1 .. n PROVE s[i] = (IF k[i] = 0 THEN BLANK ELSE u[k[i]])
    OBVIOUS
  <2>1. i \in 0 .. n /\ a + i \in a + 1 .. b
    BY <1>2, <1>3
  <2>2. k[i] = h[a + i] - h[a] /\ (k[i] = 0 <=> h[a + i] = h[a])
    BY <1>7, <1>10, <2>1
  <2>3. l[a + i] = IF h[a + i] = h[a] THEN BLANK ELSE u[h[a + i] - h[a]]
    BY <2>1 DEF PieceOf
  <2> QED BY <1>5, <2>1, <2>2, <2>3
<1>15. k \in Places(s, u)
  BY <1>5, <1>9 DEF Places
<1>16. Follows(k, s, u)
  BY <1>5, <1>11, <1>12, <1>13, <1>14 DEF Follows
<1>17. ASSUME \A i \in a + 1 .. b : h[i] # h[a] PROVE \A i \in 1 .. n : k[i] # 0
  <2> SUFFICES ASSUME NEW i \in 1 .. n PROVE k[i] # 0
    OBVIOUS
  <2>1. i \in 0 .. n /\ a + i \in a + 1 .. b
    BY <1>2, <1>3
  <2> QED BY <1>7, <1>10, <1>17, <2>1
<1> QED BY <1>4, <1>5, <1>15, <1>16, <1>17 DEF Loosely, Repeats

\* The first word repeats the first word of the other, the rest what is left of it.
LEMMA LooseSplit ==
  ASSUME NEW l \in Seq(Chars), NEW w \in Seq(Chars), NEW r \in Seq(Chars),
         w # <<>>, Without(w, BLANK), Loosely(l, Joined(w, BLANK, r))
  PROVE  /\ Word(BLANK)[l] \in Seq(Chars) /\ Repeats(Word(BLANK)[l], w)
         /\ Rest(BLANK)[l] \in Seq(Chars)
         /\ IF r = <<>> THEN Rest(BLANK)[l] = <<>> ELSE Loosely(Rest(BLANK)[l], r)
<1>1. BLANK \in Chars
  BY CharsThere
<1>2. PICK t : t = Joined(w, BLANK, r)
  OBVIOUS
<1>3. /\ t \in Seq(Chars)
      /\ Len(t) = IF r = <<>> THEN Len(w) ELSE Len(w) + 1 + Len(r)
      /\ \A i \in 1 .. Len(w) : t[i] = w[i]
      /\ r # <<>> => t[Len(w) + 1] = BLANK /\ \A i \in 1 .. Len(r) : t[Len(w) + 1 + i] = r[i]
  BY <1>1, <1>2, JoinedIs
<1>4. PICK h \in Places(l, t) : Follows(h, l, t)
  BY <1>2 DEF Loosely
<1>5. PICK n \in Nat : n = Len(w)
  OBVIOUS
<1>6. n # 0 /\ Len(r) \in Nat /\ (r = <<>> <=> Len(r) = 0)
  BY <1>5
<1>7. Len(t) \in Nat /\ n <= Len(t)
  BY <1>3, <1>5, <1>6
<1>8. /\ Len(l) \in Nat
      /\ \A i \in 0 .. Len(l) : h[i] \in Nat /\ h[i] <= Len(t)
      /\ h[0] = 0 /\ h[Len(l)] = Len(t)
      /\ \A i \in 1 .. Len(l) : l[i] = IF h[i] = 0 THEN BLANK ELSE t[h[i]]
  <2>1. Guides(h, l, t)
    BY <1>3, <1>4, FollowsIs
  <2> QED BY <2>1 DEF Guides
<1>9. PICK a \in 1 .. Len(l) :
        /\ h[a] = 1 /\ h[a - 1] = 0
        /\ \A i \in 0 .. a - 1 : h[i] < 1
        /\ \A i \in a .. Len(l) : h[i] >= 1
  <2>1. PICK k \in 1 .. Len(t) : k = 1
    BY <1>6, <1>7
  <2>2. PICK a \in 1 .. Len(l) :
          /\ h[a] = k /\ h[a - 1] = k - 1
          /\ \A i \in 0 .. a - 1 : h[i] < k
          /\ \A i \in a .. Len(l) : h[i] >= k
    BY <1>3, <1>4, FirstAt
  <2>3. k - 1 = 0
    BY <2>1
  <2> QED BY <2>1, <2>2, <2>3
<1>10. /\ a \in Nat /\ a >= 1 /\ a <= Len(l) /\ a - 1 \in 0 .. Len(l) /\ a - 1 \in Nat
       /\ (a - 1) + 1 = a
  BY <1>8
<1>11. ASSUME NEW i \in 1 .. a - 1 PROVE l[i] = BLANK
  <2>1. i \in 1 .. Len(l) /\ i \in 0 .. a - 1 /\ i \in 0 .. Len(l)
    BY <1>10
  <2>2. h[i] = 0
    BY <1>8, <1>9, <2>1
  <2> QED BY <1>8, <2>1, <2>2
\* How far the word goes.
<1>12. \E b \in a + 1 .. Len(l) + 1 :
         /\ h[b - 1] = n /\ \A i \in a .. b - 1 : h[i] \in 1 .. n
         /\ IF r = <<>> THEN b = Len(l) + 1 ELSE b <= Len(l) /\ h[b] = n + 1
  <2>1. CASE r = <<>>
    <3>1. Len(t) = n
      BY <1>3, <1>5, <2>1
    <3>2. Len(l) + 1 \in a + 1 .. Len(l) + 1 /\ (Len(l) + 1) - 1 = Len(l)
      BY <1>8, <1>10
    <3>3. ASSUME NEW i \in a .. Len(l) PROVE h[i] \in 1 .. n
      <4>1. i \in 0 .. Len(l)
        BY <1>8, <1>10
      <4>2. h[i] \in Nat /\ h[i] <= n /\ h[i] >= 1
        BY <1>8, <1>9, <3>1, <4>1
      <4> QED BY <4>2
    <3> QED BY <1>8, <2>1, <3>1, <3>2, <3>3
  <2>2. CASE r # <<>>
    <3>1. PICK k \in 1 .. Len(t) : k = n + 1
      BY <1>3, <1>5, <1>6, <2>2
    <3>5. \E b \in 1 .. Len(l) :
            /\ h[b] = k /\ h[b - 1] = k - 1
            /\ \A i \in 0 .. b - 1 : h[i] < k
      BY <1>3, <1>4, FirstAt
    <3>6. k - 1 = n
      BY <3>1
    <3>2. PICK b \in 1 .. Len(l) :
            /\ h[b] = n + 1 /\ h[b - 1] = n
            /\ \A i \in 0 .. b - 1 : h[i] < n + 1
      BY <3>1, <3>5, <3>6
    <3>3. b \in a + 1 .. Len(l) + 1 /\ b <= Len(l)
      <4>1. ~(b <= a - 1) /\ b # a
        <5>1. b <= a - 1 => b \in 0 .. a - 1
          BY <1>10
        <5>2. b <= a - 1 => h[b] < 1
          BY <1>9, <5>1
        <5> QED BY <1>6, <1>9, <3>2, <5>2
      <4> QED BY <1>8, <1>10, <4>1
    <3>4. ASSUME NEW i \in a .. b - 1 PROVE h[i] \in 1 .. n
      <4>1. i \in a .. Len(l) /\ i \in 0 .. b - 1 /\ i \in 0 .. Len(l)
        BY <1>8, <1>10
      <4>2. h[i] \in Nat /\ h[i] >= 1 /\ h[i] < n + 1
        BY <1>8, <1>9, <3>2, <4>1
      <4> QED BY <4>2
    <3> QED BY <2>2, <3>2, <3>3, <3>4
  <2> QED BY <2>1, <2>2
<1>13. PICK b \in a + 1 .. Len(l) + 1 :
         /\ h[b - 1] = n /\ \A i \in a .. b - 1 : h[i] \in 1 .. n
         /\ IF r = <<>> THEN b = Len(l) + 1 ELSE b <= Len(l) /\ h[b] = n + 1
  BY <1>12
<1>14. /\ b \in Nat /\ b >= a + 1 /\ b <= Len(l) + 1 /\ b - 1 \in 0 .. Len(l) /\ b - 1 \in Nat
       /\ b - 1 >= a
  BY <1>8, <1>10
<1>15. ASSUME NEW i \in a .. b - 1 PROVE l[i] = w[h[i]] /\ l[i] # BLANK /\ h[i] # 0
  <2>1. i \in 1 .. Len(l)
    BY <1>10, <1>14
  <2>2. h[i] \in 1 .. Len(w) /\ h[i] # 0
    BY <1>5, <1>13
  <2>3. l[i] = t[h[i]]
    BY <1>8, <2>1, <2>2
  <2> QED BY <1>3, <2>2, <2>3 DEF Without
<1>16. Bounds(l, BLANK, a, b)
  <2>1. a \in 1 .. Len(l) + 1 /\ b \in a .. Len(l) + 1
    BY <1>8, <1>10, <1>14
  <2>2. l[a] # BLANK
    <3>1. a \in a .. b - 1
      BY <1>10, <1>14
    <3> QED BY <1>15, <3>1
  <2>3. b <= Len(l) => l[b] = BLANK
    <3>1. SUFFICES ASSUME b <= Len(l) PROVE l[b] = BLANK
      OBVIOUS
    <3>2. r # <<>> /\ h[b] = n + 1
      BY <1>8, <1>13, <3>1
    <3>3. b \in 1 .. Len(l) /\ n + 1 # 0
      BY <1>10, <1>14, <3>1
    <3>4. l[b] = t[n + 1]
      BY <1>8, <3>2, <3>3
    <3> QED BY <1>3, <1>5, <3>2, <3>4
  <2> QED BY <1>11, <1>15, <2>1, <2>2, <2>3 DEF Bounds
<1>17. Word(BLANK)[l] = SubSeq(l, a, b - 1) /\ Rest(BLANK)[l] = SubSeq(l, b + 1, Len(l))
  BY <1>1, <1>16, WordIs
<1>18. Word(BLANK)[l] \in Seq(Chars) /\ Rest(BLANK)[l] \in Seq(Chars)
  <2>1. SubSeq(l, a, b - 1) \in Seq(Chars)
    BY <1>10, <1>14
  <2>2. SubSeq(l, b + 1, Len(l)) \in Seq(Chars)
    BY <1>8, <1>14
  <2> QED BY <1>17, <2>1, <2>2
<1>19. Repeats(Word(BLANK)[l], w)
  <2>1. PICK p \in 0 .. Len(l) : p = a - 1
    BY <1>10
  <2>5. PICK q \in p .. Len(l) : q = b - 1
    BY <1>8, <1>10, <1>14, <2>1
  <2>2. h[p] = 0 /\ h[q] = n /\ p + 1 = a
    BY <1>9, <1>10, <1>13, <2>1, <2>5
  <2>3. PieceOf(l, h, p, q, w) /\ \A i \in p + 1 .. q : h[i] # h[p]
    <3>1. Len(w) = h[q] - h[p]
      BY <1>5, <2>2
    <3>2. ASSUME NEW i \in p + 1 .. q PROVE h[i] # h[p] /\ l[i] = w[h[i] - h[p]]
      <4>1. i \in a .. b - 1
        BY <2>2, <2>5
      <4>2. h[i] \in Nat
        BY SMTT(20), <1>13, <4>1
      <4>3. h[i] - 0 = h[i]
        BY <4>2
      <4> QED BY <1>15, <2>2, <4>1, <4>3
    <3> QED BY <3>1, <3>2 DEF PieceOf
  <2>4. Repeats(SubSeq(l, p + 1, q), w)
    BY <1>3, <1>4, <2>3, Cut
  <2> QED BY <1>17, <2>2, <2>4, <2>5
<1>20. CASE r = <<>>
  <2>1. SubSeq(l, b + 1, Len(l)) = <<>>
    BY <1>8, <1>13, <1>20
  <2> QED BY <1>17, <1>18, <1>19, <1>20, <2>1
<1>21. CASE r # <<>>
  <2>1. b \in 0 .. Len(l) /\ Len(l) \in b .. Len(l) /\ h[b] = n + 1
    BY <1>8, <1>13, <1>14, <1>21
  <2>2. PICK c \in b .. Len(l) : c = Len(l)
    BY <2>1
  <2>3. PieceOf(l, h, b, c, r)
    <3>1. Len(r) = h[c] - h[b]
      BY <1>3, <1>5, <1>6, <1>8, <1>21, <2>1, <2>2
    <3>2. ASSUME NEW i \in b + 1 .. c PROVE l[i] = IF h[i] = h[b] THEN BLANK ELSE r[h[i] - h[b]]
      <4>1. i \in 1 .. Len(l) /\ i \in 0 .. Len(l) /\ b <= i
        BY <1>8, <1>14, <2>2
      <4>2. h[b] <= h[i] /\ h[i] \in Nat /\ h[i] <= Len(t)
        <5>1. h[b] <= h[i]
          BY <1>3, <1>4, <2>1, <4>1, FollowsIs
        <5> QED BY <1>8, <4>1, <5>1
      <4>3. h[i] >= n + 1 /\ h[i] # 0 /\ Len(t) = n + 1 + Len(r)
        BY <1>3, <1>5, <1>21, <2>1, <4>2
      <4>4. l[i] = t[h[i]]
        BY <1>8, <4>1, <4>3
      <4>5. CASE h[i] = n + 1
        BY <1>3, <1>5, <1>21, <2>1, <4>4, <4>5
      <4>6. CASE h[i] # n + 1
        <5>1. PICK j \in 1 .. Len(r) : j = h[i] - (n + 1) /\ h[i] = n + 1 + j
          <6>1. h[i] - (n + 1) \in 1 .. Len(r) /\ h[i] = n + 1 + (h[i] - (n + 1))
            BY <1>6, <4>2, <4>3, <4>6
          <6> QED BY <6>1
        <5>2. t[n + 1 + j] = r[j]
          BY <1>3, <1>5, <1>21
        <5> QED BY <2>1, <4>4, <4>6, <5>1, <5>2
      <4> QED BY <4>5, <4>6
    <3> QED BY <3>1, <3>2 DEF PieceOf
  <2>4. Loosely(SubSeq(l, b + 1, c), r)
    BY <1>3, <1>4, <2>1, <2>3, Cut
  <2> QED BY <1>17, <1>18, <1>19, <1>21, <2>2, <2>4
<1> QED BY <1>20, <1>21

LEMMA RepeatsFirst ==
  ASSUME NEW l \in Seq(Chars), NEW t \in Seq(Chars), t # <<>>, Repeats(l, t)
  PROVE  l # <<>> /\ l[1] = t[1]
<1>1. PICK h \in Places(l, t) : Follows(h, l, t) /\ \A i \in 1 .. Len(l) : h[i] # 0
  BY DEF Repeats
<1>2. /\ Len(l) \in Nat /\ Len(t) \in Nat
      /\ \A i \in 0 .. Len(l) : h[i] \in Nat /\ h[i] <= Len(t)
      /\ h[0] = 0 /\ h[Len(l)] = Len(t)
      /\ \A i \in 1 .. Len(l) : h[i] <= h[i - 1] + 1
      /\ \A i \in 1 .. Len(l) : l[i] = IF h[i] = 0 THEN BLANK ELSE t[h[i]]
  BY <1>1, FollowsIs
<1>3. Len(l) # 0
  <2>1. Len(t) # 0
    OBVIOUS
  <2> QED BY <1>2, <2>1
<1>4. 1 \in 1 .. Len(l) /\ 1 \in 0 .. Len(l) /\ 1 - 1 = 0
  BY <1>2, <1>3
<1>5. h[1] <= 1 /\ h[1] # 0 /\ h[1] \in Nat
  BY <1>1, <1>2, <1>4
<1>6. h[1] = 1
  BY <1>5
<1> QED BY <1>2, <1>3, <1>4, <1>6

LEMMA RepeatsOne ==
  ASSUME NEW l \in Seq(Chars), NEW t \in Seq(Chars), Len(l) = 1, Repeats(l, t)
  PROVE  l = t
<1>1. PICK h \in Places(l, t) : Follows(h, l, t) /\ \A i \in 1 .. Len(l) : h[i] # 0
  BY DEF Repeats
<1>2. /\ Len(t) \in Nat
      /\ h[0] = 0 /\ h[1] = Len(t)
      /\ \A i \in 1 .. Len(l) : h[i] <= h[i - 1] + 1
      /\ \A i \in 1 .. Len(l) : l[i] = IF h[i] = 0 THEN BLANK ELSE t[h[i]]
  BY <1>1, FollowsIs
<1>3. 1 \in 1 .. Len(l) /\ 1 - 1 = 0
  OBVIOUS
<1>4. Len(t) <= 1 /\ Len(t) # 0
  BY <1>1, <1>2, <1>3
<1>5. Len(t) = 1
  BY <1>2, <1>4
<1>6. l[1] = t[1]
  BY <1>2, <1>3, <1>5
<1>7. \A i \in 1 .. Len(l) : l[i] = t[i]
  BY <1>6
<1> QED BY <1>5, <1>7, SeqEqual

LEMMA LooselySome ==
  ASSUME NEW l \in Seq(Chars), NEW t \in Seq(Chars), t # <<>>, Loosely(l, t)
  PROVE  l # <<>>
<1>1. PICK h \in Places(l, t) : Follows(h, l, t)
  BY DEF Loosely
<1>2. h[0] = 0 /\ h[Len(l)] = Len(t) /\ Len(l) \in Nat
  BY <1>1, FollowsIs
<1>3. Len(t) # 0
  OBVIOUS
<1>4. Len(l) # 0
  BY <1>2, <1>3
<1> QED BY <1>4

\* What is second, unless it is a blank or what is first in the other.
LEMMA LooselySecond ==
  ASSUME NEW l \in Seq(Chars), NEW t \in Seq(Chars), Loosely(l, t), NEW c \in Chars,
         c # BLANK, t # <<>>, t[1] # c, Len(l) >= 2, l[2] = c
  PROVE  Len(t) >= 2 /\ t[2] = c
<1>1. PICK h \in Places(l, t) : Follows(h, l, t)
  BY DEF Loosely
<1>2. /\ Len(l) \in Nat /\ Len(t) \in Nat
      /\ \A i \in 0 .. Len(l) : h[i] \in Nat /\ h[i] <= Len(t)
      /\ h[0] = 0
      /\ \A i \in 1 .. Len(l) : h[i] <= h[i - 1] + 1
      /\ \A i \in 1 .. Len(l) : l[i] = IF h[i] = 0 THEN BLANK ELSE t[h[i]]
  BY <1>1, FollowsIs
<1>3. 1 \in 1 .. Len(l) /\ 2 \in 1 .. Len(l) /\ 2 \in 0 .. Len(l) /\ 1 - 1 = 0 /\ 2 - 1 = 1
  BY <1>2
<1>4. h[1] <= h[0] + 1 /\ h[2] <= h[1] + 1 /\ h[1] \in Nat /\ h[2] \in Nat /\ h[2] <= Len(t)
  <2>1. h[1] <= h[1 - 1] + 1 /\ h[2] <= h[2 - 1] + 1
    BY <1>2, <1>3
  <2>2. 1 \in 0 .. Len(l)
    BY <1>2
  <2> QED BY <1>2, <1>3, <2>1, <2>2
<1>5. h[2] <= 2
  BY <1>2, <1>4
<1>6. h[2] # 0 /\ l[2] = t[h[2]]
  BY <1>2, <1>3
<1>7. h[2] # 1
  BY <1>6
<1>8. h[2] = 2
  BY <1>4, <1>5, <1>6, <1>7
<1> QED BY <1>2, <1>4, <1>6, <1>8

(***************************************************************************)
(* What a line is taken for                                                *)
(***************************************************************************)
LEMMA CharsDiffer ==
  /\ BLANK # COLON /\ BLANK # BANG /\ BLANK # AT /\ BLANK # CTCP
  /\ COLON # CTCP /\ COLON # BANG
BY DEF BLANK, COLON, BANG, AT, CTCP

LEMMA JoinedWithout ==
  ASSUME NEW w \in Seq(Chars), NEW d \in Chars, NEW r \in Seq(Chars), NEW c,
         Without(w, c), Without(r, c), d # c
  PROVE  Without(Joined(w, d, r), c)
<1>1. PICK s : s = Joined(w, d, r)
  OBVIOUS
<1>2. /\ s \in Seq(Chars)
      /\ Len(s) = IF r = <<>> THEN Len(w) ELSE Len(w) + 1 + Len(r)
      /\ \A i \in 1 .. Len(w) : s[i] = w[i]
      /\ r # <<>> => s[Len(w) + 1] = d /\ \A i \in 1 .. Len(r) : s[Len(w) + 1 + i] = r[i]
  BY <1>1, JoinedIs
<1>3. SUFFICES ASSUME NEW i \in 1 .. Len(s) PROVE s[i] # c
  BY <1>1 DEF Without
<1>4. Len(w) \in Nat /\ Len(r) \in Nat
  OBVIOUS
<1>5. CASE i <= Len(w)
  BY <1>2, <1>4, <1>5 DEF Without
<1>6. CASE i = Len(w) + 1
  BY <1>2, <1>4, <1>6
<1>7. CASE i > Len(w) + 1
  <2>1. r # <<>> /\ i - (Len(w) + 1) \in 1 .. Len(r) /\ i = Len(w) + 1 + (i - (Len(w) + 1))
    BY <1>2, <1>4, <1>7
  <2>2. s[i] = r[i - (Len(w) + 1)]
    BY <1>2, <2>1
  <2> QED BY <2>1, <2>2 DEF Without
<1> QED BY <1>4, <1>5, <1>6, <1>7

\* The words a line starts with.
LEMMA SourceWord ==
  ASSUME NEW msg \in Messages, msg.from \in {"server", "user"}
  PROVE  /\ <<COLON>> \o Source(msg.ident) \in Seq(Chars) /\ Source(msg.ident) \in Seq(Chars)
         /\ IsWord(<<COLON>> \o Source(msg.ident))
         /\ (<<COLON>> \o Source(msg.ident))[1] = COLON
         /\ Tail(<<COLON>> \o Source(msg.ident)) = Source(msg.ident)
<1>1. IdentOK(msg.ident)
  BY MessageParts DEF MessageOK
<1>2. PICK nick \in Seq(Chars), user \in Seq(Chars), host \in Seq(Chars) :
        nick = msg.ident.nick /\ user = msg.ident.user /\ host = msg.ident.host
  BY MessageParts
<1>3. Without(nick, BLANK) /\ Without(user, BLANK) /\ Without(host, BLANK)
  BY <1>1, <1>2 DEF IdentOK, IsWord
<1>4. Joined(user, AT, host) \in Seq(Chars) /\ Without(Joined(user, AT, host), BLANK)
  BY <1>3, CharsThere, CharsDiffer, JoinedType, JoinedWithout
<1>5. Without(Joined(nick, BANG, Joined(user, AT, host)), BLANK)
  BY <1>3, <1>4, CharsThere, CharsDiffer, JoinedWithout
<1>6. PICK s \in Seq(Chars) : s = Source(msg.ident)
  BY SourceType
<1>7. Without(s, BLANK)
  BY <1>2, <1>5, <1>6 DEF Source
<1>8. PICK c \in Chars : c = COLON
  BY CharsThere
<1>9. /\ <<c>> \o s \in Seq(Chars) /\ Len(<<c>> \o s) = Len(s) + 1 /\ (<<c>> \o s)[1] = c
      /\ \A i \in 1 .. Len(s) : (<<c>> \o s)[i + 1] = s[i]
  OBVIOUS
<1>10. Tail(<<c>> \o s) = s
  <2>1. PICK u \in Seq(Chars) : u = <<c>> \o s
    BY <1>9
  <2>2. Tail(u) \in Seq(Chars) /\ Len(Tail(u)) = Len(s) /\ \A i \in 1 .. Len(s) : Tail(u)[i] = s[i]
    BY <1>9, <2>1
  <2> QED BY <2>1, <2>2, SeqEqual
<1>11. Without(<<c>> \o s, BLANK)
  <2>1. SUFFICES ASSUME NEW i \in 1 .. Len(s) + 1 PROVE (<<c>> \o s)[i] # BLANK
    BY <1>9 DEF Without
  <2>2. CASE i = 1
    BY <1>8, <1>9, <2>2, CharsDiffer
  <2>3. CASE i # 1
    <3>1. i - 1 \in 1 .. Len(s) /\ (i - 1) + 1 = i
      BY <2>3
    <3>2. (<<c>> \o s)[i] = s[i - 1]
      BY <1>9, <3>1
    <3> QED BY <1>7, <3>1, <3>2 DEF Without
  <2> QED BY <2>2, <2>3
<1>12. <<c>> \o s # <<>>
  BY <1>9
<1> QED BY <1>6, <1>8, <1>9, <1>10, <1>11, <1>12 DEF IsWord

LEMMA CommandWord ==
  ASSUME NEW msg \in Messages, msg.from # "dcc"
  PROVE  /\ msg.cmd \in Seq(Chars) /\ msg.cmd # <<>> /\ Without(msg.cmd, BLANK) /\ Params(msg) \in Seq(Chars)
         /\ Joined(msg.cmd, BLANK, Params(msg)) \in Seq(Chars)
         /\ Joined(msg.cmd, BLANK, Params(msg)) # <<>>
         /\ Joined(msg.cmd, BLANK, Params(msg))[1] = msg.cmd[1]
<1>1. msg.cmd \in Seq(Chars) /\ msg.cmd # <<>> /\ Without(msg.cmd, BLANK)
  BY MessageParts DEF MessageOK, IsWord
<1>2. Params(msg) \in Seq(Chars)
  BY ParamsType
<1>3. PICK w \in Seq(Chars), r \in Seq(Chars), s \in Seq(Chars) :
        w = msg.cmd /\ r = Params(msg) /\ s = Joined(w, BLANK, r)
  BY <1>1, <1>2, CharsThere, JoinedType
<1>4. /\ s \in Seq(Chars)
      /\ Len(s) = IF r = <<>> THEN Len(w) ELSE Len(w) + 1 + Len(r)
      /\ \A i \in 1 .. Len(w) : s[i] = w[i]
  BY <1>3, CharsThere, JoinedIs
<1>5. 1 \in 1 .. Len(w) /\ Len(r) \in Nat
  BY <1>1, <1>3
<1>6. s # <<>> /\ s[1] = w[1]
  BY <1>4, <1>5
<1> QED BY <1>1, <1>2, <1>3, <1>4, <1>6

\* The line of a message.
LEMMA LineIs ==
  ASSUME NEW msg \in Messages
  PROVE  /\ msg.from \in {"server", "user"} =>
              Line(msg) = Joined(<<COLON>> \o Source(msg.ident), BLANK, Joined(msg.cmd, BLANK, Params(msg)))
         /\ msg.from = "nobody" => Line(msg) = Joined(msg.cmd, BLANK, Params(msg))
         /\ msg.from = "dcc" => Line(msg) = msg.rest
BY DEF Line

\* Where the command of a line is, and what is behind it.
CommandOf(l, msg) ==
  /\ Prefixed(l) <=> msg.from \in {"server", "user"}
  /\ Command(l) \in Seq(Chars) /\ Repeats(Command(l), msg.cmd)
  /\ Param(l) \in Seq(Chars)
  /\ IF Params(msg) = <<>> THEN Param(l) = <<>> ELSE Loosely(Param(l), Params(msg))

LEMMA RepeatsLoosely == ASSUME NEW l, NEW t, Repeats(l, t) PROVE Loosely(l, t)
BY DEF Repeats, Loosely

LEMMA CommandThere ==
  ASSUME NEW msg \in Messages, msg.from # "dcc", NEW l \in Seq(Chars), Repeats(l, Line(msg))
  PROVE  CommandOf(l, msg)
<1>1. PICK w \in Seq(Chars), p \in Seq(Chars), r \in Seq(Chars) :
        w = msg.cmd /\ p = Params(msg) /\ r = Joined(w, BLANK, p)
  BY CommandWord
<1>2. w # <<>> /\ Without(w, BLANK) /\ r # <<>> /\ r[1] = w[1]
  BY <1>1, CommandWord
<1>3. BLANK \in Chars
  BY CharsThere
<1>4. CASE msg.from \in {"server", "user"}
  <2>1. PICK s \in Seq(Chars) : s = <<COLON>> \o Source(msg.ident)
    BY <1>4, SourceWord
  <2>2. s # <<>> /\ Without(s, BLANK) /\ s[1] = COLON
    BY <1>4, <2>1, SourceWord DEF IsWord
  <2>3. Line(msg) = Joined(s, BLANK, r)
    BY <1>1, <1>4, <2>1, LineIs
  <2>4. Repeats(l, Joined(s, BLANK, r)) /\ Loosely(l, Joined(s, BLANK, r))
    BY <2>3, RepeatsLoosely
  <2>5. Prefixed(l)
    <3>1. PICK t \in Seq(Chars) : t = Joined(s, BLANK, r)
      BY <1>3, JoinedType
    <3>2. t # <<>> /\ t[1] = s[1]
      <4>1. /\ Len(t) = IF r = <<>> THEN Len(s) ELSE Len(s) + 1 + Len(r)
            /\ \A i \in 1 .. Len(s) : t[i] = s[i]
        BY <1>3, <3>1, JoinedIs
      <4>2. Len(s) \in Nat \ {0} /\ Len(r) \in Nat
        BY <2>2
      <4> QED BY <4>1, <4>2
    <3>3. l # <<>> /\ l[1] = t[1]
      BY <2>4, <3>1, <3>2, RepeatsFirst
    <3> QED BY <2>2, <3>2, <3>3 DEF Prefixed, Begins
  <2>6. Rest(BLANK)[l] \in Seq(Chars) /\ Loosely(Rest(BLANK)[l], r)
    BY <1>2, <2>2, <2>4, LooseSplit
  <2>7. PICK b \in Seq(Chars) : b = Behind(l)
    BY <2>5, <2>6 DEF Behind
  <2>8. Loosely(b, Joined(w, BLANK, p))
    BY <1>1, <2>5, <2>6, <2>7 DEF Behind
  <2>9. /\ Word(BLANK)[b] \in Seq(Chars) /\ Repeats(Word(BLANK)[b], w)
        /\ Rest(BLANK)[b] \in Seq(Chars)
        /\ IF p = <<>> THEN Rest(BLANK)[b] = <<>> ELSE Loosely(Rest(BLANK)[b], p)
    BY <1>2, <2>8, LooseSplit
  <2> QED BY <1>1, <1>4, <2>5, <2>7, <2>9 DEF CommandOf, Command, Param
<1>5. CASE msg.from = "nobody"
  <2>1. Line(msg) = r
    BY <1>1, <1>5, LineIs
  <2>2. Repeats(l, r) /\ Loosely(l, Joined(w, BLANK, p))
    BY <1>1, <2>1, RepeatsLoosely
  <2>3. ~Prefixed(l)
    <3>1. l[1] = w[1]
      BY <1>2, <2>2, RepeatsFirst
    <3>2. ~Begins(w, COLON)
      BY <1>1, <1>5, MessageParts DEF MessageOK
    <3> QED BY <1>2, <3>1, <3>2 DEF Prefixed, Begins
  <2>4. Behind(l) = l
    BY <2>3 DEF Behind
  <2>5. /\ Word(BLANK)[l] \in Seq(Chars) /\ Repeats(Word(BLANK)[l], w)
        /\ Rest(BLANK)[l] \in Seq(Chars)
        /\ IF p = <<>> THEN Rest(BLANK)[l] = <<>> ELSE Loosely(Rest(BLANK)[l], p)
    BY <1>2, <2>2, LooseSplit
  <2> QED BY <1>1, <1>5, <2>3, <2>4, <2>5 DEF CommandOf, Command, Param
<1>6. msg.from \in {"server", "user", "nobody"}
  BY MessageParts
<1> QED BY <1>4, <1>5, <1>6

\* A command has its own name, or one more than one character long.
LEMMA NameRepeats ==
  ASSUME NEW msg \in Messages, msg.from # "dcc", NEW l, CommandOf(l, msg)
  PROVE  /\ Command(l) # <<>> /\ Command(l)[1] = msg.cmd[1]
         /\ Len(Command(l)) = 1 => Command(l) = msg.cmd
<1>1. PICK c \in Seq(Chars), w \in Seq(Chars) : c = Command(l) /\ w = msg.cmd
  BY CommandWord DEF CommandOf
<1>2. Repeats(c, w) /\ w # <<>>
  BY <1>1, CommandWord DEF CommandOf
<1> QED BY <1>1, <1>2, RepeatsFirst, RepeatsOne

LEMMA NamesAre ==
  /\ \A name \in UserCommands : name \in Chars /\ name \notin Digits
  /\ "PING" \in Chars /\ "ERROR" \in Chars /\ "PRIVMSG" \in UserCommands /\ "INVITE" \in UserCommands
<1>1. \A name \in UserCommands : name \in Chars /\ name \notin Digits
  BY CharAssumption
<1>2. "PRIVMSG" \in UserCommands /\ "INVITE" \in UserCommands
  BY DEF UserCommands
<1> QED BY <1>1, <1>2, CharAssumption

\* What a line is taken for, as far as its command says.
LEMMA TypeOfUser ==
  ASSUME NEW msg \in Messages, msg.from \in {"server", "user"}, NEW l, CommandOf(l, msg)
  PROVE  /\ msg.cmd[1] \in Digits => Type(l) = "NUMERIC"
         /\ msg.cmd[1] \notin Digits =>
              \/ Type(l) = "UNKNOWN"
              \/ /\ Command(l) = msg.cmd /\ Len(msg.cmd) = 1 /\ msg.cmd[1] \in UserCommands
                 /\ \/ Type(l) = msg.cmd[1]
                    \/ Type(l) = "CTCP" /\ msg.cmd[1] = "PRIVMSG" /\ Begins(Trailing(l), CTCP)
<1>1. msg.from # "dcc" /\ Prefixed(l)
  BY DEF CommandOf
<1>2. PICK c \in Seq(Chars) : c = Command(l)
  BY DEF CommandOf
<1>3. c # <<>> /\ c[1] = msg.cmd[1] /\ (Len(c) = 1 => c = msg.cmd)
  BY <1>1, <1>2, NameRepeats
<1>4. CASE msg.cmd[1] \in Digits
  <2>1. c # <<"PRIVMSG">>
    <3>1. SUFFICES ASSUME c = <<"PRIVMSG">> PROVE FALSE
      OBVIOUS
    <3>2. c[1] = "PRIVMSG"
      BY <3>1
    <3> QED BY <1>3, <1>4, <3>2, NamesAre
  <2>2. Type(l) =
          IF c # <<>> /\ c[1] \in Digits THEN "NUMERIC"
          ELSE IF Len(c) = 1 /\ c[1] \in UserCommands THEN c[1] ELSE "UNKNOWN"
    BY <1>1, <1>2, <2>1 DEF Type
  <2> QED BY <1>3, <1>4, <2>2
<1>5. CASE msg.cmd[1] \notin Digits /\ c = <<"PRIVMSG">>
  <2>1. Len(c) = 1 /\ c[1] = "PRIVMSG"
    BY <1>5
  <2>2. Type(l) = IF Begins(Trailing(l), CTCP) THEN "CTCP" ELSE "PRIVMSG"
    BY <1>1, <1>2, <1>3, <1>5 DEF Type
  <2> QED BY <1>2, <1>3, <1>5, <2>1, <2>2, NamesAre
<1>6. CASE msg.cmd[1] \notin Digits /\ c # <<"PRIVMSG">>
  <2>1. Type(l) = IF Len(c) = 1 /\ c[1] \in UserCommands THEN c[1] ELSE "UNKNOWN"
    BY <1>1, <1>2, <1>3, <1>6 DEF Type
  <2> QED BY <1>2, <1>3, <1>6, <2>1
<1> QED BY <1>4, <1>5, <1>6

LEMMA TypeOfNobody ==
  ASSUME NEW msg \in Messages, msg.from = "nobody", NEW l, CommandOf(l, msg)
  PROVE  \/ Type(l) = "UNKNOWN"
         \/ Command(l) = msg.cmd /\ Type(l) = msg.cmd[1] /\ msg.cmd \in {<<"PING">>, <<"ERROR">>}
<1>1. msg.from # "dcc" /\ ~Prefixed(l)
  BY DEF CommandOf
<1>2. PICK c \in Seq(Chars) : c = Command(l)
  BY DEF CommandOf
<1>3. c[1] = msg.cmd[1] /\ (Len(c) = 1 => c = msg.cmd)
  BY <1>1, <1>2, NameRepeats
<1>4. Type(l) = IF c \in {<<"PING">>, <<"ERROR">>} THEN c[1] ELSE "UNKNOWN"
  BY <1>1, <1>2 DEF Type
<1>5. c \in {<<"PING">>, <<"ERROR">>} => Len(c) = 1
  OBVIOUS
<1> QED BY <1>2, <1>3, <1>4, <1>5

\* The text of a message that has a word and a text.
LEMMA TextThere ==
  ASSUME NEW msg \in Messages, msg.from # "dcc", NEW l, CommandOf(l, msg),
         Len(msg.words) = 1, Begins(msg.rest, COLON)
  PROVE  /\ Rest(BLANK)[Param(l)] \in Seq(Chars) /\ Rest(BLANK)[Param(l)] # <<>>
         /\ Loosely(Rest(BLANK)[Param(l)], msg.rest)
<1>11. 1 \in 1 .. Len(msg.words) /\ Len(msg.words) # 2
  OBVIOUS
<1>1. PICK w \in Seq(Chars), r \in Seq(Chars) : w = msg.words[1] /\ r = msg.rest
  <2>1. msg.words[1] \in Seq(Chars)
    BY <1>11, MessageParts, ElementOfSeq
  <2> QED BY <2>1, MessageParts
<1>2. w # <<>> /\ Without(w, BLANK)
  <2>1. IsWord(msg.words[1])
    BY <1>11, MessageParts DEF MessageOK
  <2> QED BY <1>1, <2>1 DEF IsWord
<1>3. r # <<>>
  BY <1>1 DEF Begins
<1>4. msg.words # <<>> /\ Len(msg.words) # 2
  <2>1. Len(<<>>) = 0
    OBVIOUS
  <2> QED BY <1>11, <2>1
<1>5. Params(msg) = Joined(w, BLANK, r)
  BY <1>1, <1>4 DEF Params, Further
<1>6. Joined(w, BLANK, r) # <<>>
  <2>1. PICK t : t = Joined(w, BLANK, r)
    OBVIOUS
  <2>2. t \in Seq(Chars) /\ Len(t) = IF r = <<>> THEN Len(w) ELSE Len(w) + 1 + Len(r)
    BY <2>1, CharsThere, JoinedIs
  <2>3. Len(t) # 0
    BY <1>3, <2>2
  <2> QED BY <2>1, <2>3
<1>7. PICK p \in Seq(Chars) : p = Param(l)
  BY DEF CommandOf
<1>8. Loosely(p, Joined(w, BLANK, r))
  BY <1>5, <1>6, <1>7 DEF CommandOf
<1>9. Rest(BLANK)[p] \in Seq(Chars) /\ Loosely(Rest(BLANK)[p], r)
  BY <1>2, <1>3, <1>8, LooseSplit
<1>10. Rest(BLANK)[p] # <<>>
  BY <1>3, <1>9, LooselySome
<1> QED BY <1>1, <1>7, <1>9, <1>10

\* No line ends the client.
LEMMA ArrivedReads ==
  ASSUME NEW msg \in Messages, msg.from # "dcc", NEW l \in Seq(Chars), Repeats(l, Line(msg))
  PROVE  ~ReadsNull(l)
<1>1. CommandOf(l, msg)
  BY CommandThere
<1>2. SUFFICES ASSUME Type(l) \in {"PRIVMSG", "INVITE"} PROVE Rest(BLANK)[Param(l)] # <<>>
  BY DEF ReadsNull
<1>3. msg.from # "nobody"
  <2>1. SUFFICES ASSUME msg.from = "nobody" PROVE FALSE
    OBVIOUS
  <2>2. Type(l) = "UNKNOWN" \/ (Type(l) = msg.cmd[1] /\ msg.cmd \in {<<"PING">>, <<"ERROR">>})
    BY <1>1, <2>1, TypeOfNobody
  <2>3. msg.cmd \in {<<"PING">>, <<"ERROR">>} => msg.cmd[1] \in {"PING", "ERROR"}
    OBVIOUS
  <2> QED BY <1>2, <2>2, <2>3
<1>4. msg.from \in {"server", "user"}
  BY <1>3, MessageParts
<1>5. Len(msg.cmd) = 1 /\ msg.cmd[1] \in {"PRIVMSG", "INVITE"}
  BY <1>1, <1>2, <1>4, TypeOfUser
<1>6. Named(msg, {"PRIVMSG", "NOTICE", "TOPIC", "PONG", "INVITE"})
  <2>1. msg.cmd = <<msg.cmd[1]>>
    <3>1. PICK c \in Seq(Chars) : c = msg.cmd
      BY MessageParts
    <3>2. c = <<c[1]>>
      BY <1>5, <3>1
    <3> QED BY <3>1, <3>2
  <2> QED BY <1>5, <2>1 DEF Named
<1>7. ParamsOK(msg)
  BY <1>4, MessageParts DEF MessageOK
<1>8. Len(msg.words) = 1 /\ Begins(msg.rest, COLON)
  BY <1>6, <1>7 DEF ParamsOK
<1> QED BY <1>1, <1>3, <1>4, <1>8, TextThere

(***************************************************************************)
(* The steps of the client and of the other end                            *)
(***************************************************************************)
Owes == owed = Cardinality(Pongs(queue))
Modes ==
  /\ ctype \in {"IRC", "DCC"}
  /\ pc \in {"connect", "select", "recv", "wait", "nothing", "handle", "timer", "update", "close",
             "ended", "crashed", "spinning"}
  /\ quit \in {"none", "reconnect", "disconnect"}
  /\ peer \in {"alive", "dead", "closed"}
Numbers ==
  /\ idle \in 0 .. PingAfter + 1 /\ read \in Nat
  /\ chars \in 0 .. MaxChars /\ stalls \in 0 .. MaxStalls /\ faults \in 0 .. MaxFaults
Texts ==
  /\ line \in Seq(Chars) /\ ch \in Chars \cup {""}
  /\ garbled \in BOOLEAN
Queued == queue \in Seq({"PING", "PONG"})
Underway == said \in Seq(Messages)

LEMMA TypeParts == TypeOK <=> Modes /\ Numbers /\ Texts /\ Queued /\ Underway /\ Owes
BY DEF TypeOK, Modes, Numbers, Texts, Queued, Underway, Owes, Pongs

LEMMA TypePartsNext == TypeOK' <=> Modes' /\ Numbers' /\ Texts' /\ Queued' /\ Underway' /\ Owes'
BY DEF TypeOK, Modes, Numbers, Texts, Queued, Underway, Owes, Pongs

LEMMA ReadParts ==
  ASSUME ReadInv
  PROVE  Modes /\ Numbers /\ Texts /\ Queued /\ Underway /\ Owes /\ LoopInv /\ ReaderInv /\ EventInv /\ Survives
BY TypeParts DEF ReadInv

LEMMA ReadNext ==
  ASSUME Modes', Numbers', Texts', Queued', Underway', Owes', LoopInv', ReaderInv', EventInv', Survives'
  PROVE  ReadInv'
BY TypePartsNext DEF ReadInv

LEMMA InitRead == Init => ReadInv
<1> SUFFICES ASSUME Init PROVE ReadInv
  OBVIOUS
<1>11. /\ idle = 0 /\ read = 0 /\ chars = 0 /\ stalls = 0 /\ faults = 0 /\ owed = 0
       /\ line = <<>> /\ ch = "" /\ garbled = FALSE /\ queue = <<>> /\ said = <<>>
       /\ event = NoEvent /\ pc = "connect"
  BY DEF Init
<1>1. Modes
  BY DEF Init, Modes
<1>2. Numbers
  <2>1. idle = 0 /\ read = 0 /\ chars = 0 /\ stalls = 0 /\ faults = 0
    BY <1>11
  <2> QED BY <2>1, ClientAssumption DEF Numbers
<1>3. Texts
  BY <1>11, EmptySeq DEF Texts
<1>9. Queued
  BY <1>11, EmptySeq DEF Queued
<1>10. Underway
  BY <1>11, EmptySeq DEF Underway
<1>4. Owes
  <2>1. Pongs(<<>>) = {}
    BY DEF Pongs
  <2> QED BY <2>1, FS_EmptySet DEF Owes, Init
<1>5. LoopInv
  BY DEF LoopInv, Init
<1>6. ReaderInv
  BY DEF ReaderInv, Init
<1>7. EventInv
  <2>1. 1 .. Len(<<>>) = {}
    OBVIOUS
  <2> QED BY <1>11, <2>1 DEF EventInv
<1>8. Survives
  BY DEF Survives, Init
<1> QED BY <1>1, <1>2, <1>3, <1>4, <1>5, <1>6, <1>7, <1>8, <1>9, <1>10, TypeParts DEF ReadInv

\* What most steps leave alone.
LEMMA SameEvent ==
  ASSUME EventInv, said' = said, event' = event, ctype' = ctype,
         pc' = "handle" => pc = "handle" /\ line' = line
  PROVE  EventInv'
BY DEF EventInv, Heard, Arrived

LEMMA SameOwes == ASSUME Owes, queue' = queue, owed' = owed PROVE Owes'
BY DEF Owes

LEMMA SameReader ==
  ASSUME ReaderInv, line' = line, ch' = ch, garbled' = garbled,
         pc \notin {"recv", "wait", "handle", "crashed", "spinning"},
         pc' \notin {"recv", "wait"}
  PROVE  ReaderInv'
BY DEF ReaderInv

LEMMA AnewReader ==
  ASSUME Anew, pc' \notin {"recv", "wait"}
  PROVE  ReaderInv'
BY DEF ReaderInv, Anew

LEMMA ConnectRead == ASSUME ReadInv, Connect PROVE ReadInv'
<1>1. /\ ctype' = ctype /\ line' = line /\ ch' = ch /\ garbled' = garbled /\ idle' = idle /\ event' = event
      /\ chars' = chars /\ stalls' = stalls /\ faults' = faults
      /\ pc = "connect" /\ pc' = "select" /\ quit' = "none" /\ queue' = <<>> /\ owed' = 0
      /\ said' = <<>> /\ read' = 0 /\ peer' = "alive"
  BY DEF Connect, Goto, Quiet, reader
<1>2. Modes /\ Numbers /\ Texts /\ Queued /\ Underway /\ Owes /\ LoopInv /\ ReaderInv /\ EventInv /\ Survives
  BY ReadParts
<1>10. Modes'
  BY <1>1, <1>2 DEF Modes
<1>11. Numbers'
  BY <1>1, <1>2 DEF Numbers
<1>12. Texts'
  BY <1>1, <1>2 DEF Texts
<1>18. Queued'
  BY <1>1, <1>2 DEF Queued
<1>19. Underway'
  BY <1>1, <1>2 DEF Underway
<1>13. Owes'
  <2>1. Pongs(<<>>) = {}
    BY DEF Pongs
  <2> QED BY <1>1, <2>1, FS_EmptySet DEF Owes
<1>14. LoopInv'
  BY <1>1, <1>2 DEF LoopInv
<1>15. ReaderInv'
  BY <1>1, <1>2, SameReader
<1>16. EventInv'
  BY <1>1, <1>2 DEF EventInv, Arrived, Heard
<1>17. Survives'
  BY <1>1, <1>2 DEF Survives
<1> QED BY <1>10, <1>11, <1>12, <1>13, <1>14, <1>15, <1>16, <1>17, <1>18,
  <1>19, ReadNext

LEMMA ConnectFailsRead == ASSUME ReadInv, ConnectFails PROVE ReadInv'
<1>1. /\ ctype' = ctype /\ quit' = quit /\ line' = line /\ ch' = ch /\ garbled' = garbled /\ idle' = idle
      /\ queue' = queue /\ peer' = peer /\ said' = said /\ read' = read /\ event' = event /\ owed' = owed
      /\ chars' = chars /\ stalls' = stalls
      /\ pc = "connect" /\ pc' = "ended" /\ faults < MaxFaults /\ faults' = faults + 1
  BY DEF ConnectFails, Goto, Fault, reader, socket
<1>2. Modes /\ Numbers /\ Texts /\ Queued /\ Underway /\ Owes /\ LoopInv /\ ReaderInv /\ EventInv /\ Survives
  BY ReadParts
<1>10. Modes'
  BY <1>1, <1>2 DEF Modes
<1>11. Numbers'
  BY <1>1, <1>2, ClientAssumption DEF Numbers
<1>12. Texts'
  BY <1>1, <1>2 DEF Texts
<1>18. Queued'
  BY <1>1, <1>2 DEF Queued
<1>19. Underway'
  BY <1>1, <1>2 DEF Underway
<1>13. Owes'
  BY <1>1, <1>2, SameOwes
<1>14. LoopInv'
  BY <1>1, <1>2 DEF LoopInv
<1>15. ReaderInv'
  BY <1>1, <1>2, SameReader
<1>16. EventInv'
  BY <1>1, <1>2, SameEvent
<1>17. Survives'
  BY <1>1, <1>2 DEF Survives
<1> QED BY <1>10, <1>11, <1>12, <1>13, <1>14, <1>15, <1>16, <1>17, <1>18,
  <1>19, ReadNext

LEMMA SayRead == ASSUME ReadInv, Say PROVE ReadInv'
<1>1. /\ ctype' = ctype /\ pc' = pc /\ quit' = quit /\ line' = line /\ ch' = ch /\ garbled' = garbled
      /\ idle' = idle /\ queue' = queue /\ peer' = peer /\ read' = read /\ event' = event /\ owed' = owed
      /\ stalls' = stalls /\ faults' = faults
      /\ peer = "alive"
  BY DEF Say, Others, reader
<1>2. Modes /\ Numbers /\ Texts /\ Queued /\ Underway /\ Owes /\ LoopInv /\ ReaderInv /\ EventInv /\ Survives
  BY ReadParts
<1>3. PICK msg \in Messages :
        /\ ctype = "DCC" <=> msg.from = "dcc"
        /\ chars + Len(Wire[msg]) <= MaxChars /\ chars' = chars + Len(Wire[msg])
        /\ said' = Append(said, msg)
  BY DEF Say
<1>4. said \in Seq(Messages)
  BY <1>2 DEF Underway
<1>5. chars' \in 0 .. MaxChars
  <2>1. Len(Wire[msg]) \in Nat
    BY WireIs
  <2>2. chars \in Nat /\ MaxChars \in Nat
    BY <1>2, ClientAssumption DEF Numbers
  <2> QED BY <1>3, <2>1, <2>2
<1>6. said' \in Seq(Messages)
  BY <1>3, <1>4
<1>10. Modes'
  BY <1>1, <1>2 DEF Modes
<1>11. Numbers'
  BY <1>1, <1>2, <1>5 DEF Numbers
<1>12. Texts'
  BY <1>1, <1>2 DEF Texts
<1>18. Queued'
  BY <1>1, <1>2 DEF Queued
<1>19. Underway'
  BY <1>6 DEF Underway
<1>13. Owes'
  BY <1>1, <1>2, SameOwes
<1>14. LoopInv'
  BY <1>1, <1>2 DEF LoopInv
<1>15. ReaderInv'
  <2>1. said # <<>> => said' # <<>> /\ Head(said') = Head(said)
    BY <1>3, <1>4
  <2> QED BY <1>1, <1>2, <2>1 DEF ReaderInv
<1>16. EventInv'
  <2>1. Heard(msg)'
    BY <1>1, <1>3 DEF Heard
  <2>2. \A i \in 1 .. Len(said) : said[i] \in Messages /\ (said[i].from = "dcc" <=> ctype' = "DCC")
    BY <1>1, <1>2 DEF EventInv, Heard
  <2>3. \A i \in 1 .. Len(said') : said'[i] = msg \/ (i \in 1 .. Len(said) /\ said'[i] = said[i])
    BY <1>3, <1>4
  <2>4. \A i \in 1 .. Len(said') : Heard(said[i])'
    BY <2>1, <2>2, <2>3 DEF Heard
  <2> QED BY <1>1, <1>2, <2>4 DEF EventInv, Arrived, Heard
<1>17. Survives'
  BY <1>1, <1>2 DEF Survives
<1> QED BY <1>10, <1>11, <1>12, <1>13, <1>14, <1>15, <1>16, <1>17, <1>18,
  <1>19, ReadNext

LEMMA LeaveRead == ASSUME ReadInv, Leave PROVE ReadInv'
<1>1. /\ ctype' = ctype /\ pc' = pc /\ quit' = quit /\ line' = line /\ ch' = ch /\ garbled' = garbled
      /\ idle' = idle /\ queue' = queue /\ event' = event /\ owed' = owed /\ chars' = chars /\ stalls' = stalls
      /\ peer' \in {"dead", "closed"} /\ peer = "alive"
      /\ pc \notin {"connect", "ended", "crashed", "spinning"}
      /\ faults < MaxFaults /\ faults' = faults + 1
  BY DEF Leave, Others, Connected, Fault, reader
<1>2. Modes /\ Numbers /\ Texts /\ Queued /\ Underway /\ Owes /\ LoopInv /\ ReaderInv /\ EventInv /\ Survives
  BY ReadParts
<1>3. (said' = said /\ read' = read) \/ (said' = <<>> /\ read' = 0)
  BY DEF Leave
<1>10. Modes'
  BY <1>1, <1>2 DEF Modes
<1>11. Numbers'
  BY <1>1, <1>2, <1>3, ClientAssumption DEF Numbers
<1>12. Texts'
  BY <1>1, <1>2 DEF Texts
<1>18. Queued'
  BY <1>1, <1>2 DEF Queued
<1>19. Underway'
  <2>1. said' = said \/ said' = <<>>
    BY <1>3
  <2> QED BY <1>2, <2>1, EmptySeq DEF Underway
<1>13. Owes'
  BY <1>1, <1>2, SameOwes
<1>14. LoopInv'
  BY <1>1, <1>2, <1>3 DEF LoopInv
<1>15. ReaderInv'
  BY <1>1, <1>2, <1>3 DEF ReaderInv
<1>16. EventInv'
  <2>1. CASE said' = said
    BY <1>1, <1>2, <2>1, SameEvent
  <2>2. CASE said' = <<>>
    BY <1>1, <1>2, <2>2 DEF EventInv, Heard, Arrived
  <2> QED BY <1>3, <2>1, <2>2
<1>17. Survives'
  BY <1>1, <1>2 DEF Survives
<1> QED BY <1>10, <1>11, <1>12, <1>13, <1>14, <1>15, <1>16, <1>17, <1>18,
  <1>19, ReadNext

LEMMA ReadyRead == ASSUME ReadInv, Ready PROVE ReadInv'
<1>1. /\ ctype' = ctype /\ quit' = quit /\ line' = line /\ ch' = ch /\ garbled' = garbled /\ idle' = idle
      /\ queue' = queue /\ peer' = peer /\ said' = said /\ read' = read /\ event' = event /\ owed' = owed
      /\ chars' = chars /\ stalls' = stalls /\ faults' = faults
      /\ pc = "select" /\ pc' = "recv" /\ (said # <<>> \/ peer = "closed")
  BY DEF Ready, Goto, Waits, Reading, reader
<1>2. Modes /\ Numbers /\ Texts /\ Queued /\ Underway /\ Owes /\ LoopInv /\ ReaderInv /\ EventInv /\ Survives
  BY ReadParts
<1>10. Modes'
  BY <1>1, <1>2 DEF Modes
<1>11. Numbers'
  BY <1>1, <1>2 DEF Numbers
<1>12. Texts'
  BY <1>1, <1>2 DEF Texts
<1>18. Queued'
  BY <1>1, <1>2 DEF Queued
<1>19. Underway'
  BY <1>1, <1>2 DEF Underway
<1>13. Owes'
  BY <1>1, <1>2, SameOwes
<1>14. LoopInv'
  BY <1>1, <1>2 DEF LoopInv
<1>15. ReaderInv'
  <2>1. read = 0 /\ line = <<>> /\ ch = "" /\ garbled = FALSE
    BY <1>1, <1>2 DEF LoopInv, ReaderInv
  <2>2. said # <<>> => Head(said) \in Messages
    BY <1>2 DEF Underway
  <2>3. said # <<>> => HalfRead(Head(said), 0, <<>>, "", FALSE)
    BY <2>2, HalfReadStart
  <2> QED BY <1>1, <2>1, <2>3 DEF ReaderInv
<1>16. EventInv'
  BY <1>1, <1>2, SameEvent
<1>17. Survives'
  BY <1>1, <1>2 DEF Survives
<1> QED BY <1>10, <1>11, <1>12, <1>13, <1>14, <1>15, <1>16, <1>17, <1>18,
  <1>19, ReadNext

LEMMA TimeoutRead == ASSUME ReadInv, Timeout PROVE ReadInv'
<1>1. /\ ctype' = ctype /\ quit' = quit /\ line' = line /\ ch' = ch /\ garbled' = garbled /\ idle' = idle
      /\ queue' = queue /\ peer' = peer /\ said' = said /\ read' = read /\ event' = event /\ owed' = owed
      /\ chars' = chars /\ stalls' = stalls /\ faults' = faults
      /\ pc = "select" /\ pc' = "nothing"
  BY DEF Timeout, Goto, Waits, Reading, reader
<1>2. Modes /\ Numbers /\ Texts /\ Queued /\ Underway /\ Owes /\ LoopInv /\ ReaderInv /\ EventInv /\ Survives
  BY ReadParts
<1>10. Modes'
  BY <1>1, <1>2 DEF Modes
<1>11. Numbers'
  BY <1>1, <1>2 DEF Numbers
<1>12. Texts'
  BY <1>1, <1>2 DEF Texts
<1>18. Queued'
  BY <1>1, <1>2 DEF Queued
<1>19. Underway'
  BY <1>1, <1>2 DEF Underway
<1>13. Owes'
  BY <1>1, <1>2, SameOwes
<1>14. LoopInv'
  BY <1>1, <1>2 DEF LoopInv
<1>15. ReaderInv'
  BY <1>1, <1>2, SameReader
<1>16. EventInv'
  BY <1>1, <1>2, SameEvent
<1>17. Survives'
  BY <1>1, <1>2 DEF Survives
<1> QED BY <1>10, <1>11, <1>12, <1>13, <1>14, <1>15, <1>16, <1>17, <1>18,
  <1>19, ReadNext

LEMMA RecvCharRead == ASSUME ReadInv, RecvChar PROVE ReadInv'
<1>1. /\ ctype' = ctype /\ quit' = quit /\ garbled' = garbled /\ idle' = idle /\ queue' = queue /\ peer' = peer
      /\ said' = said /\ event' = event /\ owed' = owed /\ chars' = chars /\ stalls' = stalls /\ faults' = faults
      /\ pc = "recv" /\ pc' = "recv" /\ said # <<>>
  BY DEF RecvChar, Goto, Reading
<1>2. Modes /\ Numbers /\ Texts /\ Queued /\ Underway /\ Owes /\ LoopInv /\ ReaderInv /\ EventInv /\ Survives
  BY ReadParts
<1>3. Coming # LF /\ ch' = Coming /\ line' = Stored(line, Coming) /\ read' = read + 1
  BY DEF RecvChar, Store, Stored
<1>4. Head(said) \in Messages /\ read \in Nat /\ line \in Seq(Chars) /\ garbled \in BOOLEAN
  <2>1. Head(said) \in Messages
    BY <1>1, <1>2 DEF Underway
  <2> QED BY <1>2, <2>1, EmptySeq DEF Texts, Numbers
<1>5. HalfRead(Head(said), read, line, ch, garbled)
  BY <1>1, <1>2 DEF ReaderInv
<1>6. Coming \in Chars
  <2>1. read + 1 \in 1 .. Len(Wire[Head(said)]) /\ Wire[Head(said)] \in Seq(Chars)
    <3>1. read < Len(Wire[Head(said)])
      BY <1>5 DEF HalfRead
    <3>2. Wire[Head(said)] \in Seq(Chars)
      BY <1>4, WireIs
    <3> QED BY <1>4, <3>1, <3>2
  <2> QED BY <2>1 DEF Coming
<1>7. Stored(line, Coming) \in Seq(Chars)
  BY <1>4, <1>6 DEF Stored
<1>10. Modes'
  BY <1>1, <1>2 DEF Modes
<1>11. Numbers'
  BY <1>1, <1>2, <1>3, <1>4 DEF Numbers
<1>12. Texts'
  BY <1>1, <1>2, <1>3, <1>6, <1>7 DEF Texts
<1>18. Queued'
  BY <1>1, <1>2 DEF Queued
<1>19. Underway'
  BY <1>1, <1>2 DEF Underway
<1>13. Owes'
  BY <1>1, <1>2, SameOwes
<1>14. LoopInv'
  BY <1>1, <1>2 DEF LoopInv
<1>15. ReaderInv'
  <2>1. HalfRead(Head(said), read + 1, Stored(line, Coming), Coming, garbled)
    BY <1>3, <1>4, <1>5, HalfReadCharacter DEF Coming
  <2> QED BY <1>1, <1>3, <2>1 DEF ReaderInv
<1>16. EventInv'
  BY <1>1, <1>2, SameEvent
<1>17. Survives'
  BY <1>1, <1>2 DEF Survives
<1> QED BY <1>10, <1>11, <1>12, <1>13, <1>14, <1>15, <1>16, <1>17, <1>18,
  <1>19, ReadNext

LEMMA RecvEndRead == ASSUME ReadInv, RecvEnd PROVE ReadInv'
<1>1. /\ ctype' = ctype /\ quit' = quit /\ idle' = idle /\ queue' = queue /\ peer' = peer /\ owed' = owed
      /\ chars' = chars /\ stalls' = stalls /\ faults' = faults
      /\ pc = "recv" /\ said # <<>> /\ Coming = LF /\ said' = Tail(said) /\ read' = 0
  BY DEF RecvEnd, Reading
<1>2. Modes /\ Numbers /\ Texts /\ Queued /\ Underway /\ Owes /\ LoopInv /\ ReaderInv /\ EventInv /\ Survives
  BY ReadParts
<1>3. \/ Anew /\ pc' = "nothing" /\ event' = event
      \/ /\ event' = [msg |-> Head(said), line |-> line, garbled |-> garbled] /\ pc' = "handle"
         /\ line' = line /\ ch' = ch /\ garbled' = garbled
  BY DEF RecvEnd, Goto, reader
<1>4. /\ Head(said) \in Messages /\ read \in Nat /\ line \in Seq(Chars) /\ garbled \in BOOLEAN
      /\ Tail(said) \in Seq(Messages) /\ said \in Seq(Messages) /\ Len(said) \in Nat \ {0}
  <2>1. /\ Head(said) \in Messages /\ Tail(said) \in Seq(Messages) /\ said \in Seq(Messages)
        /\ Len(said) \in Nat \ {0}
    BY <1>1, <1>2 DEF Underway
  <2> QED BY <1>2, <2>1, EmptySeq DEF Texts, Numbers
<1>5. HalfRead(Head(said), read, line, ch, garbled)
  BY <1>1, <1>2 DEF ReaderInv
<1>10. Modes'
  BY <1>1, <1>2, <1>3 DEF Modes
<1>11. Numbers'
  BY <1>1, <1>2 DEF Numbers
<1>12. Texts'
  <2>1. \/ line' = <<>> /\ ch' = "" /\ garbled' = FALSE
        \/ line' = line /\ ch' = ch /\ garbled' = garbled
    BY <1>3 DEF Anew
  <2> QED BY <1>2, <2>1, EmptySeq DEF Texts
<1>18. Queued'
  BY <1>1, <1>2 DEF Queued
<1>19. Underway'
  BY <1>1, <1>4 DEF Underway
<1>13. Owes'
  BY <1>1, <1>2, SameOwes
<1>14. LoopInv'
  <2>1. quit = "none"
    BY <1>1, <1>2 DEF LoopInv
  <2> QED BY <1>1, <1>3, <2>1 DEF LoopInv
<1>15. ReaderInv'
  BY <1>3 DEF ReaderInv, Anew
<1>16. EventInv'
  <2>1. \A i \in 1 .. Len(said') : i + 1 \in 1 .. Len(said) /\ said'[i] = said[i + 1]
    BY <1>1, <1>4
  <2>2. \A i \in 1 .. Len(said) : Heard(said[i])
    BY <1>2 DEF EventInv
  <2>3. \A i \in 1 .. Len(said') : Heard(said[i])'
    BY <1>1, <2>1, <2>2 DEF Heard
  <2>4. Heard(Head(said))
    <3>1. Head(said) = said[1] /\ 1 \in 1 .. Len(said)
      BY <1>4
    <3> QED BY <2>2, <3>1
  <2>5. CASE pc' = "nothing" /\ event' = event
    BY <1>1, <1>2, <2>3, <2>5 DEF EventInv, Arrived, Heard
  <2>6. CASE /\ event' = [msg |-> Head(said), line |-> line, garbled |-> garbled]
             /\ line' = line
    <3>1. Repeats(line, Line(Head(said))) /\ (~garbled => line = Line(Head(said)))
      BY <1>1, <1>4, <1>5, HalfReadEnd DEF Coming
    <3>2. event'.msg = Head(said) /\ event'.line = line /\ event'.garbled = garbled
      BY <2>6
    <3>3. Arrived(event)'
      BY <1>1, <1>4, <2>4, <3>1, <3>2 DEF Arrived, Heard
    <3>4. event' # NoEvent
      BY <2>6 DEF NoEvent
    <3> QED BY <2>3, <2>6, <3>2, <3>3, <3>4 DEF EventInv
  <2> QED BY <1>3, <2>5, <2>6
<1>17. Survives'
  BY <1>1, <1>3 DEF Survives
<1> QED BY <1>10, <1>11, <1>12, <1>13, <1>14, <1>15, <1>16, <1>17, <1>18,
  <1>19, ReadNext

LEMMA StallRead == ASSUME ReadInv, Stall PROVE ReadInv'
<1>1. /\ ctype' = ctype /\ quit' = quit /\ line' = line /\ ch' = ch /\ garbled' = garbled /\ idle' = idle
      /\ queue' = queue /\ peer' = peer /\ said' = said /\ read' = read /\ event' = event /\ owed' = owed
      /\ chars' = chars /\ faults' = faults
      /\ pc = "recv" /\ pc' = "wait" /\ ch # ""
      /\ \/ said = <<>> /\ peer # "closed" /\ stalls' = stalls
         \/ said # <<>> /\ stalls < MaxStalls /\ stalls' = stalls + 1
  BY DEF Stall, Goto, Waits, Reading, reader
<1>2. /\ Modes /\ Numbers /\ Texts /\ Queued /\ Underway /\ Owes
      /\ LoopInv /\ ReaderInv /\ EventInv /\ Survives
  BY ReadParts
<1>10. Modes'
  BY <1>1, <1>2 DEF Modes
<1>11. Numbers'
  <2>1. idle' = idle /\ read' = read /\ chars' = chars /\ faults' = faults
    BY <1>1
  <2>2. stalls' = stalls \/ (stalls < MaxStalls /\ stalls' = stalls + 1)
    BY <1>1
  <2> QED BY <1>2, <2>1, <2>2, ClientAssumption DEF Numbers
<1>12. Texts'
  BY <1>1, <1>2 DEF Texts
<1>13. Queued'
  BY <1>1, <1>2 DEF Queued
<1>14. Underway'
  BY <1>1, <1>2 DEF Underway
<1>15. Owes'
  BY <1>1, <1>2, SameOwes
<1>16. LoopInv'
  BY <1>1, <1>2 DEF LoopInv
<1>17. ReaderInv'
  BY <1>1, <1>2 DEF ReaderInv
<1>18. EventInv'
  BY <1>1, <1>2, SameEvent
<1>19. Survives'
  BY <1>1, <1>2 DEF Survives
<1> QED BY <1>10, <1>11, <1>12, <1>13, <1>14, <1>15, <1>16, <1>17, <1>18, <1>19, ReadNext

LEMMA ResumeRead == ASSUME ReadInv, Resume PROVE ReadInv'
<1>1. /\ ctype' = ctype /\ quit' = quit /\ ch' = ch /\ idle' = idle /\ queue' = queue /\ peer' = peer
      /\ said' = said /\ read' = read /\ event' = event /\ owed' = owed /\ chars' = chars /\ stalls' = stalls
      /\ faults' = faults
      /\ pc = "wait" /\ pc' = "recv"
      /\ line' = Stored(line, ch) /\ garbled' = (garbled \/ ch # CR)
  BY DEF Resume, Goto, Waits, Reading, Store, Stored
<1>2. /\ Modes /\ Numbers /\ Texts /\ Queued /\ Underway /\ Owes
      /\ LoopInv /\ ReaderInv /\ EventInv /\ Survives
  BY ReadParts
<1>4. ch # ""
  BY <1>1, <1>2 DEF ReaderInv
<1>3. Stored(line, ch) \in Seq(Chars)
  <2>1. line \in Seq(Chars) /\ ch \in Chars
    BY <1>2, <1>4 DEF Texts
  <2> QED BY <2>1 DEF Stored
<1>10. Modes'
  BY <1>1, <1>2 DEF Modes
<1>11. Numbers'
  BY <1>1, <1>2 DEF Numbers
<1>12. Texts'
  BY <1>1, <1>2, <1>3 DEF Texts
<1>13. Queued'
  BY <1>1, <1>2 DEF Queued
<1>14. Underway'
  BY <1>1, <1>2 DEF Underway
<1>15. Owes'
  BY <1>1, <1>2, SameOwes
<1>16. LoopInv'
  BY <1>1, <1>2 DEF LoopInv
<1>17. ReaderInv'
  <2>1. CASE said = <<>>
    BY <1>1, <1>2, <2>1 DEF ReaderInv
  <2>2. CASE said # <<>>
    <3>1. HalfRead(Head(said), read, line, ch, garbled)
      BY <1>1, <1>2, <2>2 DEF ReaderInv
    <3>2. Head(said) \in Messages
      BY <1>2, <2>2 DEF Underway
    <3>3. read # 0 /\ read \in Nat
      BY <1>2, <1>4, <3>1 DEF HalfRead, Numbers
    <3>4. line \in Seq(Chars) /\ garbled \in BOOLEAN
      BY <1>2 DEF Texts
    <3>5. HalfRead(Head(said), read, Stored(line, ch), ch, garbled \/ ch # CR)
      BY <3>1, <3>2, <3>3, <3>4, HalfReadAgain
    <3> QED BY <1>1, <2>2, <3>5 DEF ReaderInv
  <2> QED BY <2>1, <2>2
<1>18. EventInv'
  BY <1>1, <1>2, SameEvent
<1>19. Survives'
  BY <1>1, <1>2 DEF Survives
<1> QED BY <1>10, <1>11, <1>12, <1>13, <1>14, <1>15, <1>16, <1>17, <1>18, <1>19, ReadNext

LEMMA ReadEndRead == ASSUME ReadInv, ReadEnd PROVE ReadInv'
<1>1. /\ ctype' = ctype /\ quit' = quit /\ line' = line /\ ch' = ch /\ garbled' = garbled /\ idle' = idle
      /\ queue' = queue /\ peer' = peer /\ said' = said /\ read' = read /\ event' = event /\ owed' = owed
      /\ chars' = chars /\ stalls' = stalls /\ faults' = faults
      /\ pc = "recv" /\ pc' \in {"crashed", "spinning"} /\ said = <<>> /\ peer = "closed"
  BY DEF ReadEnd, Goto, Waits, Reading, reader
<1>2. /\ Modes /\ Numbers /\ Texts /\ Queued /\ Underway /\ Owes
      /\ LoopInv /\ ReaderInv /\ EventInv /\ Survives
  BY ReadParts
<1>10. Modes'
  BY <1>1, <1>2 DEF Modes
<1>11. Numbers'
  BY <1>1, <1>2 DEF Numbers
<1>12. Texts'
  BY <1>1, <1>2 DEF Texts
<1>13. Queued'
  BY <1>1, <1>2 DEF Queued
<1>14. Underway'
  BY <1>1, <1>2 DEF Underway
<1>15. Owes'
  BY <1>1, <1>2, SameOwes
<1>16. LoopInv'
  BY <1>1, <1>2 DEF LoopInv
<1>17. ReaderInv'
  BY <1>1, <1>2 DEF ReaderInv
<1>18. EventInv'
  BY <1>1, <1>2, SameEvent
<1>19. Survives'
  BY <1>1, <1>2 DEF Survives
<1> QED BY <1>10, <1>11, <1>12, <1>13, <1>14, <1>15, <1>16, <1>17, <1>18, <1>19, ReadNext

LEMMA ReadErrorRead == ASSUME ReadInv, ReadError PROVE ReadInv'
<1>1. /\ ctype' = ctype /\ idle' = idle /\ queue' = queue /\ peer' = peer /\ said' = said /\ read' = read
      /\ event' = event /\ owed' = owed /\ chars' = chars /\ stalls' = stalls
      /\ pc = "recv" /\ pc' = "timer" /\ quit' \in {"reconnect", "disconnect"}
      /\ line' = <<>> /\ ch' = "" /\ garbled' = FALSE
      /\ faults < MaxFaults /\ faults' = faults + 1
  BY DEF ReadError, Goto, Fault, Anew, socket
<1>2. /\ Modes /\ Numbers /\ Texts /\ Queued /\ Underway /\ Owes
      /\ LoopInv /\ ReaderInv /\ EventInv /\ Survives
  BY ReadParts
<1>10. Modes'
  BY <1>1, <1>2 DEF Modes
<1>11. Numbers'
  <2>1. idle' = idle /\ read' = read /\ chars' = chars /\ stalls' = stalls
    BY <1>1
  <2>2. faults < MaxFaults /\ faults' = faults + 1
    BY <1>1
  <2> QED BY <1>2, <2>1, <2>2, ClientAssumption DEF Numbers
<1>12. Texts'
  BY <1>1, <1>2, EmptySeq DEF Texts
<1>13. Queued'
  BY <1>1, <1>2 DEF Queued
<1>14. Underway'
  BY <1>1, <1>2 DEF Underway
<1>15. Owes'
  BY <1>1, <1>2, SameOwes
<1>16. LoopInv'
  BY <1>1, <1>2 DEF LoopInv
<1>17. ReaderInv'
  BY <1>1 DEF ReaderInv
<1>18. EventInv'
  BY <1>1, <1>2, SameEvent
<1>19. Survives'
  BY <1>1, <1>2 DEF Survives
<1> QED BY <1>10, <1>11, <1>12, <1>13, <1>14, <1>15, <1>16, <1>17, <1>18, <1>19, ReadNext

LEMMA HandleRead == ASSUME ReadInv, Handle PROVE ReadInv'
<1>1. /\ ctype' = ctype /\ peer' = peer /\ said' = said /\ read' = read /\ event' = event /\ chars' = chars
      /\ stalls' = stalls /\ faults' = faults
      /\ pc = "handle" /\ idle' = 0 /\ quit' \in {quit, "reconnect"}
      /\ line' = <<>> /\ ch' = "" /\ garbled' = FALSE
      /\ \/ queue' = queue /\ owed' = owed
         \/ queue' = Append(queue, "PONG") /\ owed' = owed + 1
  BY DEF Handle, Answer, Goto, Quiet, Anew, socket
<1>2. /\ Modes /\ Numbers /\ Texts /\ Queued /\ Underway /\ Owes
      /\ LoopInv /\ ReaderInv /\ EventInv /\ Survives
  BY ReadParts
<1>3. pc' = "timer"
  <2>1. Arrived(event) /\ event.line = line
    BY <1>1, <1>2 DEF EventInv
  <2>2. ctype = "IRC" => ~ReadsNull(line)
    <3>1. SUFFICES ASSUME ctype = "IRC" PROVE ~ReadsNull(line)
      OBVIOUS
    <3>2. event.msg \in Messages /\ event.msg.from # "dcc"
      BY <2>1, <3>1 DEF Arrived, Heard
    <3>3. line \in Seq(Chars) /\ Repeats(line, Line(event.msg))
      BY <2>1 DEF Arrived
    <3> QED BY <3>2, <3>3, ArrivedReads
  <2> QED BY <2>2 DEF Handle, Goto
<1>10. Modes'
  BY <1>1, <1>2, <1>3 DEF Modes
<1>11. Numbers'
  <2>1. read' = read /\ chars' = chars /\ stalls' = stalls /\ faults' = faults
    BY <1>1
  <2>2. idle' = 0
    BY <1>1
  <2> QED BY <1>2, <2>1, <2>2, ClientAssumption DEF Numbers
<1>12. Texts'
  BY <1>1, <1>2, EmptySeq DEF Texts
<1>13. Queued'
  <2>1. CASE queue' = queue
    BY <1>2, <2>1 DEF Queued
  <2>2. CASE queue' = Append(queue, "PONG")
    BY <1>2, <2>2 DEF Queued
  <2> QED BY <1>1, <2>1, <2>2
<1>14. Underway'
  BY <1>1, <1>2 DEF Underway
<1>15. Owes'
  <2>1. CASE queue' = queue /\ owed' = owed
    BY <1>2, <2>1, SameOwes
  <2>2. CASE queue' = Append(queue, "PONG") /\ owed' = owed + 1
    BY <1>2, <2>2, PongsAdded DEF Owes, Queued
  <2> QED BY <1>1, <2>1, <2>2
<1>16. LoopInv'
  BY <1>1, <1>2, <1>3 DEF LoopInv
<1>17. ReaderInv'
  BY <1>1, <1>3 DEF ReaderInv
<1>18. EventInv'
  BY <1>1, <1>2, <1>3, SameEvent
<1>19. Survives'
  BY <1>3 DEF Survives
<1> QED BY <1>10, <1>11, <1>12, <1>13, <1>14, <1>15, <1>16, <1>17, <1>18, <1>19, ReadNext

LEMMA NothingRead == ASSUME ReadInv, Nothing PROVE ReadInv'
<1>1. /\ ctype' = ctype /\ quit' = quit /\ line' = line /\ ch' = ch /\ garbled' = garbled /\ idle' = idle
      /\ peer' = peer /\ said' = said /\ read' = read /\ event' = event /\ owed' = owed /\ chars' = chars
      /\ stalls' = stalls /\ faults' = faults
      /\ pc = "nothing" /\ pc' = "timer" /\ queue' \in {queue, Append(queue, "PING")}
  BY DEF Nothing, Goto, Quiet, reader, socket
<1>2. /\ Modes /\ Numbers /\ Texts /\ Queued /\ Underway /\ Owes
      /\ LoopInv /\ ReaderInv /\ EventInv /\ Survives
  BY ReadParts
<1>10. Modes'
  BY <1>1, <1>2 DEF Modes
<1>11. Numbers'
  BY <1>1, <1>2 DEF Numbers
<1>12. Texts'
  BY <1>1, <1>2 DEF Texts
<1>13. Queued'
  <2>1. CASE queue' = queue
    BY <1>2, <2>1 DEF Queued
  <2>2. CASE queue' = Append(queue, "PING")
    BY <1>2, <2>2 DEF Queued
  <2> QED BY <1>1, <2>1, <2>2
<1>14. Underway'
  BY <1>1, <1>2 DEF Underway
<1>15. Owes'
  <2>1. CASE queue' = queue
    BY <1>1, <1>2, <2>1, SameOwes
  <2>2. CASE queue' = Append(queue, "PING")
    <3>1. Pongs(queue') = Pongs(queue)
      BY <1>2, <2>2, PongsAdded DEF Queued
    <3> QED BY <1>1, <1>2, <3>1 DEF Owes
  <2> QED BY <1>1, <2>1, <2>2
<1>16. LoopInv'
  BY <1>1, <1>2 DEF LoopInv
<1>17. ReaderInv'
  BY <1>1, <1>2, SameReader
<1>18. EventInv'
  BY <1>1, <1>2, SameEvent
<1>19. Survives'
  BY <1>1, <1>2 DEF Survives
<1> QED BY <1>10, <1>11, <1>12, <1>13, <1>14, <1>15, <1>16, <1>17, <1>18, <1>19, ReadNext

LEMMA TimerRead == ASSUME ReadInv, Timer PROVE ReadInv'
<1>1. /\ ctype' = ctype /\ line' = line /\ ch' = ch /\ garbled' = garbled /\ idle' = idle /\ queue' = queue
      /\ peer' = peer /\ said' = said /\ read' = read /\ owed' = owed /\ chars' = chars /\ stalls' = stalls
      /\ pc = "timer" /\ pc' = "update" /\ event' = NoEvent
      /\ \/ quit' = quit /\ faults' = faults
         \/ faults < MaxFaults /\ faults' = faults + 1 /\ quit' \in {"reconnect", "disconnect"}
  BY DEF Timer, Goto, Fault, reader, socket
<1>2. /\ Modes /\ Numbers /\ Texts /\ Queued /\ Underway /\ Owes
      /\ LoopInv /\ ReaderInv /\ EventInv /\ Survives
  BY ReadParts
<1>10. Modes'
  BY <1>1, <1>2 DEF Modes
<1>11. Numbers'
  <2>1. idle' = idle /\ read' = read /\ chars' = chars /\ stalls' = stalls
    BY <1>1
  <2>2. faults' = faults \/ (faults < MaxFaults /\ faults' = faults + 1)
    BY <1>1
  <2> QED BY <1>2, <2>1, <2>2, ClientAssumption DEF Numbers
<1>12. Texts'
  BY <1>1, <1>2 DEF Texts
<1>13. Queued'
  BY <1>1, <1>2 DEF Queued
<1>14. Underway'
  BY <1>1, <1>2 DEF Underway
<1>15. Owes'
  BY <1>1, <1>2, SameOwes
<1>16. LoopInv'
  BY <1>1, <1>2 DEF LoopInv
<1>17. ReaderInv'
  BY <1>1, <1>2, SameReader
<1>18. EventInv'
  BY <1>1, <1>2 DEF EventInv, Heard
<1>19. Survives'
  BY <1>1, <1>2 DEF Survives
<1> QED BY <1>10, <1>11, <1>12, <1>13, <1>14, <1>15, <1>16, <1>17, <1>18, <1>19, ReadNext

LEMMA SendFirstRead == ASSUME ReadInv, SendFirst PROVE ReadInv'
<1>1. /\ ctype' = ctype /\ quit' = quit /\ line' = line /\ ch' = ch /\ garbled' = garbled /\ idle' = idle
      /\ peer' = peer /\ said' = said /\ read' = read /\ event' = event /\ chars' = chars /\ stalls' = stalls
      /\ faults' = faults
      /\ pc = "update" /\ pc' = (IF quit = "none" THEN "select" ELSE "close") /\ queue # <<>>
      /\ queue' = Tail(queue) /\ owed' = IF Head(queue) = "PONG" THEN owed - 1 ELSE owed
  BY DEF SendFirst, After, Goto, Quiet, reader, socket
<1>2. /\ Modes /\ Numbers /\ Texts /\ Queued /\ Underway /\ Owes
      /\ LoopInv /\ ReaderInv /\ EventInv /\ Survives
  BY ReadParts
<1>10. Modes'
  BY <1>1, <1>2 DEF Modes
<1>11. Numbers'
  BY <1>1, <1>2 DEF Numbers
<1>12. Texts'
  BY <1>1, <1>2 DEF Texts
<1>13. Queued'
  <2>1. queue # <<>> /\ queue' = Tail(queue)
    BY <1>1
  <2> QED BY <1>2, <2>1 DEF Queued
<1>14. Underway'
  BY <1>1, <1>2 DEF Underway
<1>15. Owes'
  <2>1. Cardinality(Pongs(Tail(queue))) = Cardinality(Pongs(queue)) - (IF Head(queue) = "PONG" THEN 1 ELSE 0)
    BY <1>1, <1>2, PongsTail DEF Queued
  <2>2. Cardinality(Pongs(queue)) \in Nat /\ owed = Cardinality(Pongs(queue))
    BY <1>2, PongsFinite DEF Queued, Owes
  <2>3. owed' = owed - (IF Head(queue) = "PONG" THEN 1 ELSE 0)
    BY <1>1, <2>2
  <2> QED BY <1>1, <2>1, <2>2, <2>3 DEF Owes
<1>16. LoopInv'
  BY <1>1, <1>2 DEF LoopInv
<1>17. ReaderInv'
  BY <1>1, <1>2, SameReader
<1>18. EventInv'
  BY <1>1, <1>2, SameEvent
<1>19. Survives'
  BY <1>1, <1>2 DEF Survives
<1> QED BY <1>10, <1>11, <1>12, <1>13, <1>14, <1>15, <1>16, <1>17, <1>18, <1>19, ReadNext

LEMMA SendNothingRead == ASSUME ReadInv, SendNothing PROVE ReadInv'
<1>1. /\ ctype' = ctype /\ quit' = quit /\ line' = line /\ ch' = ch /\ garbled' = garbled /\ idle' = idle
      /\ queue' = queue /\ peer' = peer /\ said' = said /\ read' = read /\ event' = event /\ owed' = owed
      /\ chars' = chars /\ stalls' = stalls /\ faults' = faults
      /\ pc = "update" /\ pc' = (IF quit = "none" THEN "select" ELSE "close")
  BY DEF SendNothing, After, Goto, Quiet, reader, socket
<1>2. /\ Modes /\ Numbers /\ Texts /\ Queued /\ Underway /\ Owes
      /\ LoopInv /\ ReaderInv /\ EventInv /\ Survives
  BY ReadParts
<1>10. Modes'
  BY <1>1, <1>2 DEF Modes
<1>11. Numbers'
  BY <1>1, <1>2 DEF Numbers
<1>12. Texts'
  BY <1>1, <1>2 DEF Texts
<1>13. Queued'
  BY <1>1, <1>2 DEF Queued
<1>14. Underway'
  BY <1>1, <1>2 DEF Underway
<1>15. Owes'
  BY <1>1, <1>2, SameOwes
<1>16. LoopInv'
  BY <1>1, <1>2 DEF LoopInv
<1>17. ReaderInv'
  BY <1>1, <1>2, SameReader
<1>18. EventInv'
  BY <1>1, <1>2, SameEvent
<1>19. Survives'
  BY <1>1, <1>2 DEF Survives
<1> QED BY <1>10, <1>11, <1>12, <1>13, <1>14, <1>15, <1>16, <1>17, <1>18, <1>19, ReadNext

LEMMA CloseRead == ASSUME ReadInv, Close PROVE ReadInv'
<1>1. /\ ctype' = ctype /\ quit' = quit /\ line' = line /\ ch' = ch /\ garbled' = garbled /\ idle' = idle
      /\ queue' = queue /\ event' = event /\ owed' = owed /\ chars' = chars /\ stalls' = stalls /\ faults' = faults
      /\ pc = "close" /\ pc' \in {"ended", "connect"} /\ peer' = "closed" /\ said' = <<>> /\ read' = 0
  BY DEF Close, Goto, Quiet, reader
<1>2. /\ Modes /\ Numbers /\ Texts /\ Queued /\ Underway /\ Owes
      /\ LoopInv /\ ReaderInv /\ EventInv /\ Survives
  BY ReadParts
<1>10. Modes'
  BY <1>1, <1>2 DEF Modes
<1>11. Numbers'
  BY <1>1, <1>2 DEF Numbers
<1>12. Texts'
  BY <1>1, <1>2 DEF Texts
<1>13. Queued'
  BY <1>1, <1>2 DEF Queued
<1>14. Underway'
  BY <1>1, <1>2, EmptySeq DEF Underway
<1>15. Owes'
  BY <1>1, <1>2, SameOwes
<1>16. LoopInv'
  BY <1>1, <1>2 DEF LoopInv
<1>17. ReaderInv'
  BY <1>1, <1>2, SameReader
<1>18. EventInv'
  <2>1. 1 .. Len(<<>>) = {}
    OBVIOUS
  <2> QED BY <1>1, <1>2, <2>1 DEF EventInv, Arrived, Heard
<1>19. Survives'
  BY <1>1, <1>2 DEF Survives
<1> QED BY <1>10, <1>11, <1>12, <1>13, <1>14, <1>15, <1>16, <1>17, <1>18, <1>19, ReadNext

LEMMA TickRead == ASSUME ReadInv, Tick PROVE ReadInv'
<1>1. /\ ctype' = ctype /\ pc' = pc /\ quit' = quit /\ line' = line /\ ch' = ch /\ garbled' = garbled
      /\ queue' = queue /\ peer' = peer /\ said' = said /\ read' = read /\ event' = event /\ owed' = owed
      /\ chars' = chars /\ stalls' = stalls /\ faults' = faults
      /\ pc \in {"select", "wait"} /\ idle <= PingAfter /\ idle' = idle + 1
  BY DEF Tick, Quiet, reader, socket
<1>2. /\ Modes /\ Numbers /\ Texts /\ Queued /\ Underway /\ Owes
      /\ LoopInv /\ ReaderInv /\ EventInv /\ Survives
  BY ReadParts
<1>10. Modes'
  BY <1>1, <1>2 DEF Modes
<1>11. Numbers'
  <2>1. read' = read /\ chars' = chars /\ stalls' = stalls /\ faults' = faults
    BY <1>1
  <2>2. idle <= PingAfter /\ idle' = idle + 1
    BY <1>1
  <2> QED BY <1>2, <2>1, <2>2, ClientAssumption DEF Numbers
<1>12. Texts'
  BY <1>1, <1>2 DEF Texts
<1>13. Queued'
  BY <1>1, <1>2 DEF Queued
<1>14. Underway'
  BY <1>1, <1>2 DEF Underway
<1>15. Owes'
  BY <1>1, <1>2, SameOwes
<1>16. LoopInv'
  BY <1>1, <1>2 DEF LoopInv
<1>17. ReaderInv'
  BY <1>1, <1>2 DEF ReaderInv
<1>18. EventInv'
  BY <1>1, <1>2, SameEvent
<1>19. Survives'
  BY <1>1, <1>2 DEF Survives
<1> QED BY <1>10, <1>11, <1>12, <1>13, <1>14, <1>15, <1>16, <1>17, <1>18, <1>19, ReadNext

LEMMA StutterRead == ASSUME ReadInv, UNCHANGED vars PROVE ReadInv'
<1>1. /\ ctype' = ctype /\ pc' = pc /\ quit' = quit /\ line' = line /\ ch' = ch /\ garbled' = garbled
      /\ idle' = idle /\ queue' = queue /\ peer' = peer /\ said' = said /\ read' = read /\ event' = event
      /\ owed' = owed /\ chars' = chars /\ stalls' = stalls /\ faults' = faults
  BY DEF vars, reader, socket, bounds
<1>2. /\ Modes /\ Numbers /\ Texts /\ Queued /\ Underway /\ Owes
      /\ LoopInv /\ ReaderInv /\ EventInv /\ Survives
  BY ReadParts
<1>10. Modes'
  BY <1>1, <1>2 DEF Modes
<1>11. Numbers'
  BY <1>1, <1>2 DEF Numbers
<1>12. Texts'
  BY <1>1, <1>2 DEF Texts
<1>13. Queued'
  BY <1>1, <1>2 DEF Queued
<1>14. Underway'
  BY <1>1, <1>2 DEF Underway
<1>15. Owes'
  BY <1>1, <1>2, SameOwes
<1>16. LoopInv'
  BY <1>1, <1>2 DEF LoopInv
<1>17. ReaderInv'
  BY <1>1, <1>2 DEF ReaderInv
<1>18. EventInv'
  BY <1>1, <1>2, SameEvent
<1>19. Survives'
  BY <1>1, <1>2 DEF Survives
<1> QED BY <1>10, <1>11, <1>12, <1>13, <1>14, <1>15, <1>16, <1>17, <1>18, <1>19, ReadNext

LEMMA NextRead == ReadInv /\ [Next]_vars => ReadInv'
<1> SUFFICES ASSUME ReadInv, [Next]_vars PROVE ReadInv'
  OBVIOUS
<1>1. CASE Connect
  BY <1>1, ConnectRead
<1>2. CASE ConnectFails
  BY <1>2, ConnectFailsRead
<1>3. CASE Ready
  BY <1>3, ReadyRead
<1>4. CASE Timeout
  BY <1>4, TimeoutRead
<1>5. CASE RecvChar
  BY <1>5, RecvCharRead
<1>6. CASE RecvEnd
  BY <1>6, RecvEndRead
<1>7. CASE Stall
  BY <1>7, StallRead
<1>8. CASE Resume
  BY <1>8, ResumeRead
<1>9. CASE ReadEnd
  BY <1>9, ReadEndRead
<1>10. CASE ReadError
  BY <1>10, ReadErrorRead
<1>11. CASE Handle
  BY <1>11, HandleRead
<1>12. CASE Nothing
  BY <1>12, NothingRead
<1>13. CASE Timer
  BY <1>13, TimerRead
<1>14. CASE SendFirst
  BY <1>14, SendFirstRead
<1>15. CASE SendNothing
  BY <1>15, SendNothingRead
<1>16. CASE Close
  BY <1>16, CloseRead
<1>17. CASE Say
  BY <1>17, SayRead
<1>18. CASE Leave
  BY <1>18, LeaveRead
<1>19. CASE Tick
  BY <1>19, TickRead
<1>20. CASE UNCHANGED vars
  BY <1>20, StutterRead
<1> QED BY <1>1, <1>2, <1>3, <1>4, <1>5, <1>6, <1>7, <1>8, <1>9, <1>10, <1>11, <1>12, <1>13, <1>14, <1>15, <1>16, <1>17, <1>18, <1>19, <1>20 DEF Next, Client

(***************************************************************************)
(* What is taken from a line                                               *)
(***************************************************************************)
LEMMA FieldsIs ==
  ASSUME NEW l
  PROVE  LET p == Param(l)
             behind1 == Rest(BLANK)[p]
             behind2 == Rest(BLANK)[behind1]
             text == CtcpText(Past(behind1))
         IN /\ Type(l) \in {"PRIVMSG", "NOTICE", "PART", "TOPIC", "PONG", "INVITE"} =>
                 Fields(l) = Are(Type(l), Word(BLANK)[p], Past(behind1), <<>>)
            /\ Type(l) = "CTCP" => Fields(l) = Are("CTCP", Word(BLANK)[p], Word(BLANK)[text], Rest(BLANK)[text])
            /\ Type(l) \in {"NUMERIC", "KILL"} => Fields(l) = Are(Type(l), Word(BLANK)[p], behind1, <<>>)
            /\ Type(l) = "JOIN" => Fields(l) = Are("JOIN", Past(Word(BLANK)[p]), <<>>, <<>>)
            /\ Type(l) \in {"NICK", "QUIT"} => Fields(l) = Are(Type(l), <<>>, Past(Word(BLANK)[p]), <<>>)
            /\ Type(l) = "KICK" => Fields(l) = Are("KICK", Word(BLANK)[p], Word(BLANK)[behind1], Past(behind2))
            /\ Type(l) = "MODE" => Fields(l) = Are("MODE", Word(BLANK)[p], Word(BLANK)[behind1], behind2)
            /\ Type(l) = "PING" => Fields(l) = Are("PING", <<>>, Past(p), <<>>)
            /\ Type(l) = "ERROR" => Fields(l) = Are("ERROR", <<>>, p, <<>>)
            /\ Type(l) = "UNKNOWN" => Fields(l) = Are("UNKNOWN", <<>>, <<>>, <<>>)
BY DEF Fields

LEMMA SaysOfNobody ==
  ASSUME NEW msg \in Messages, msg.from = "nobody"
  PROVE  /\ msg.cmd = <<"PING">> => Says(msg) = Are("PING", <<>>, Past(msg.rest), <<>>)
         /\ msg.cmd = <<"ERROR">> => Says(msg) = Are("ERROR", <<>>, msg.rest, <<>>)
         /\ msg.cmd \notin {<<"PING">>, <<"ERROR">>} => Says(msg) = Are("UNKNOWN", <<>>, <<>>, <<>>)
<1>1. <<"PING">> # <<"ERROR">> /\ <<"PING">>[1] = "PING" /\ <<"ERROR">>[1] = "ERROR"
  OBVIOUS
<1>2. CASE msg.cmd = <<"PING">>
  BY <1>1, <1>2 DEF Says
<1>3. CASE msg.cmd = <<"ERROR">>
  BY <1>1, <1>3 DEF Says
<1>4. CASE msg.cmd \notin {<<"PING">>, <<"ERROR">>}
  BY <1>4 DEF Says
<1> QED BY <1>1, <1>2, <1>3, <1>4

LEMMA SaysOfNumeric ==
  ASSUME NEW msg \in Messages, msg.from \in {"server", "user"}, msg.cmd[1] \in Digits
  PROVE  Says(msg) = Are("NUMERIC", msg.words[1], Further(msg), <<>>)
<1>1. msg.cmd[1] \notin UserCommands /\ msg.from # "nobody"
  BY NamesAre
<1> QED BY <1>1 DEF Says

Known(msg) == Len(msg.cmd) = 1 /\ msg.cmd[1] \in UserCommands

LEMMA SaysOfUnknown ==
  ASSUME NEW msg \in Messages, msg.from \in {"server", "user"}, msg.cmd[1] \notin Digits, ~Known(msg)
  PROVE  Says(msg) = Are("UNKNOWN", <<>>, <<>>, <<>>)
BY DEF Says, Known

LEMMA SaysOfUser ==
  ASSUME NEW msg \in Messages, msg.from \in {"server", "user"}, Known(msg)
  PROVE  LET name == msg.cmd[1]
             w == msg.words
             text == Past(msg.rest)
             inside == SubSeq(msg.rest, 3, Len(msg.rest) - 1)
         IN /\ name = "PRIVMSG" /\ Begins(text, CTCP) =>
                 Says(msg) = Are("CTCP", w[1], Word(BLANK)[inside], Rest(BLANK)[inside])
            /\ name = "PRIVMSG" /\ ~Begins(text, CTCP) => Says(msg) = Are(name, w[1], text, <<>>)
            /\ name \in {"NOTICE", "PART", "TOPIC", "PONG", "INVITE"} =>
                 Says(msg) = Are(name, w[1], text, <<>>)
            /\ name = "KILL" => Says(msg) = Are(name, w[1], Further(msg), <<>>)
            /\ name = "JOIN" => Says(msg) = Are(name, text, <<>>, <<>>)
            /\ name = "NICK" => Says(msg) = Are(name, <<>>, text, <<>>)
            /\ name = "QUIT" => Says(msg) = Are(name, <<>>, Past(Word(BLANK)[msg.rest]), <<>>)
            /\ name = "KICK" => Says(msg) = Are(name, w[1], w[2], text)
            /\ name = "MODE" => Says(msg) = Are(name, w[1], w[2], msg.rest)
<1> DEFINE name == msg.cmd[1]
           w == msg.words
           text == Past(msg.rest)
           inside == SubSeq(msg.rest, 3, Len(msg.rest) - 1)
<1>1. name \notin Digits /\ name \in UserCommands /\ Len(msg.cmd) = 1 /\ msg.from # "nobody"
  BY NamesAre DEF Known
<1>2. Says(msg) =
        CASE name = "PRIVMSG" /\ Begins(text, CTCP) ->
                                Are("CTCP", w[1], Word(BLANK)[inside], Rest(BLANK)[inside])
          [] name = "KILL"   -> Are(name, w[1], Further(msg), <<>>)
          [] name = "JOIN"   -> Are(name, text, <<>>, <<>>)
          [] name = "NICK"   -> Are(name, <<>>, text, <<>>)
          [] name = "QUIT"   -> Are(name, <<>>, Past(Word(BLANK)[msg.rest]), <<>>)
          [] name = "KICK"   -> Are(name, w[1], w[2], text)
          [] name = "MODE"   -> Are(name, w[1], w[2], msg.rest)
          [] OTHER           -> Are(name, w[1], text, <<>>)
  BY <1>1 DEF Says
<1> HIDE DEF name, w, text, inside
<1> SUFFICES
      /\ name = "PRIVMSG" /\ Begins(text, CTCP) =>
           Says(msg) = Are("CTCP", w[1], Word(BLANK)[inside], Rest(BLANK)[inside])
      /\ name = "PRIVMSG" /\ ~Begins(text, CTCP) => Says(msg) = Are(name, w[1], text, <<>>)
      /\ name \in {"NOTICE", "PART", "TOPIC", "PONG", "INVITE"} =>
           Says(msg) = Are(name, w[1], text, <<>>)
      /\ name = "KILL" => Says(msg) = Are(name, w[1], Further(msg), <<>>)
      /\ name = "JOIN" => Says(msg) = Are(name, text, <<>>, <<>>)
      /\ name = "NICK" => Says(msg) = Are(name, <<>>, text, <<>>)
      /\ name = "QUIT" => Says(msg) = Are(name, <<>>, Past(Word(BLANK)[msg.rest]), <<>>)
      /\ name = "KICK" => Says(msg) = Are(name, w[1], w[2], text)
      /\ name = "MODE" => Says(msg) = Are(name, w[1], w[2], msg.rest)
  BY DEF name, w, text, inside
<1> QED BY <1>2

LEMMA TailSecond ==
  ASSUME NEW s \in Seq(Chars), s # <<>>
  PROVE  /\ Tail(s) # <<>> <=> Len(s) >= 2
         /\ Len(s) >= 2 => Tail(s)[1] = s[2]
<1>1. Tail(s) \in Seq(Chars) /\ Len(Tail(s)) = Len(s) - 1
      /\ \A i \in 1 .. Len(Tail(s)) : Tail(s)[i] = s[i + 1]
  BY HeadTailProperties
<1>2. PICK n \in Nat : n = Len(s) /\ n # 0
  OBVIOUS
<1>3. Tail(s) # <<>> <=> Len(Tail(s)) # 0
  BY <1>1, EmptySeq
<1>4. n - 1 # 0 <=> n >= 2
  BY <1>2
<1>5. ASSUME n >= 2 PROVE Tail(s)[1] = s[2]
  <2>1. 1 \in 1 .. n - 1 /\ 1 + 1 = 2
    BY <1>5
  <2> QED BY <1>1, <1>2, <2>1
<1> QED BY <1>1, <1>2, <1>3, <1>4, <1>5

\* A line some characters of which have been read twice.
LEMMA GarbledTaken ==
  ASSUME NEW msg \in Messages, msg.from # "dcc", NEW l \in Seq(Chars), Repeats(l, Line(msg))
  PROVE  Type(l) \in {Says(msg).type, "UNKNOWN"}
                       \cup (IF Says(msg).type = "CTCP" THEN {"PRIVMSG"} ELSE {})
<1>1. CommandOf(l, msg)
  BY CommandThere
<1>2. \A type, target, param, param2 : Are(type, target, param, param2).type = type
  BY DEF Are
<1>3. CASE msg.from = "nobody"
  <2>1. Type(l) = "UNKNOWN" \/ (Type(l) = msg.cmd[1] /\ msg.cmd \in {<<"PING">>, <<"ERROR">>})
    BY <1>1, <1>3, TypeOfNobody
  <2>2. <<"PING">>[1] = "PING" /\ <<"ERROR">>[1] = "ERROR"
    OBVIOUS
  <2>3. msg.cmd \in {<<"PING">>, <<"ERROR">>} => Says(msg).type = msg.cmd[1]
    BY <1>2, <1>3, <2>2, SaysOfNobody
  <2> QED BY <2>1, <2>3
<1>4. CASE msg.from \in {"server", "user"} /\ msg.cmd[1] \in Digits
  <2>1. Type(l) = "NUMERIC"
    BY <1>1, <1>4, TypeOfUser
  <2>2. Says(msg).type = "NUMERIC"
    BY <1>2, <1>4, SaysOfNumeric
  <2> QED BY <2>1, <2>2
<1>5. CASE msg.from \in {"server", "user"} /\ msg.cmd[1] \notin Digits
  <2>1. SUFFICES ASSUME Type(l) # "UNKNOWN"
                 PROVE  \/ Says(msg).type = Type(l)
                        \/ Says(msg).type = "CTCP" /\ Type(l) = "PRIVMSG"
    OBVIOUS
  <2>2. /\ Known(msg)
        /\ \/ Type(l) = msg.cmd[1]
           \/ Type(l) = "CTCP" /\ msg.cmd[1] = "PRIVMSG" /\ Begins(Trailing(l), CTCP)
    BY <1>1, <1>5, <2>1, TypeOfUser DEF Known
  <2>3. CASE msg.cmd[1] # "PRIVMSG"
    <3>1. msg.cmd[1] \in UserCommands
      BY <2>2 DEF Known
    <3>2. Says(msg).type = msg.cmd[1]
      BY <1>2, <1>5, <2>2, <2>3, <3>1, SaysOfUser DEF UserCommands
    <3> QED BY <2>2, <2>3, <3>2
  <2>4. CASE msg.cmd[1] = "PRIVMSG" /\ Begins(Past(msg.rest), CTCP)
    <3>1. Says(msg).type = "CTCP"
      BY <1>2, <1>5, <2>2, <2>4, SaysOfUser
    <3> QED BY <2>2, <2>4, <3>1
  <2>5. CASE msg.cmd[1] = "PRIVMSG" /\ ~Begins(Past(msg.rest), CTCP)
    <3>1. Says(msg).type = "PRIVMSG"
      BY <1>2, <1>5, <2>2, <2>5, SaysOfUser
    <3>2. ~Begins(Trailing(l), CTCP)
      <4>1. SUFFICES ASSUME Begins(Trailing(l), CTCP) PROVE FALSE
        OBVIOUS
      <4>2. Len(msg.words) = 1 /\ Begins(msg.rest, COLON)
        <5>1. PICK c \in Seq(Chars) : c = msg.cmd
          BY MessageParts
        <5>2. c = <<c[1]>>
          BY <2>2, <5>1 DEF Known
        <5>3. Named(msg, {"PRIVMSG", "NOTICE", "TOPIC", "PONG", "INVITE"})
          BY <2>5, <5>1, <5>2 DEF Named
        <5>4. ParamsOK(msg)
          BY <1>5, MessageParts DEF MessageOK
        <5> QED BY <5>3, <5>4 DEF ParamsOK
      <4>3. PICK q \in Seq(Chars) : q = Rest(BLANK)[Param(l)]
        BY <1>1, <1>5, <4>2, TextThere
      <4>4. PICK r \in Seq(Chars) : r = msg.rest
        BY MessageParts
      <4>5. q # <<>> /\ Loosely(q, r) /\ r # <<>> /\ r[1] = COLON
        BY <1>1, <1>5, <4>2, <4>3, <4>4, TextThere DEF Begins
      <4>6. Len(q) >= 2 /\ q[2] = CTCP
        <5>1. Trailing(l) = Tail(q)
          BY <4>3, <4>5 DEF Trailing, Past
        <5>2. Tail(q) # <<>> /\ Tail(q)[1] = CTCP
          BY <4>1, <5>1 DEF Begins
        <5> QED BY <4>5, <5>2, TailSecond
      <4>7. Len(r) >= 2 /\ r[2] = CTCP
        BY <4>5, <4>6, CharsThere, CharsDiffer, LooselySecond
      <4>8. Tail(r) # <<>> /\ Tail(r)[1] = r[2]
        BY <4>5, <4>7, TailSecond
      <4> QED BY <2>5, <4>4, <4>5, <4>7, <4>8 DEF Begins, Past
    <3> QED BY <2>2, <2>5, <3>1, <3>2
  <2> QED BY <2>3, <2>4, <2>5
<1>6. msg.from \in {"server", "user", "nobody"}
  BY MessageParts
<1> QED BY <1>3, <1>4, <1>5, <1>6

\* A line that has been read as it was said.
LEMMA WholeCommand ==
  ASSUME NEW msg \in Messages, msg.from # "dcc"
  PROVE  /\ Prefixed(Line(msg)) <=> msg.from \in {"server", "user"}
         /\ Command(Line(msg)) = msg.cmd /\ Param(Line(msg)) = Params(msg)
         /\ Prefixed(Line(msg)) => Word(BLANK)[Line(msg)] = <<COLON>> \o Source(msg.ident)
<1>1. CommandOf(Line(msg), msg)
  BY CommandThere, LineType, RepeatsItself
<1>2. PICK w \in Seq(Chars), p \in Seq(Chars), r \in Seq(Chars) :
        w = msg.cmd /\ p = Params(msg) /\ r = Joined(w, BLANK, p)
  BY CommandWord
<1>3. w # <<>> /\ Without(w, BLANK)
  BY <1>2, CommandWord
<1>4. Word(BLANK)[r] = w /\ Rest(BLANK)[r] = p
  BY <1>2, <1>3, CharsThere, WholeWord
<1>5. Prefixed(Line(msg)) <=> msg.from \in {"server", "user"}
  BY <1>1 DEF CommandOf
<1>6. CASE msg.from \in {"server", "user"}
  <2>1. PICK s \in Seq(Chars) : s = <<COLON>> \o Source(msg.ident)
    BY <1>6, SourceWord
  <2>2. s # <<>> /\ Without(s, BLANK)
    BY <1>6, <2>1, SourceWord DEF IsWord
  <2>3. Line(msg) = Joined(s, BLANK, r)
    BY <1>2, <1>6, <2>1, LineIs
  <2>4. Word(BLANK)[Joined(s, BLANK, r)] = s /\ Rest(BLANK)[Joined(s, BLANK, r)] = r
    BY <2>2, CharsThere, WholeWord
  <2>5. Behind(Line(msg)) = r
    BY <1>5, <1>6, <2>3, <2>4 DEF Behind
  <2> QED BY <1>2, <1>4, <1>5, <2>1, <2>3, <2>4, <2>5 DEF Command, Param
<1>7. CASE msg.from = "nobody"
  <2>1. Behind(Line(msg)) = r
    BY <1>2, <1>5, <1>7, LineIs DEF Behind
  <2> QED BY <1>2, <1>4, <1>5, <1>7, <2>1 DEF Command, Param
<1>8. msg.from \in {"server", "user", "nobody"}
  BY MessageParts
<1> QED BY <1>6, <1>7, <1>8

LEMMA WholeIdent ==
  ASSUME NEW msg \in Messages, msg.from # "dcc"
  PROVE  Ident(Line(msg)) = Speaker(msg)
<1>1. BLANK \in Chars /\ BANG \in Chars /\ AT \in Chars
  BY CharsThere
<1>2. CASE msg.from = "nobody"
  <2>1. ~Prefixed(Line(msg))
    BY <1>2, WholeCommand
  <2> QED BY <1>1, <1>2, <2>1, WholeNothing DEF Ident, Speaker
<1>3. CASE msg.from \in {"server", "user"}
  <2>1. PICK s \in Seq(Chars) : s = Source(msg.ident)
    BY SourceType
  <2>2. PICK nick \in Seq(Chars), user \in Seq(Chars), host \in Seq(Chars) :
          nick = msg.ident.nick /\ user = msg.ident.user /\ host = msg.ident.host
    BY MessageParts
  <2>3. IdentOK(msg.ident)
    BY <1>3, MessageParts DEF MessageOK
  <2>4. /\ nick # <<>> /\ Without(nick, BANG) /\ Without(user, AT)
        /\ (host # <<>> => user # <<>>)
    BY <2>2, <2>3 DEF IdentOK, IsWord
  <2>5. PICK b \in Seq(Chars) : b = Joined(user, AT, host)
    BY <1>1, JoinedType
  <2>6. s = Joined(nick, BANG, b)
    BY <2>1, <2>2, <2>5 DEF Source
  <2>7. Word(BANG)[s] = nick /\ Rest(BANG)[s] = b
    BY <1>1, <2>4, <2>6, WholeWord
  <2>8. Word(AT)[b] = user /\ Rest(AT)[b] = host
    <3>1. CASE user # <<>>
      BY <1>1, <2>4, <2>5, <3>1, WholeWord
    <3>2. CASE user = <<>>
      <4>1. host = <<>> /\ b = <<>>
        BY <2>4, <2>5, <3>2 DEF Joined
      <4> QED BY <1>1, <3>2, <4>1, WholeNothing
    <3> QED BY <3>1, <3>2
  <2>9. Prefixed(Line(msg)) /\ Past(Word(BLANK)[Line(msg)]) = s
    <3>1. Prefixed(Line(msg)) /\ Word(BLANK)[Line(msg)] = <<COLON>> \o Source(msg.ident)
      BY <1>3, WholeCommand
    <3>2. <<COLON>> \o Source(msg.ident) # <<>> /\ Tail(<<COLON>> \o Source(msg.ident)) = s
      BY <1>3, <2>1, SourceWord DEF IsWord
    <3> QED BY <3>1, <3>2 DEF Past
  <2>10. Ident(Line(msg)) = [nick |-> nick, user |-> user, host |-> host]
    BY <2>7, <2>8, <2>9 DEF Ident
  <2>11. msg.ident = [nick |-> nick, user |-> user, host |-> host]
    BY <2>2, MessageParts
  <2> QED BY <1>3, <2>10, <2>11 DEF Speaker
<1>4. msg.from \in {"server", "user", "nobody"}
  BY MessageParts
<1> QED BY <1>2, <1>3, <1>4

LEMMA WholeParams ==
  ASSUME NEW msg \in Messages, msg.from # "dcc"
  PROVE  /\ Len(msg.words) = 0 => Params(msg) = msg.rest
         /\ Len(msg.words) >= 1 =>
              Word(BLANK)[Params(msg)] = msg.words[1] /\ Rest(BLANK)[Params(msg)] = Further(msg)
         /\ Len(msg.words) = 1 => Further(msg) = msg.rest
         /\ Len(msg.words) = 2 =>
              Word(BLANK)[Further(msg)] = msg.words[2] /\ Rest(BLANK)[Further(msg)] = msg.rest
<1>1. msg.words \in Seq(Seq(Chars)) /\ msg.rest \in Seq(Chars) /\ Further(msg) \in Seq(Chars) /\ BLANK \in Chars
  BY MessageParts, ParamsType, CharsThere
<1>2. ASSUME NEW i \in 1 .. Len(msg.words)
      PROVE  msg.words[i] \in Seq(Chars) /\ msg.words[i] # <<>> /\ Without(msg.words[i], BLANK)
  <2>1. IsWord(msg.words[i])
    BY MessageParts DEF MessageOK
  <2> QED BY <1>1, <2>1, ElementOfSeq DEF IsWord
<1>3. Len(msg.words) = 0 => Params(msg) = msg.rest
  BY <1>1 DEF Params
<1>4. ASSUME Len(msg.words) >= 1
      PROVE  Word(BLANK)[Params(msg)] = msg.words[1] /\ Rest(BLANK)[Params(msg)] = Further(msg)
  <2>1. 1 \in 1 .. Len(msg.words) /\ msg.words # <<>>
    BY <1>1, <1>4
  <2>2. PICK w \in Seq(Chars), r \in Seq(Chars) : w = msg.words[1] /\ r = Further(msg)
    BY <1>1, <1>2, <2>1
  <2>3. w # <<>> /\ Without(w, BLANK)
    BY <1>2, <2>1, <2>2
  <2>4. Params(msg) = Joined(w, BLANK, r)
    BY <2>1, <2>2 DEF Params
  <2> QED BY <1>1, <2>2, <2>3, <2>4, WholeWord
<1>5. Len(msg.words) = 1 => Further(msg) = msg.rest
  BY DEF Further
<1>6. ASSUME Len(msg.words) = 2
      PROVE  Word(BLANK)[Further(msg)] = msg.words[2] /\ Rest(BLANK)[Further(msg)] = msg.rest
  <2>1. 2 \in 1 .. Len(msg.words)
    BY <1>6
  <2>2. PICK w \in Seq(Chars), r \in Seq(Chars) : w = msg.words[2] /\ r = msg.rest
    BY <1>1, <1>2, <2>1
  <2>3. w # <<>> /\ Without(w, BLANK)
    BY <1>2, <2>1, <2>2
  <2>4. Further(msg) = Joined(w, BLANK, r)
    BY <1>6, <2>2 DEF Further
  <2> QED BY <1>1, <2>2, <2>3, <2>4, WholeWord
<1> QED BY <1>3, <1>4, <1>5, <1>6

\* s without k + 1 characters in front and the last one.
IsInside(u, s, k, n) ==
  /\ u \in Seq(Chars) /\ Len(u) = n - 2
  /\ \A i \in 1 .. n - 2 : u[i] = s[k + 1 + i]

LEMMA SubSeqIs ==
  ASSUME NEW s \in Seq(Chars), NEW k \in Nat, NEW n \in Nat, n >= 2, Len(s) = n + k
  PROVE  IsInside(SubSeq(s, k + 2, n + k - 1), s, k, n)
<1>1. PICK a \in Nat, b \in Nat : a = k + 2 /\ b = n + k - 1
  OBVIOUS
<1>2. a >= 1 /\ b <= Len(s) /\ b - a + 1 = n - 2 /\ a <= b + 1
  BY <1>1
<1>3. SubSeq(s, a, b) \in Seq(Chars)
  BY <1>1, <1>2
<1>4. Len(SubSeq(s, a, b)) = n - 2
  BY <1>1, <1>2
<1>5. \A i \in 1 .. n - 2 : SubSeq(s, a, b)[i] = s[a + i - 1] /\ a + i - 1 = k + 1 + i
  BY <1>1, <1>2, <1>4
<1> QED BY <1>1, <1>3, <1>4, <1>5 DEF IsInside

\* What is between the two 001.
LEMMA CtcpInside ==
  ASSUME NEW r \in Seq(Chars), Begins(Past(r), CTCP), Len(r) > 2, r[Len(r)] = CTCP
  PROVE  CtcpText(Past(r)) = SubSeq(r, 3, Len(r) - 1)
<1>0. r # <<>>
  OBVIOUS
<1>a. /\ Tail(r) \in Seq(Chars) /\ Len(Tail(r)) = Len(r) - 1
      /\ \A i \in 1 .. Len(Tail(r)) : Tail(r)[i] = r[i + 1]
  BY <1>0, HeadTailProperties
<1>1. PICK s \in Seq(Chars) : s = Past(r) /\ s = Tail(r)
  BY <1>0, <1>a DEF Past
<1>2. PICK n \in Nat : n = Len(s) /\ n = Len(r) - 1 /\ n >= 2
  <2>1. Len(s) \in Nat /\ Len(r) \in Nat /\ Len(s) = Len(r) - 1
    BY <1>1, <1>a, LenProperties
  <2> QED BY <2>1
<1>3. \A i \in 1 .. n : s[i] = r[i + 1]
  BY <1>1, <1>2, <1>a
<1> DEFINE ends == {i \in 2 .. Len(s) : s[i] = CTCP}
<1>4. n \in ends /\ \A j \in ends : j <= n /\ j \in Nat
  <2>1. n \in 1 .. n /\ n + 1 = Len(r)
    BY <1>2
  <2>2. s[n] = CTCP
    BY <1>3, <2>1
  <2> QED BY <1>2, <2>2
<1>5. (CHOOSE i \in ends : \A j \in ends : j <= i) = n
  <2> HIDE DEF ends
  <2>1. \E i \in ends : \A j \in ends : j <= i
    BY <1>4
  <2>2. PICK k \in ends : k = (CHOOSE i \in ends : \A j \in ends : j <= i) /\ \A j \in ends : j <= k
    BY <2>1
  <2>3. k <= n /\ n <= k /\ k \in Nat
    BY <1>4, <2>2
  <2>4. k = n
    BY <2>3
  <2> QED BY <2>2, <2>4
<1>6. ends # {}
  BY <1>4
<1> HIDE DEF ends
<1>7. CtcpText(s) = SubSeq(s, 2, n - 1)
  BY <1>5, <1>6 DEF CtcpText, ends
<1>8. SubSeq(s, 2, n - 1) = SubSeq(r, 3, n)
  <2> DEFINE a == SubSeq(s, 2, n - 1)
             b == SubSeq(r, 3, n)
  <2>1. a \in Seq(Chars) /\ Len(a) = n - 2 /\ \A i \in 1 .. n - 2 : a[i] = s[i + 1]
    <3>1. Len(s) = n + 0 /\ 0 + 2 = 2 /\ n + 0 - 1 = n - 1 /\ \A i \in 1 .. n - 2 : 0 + 1 + i = i + 1
      BY <1>2
    <3>2. IsInside(SubSeq(s, 0 + 2, n + 0 - 1), s, 0, n)
      BY <1>2, <3>1, SubSeqIs
    <3>3. IsInside(a, s, 0, n)
      BY <3>1, <3>2
    <3> QED BY <3>1, <3>3 DEF IsInside
  <2>2. b \in Seq(Chars) /\ Len(b) = n - 2 /\ \A i \in 1 .. n - 2 : b[i] = r[i + 2]
    <3>1. Len(r) \in Nat
      BY LenProperties
    <3>2. Len(r) = n + 1 /\ 1 + 2 = 3 /\ n + 1 - 1 = n /\ \A i \in 1 .. n - 2 : 1 + 1 + i = i + 2
      BY <1>2, <3>1
    <3>3. IsInside(SubSeq(r, 1 + 2, n + 1 - 1), r, 1, n)
      BY <1>2, <3>2, SubSeqIs
    <3>4. IsInside(b, r, 1, n)
      BY <3>2, <3>3
    <3> QED BY <3>2, <3>4 DEF IsInside
  <2>3. \A i \in 1 .. n - 2 : s[i + 1] = r[i + 2]
    <3>1. SUFFICES ASSUME NEW i \in 1 .. n - 2 PROVE s[i + 1] = r[i + 2]
      OBVIOUS
    <3>2. PICK j \in 1 .. n : j = i + 1
      BY <1>2
    <3>3. j + 1 = i + 2
      BY <3>2
    <3> QED BY <1>3, <3>2, <3>3
  <2>4. Len(a) = Len(b) /\ \A i \in 1 .. Len(a) : a[i] = b[i]
    <3> HIDE DEF a, b
    <3> QED BY <2>1, <2>2, <2>3
  <2> HIDE DEF a, b
  <2>5. a = b
    BY <2>1, <2>2, <2>4, SeqEqual
  <2> QED BY <2>5 DEF a, b
<1> QED BY <1>1, <1>2, <1>7, <1>8

LEMMA FieldsOfNobody ==
  ASSUME NEW msg \in Messages, msg.from = "nobody"
  PROVE  Fields(Line(msg)) = Says(msg)
<1>1. ~Prefixed(Line(msg)) /\ Command(Line(msg)) = msg.cmd /\ Param(Line(msg)) = Params(msg)
  BY WholeCommand
<1>2. msg.cmd \in {<<"PING">>, <<"ERROR">>} => Params(msg) = msg.rest
  BY MessageParts DEF MessageOK, Params
<1>3. <<"PING">>[1] = "PING" /\ <<"ERROR">>[1] = "ERROR"
  OBVIOUS
<1>4. CASE msg.cmd = <<"PING">>
  <2>1. Type(Line(msg)) = "PING"
    BY <1>1, <1>3, <1>4 DEF Type
  <2>2. Fields(Line(msg)) = Are("PING", <<>>, Past(Params(msg)), <<>>)
    BY <1>1, <2>1, FieldsIs
  <2>3. Says(msg) = Are("PING", <<>>, Past(msg.rest), <<>>)
    BY <1>4, SaysOfNobody
  <2> QED BY <1>2, <1>4, <2>2, <2>3
<1>5. CASE msg.cmd = <<"ERROR">>
  <2>1. Type(Line(msg)) = "ERROR"
    BY <1>1, <1>3, <1>5 DEF Type
  <2>2. Fields(Line(msg)) = Are("ERROR", <<>>, Params(msg), <<>>)
    BY <1>1, <2>1, FieldsIs
  <2>3. Says(msg) = Are("ERROR", <<>>, msg.rest, <<>>)
    BY <1>5, SaysOfNobody
  <2> QED BY <1>2, <1>5, <2>2, <2>3
<1>6. CASE msg.cmd \notin {<<"PING">>, <<"ERROR">>}
  <2>1. Type(Line(msg)) = "UNKNOWN"
    BY <1>1, <1>6 DEF Type
  <2>2. Fields(Line(msg)) = Are("UNKNOWN", <<>>, <<>>, <<>>)
    BY <2>1, FieldsIs
  <2> QED BY <1>6, <2>2, SaysOfNobody
<1> QED BY <1>4, <1>5, <1>6

\* What a line of the server or of a user is taken for.
LEMMA WholeType ==
  ASSUME NEW msg \in Messages, msg.from \in {"server", "user"}
  PROVE  /\ msg.cmd[1] \in Digits => Type(Line(msg)) = "NUMERIC"
         /\ msg.cmd[1] \notin Digits /\ ~Known(msg) => Type(Line(msg)) = "UNKNOWN"
         /\ Known(msg) /\ msg.cmd[1] # "PRIVMSG" => Type(Line(msg)) = msg.cmd[1]
         /\ Known(msg) /\ msg.cmd[1] = "PRIVMSG" =>
              Type(Line(msg)) = IF Begins(Trailing(Line(msg)), CTCP) THEN "CTCP" ELSE "PRIVMSG"
<1>1. PICK c \in Seq(Chars) : c = msg.cmd /\ c # <<>>
  BY CommandWord
<1>2. Prefixed(Line(msg)) /\ Command(Line(msg)) = c
  BY <1>1, WholeCommand
<1>3. c = <<"PRIVMSG">> <=> Len(c) = 1 /\ c[1] = "PRIVMSG"
  OBVIOUS
<1>4. \A name \in UserCommands : name \notin Digits
  BY NamesAre
<1>5. "PRIVMSG" \in UserCommands
  BY NamesAre
<1>6. Type(Line(msg)) =
        CASE c # <<>> /\ c[1] \in Digits -> "NUMERIC"
          [] c = <<"PRIVMSG">> -> IF Begins(Trailing(Line(msg)), CTCP) THEN "CTCP" ELSE "PRIVMSG"
          [] OTHER -> IF Len(c) = 1 /\ c[1] \in UserCommands THEN c[1] ELSE "UNKNOWN"
  BY <1>2 DEF Type
<1>7. CASE c[1] \in Digits
  <2>1. Type(Line(msg)) = "NUMERIC"
    BY <1>1, <1>3, <1>4, <1>5, <1>6, <1>7
  <2> QED BY <1>1, <1>4, <1>7, <2>1 DEF Known
<1>8. CASE c[1] \notin Digits /\ ~Known(msg)
  <2>1. c # <<"PRIVMSG">> /\ ~(Len(c) = 1 /\ c[1] \in UserCommands)
    BY <1>1, <1>3, <1>5, <1>8 DEF Known
  <2>2. Type(Line(msg)) = "UNKNOWN"
    BY <1>6, <1>8, <2>1
  <2> QED BY <1>1, <1>8, <2>2
<1>9. CASE Known(msg) /\ c[1] # "PRIVMSG"
  <2>1. c # <<"PRIVMSG">> /\ Len(c) = 1 /\ c[1] \in UserCommands /\ c[1] \notin Digits
    BY <1>1, <1>3, <1>4, <1>9 DEF Known
  <2>2. Type(Line(msg)) = c[1]
    BY <1>6, <2>1
  <2> QED BY <1>1, <1>9, <2>1, <2>2
<1>10. CASE Known(msg) /\ c[1] = "PRIVMSG"
  <2>1. c = <<"PRIVMSG">> /\ c[1] \notin Digits
    BY <1>1, <1>3, <1>4, <1>5, <1>10 DEF Known
  <2>2. Type(Line(msg)) = IF Begins(Trailing(Line(msg)), CTCP) THEN "CTCP" ELSE "PRIVMSG"
    BY <1>6, <2>1
  <2> QED BY <1>1, <1>10, <2>1, <2>2
<1> QED BY <1>1, <1>7, <1>8, <1>9, <1>10

\* How many words a command has.
LEMMA WordsOf ==
  ASSUME NEW msg \in Messages, msg.from \in {"server", "user"}
  PROVE  /\ Len(msg.words) \in Nat /\ Len(msg.words) <= 2
         /\ msg.cmd[1] \in Digits => Len(msg.words) >= 1
         /\ Known(msg) =>
              /\ msg.cmd[1] = "KILL" => Len(msg.words) >= 1
              /\ msg.cmd[1] \in {"PRIVMSG", "NOTICE", "TOPIC", "PONG", "INVITE", "PART"} => Len(msg.words) = 1
              /\ msg.cmd[1] \in {"JOIN", "NICK"} => Len(msg.words) = 0 /\ IsWord(msg.rest)
              /\ msg.cmd[1] = "QUIT" => Len(msg.words) = 0
              /\ msg.cmd[1] \in {"KICK", "MODE"} => Len(msg.words) = 2
              /\ msg.cmd[1] = "PRIVMSG" /\ Begins(Past(msg.rest), CTCP) =>
                   Len(msg.rest) > 2 /\ msg.rest[Len(msg.rest)] = CTCP
<1>1. PICK n \in Nat : n = Len(msg.words) /\ n <= 2
  <2>1. msg.words \in Seq(Seq(Chars)) /\ Len(msg.words) <= 2
    BY MessageParts DEF MessageOK
  <2>2. Len(msg.words) \in Nat
    BY <2>1, LenProperties
  <2> QED BY <2>1, <2>2
<1>2. ParamsOK(msg)
  BY MessageParts DEF MessageOK
<1>3. msg.cmd[1] \in Digits => Len(msg.words) >= 1
  BY <1>2 DEF ParamsOK
<1>4. ASSUME Known(msg), NEW names, msg.cmd[1] \in names
      PROVE  Named(msg, names)
  <2>1. PICK c \in Seq(Chars) : c = msg.cmd
    BY MessageParts
  <2>2. Len(c) = 1
    BY <1>4, <2>1 DEF Known
  <2>3. c = <<c[1]>>
    BY <2>2
  <2> QED BY <1>4, <2>1, <2>3 DEF Named
<1>5. Known(msg) /\ msg.cmd[1] = "KILL" => Len(msg.words) >= 1
  <2>1. Known(msg) /\ msg.cmd[1] = "KILL" => Named(msg, {"KILL"})
    BY <1>4
  <2> QED BY <1>2, <2>1 DEF ParamsOK
<1>6. Known(msg) /\ msg.cmd[1] \in {"PRIVMSG", "NOTICE", "TOPIC", "PONG", "INVITE", "PART"} => Len(msg.words) = 1
  <2>1. Known(msg) /\ msg.cmd[1] \in {"PRIVMSG", "NOTICE", "TOPIC", "PONG", "INVITE"} =>
          Named(msg, {"PRIVMSG", "NOTICE", "TOPIC", "PONG", "INVITE"})
    BY <1>4
  <2>2. Known(msg) /\ msg.cmd[1] = "PART" => Named(msg, {"PART"})
    BY <1>4
  <2> QED BY <1>2, <2>1, <2>2 DEF ParamsOK
<1>7. Known(msg) /\ msg.cmd[1] \in {"JOIN", "NICK"} => Len(msg.words) = 0 /\ IsWord(msg.rest)
  <2>1. Known(msg) /\ msg.cmd[1] \in {"JOIN", "NICK"} => Named(msg, {"JOIN", "NICK"})
    BY <1>4
  <2> QED BY <1>2, <2>1 DEF ParamsOK
<1>8. Known(msg) /\ msg.cmd[1] = "QUIT" => Len(msg.words) = 0
  <2>1. Known(msg) /\ msg.cmd[1] = "QUIT" => Named(msg, {"QUIT"})
    BY <1>4
  <2> QED BY <1>2, <2>1 DEF ParamsOK
<1>9. Known(msg) /\ msg.cmd[1] \in {"KICK", "MODE"} => Len(msg.words) = 2
  <2>1. Known(msg) /\ msg.cmd[1] \in {"KICK", "MODE"} => Named(msg, {"KICK", "MODE"})
    BY <1>4
  <2> QED BY <1>2, <2>1 DEF ParamsOK
<1>10. Known(msg) /\ msg.cmd[1] = "PRIVMSG" /\ Begins(Past(msg.rest), CTCP) =>
         Len(msg.rest) > 2 /\ msg.rest[Len(msg.rest)] = CTCP
  <2>1. Known(msg) /\ msg.cmd[1] = "PRIVMSG" => Named(msg, {"PRIVMSG"})
    BY <1>4
  <2> QED BY <1>2, <2>1 DEF ParamsOK
<1> QED BY <1>1, <1>3, <1>5, <1>6, <1>7, <1>8, <1>9, <1>10

LEMMA FieldsOfUser ==
  ASSUME NEW msg \in Messages, msg.from \in {"server", "user"}
  PROVE  Fields(Line(msg)) = Says(msg)
<1> DEFINE l == Line(msg)
           count == Len(msg.words)
           behind1 == Rest(BLANK)[Param(l)]
           behind2 == Rest(BLANK)[behind1]
<1>0. Param(l) = Params(msg) /\ Trailing(l) = Past(behind1)
  BY WholeCommand DEF Trailing
<1>1. count \in Nat /\ count <= 2
  BY WordsOf
<1>2. count >= 1 => Word(BLANK)[Param(l)] = msg.words[1] /\ behind1 = Further(msg)
  BY <1>0, WholeParams
<1>3. count = 1 => behind1 = msg.rest
  BY <1>2, WholeParams
<1>4. count = 2 => Word(BLANK)[behind1] = msg.words[2] /\ behind2 = msg.rest
  BY <1>2, WholeParams
<1>5. count = 0 => Param(l) = msg.rest
  BY <1>0, WholeParams
<1>6. CASE msg.cmd[1] \in Digits
  <2>1. Type(l) = "NUMERIC" /\ count >= 1
    BY <1>6, WholeType, WordsOf
  <2>2. Fields(l) = Are("NUMERIC", Word(BLANK)[Param(l)], behind1, <<>>)
    BY <2>1, FieldsIs
  <2> QED BY <1>2, <1>6, <2>1, <2>2, SaysOfNumeric
<1>7. CASE msg.cmd[1] \notin Digits /\ ~Known(msg)
  <2>1. Type(l) = "UNKNOWN"
    BY <1>7, WholeType
  <2>2. Fields(l) = Are("UNKNOWN", <<>>, <<>>, <<>>)
    BY <2>1, FieldsIs
  <2> QED BY <1>7, <2>2, SaysOfUnknown
<1>8. CASE Known(msg)
  <2> DEFINE name == msg.cmd[1]
             text == Past(msg.rest)
             inside == SubSeq(msg.rest, 3, Len(msg.rest) - 1)
  <2>1. name \in UserCommands /\ (name # "PRIVMSG" => Type(l) = name)
    BY <1>8, WholeType DEF Known
  <2>2. CASE name = "PRIVMSG" /\ Begins(text, CTCP)
    <3>1. count = 1 /\ Len(msg.rest) > 2 /\ msg.rest[Len(msg.rest)] = CTCP
      BY <1>8, <2>2, WordsOf
    <3>2. Type(l) = "CTCP"
      BY <1>0, <1>3, <1>8, <2>2, <3>1, WholeType
    <3>3. CtcpText(Past(behind1)) = inside
      BY <1>3, <2>2, <3>1, MessageParts, CtcpInside
    <3>4. Fields(l) = Are("CTCP", Word(BLANK)[Param(l)], Word(BLANK)[inside], Rest(BLANK)[inside])
      BY <3>2, <3>3, FieldsIs
    <3>5. Says(msg) = Are("CTCP", msg.words[1], Word(BLANK)[inside], Rest(BLANK)[inside])
      BY <1>8, <2>2, SaysOfUser
    <3> QED BY <1>2, <3>1, <3>4, <3>5
  <2>3. CASE name = "PRIVMSG" /\ ~Begins(text, CTCP)
    <3>1. count = 1
      BY <1>8, <2>3, WordsOf
    <3>2. Type(l) = "PRIVMSG"
      BY <1>0, <1>3, <1>8, <2>3, <3>1, WholeType
    <3>3. Fields(l) = Are("PRIVMSG", Word(BLANK)[Param(l)], Past(behind1), <<>>)
      BY <3>2, FieldsIs
    <3>4. Says(msg) = Are("PRIVMSG", msg.words[1], text, <<>>)
      BY <1>8, <2>3, SaysOfUser
    <3> QED BY <1>2, <1>3, <3>1, <3>3, <3>4
  <2>4. CASE name \in {"NOTICE", "PART", "TOPIC", "PONG", "INVITE"}
    <3>1. count = 1
      BY <1>8, <2>4, WordsOf
    <3>2. Type(l) = name
      BY <2>1, <2>4
    <3>3. Fields(l) = Are(name, Word(BLANK)[Param(l)], Past(behind1), <<>>)
      BY <2>4, <3>2, FieldsIs
    <3>4. Says(msg) = Are(name, msg.words[1], text, <<>>)
      BY <1>8, <2>4, SaysOfUser
    <3> QED BY <1>2, <1>3, <3>1, <3>3, <3>4
  <2>5. CASE name = "KILL"
    <3>1. count >= 1 /\ Type(l) = "KILL"
      BY <1>8, <2>1, <2>5, WordsOf
    <3>2. Fields(l) = Are("KILL", Word(BLANK)[Param(l)], behind1, <<>>)
      BY <3>1, FieldsIs
    <3>3. Says(msg) = Are("KILL", msg.words[1], Further(msg), <<>>)
      BY <1>8, <2>5, SaysOfUser
    <3> QED BY <1>2, <3>1, <3>2, <3>3
  <2>6. CASE name \in {"JOIN", "NICK"}
    <3>1. count = 0 /\ IsWord(msg.rest) /\ Type(l) = name
      BY <1>8, <2>1, <2>6, WordsOf
    <3>2. Word(BLANK)[Param(l)] = msg.rest
      <4>1. PICK r \in Seq(Chars) : r = msg.rest
        BY MessageParts
      <4>2. r # <<>> /\ Without(r, BLANK)
        BY <3>1, <4>1 DEF IsWord
      <4>3. Word(BLANK)[Joined(r, BLANK, <<>>)] = r
        BY <4>2, CharsThere, EmptySeq, WholeWord
      <4>4. Joined(r, BLANK, <<>>) = r
        BY DEF Joined
      <4> QED BY <1>5, <3>1, <4>1, <4>3, <4>4
    <3>3. CASE name = "JOIN"
      <4>1. Fields(l) = Are("JOIN", Past(Word(BLANK)[Param(l)]), <<>>, <<>>)
        BY <3>1, <3>3, FieldsIs
      <4>2. Says(msg) = Are("JOIN", text, <<>>, <<>>)
        BY <1>8, <3>3, SaysOfUser
      <4> QED BY <3>2, <4>1, <4>2
    <3>4. CASE name = "NICK"
      <4>1. Fields(l) = Are("NICK", <<>>, Past(Word(BLANK)[Param(l)]), <<>>)
        BY <3>1, <3>4, FieldsIs
      <4>2. Says(msg) = Are("NICK", <<>>, text, <<>>)
        BY <1>8, <3>4, SaysOfUser
      <4> QED BY <3>2, <4>1, <4>2
    <3> QED BY <2>6, <3>3, <3>4
  <2>7. CASE name = "QUIT"
    <3>1. count = 0 /\ Type(l) = "QUIT"
      BY <1>8, <2>1, <2>7, WordsOf
    <3>2. Fields(l) = Are("QUIT", <<>>, Past(Word(BLANK)[Param(l)]), <<>>)
      BY <3>1, FieldsIs
    <3>3. Says(msg) = Are("QUIT", <<>>, Past(Word(BLANK)[msg.rest]), <<>>)
      BY <1>8, <2>7, SaysOfUser
    <3> QED BY <1>5, <3>1, <3>2, <3>3
  <2>8. CASE name = "KICK"
    <3>1. count = 2 /\ Type(l) = "KICK"
      BY <1>8, <2>1, <2>8, WordsOf
    <3>2. Fields(l) = Are("KICK", Word(BLANK)[Param(l)], Word(BLANK)[behind1], Past(behind2))
      BY <3>1, FieldsIs
    <3>3. Says(msg) = Are("KICK", msg.words[1], msg.words[2], text)
      BY <1>8, <2>8, SaysOfUser
    <3>4. Word(BLANK)[Param(l)] = msg.words[1]
      BY <1>2, <3>1
    <3> QED BY <1>4, <3>1, <3>2, <3>3, <3>4
  <2>9. CASE name = "MODE"
    <3>1. count = 2 /\ Type(l) = "MODE"
      BY <1>8, <2>1, <2>9, WordsOf
    <3>2. Fields(l) = Are("MODE", Word(BLANK)[Param(l)], Word(BLANK)[behind1], behind2)
      BY <3>1, FieldsIs
    <3>3. Says(msg) = Are("MODE", msg.words[1], msg.words[2], msg.rest)
      BY <1>8, <2>9, SaysOfUser
    <3>4. Word(BLANK)[Param(l)] = msg.words[1]
      BY <1>2, <3>1
    <3> QED BY <1>4, <3>1, <3>2, <3>3, <3>4
  <2>10. name \in {"PRIVMSG", "NOTICE", "PART", "JOIN", "NICK", "QUIT", "KICK", "MODE", "TOPIC",
                   "KILL", "PONG", "INVITE"}
    BY <2>1 DEF UserCommands
  <2> QED BY <2>2, <2>3, <2>4, <2>5, <2>6, <2>7, <2>8, <2>9, <2>10
<1> QED BY <1>6, <1>7, <1>8

\* Every line is taken for something of its type.
LEMMA FieldsType ==
  ASSUME NEW msg \in Messages, msg.from # "dcc", NEW l \in Seq(Chars), Repeats(l, Line(msg))
  PROVE  Fields(l).type = Type(l)
<1>1. CommandOf(l, msg)
  BY CommandThere
<1>2. \A type, target, param, param2 : Are(type, target, param, param2).type = type
  BY DEF Are
<1>3. Type(l) \in {"NUMERIC", "UNKNOWN", "CTCP", "PING", "ERROR"} \cup UserCommands
  <2>1. CASE msg.from = "nobody"
    <3>1. msg.cmd \in {<<"PING">>, <<"ERROR">>} => msg.cmd[1] \in {"PING", "ERROR"}
      OBVIOUS
    <3> QED BY <1>1, <2>1, <3>1, TypeOfNobody
  <2>2. CASE msg.from \in {"server", "user"}
    BY <1>1, <2>2, TypeOfUser
  <2> QED BY <2>1, <2>2, MessageParts
<1>4. CASE Type(l) \in {"PRIVMSG", "NOTICE", "PART", "TOPIC", "PONG", "INVITE"}
  BY <1>2, <1>4, FieldsIs
<1>5. CASE Type(l) \in {"NUMERIC", "KILL", "CTCP"}
  BY <1>2, <1>5, FieldsIs
<1>6. CASE Type(l) \in {"JOIN", "NICK", "QUIT"}
  BY <1>2, <1>6, FieldsIs
<1>7. CASE Type(l) \in {"KICK", "MODE"}
  BY <1>2, <1>7, FieldsIs
<1>8. CASE Type(l) \in {"PING", "ERROR", "UNKNOWN"}
  BY <1>2, <1>8, FieldsIs
<1> QED BY <1>3, <1>4, <1>5, <1>6, <1>7, <1>8 DEF UserCommands

\* What arrived is taken for what was said.
LEMMA ArrivedFaithful ==
  ASSUME ctype \in {"IRC", "DCC"}, event # NoEvent, Arrived(event)
  PROVE  Faithful
<1> DEFINE msg == event.msg
           l == event.line
<1>1. /\ msg \in Messages /\ (msg.from = "dcc" <=> ctype = "DCC") /\ l \in Seq(Chars)
      /\ Repeats(l, Line(msg)) /\ (~event.garbled => l = Line(msg))
  BY DEF Arrived, Heard
<1>2. CASE msg.from = "dcc"
  <2>1. Taken(l) = [text |-> l]
    BY <1>1, <1>2 DEF Taken
  <2>2. ~event.garbled => l = msg.rest
    BY <1>1, <1>2, LineIs
  <2> QED BY <1>2, <2>1, <2>2 DEF Faithful
<1>3. CASE msg.from # "dcc" /\ ~event.garbled
  <2>1. l = Line(msg)
    BY <1>1, <1>3
  <2>2. Fields(Line(msg)) = Says(msg)
    BY <1>1, <1>3, MessageParts, FieldsOfNobody, FieldsOfUser
  <2>3. Ident(Line(msg)) = Speaker(msg)
    BY <1>1, <1>3, WholeIdent
  <2>4. ctype = "IRC"
    BY <1>1, <1>3
  <2>5. Taken(l) = [fields |-> Says(msg), ident |-> Speaker(msg)]
    BY <2>1, <2>2, <2>3, <2>4 DEF Taken, Parse
  <2> QED BY <1>3, <2>5 DEF Faithful
<1>4. CASE msg.from # "dcc" /\ event.garbled
  <2>1. Taken(l) = Parse(l)
    BY <1>1, <1>4 DEF Taken
  <2>2. Parse(l).fields.type = Type(l)
    BY <1>1, <1>4, FieldsType DEF Parse
  <2>3. Type(l) \in {Says(msg).type, "UNKNOWN"} \cup (IF Says(msg).type = "CTCP" THEN {"PRIVMSG"} ELSE {})
    BY <1>1, <1>4, GarbledTaken
  <2> QED BY <1>4, <2>1, <2>2, <2>3 DEF Faithful
<1> QED BY <1>2, <1>3, <1>4

(***************************************************************************)
(* The invariants                                                          *)
(***************************************************************************)

\* Between two characters, however long the client waits and however often, the line it
\* has read repeats what has arrived of the message, and a line it handles repeats a
\* message (the loop of _irc_net_readline).
THEOREM ReadInvariance == Spec => []ReadInv
BY InitRead, NextRead, PTL DEF Spec

\* No line of a server that keeps to the protocol, whole or garbled, makes a handler read
\* behind its end, and the PONGs queued are the PINGs owed (irc_client.c, irc_parse.c).
THEOREM ClientSurvives == Spec => []ClientInv
<1>1. ReadInv => ClientInv
  BY DEF ReadInv, ClientInv
<1> QED BY <1>1, ReadInvariance, PTL

\* A line read without a wait is taken for what its sender said, and one with characters
\* read twice for that or for nothing the client knows, except that a CTCP may become
\* plain text (_irc_parseline).
THEOREM LinesAreTaken == Spec => []Faithful
<1>1. ReadInv => Faithful
  <2>1. CASE event = NoEvent
    BY <2>1 DEF Faithful
  <2>2. ASSUME ReadInv, event # NoEvent
        PROVE  Faithful
    BY <2>2, ArrivedFaithful DEF ReadInv, TypeOK, EventInv
  <2> QED BY <2>1, <2>2
<1> QED BY <1>1, ReadInvariance, PTL
================================================================================
