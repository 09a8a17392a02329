------------------------------- MODULE IrcClient -------------------------------
(***************************************************************************)
(* The loop of a client (irc/irc_client.c), how it reads a line from its   *)
(* socket (irc/irc_network.c) and what it takes the line for               *)
(* (irc/irc_parse.c).                                                      *)
(*                                                                         *)
(* A line is read character by character, and the socket does not block:   *)
(* in the middle of a line the client may have to wait for the rest.  A    *)
(* message reaches it as its characters, in as many pieces as it likes.    *)
(* The name of a command is one character here, a number three.  Lines are *)
(* shorter than the buffers, and words than the fields they are copied to. *)
(* Channels are in IrcChannel, the order and the delay of the queue in     *)
(* IrcQueue: here it holds what has priority 8.                            *)
(***************************************************************************)
EXTENDS Naturals, Sequences, FiniteSets

CONSTANTS
  Chars,         \* what lines consist of, names of commands among them
  Digits,
  Messages,      \* what servers, or peers of DCC, say
  PingAfter,     \* 60 seconds
  MaxQueued,     \* bound: PINGs in the queue; more count as so many
  MaxChars,      \* bound: characters said
  MaxStalls,     \* bound: waits in the middle of a line
  MaxFaults      \* bound: lost connections, failures and commands to quit

BLANK == " "
COLON == ":"
BANG == "!"
AT == "@"
CR == "CR"
LF == "LF"
CTCP == "001"
UserCommands == {"PRIVMSG", "NOTICE", "PART", "JOIN", "NICK", "QUIT", "KICK", "MODE", "TOPIC",
                 "KILL", "PONG", "INVITE"}

(***************************************************************************)
(* What arrives (RFC 2812; external)                                       *)
(***************************************************************************)
Without(s, c) == \A i \in 1 .. Len(s) : s[i] # c
IsWord(s) == s # <<>> /\ Without(s, BLANK)
Begins(s, c) == s # <<>> /\ s[1] = c
Past(s) == IF s = <<>> THEN <<>> ELSE Tail(s)      \* param++

\* Who speaks, the command, up to two words and the rest, with a colon before the text.
\* The name of the user is there if the host is.
MessageType ==
  [from : {"server", "user", "nobody", "dcc"},
   ident : [nick : Seq(Chars), user : Seq(Chars), host : Seq(Chars)],
   cmd : Seq(Chars), words : Seq(Seq(Chars)), rest : Seq(Chars)]

IdentOK(ident) ==
  /\ IsWord(ident.nick) /\ Without(ident.nick, BANG)
  /\ Without(ident.user, BLANK) /\ Without(ident.user, AT) /\ Without(ident.host, BLANK)
  /\ ident.host # <<>> => ident.user # <<>>

\* How many words a command has, and where its text is one word or must be there.
Named(msg, names) == \E name \in names : msg.cmd = <<name>>
ParamsOK(msg) ==
  LET count == Len(msg.words)
  IN /\ msg.cmd[1] \in Digits \/ Named(msg, {"KILL"}) => count >= 1
     /\ Named(msg, {"PRIVMSG", "NOTICE", "TOPIC", "PONG", "INVITE"}) =>
          count = 1 /\ Begins(msg.rest, COLON)
     /\ Named(msg, {"PART"}) => count = 1
     /\ Named(msg, {"JOIN", "NICK"}) => count = 0 /\ Begins(msg.rest, COLON) /\ IsWord(msg.rest)
     /\ Named(msg, {"QUIT"}) => count = 0
     /\ Named(msg, {"KICK", "MODE"}) => count = 2
     /\ Named(msg, {"PRIVMSG"}) /\ Begins(Past(msg.rest), CTCP) =>
          Len(msg.rest) > 2 /\ msg.rest[Len(msg.rest)] = CTCP

MessageOK(msg) ==
  /\ msg.from # "dcc" =>
       IsWord(msg.cmd) /\ Len(msg.words) <= 2 /\ \A i \in 1 .. Len(msg.words) : IsWord(msg.words[i])
  /\ msg.from \in {"server", "user"} => IdentOK(msg.ident) /\ ParamsOK(msg)
  /\ msg.from = "nobody" =>
       ~Begins(msg.cmd, COLON) /\ (msg.cmd \in {<<"PING">>, <<"ERROR">>} => msg.words = <<>>)

\* w, and r behind a delimiter if there is any.
Joined(w, d, r) == IF r = <<>> THEN w ELSE w \o (<<d>> \o r)

Source(ident) == Joined(ident.nick, BANG, Joined(ident.user, AT, ident.host))
Further(msg) == IF Len(msg.words) = 2 THEN Joined(msg.words[2], BLANK, msg.rest) ELSE msg.rest
Params(msg) == IF msg.words = <<>> THEN msg.rest ELSE Joined(msg.words[1], BLANK, Further(msg))
Line(msg) ==
  CASE msg.from = "dcc"    -> msg.rest
    [] msg.from = "nobody" -> Joined(msg.cmd, BLANK, Params(msg))
    [] OTHER -> Joined(<<COLON>> \o Source(msg.ident), BLANK, Joined(msg.cmd, BLANK, Params(msg)))
Wire == [msg \in Messages |-> Line(msg) \o <<CR, LF>>]

ASSUME CharAssumption ==
  /\ {BLANK, COLON, BANG, AT, CR, LF, CTCP, "PING", "ERROR"} \cup UserCommands \cup Digits \subseteq Chars
  /\ Digits \cap UserCommands = {}
ASSUME MessageAssumption ==
  /\ Messages \subseteq MessageType
  /\ \A msg \in Messages : MessageOK(msg) /\ Without(Line(msg), CR) /\ Without(Line(msg), LF)
ASSUME ClientAssumption ==
  PingAfter \in Nat /\ MaxQueued \in Nat /\ MaxChars \in Nat /\ MaxStalls \in Nat /\ MaxFaults \in Nat

VARIABLES
  ctype,      \* "IRC" or "DCC"
  pc,
  quit,
  line, ch,   \* buffer and ch of _irc_net_readline
  idle,       \* time since the last line, now - active
  queue,      \* PINGs and PONGs
  peer,       \* the other end: "alive", "dead" (nothing comes any more) or "closed"
  said,       \* messages that are underway,
  read,       \* and how many characters of the first have been read
  garbled,    \* history: a character of this line has been read twice
  event,      \* history: the message being handled and the line that was read
  owed,       \* history: PINGs read on this connection and not answered
  chars, stalls, faults

socket == <<peer, said, read>>
reader == <<line, ch, garbled>>
bounds == <<chars, stalls, faults>>
vars == <<ctype, pc, quit, reader, idle, queue, socket, event, owed, bounds>>

(***************************************************************************)
(* _irc_parseline                                                          *)
(***************************************************************************)
Least(S) == CHOOSE i \in S : \A j \in S : i <= j

\* strtok: the next word, and what is left behind the delimiter after it.
Start(s, d) == Least({i \in 1 .. Len(s) : s[i] # d} \cup {Len(s) + 1})
End(s, d) == Least({i \in Start(s, d) .. Len(s) : s[i] = d} \cup {Len(s) + 1})
Word(d) == [s \in Seq(Chars) |-> SubSeq(s, Start(s, d), End(s, d) - 1)]
Rest(d) == [s \in Seq(Chars) |-> SubSeq(s, End(s, d) + 1, Len(s))]

Prefixed(s) == Begins(s, COLON)
Behind(s) == IF Prefixed(s) THEN Rest(BLANK)[s] ELSE s     \* what the command starts
Command(s) == Word(BLANK)[Behind(s)]
Param(s) == Rest(BLANK)[Behind(s)]
Trailing(s) == Past(Rest(BLANK)[Param(s)])

Type(s) ==
  LET cmd == Command(s) IN
  IF Prefixed(s)
  THEN CASE cmd # <<>> /\ cmd[1] \in Digits -> "NUMERIC"
         [] cmd = <<"PRIVMSG">> -> IF Begins(Trailing(s), CTCP) THEN "CTCP" ELSE "PRIVMSG"
         [] OTHER -> IF Len(cmd) = 1 /\ cmd[1] \in UserCommands THEN cmd[1] ELSE "UNKNOWN"
  ELSE IF cmd \in {<<"PING">>, <<"ERROR">>} THEN cmd[1] ELSE "UNKNOWN"

\* Faulty form of ReadsNull, not used: PART counts on a reason.
ReadsNullOfPart(s) ==
  Type(s) \in {"PRIVMSG", "INVITE", "PART"} /\ Rest(BLANK)[Param(s)] = <<>>

\* param is read, or counted on, although there is none.
ReadsNull(s) == Type(s) \in {"PRIVMSG", "INVITE"} /\ Rest(BLANK)[Param(s)] = <<>>

\* Up to the last 001: without another one, all that follows the first.
CtcpText(s) ==
  LET ends == {i \in 2 .. Len(s) : s[i] = CTCP} IN
  IF ends = {} THEN Tail(s)
  ELSE SubSeq(s, 2, (CHOOSE i \in ends : \A j \in ends : j <= i) - 1)

Are(type, target, param, param2) ==
  [type |-> type, target |-> target, param |-> param, param2 |-> param2]

\* Faulty form of Fields, not used: the colon of a channel is kept.
FieldsKeepColon(s) == Are(Type(s), Word(BLANK)[Param(s)], Past(Rest(BLANK)[Param(s)]), <<>>)

Fields(s) ==
  LET type == Type(s)
      p == Param(s)
      w1 == Word(BLANK)[p]
      behind1 == Rest(BLANK)[p]
      w2 == Word(BLANK)[behind1]
      behind2 == Rest(BLANK)[behind1]
      text == CtcpText(Past(behind1))
  IN CASE type \in {"PRIVMSG", "NOTICE", "PART", "TOPIC", "PONG", "INVITE"} ->
                                          Are(type, w1, Past(behind1), <<>>)
       [] type = "CTCP"                -> Are(type, w1, Word(BLANK)[text], Rest(BLANK)[text])
       [] type \in {"NUMERIC", "KILL"} -> Are(type, w1, behind1, <<>>)
       [] type = "JOIN"                -> Are(type, Past(w1), <<>>, <<>>)
       [] type \in {"NICK", "QUIT"}    -> Are(type, <<>>, Past(w1), <<>>)
       [] type = "KICK"                -> Are(type, w1, w2, Past(behind2))
       [] type = "MODE"                -> Are(type, w1, w2, behind2)
       [] type = "PING"                -> Are(type, <<>>, Past(p), <<>>)
       [] type = "ERROR"               -> Are(type, <<>>, p, <<>>)
       [] OTHER                        -> Are(type, <<>>, <<>>, <<>>)

Ident(s) ==
  LET ident == IF Prefixed(s) THEN Past(Word(BLANK)[s]) ELSE <<>>
      behind == Rest(BANG)[ident]
  IN [nick |-> Word(BANG)[ident], user |-> Word(AT)[behind], host |-> Rest(AT)[behind]]

Parse(s) == [fields |-> Fields(s), ident |-> Ident(s)]

(***************************************************************************)
(* Connecting                                                              *)
(***************************************************************************)
NoEvent == <<>>

Init ==
  /\ ctype \in {"IRC", "DCC"}
  /\ pc = "connect" /\ quit = "none"
  /\ line = <<>> /\ ch = "" /\ garbled = FALSE
  /\ idle = 0 /\ queue = <<>> /\ owed = 0
  /\ peer = "closed" /\ said = <<>> /\ read = 0
  /\ event = NoEvent
  /\ chars = 0 /\ stalls = 0 /\ faults = 0

Fault == faults < MaxFaults /\ faults' = faults + 1
Goto(at) == pc' = at
Quiet == UNCHANGED <<chars, stalls, faults>>

\* USER and NICK are sent, or queued at less than 8 (IrcQueue); so are the JOINs.
Connect ==
  /\ pc = "connect"
  /\ Goto("select")
  /\ quit' = "none"
  /\ queue' = <<>> /\ owed' = 0
  /\ said' = <<>> /\ read' = 0 /\ peer' = "alive"
  /\ UNCHANGED <<ctype, reader, idle, event>> /\ Quiet

\* There is no second attempt.
ConnectFails ==
  /\ pc = "connect" /\ Fault
  /\ Goto("ended")
  /\ UNCHANGED <<ctype, quit, reader, idle, queue, socket, event, owed, chars, stalls>>

(***************************************************************************)
(* The other end                                                           *)
(***************************************************************************)
Connected == pc \notin {"connect", "ended", "crashed", "spinning"}
Others == UNCHANGED <<ctype, pc, quit, reader, idle, queue, event, owed>>

Say ==
  /\ Connected /\ peer = "alive"
  /\ \E msg \in Messages :
       /\ ctype = "DCC" <=> msg.from = "dcc"
       /\ chars + Len(Wire[msg]) <= MaxChars /\ chars' = chars + Len(Wire[msg])
       /\ said' = Append(said, msg)
  /\ Others /\ UNCHANGED <<peer, read, stalls, faults>>

\* It closes the connection, or is not heard of any more; what has not been read may
\* be lost.
Leave ==
  /\ Connected /\ peer = "alive" /\ Fault
  /\ peer' \in {"dead", "closed"}
  /\ \/ UNCHANGED <<said, read>>
     \/ said' = <<>> /\ read' = 0
  /\ Others /\ UNCHANGED <<chars, stalls>>

(***************************************************************************)
(* _irc_net_readline                                                       *)
(***************************************************************************)
Anew == line' = <<>> /\ ch' = "" /\ garbled' = FALSE
Reading == UNCHANGED <<ctype, quit, idle, queue, peer, owed, chars, faults>>
Waits == Reading /\ UNCHANGED <<said, read, event>>

\* _irc_net_readstatus, with a delay of 100 ms.
Ready ==
  /\ pc = "select" /\ (said # <<>> \/ peer = "closed")
  /\ Goto("recv")
  /\ Waits /\ UNCHANGED <<reader, stalls>>
Timeout ==
  /\ pc = "select" /\ peer # "closed"
  /\ Goto("nothing")
  /\ Waits /\ UNCHANGED <<reader, stalls>>

Store(c) == IF c \in {CR, LF} THEN line ELSE Append(line, c)

Coming == Wire[Head(said)][read + 1]

\* A character of the line, or its end; without any character, it is none.
RecvChar ==
  /\ pc = "recv" /\ said # <<>> /\ Coming # LF
  /\ ch' = Coming /\ line' = Store(Coming) /\ read' = read + 1
  /\ Goto("recv")
  /\ Reading /\ UNCHANGED <<garbled, said, event, stalls>>
RecvEnd ==
  /\ pc = "recv" /\ said # <<>> /\ Coming = LF
  /\ said' = Tail(said) /\ read' = 0
  /\ IF line = <<>> THEN Anew /\ Goto("nothing") /\ UNCHANGED event
     ELSE /\ event' = [msg |-> Head(said), line |-> line, garbled |-> garbled]
          /\ Goto("handle") /\ UNCHANGED reader
  /\ Reading /\ UNCHANGED stalls

\* EAGAIN; not for the first character, as select has seen it.
Stall ==
  /\ pc = "recv" /\ ch # ""
  /\ \/ said = <<>> /\ peer # "closed" /\ UNCHANGED stalls
     \/ said # <<>> /\ stalls < MaxStalls /\ stalls' = stalls + 1
  /\ Goto("wait")
  /\ Waits /\ UNCHANGED reader

\* When there is something again, ch is used although it is the last character.
Resume ==
  /\ pc = "wait" /\ (said # <<>> \/ peer = "closed")
  /\ Goto("recv")
  /\ line' = Store(ch) /\ garbled' = (garbled \/ ch # CR)
  /\ Waits /\ UNCHANGED <<ch, stalls>>

\* recv() returns 0, which is no error: ch is stored again and again, behind the
\* end of the buffer too; or, when it is CR, nothing is stored and it never ends.
ReadEnd ==
  /\ pc = "recv" /\ said = <<>> /\ peer = "closed"
  /\ Goto(IF ch = CR THEN "spinning" ELSE "crashed")
  /\ Waits /\ UNCHANGED <<reader, stalls>>

\* Any other error of recv(); what has been read of the line is lost.
ReadError ==
  /\ pc = "recv" /\ Fault
  /\ quit' = IF ctype = "IRC" THEN "reconnect" ELSE "disconnect"
  /\ Goto("timer") /\ Anew
  /\ UNCHANGED <<ctype, idle, queue, socket, event, owed, chars, stalls>>

(***************************************************************************)
(* An iteration of the loop                                                *)
(***************************************************************************)
Taken(s) == IF ctype = "IRC" THEN Parse(s) ELSE [text |-> s]
Is(s, type) == ctype = "IRC" /\ Type(s) = type

\* Faulty form of Answer, not used: PONG has priority 0.
AnswerDropped(s) == queue' = queue

\* handle_ping
Answer(s) == queue' = IF Is(s, "PING") THEN Append(queue, "PONG") ELSE queue

\* The handlers; those of the connection report to the parent (Connection).
Handle ==
  /\ pc = "handle"
  /\ IF ctype = "IRC" /\ ReadsNull(line) THEN Goto("crashed") ELSE Goto("timer")
  /\ idle' = 0
  /\ Answer(line)
  /\ owed' = IF Is(line, "PING") THEN owed + 1 ELSE owed
  /\ quit' = IF Is(line, "ERROR") THEN "reconnect" ELSE quit
  /\ Anew
  /\ UNCHANGED <<ctype, socket, event>> /\ Quiet

\* Faulty form of Nothing, not used: it goes on waiting for a line.
NothingContinues ==
  /\ pc = "nothing" /\ Goto("select")
  /\ UNCHANGED <<ctype, quit, reader, idle, queue, socket, event, owed>> /\ Quiet

\* A PING is queued ten times a second.  Whoever has been silent for 120 seconds,
\* when the client is to connect again, has been for 60, when it sends a PING.
Nothing ==
  /\ pc = "nothing"
  /\ Goto("timer")
  /\ queue' = IF ctype = "IRC" /\ idle > PingAfter /\ Len(queue) < MaxQueued
              THEN Append(queue, "PING") ELSE queue
  /\ UNCHANGED <<ctype, quit, reader, idle, socket, event, owed>> /\ Quiet

\* handle_timer asks the parent, which may answer with DISCONNECT or RECONNECT.
Timer ==
  /\ pc = "timer"
  /\ Goto("update")
  /\ event' = NoEvent
  /\ \/ UNCHANGED <<quit, faults>>
     \/ Fault /\ quit' \in {"reconnect", "disconnect"}
  /\ UNCHANGED <<ctype, reader, idle, queue, socket, owed, chars, stalls>>

\* _irc_queue_update: the first of the queue is sent, if there is one, or has to
\* wait.  Then a client that quits sends QUIT.
After == Goto(IF quit = "none" THEN "select" ELSE "close")
SendFirst ==
  /\ pc = "update" /\ queue # <<>>
  /\ queue' = Tail(queue)
  /\ owed' = IF Head(queue) = "PONG" THEN owed - 1 ELSE owed
  /\ After
  /\ UNCHANGED <<ctype, quit, reader, idle, socket, event>> /\ Quiet
SendNothing ==
  /\ pc = "update"
  /\ After
  /\ UNCHANGED <<ctype, quit, reader, idle, queue, socket, event, owed>> /\ Quiet

Close ==
  /\ pc = "close"
  /\ Goto(IF quit = "disconnect" THEN "ended" ELSE "connect")
  /\ peer' = "closed" /\ said' = <<>> /\ read' = 0
  /\ UNCHANGED <<ctype, quit, reader, idle, queue, event, owed>> /\ Quiet

\* Time passes while it waits.
Tick ==
  /\ pc \in {"select", "wait"} /\ idle <= PingAfter
  /\ idle' = idle + 1
  /\ UNCHANGED <<ctype, pc, quit, reader, queue, socket, event, owed>> /\ Quiet

Client ==
  \/ Connect \/ ConnectFails \/ Ready \/ Timeout \/ RecvChar \/ RecvEnd \/ Stall \/ Resume \/ ReadEnd \/ ReadError
  \/ Handle \/ Nothing \/ Timer \/ SendFirst \/ SendNothing \/ Close

Next == Client \/ Say \/ Leave \/ Tick

\* The process runs, and the queue sends what it holds: its gate opens again and
\* again (IrcQueue, NoNeedlessDelay).
Spec == Init /\ [][Next]_vars /\ WF_vars(Client) /\ SF_vars(SendFirst)

(***************************************************************************)
(* Properties                                                              *)
(***************************************************************************)
TypeOK ==
  /\ ctype \in {"IRC", "DCC"}
  /\ pc \in {"connect", "select", "recv", "wait", "nothing", "handle", "timer", "update", "close",
             "ended", "crashed", "spinning"}
  /\ quit \in {"none", "reconnect", "disconnect"}
  /\ line \in Seq(Chars) /\ ch \in Chars \cup {""}
  /\ garbled \in BOOLEAN
  /\ idle \in 0 .. PingAfter + 1
  /\ queue \in Seq({"PING", "PONG"})
  /\ peer \in {"alive", "dead", "closed"}
  /\ owed = Cardinality({i \in DOMAIN queue : queue[i] = "PONG"})
  /\ said \in Seq(Messages) /\ read \in Nat
  /\ chars \in 0 .. MaxChars /\ stalls \in 0 .. MaxStalls /\ faults \in 0 .. MaxFaults

\* What a message says, without the colon where the handlers strip it.  Of the reason for
\* a QUIT, which nobody reads, it is the first word.
Says(msg) ==
  LET name == msg.cmd[1]
      known == Len(msg.cmd) = 1 /\ name \in UserCommands
      w == msg.words
      text == Past(msg.rest)
      inside == SubSeq(msg.rest, 3, Len(msg.rest) - 1)
  IN IF msg.from = "nobody"
     THEN CASE msg.cmd = <<"PING">>  -> Are(name, <<>>, text, <<>>)
            [] msg.cmd = <<"ERROR">> -> Are(name, <<>>, msg.rest, <<>>)
            [] OTHER                 -> Are("UNKNOWN", <<>>, <<>>, <<>>)
     ELSE CASE name \in Digits          -> Are("NUMERIC", w[1], Further(msg), <<>>)
            [] name \notin Digits /\ ~known -> Are("UNKNOWN", <<>>, <<>>, <<>>)
            [] known /\ name = "PRIVMSG" /\ Begins(text, CTCP) ->
                 Are("CTCP", w[1], Word(BLANK)[inside], Rest(BLANK)[inside])
            [] known /\ name = "KILL"   -> Are(name, w[1], Further(msg), <<>>)
            [] known /\ name = "JOIN"   -> Are(name, text, <<>>, <<>>)
            [] known /\ name = "NICK"   -> Are(name, <<>>, text, <<>>)
            [] known /\ name = "QUIT"   -> Are(name, <<>>, Past(Word(BLANK)[msg.rest]), <<>>)
            [] known /\ name = "KICK"   -> Are(name, w[1], w[2], text)
            [] known /\ name = "MODE"   -> Are(name, w[1], w[2], msg.rest)
            [] OTHER                    -> Are(name, w[1], text, <<>>)
Speaker(msg) ==
  IF msg.from = "nobody" THEN [nick |-> <<>>, user |-> <<>>, host |-> <<>>] ELSE msg.ident

\* A line is taken for what its sender said, in the order in which it was said,
\* however it was cut into pieces on its way, except that a wait in the middle of it
\* repeats a character.  Then it is still what it was, or something the client does
\* not know; a CTCP may become plain text.  (irc_network.c: the loop of
\* _irc_net_readline; irc_parse.c.)
Faithful ==
  event # NoEvent =>
    LET msg == event.msg
        taken == Taken(event.line)
    IN
    IF ~event.garbled
    THEN taken = IF msg.from = "dcc" THEN [text |-> msg.rest]
                       ELSE [fields |-> Says(msg), ident |-> Speaker(msg)]
    ELSE msg.from = "dcc"
      \/ taken.fields.type \in
           {Says(msg).type, "UNKNOWN"} \cup (IF Says(msg).type = "CTCP" THEN {"PRIVMSG"} ELSE {})

\* No line of a server that keeps to the protocol ends the client, whole or
\* garbled: only the end of the connection does, which readline takes for
\* characters.
Survives == pc \in {"crashed", "spinning"} => peer = "closed"

\* The state is well formed, what is owed is what is queued, and lines end nobody.
ClientInv == TypeOK /\ Survives

\* Every PING that has been read is answered, as long as the server is there,
\* whatever else is queued before (handle_ping, _irc_queue_update).
PingsAnswered == owed > 0 ~> (owed = 0 \/ peer # "alive")

\* The commands of the parent, which the timer handler asks for, are served again
\* and again, as long as the server is there, and says each line to its end; one
\* that is gone in the middle of a line holds the client for ever.
TimerRuns == peer = "alive" ~> (pc = "timer" \/ peer # "alive")
================================================================================
