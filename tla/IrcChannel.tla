------------------------------- MODULE IrcChannel -------------------------------
(***************************************************************************)
(* The channels of an IRC client: the table the client keeps              *)
(* (irc_channel.c), the loop that joins them again and again until it is   *)
(* in (irc_client.c), the handlers of the server's answers                 *)
(* (irc_handler.c), the queue of commands, which sends a PART before any   *)
(* JOIN (IrcQueue), and the server.                                        *)
(*                                                                         *)
(* An iteration of the loop reads a message, runs the timer, attempts      *)
(* joins and sends.  Scripts answer what has been read and the timer, so   *)
(* their commands come between the first and the third.  Time is counted   *)
(* in ticks; age is the time since the last attempt.                       *)
(***************************************************************************)
EXTENDS Naturals, Sequences, FiniteSets

CONSTANTS
  Chans,
  MaxTracked,    \* N_CHANNELS
  RejoinDelay, FailureDelay, InitialDelay,
  MaxQueued,     \* bound: equal commands in the queue; more JOINs count as so many
  MaxJoins, MaxParts,   \* bounds: commands of scripts
  MaxFaults      \* bound: refusals, kicks and lost connections

ASSUME ChannelAssumption ==
  /\ IsFiniteSet(Chans)
  /\ MaxTracked \in Nat
  /\ RejoinDelay \in Nat /\ FailureDelay \in Nat /\ InitialDelay \in Nat
  /\ RejoinDelay <= InitialDelay /\ FailureDelay <= InitialDelay
  /\ MaxQueued \in Nat \ {0} /\ MaxJoins \in Nat /\ MaxParts \in Nat /\ MaxFaults \in Nat

VARIABLES
  pc,        \* the part of the loop that comes next
  quit,      \* a reconnection is due
  status,    \* of each channel; "none" when it is not in the table
  age, key,
  out,       \* commands in the queue: how many JOINs and PARTs of each channel
  inbox,     \* messages of the server, underway or not read yet
  in,        \* the channels the bot is in, for the server
  want,      \* history: the last command of a script was to be in the channel
  refused,   \* history: the first attempt since that command was refused
  joins, parts, faults

table == <<status, age, key>>
server == <<inbox, in>>
history == <<want, refused, joins, parts>>
vars == <<pc, quit, table, out, server, history, faults>>

Never == InitialDelay + 1    \* the age of no attempt (attempt = 0)
Status == {"none", "join", "rejoin", "fail", "ok"}
Keys == {"", "key"}
Messages == {"JOIN", "PART", "KICK", "REFUSED"} \X Chans \cup {<<"ERROR">>}

Tracked(c) == status[c] # "none"

TypeOK ==
  /\ pc \in {"read", "timer", "join", "send"}
  /\ quit \in BOOLEAN
  /\ status \in [Chans -> Status]
  /\ Cardinality({c \in Chans : Tracked(c)}) <= MaxTracked
  /\ age \in [Chans -> 0 .. Never]
  /\ key \in [Chans -> Keys]
  /\ out \in [Chans -> [{"JOIN", "PART"} -> 0 .. MaxQueued]]
  /\ inbox \in Seq(Messages)
  /\ in \subseteq Chans
  /\ want \in [Chans -> BOOLEAN]
  /\ refused \in [Chans -> BOOLEAN]
  /\ joins \in 0 .. MaxJoins
  /\ parts \in 0 .. MaxParts
  /\ faults \in 0 .. MaxFaults

NoCommands == [c \in Chans |-> [cmd \in {"JOIN", "PART"} |-> 0]]

Init ==
  /\ pc = "read"
  /\ quit = FALSE
  /\ status = [c \in Chans |-> "none"]
  /\ age = [c \in Chans |-> Never]
  /\ key = [c \in Chans |-> ""]
  /\ out = NoCommands
  /\ inbox = <<>>
  /\ in = {}
  /\ want = [c \in Chans |-> FALSE]
  /\ refused = [c \in Chans |-> FALSE]
  /\ joins = 0
  /\ parts = 0
  /\ faults = 0

(***************************************************************************)
(* The table                                                               *)
(***************************************************************************)

Room(c) == Tracked(c) \/ Cardinality({d \in Chans : Tracked(d)}) < MaxTracked

\* _irc_chan_setstatus adds a channel that is not in the table.
SetStatus(c, s) ==
  /\ status' = IF Room(c) THEN [status EXCEPT ![c] = s] ELSE status
  /\ UNCHANGED <<age, key>>

\* _irc_chan_del
Delete(c) ==
  /\ status' = [status EXCEPT ![c] = "none"]
  /\ age' = [age EXCEPT ![c] = Never]
  /\ key' = [key EXCEPT ![c] = ""]

(***************************************************************************)
(* Reading: the default handlers                                           *)
(***************************************************************************)
Read(type, c) ==
  /\ pc = "read" /\ inbox # <<>>
  /\ Head(inbox) = <<type, c>>
  /\ inbox' = Tail(inbox)
  /\ pc' = "timer"
  /\ UNCHANGED <<quit, out, in, want, joins, parts, faults>>

\* A refusal answers a first attempt while the channel has the state joinchan
\* gave it.
Refusal(c) ==
  /\ Read("REFUSED", c)
  /\ refused' = [refused EXCEPT ![c] = @ \/ status[c] = "join"]

\* Faulty forms of the handlers, not used: a JOIN of a channel that is not in
\* the table is ignored; and a kick.
HandleJoinKnown(c) ==
  /\ Read("JOIN", c)
  /\ IF Tracked(c) THEN SetStatus(c, "ok") ELSE UNCHANGED table
  /\ UNCHANGED refused
HandleKickIgnored(c) == Read("KICK", c) /\ UNCHANGED <<table, refused>>

\* Another: the state, set already, is compared with that of a failed attempt, so
\* that a channel is given up whichever attempt was refused.
HandleJoinFailureGivesUp(c) == Refusal(c) /\ Delete(c)

HandleJoin(c) == Read("JOIN", c) /\ SetStatus(c, "ok") /\ UNCHANGED refused
HandleKick(c) == Read("KICK", c) /\ SetStatus(c, "rejoin") /\ UNCHANGED refused

\* The client has no handler for a PART of its own.
HandlePart(c) == Read("PART", c) /\ UNCHANGED <<table, refused>>

\* The state is set before it is compared with that of a first attempt, so the
\* branch that gives up is never taken.
HandleJoinFailure(c) == Refusal(c) /\ SetStatus(c, "fail")

\* handle_error; and a read that fails.
HandleError ==
  /\ pc = "read" /\ inbox # <<>>
  /\ Head(inbox) = <<"ERROR">>
  /\ inbox' = Tail(inbox)
  /\ quit' = TRUE
  /\ pc' = "timer"
  /\ UNCHANGED <<table, out, in, history, faults>>

ReadError ==
  /\ pc = "read" /\ faults < MaxFaults
  /\ faults' = faults + 1
  /\ quit' = TRUE
  /\ pc' = "timer"
  /\ UNCHANGED <<table, out, server, history>>

\* Nothing has arrived; the server's messages may be underway.
ReadNothing ==
  /\ pc = "read"
  /\ pc' = "timer"
  /\ UNCHANGED <<quit, table, out, server, history, faults>>

(***************************************************************************)
(* Commands of scripts                                                     *)
(***************************************************************************)

\* irc_join: _irc_chan_add leaves a channel that is in the table as it is.
IrcJoin(c, k) ==
  /\ pc = "timer" /\ joins < MaxJoins
  /\ joins' = joins + 1
  /\ IF Room(c)
     THEN /\ status' = [status EXCEPT ![c] = "join"]
          /\ key' = IF Tracked(c) THEN key ELSE [key EXCEPT ![c] = k]
          /\ want' = [want EXCEPT ![c] = TRUE]
          /\ refused' = [refused EXCEPT ![c] = FALSE]
     ELSE UNCHANGED <<status, key, want, refused>>
  /\ UNCHANGED <<pc, quit, age, out, server, parts, faults>>

IrcPart(c) ==
  /\ pc = "timer" /\ parts < MaxParts
  /\ parts' = parts + 1
  /\ out[c]["PART"] < MaxQueued
  /\ out' = [out EXCEPT ![c]["PART"] = @ + 1]
  /\ Delete(c)
  /\ want' = [want EXCEPT ![c] = FALSE]
  /\ UNCHANGED <<pc, quit, server, refused, joins, faults>>

IrcReconnect ==
  /\ pc = "timer" /\ faults < MaxFaults
  /\ faults' = faults + 1
  /\ quit' = TRUE
  /\ UNCHANGED <<pc, table, out, server, history>>

TimerDone ==
  /\ pc = "timer"
  /\ pc' = "join"
  /\ UNCHANGED <<quit, table, out, server, history, faults>>

(***************************************************************************)
(* Joining, sending and connecting again                                   *)
(***************************************************************************)

\* Faulty form of Due, not used: a channel that has refused the bot is not tried
\* again.
DueUnlessRefused(c) ==
  \/ status[c] = "rejoin" /\ age[c] >= RejoinDelay
  \/ status[c] = "join" /\ age[c] >= InitialDelay

\* _irc_chan_join: the channels whose turn it is.
Due(c) ==
  \/ status[c] = "rejoin" /\ age[c] >= RejoinDelay
  \/ status[c] = "fail" /\ age[c] >= FailureDelay
  \/ status[c] = "join" /\ age[c] >= InitialDelay

\* A channel that a script has asked for keeps its state for the first attempt.
ChanJoin ==
  /\ pc = "join"
  /\ age' = [c \in Chans |-> IF Due(c) THEN 0 ELSE age[c]]
  /\ status' = [c \in Chans |-> IF Due(c) /\ status[c] = "join" /\ age[c] # Never
                                THEN "rejoin" ELSE status[c]]
  /\ out' = [c \in Chans |-> IF Due(c) /\ out[c]["JOIN"] < MaxQueued
                             THEN [out[c] EXCEPT !["JOIN"] = @ + 1] ELSE out[c]]
  /\ pc' = "send"
  /\ UNCHANGED <<quit, key, server, history, faults>>

Sent(c, cmd) ==
  /\ pc = "send"
  /\ out[c][cmd] > 0
  /\ out' = [out EXCEPT ![c][cmd] = @ - 1]
  /\ UNCHANGED <<pc, quit, table, history>>

\* The server lets the bot in, or not; it ignores a JOIN of a channel the bot is
\* in and a PART of one it is not in.
SendJoin(c) ==
  /\ \A d \in Chans : out[d]["PART"] = 0
  /\ Sent(c, "JOIN")
  /\ \/ /\ c \notin in
        /\ in' = in \cup {c}
        /\ inbox' = Append(inbox, <<"JOIN", c>>)
        /\ UNCHANGED faults
     \/ /\ c \notin in /\ faults < MaxFaults
        /\ faults' = faults + 1
        /\ inbox' = Append(inbox, <<"REFUSED", c>>)
        /\ UNCHANGED in
     \/ c \in in /\ UNCHANGED <<server, faults>>

SendPart(c) ==
  /\ Sent(c, "PART")
  /\ in' = in \ {c}
  /\ inbox' = IF c \in in THEN Append(inbox, <<"PART", c>>) ELSE inbox
  /\ UNCHANGED faults

\* The end of an iteration; with quit set, the client connects again: the queue
\* is purged and every channel in the table is to be joined (_irc_chan_rejoin).
LoopEnd ==
  /\ pc = "send" /\ ~quit
  /\ pc' = "read"
  /\ UNCHANGED <<quit, table, out, server, history, faults>>
Reconnect ==
  /\ pc = "send" /\ quit
  /\ pc' = "read"
  /\ quit' = FALSE
  /\ status' = [c \in Chans |-> IF Tracked(c) THEN "rejoin" ELSE "none"]
  /\ age' = [c \in Chans |-> Never]
  /\ out' = NoCommands
  /\ inbox' = <<>>
  /\ in' = {}
  /\ UNCHANGED <<key, history, faults>>

(***************************************************************************)
(* The server on its own, and time                                         *)
(***************************************************************************)
Kick(c) ==
  /\ c \in in /\ faults < MaxFaults
  /\ faults' = faults + 1
  /\ in' = in \ {c}
  /\ inbox' = Append(inbox, <<"KICK", c>>)
  /\ UNCHANGED <<pc, quit, table, out, history>>
Error ==
  /\ faults < MaxFaults
  /\ faults' = faults + 1
  /\ inbox' = Append(inbox, <<"ERROR">>)
  /\ UNCHANGED <<pc, quit, table, out, in, history>>

Tick ==
  /\ age' = [c \in Chans |-> IF age[c] < InitialDelay THEN age[c] + 1 ELSE age[c]]
  /\ UNCHANGED <<pc, quit, status, key, out, server, history, faults>>

Handle == \E c \in Chans : \/ HandleJoin(c) \/ HandleKick(c) \/ HandlePart(c)
                           \/ HandleJoinFailure(c)
Script == \/ \E c \in Chans, k \in Keys : IrcJoin(c, k)
          \/ \E c \in Chans : IrcPart(c)
          \/ IrcReconnect
Transmit == \E c \in Chans : SendJoin(c) \/ SendPart(c)
Loop == Handle \/ HandleError \/ ReadNothing \/ TimerDone \/ ChanJoin \/ LoopEnd \/ Reconnect

Next == \/ Loop \/ Script \/ Transmit \/ ReadError \/ Tick
        \/ \E c \in Chans : Kick(c)
        \/ Error

\* The loop goes round, time passes, what the server sent arrives, and the queue
\* sends what it holds: its gate opens again and again (IrcQueue, NoNeedlessDelay).
Spec == /\ Init /\ [][Next]_vars
        /\ WF_vars(Loop) /\ WF_vars(Tick)
        /\ SF_vars(Handle \/ HandleError) /\ SF_vars(Transmit)

(***************************************************************************)
(* Properties                                                              *)
(***************************************************************************)
Underway(c) == \E i \in DOMAIN inbox : inbox[i] \in {"JOIN", "PART", "KICK", "REFUSED"} \X {c}

\* With a table that holds them all, the bot is in no channel that it has
\* forgotten: it has the channel in its table, or a PART or a message of the
\* server is underway.
NoForgottenChannel ==
  Cardinality(Chans) <= MaxTracked =>
    \A c \in in : Tracked(c) \/ out[c]["PART"] > 0 \/ Underway(c)

\* A channel that a script wants the bot in, and whose first attempt was not
\* refused, stays in the table, whatever the server answers later, and so is
\* joined again after each new connection ("rejoin attempt failed;  keep trying",
\* handle_join_failure; of a refused first attempt it says "give up").
WantedIsTracked == \A c \in Chans : want[c] /\ ~refused[c] => Tracked(c)

\* The bot never takes itself to be in a channel that it is wanted in and is not,
\* once it has read what the server sent: it goes on trying, or a JOIN is queued.
\* This is so although the answer to an earlier JOIN, or the PART of an earlier
\* partchan, may come after a new joinchan.
NotLost ==
  \A c \in Chans : want[c] /\ status[c] = "ok" /\ ~Underway(c) =>
    c \in in \/ out[c]["JOIN"] > 0

\* Messages of the server in a sequence: one says that the bot is in the channel;
\* one that it is not, with none behind it that says it is.
SaysIn(q, c) == \E i \in DOMAIN q : q[i] = <<"JOIN", c>>
SaysOut(q, c) ==
  \E i \in DOMAIN q : /\ q[i] \in {<<"KICK", c>>, <<"REFUSED", c>>}
                      /\ \A j \in DOMAIN q : i < j => q[j] # <<"JOIN", c>>

\* Why these hold.  The handler of a refusal deletes nothing, as its branch that
\* gives up is never taken.
WantedKept == \A c \in Chans : want[c] => Tracked(c)

\* A JOIN that let the bot in is answered, and the answer puts
\* the channel back into the table.
JoinAnswered ==
  Cardinality(Chans) <= MaxTracked =>
    \A c \in in : Tracked(c) \/ out[c]["PART"] > 0 \/ SaysIn(inbox, c)

\* A channel whose PART is queued has not been attempted since, or a JOIN is
\* queued behind it; if it is wanted, the attempt comes in this iteration.
AttemptNext(c) == pc \in {"timer", "join"} /\ status[c] = "join" /\ age[c] = Never
PartBehindJoin ==
  \A c \in Chans : out[c]["PART"] > 0 =>
    /\ age[c] = Never \/ out[c]["JOIN"] > 0
    /\ want[c] => out[c]["JOIN"] > 0 \/ AttemptNext(c)

\* Whoever is not in a channel and takes himself to be in it, or will when he
\* has read a JOIN, will read afterwards that he is not.
Mistaken(c) ==
  /\ c \notin in
  /\ status[c] = "ok" \/ SaysIn(inbox, c)
MistakeResolved ==
  \A c \in Chans :
    Mistaken(c) /\ out[c]["JOIN"] = 0 /\ (want[c] \/ age[c] # Never) =>
      SaysOut(inbox, c) \/ AttemptNext(c)

\* The inductive invariant: types, and the reasons for the three above.
ChannelInv ==
  TypeOK /\ WantedKept /\ JoinAnswered /\ PartBehindJoin /\ MistakeResolved

\* The bot ends in every channel that scripts have asked for, whatever kicks,
\* lost connections and partchans came before, and refusals of every attempt but
\* the first.
JoinsInTheEnd == \A c \in Chans : <>[](want[c] /\ ~refused[c] => c \in in)
=============================================================================
