----------------------------- MODULE Connection -----------------------------
(***************************************************************************)
(* The parent process of the bot, its connection table, and the child      *)
(* processes it forks, one per IRC network or DCC chat (connection.c, the  *)
(* loop of irc/irc_client.c, the end of main.c).                           *)
(*                                                                         *)
(* Every child talks to the parent by a synchronous request: it writes one *)
(* line to the parent's well-known FIFO and then obeys the lines of its    *)
(* own FIFO until it reads OK or FAIL.  The parent serves one line at a    *)
(* time.  Tcl scripts run inside the service of a request.  SIGCHLD and    *)
(* SIGINT handlers run between any two steps of the parent.                *)
(*                                                                         *)
(* A process is its pid, 1, 2, ... in the order of fork(); pids are not    *)
(* reused.  What a script does is a bounded sequence of the commands that  *)
(* change the state of this module, in any order.                          *)
(***************************************************************************)
EXTENDS Integers, Sequences, FiniteSets, FiniteSetsExt

CONSTANTS
  N_CONNECTIONS,   \* slots of the connection table
  QUEUE_SIZE,      \* texts in the queue shared by all connections
  QUEUE_MSGS,      \* queue entries of one connection
  Names,           \* names of networks
  Nicks,           \* nicknames asked for, without appended underscores
  Events,          \* what servers and users make the children report
  Commands,        \* what scripts send to the children
  MaxUnderscores,  \* underscores that fit behind a nick (31 characters)
  MaxPids,         \* bound: forks
  MaxFds,          \* FIFOs the parent can hold open (its descriptor limit)
  MaxOps,          \* bound: commands run by scripts
  MaxSignals,      \* bound: SIGINT or SIGTERM received by the parent
  MaxTerms,        \* bound: SIGINT or SIGTERM received by each child
  MaxFaults        \* bound: failures of fork(), child_init() and the parent

AllEvents == {"MSG", "CTCP", "NOTICE", "SNOTICE", "CTCPR", "JOIN", "WHO",
              "PART", "NICK", "QUIT", "CONNECT", "TOPIC", "DCC", "INVITE",
              "NICKINUSE", "JOINFAILURE"}

ASSUME SizesAssumption ==
  /\ N_CONNECTIONS \in Nat \ {0}
  /\ QUEUE_SIZE \in Nat \ {0}
  /\ QUEUE_MSGS \in Nat \ {0}
  /\ N_CONNECTIONS <= QUEUE_SIZE
  /\ QUEUE_MSGS <= QUEUE_SIZE

ASSUME BoundsAssumption ==
  /\ MaxPids \in Nat
  /\ MaxFds \in Nat
  /\ MaxOps \in Nat
  /\ MaxSignals \in Nat
  /\ MaxTerms \in 0..3
  /\ MaxFaults \in Nat
  /\ MaxUnderscores \in Nat

ASSUME DataAssumption ==
  /\ "" \notin Names
  /\ "" \notin Nicks
  /\ Events \subseteq AllEvents
  /\ Commands \subseteq {"MSG", "DISCONNECT", "RECONNECT"}

Slots   == 0 .. N_CONNECTIONS - 1
QIds    == 0 .. QUEUE_SIZE - 1
Entries == 0 .. QUEUE_MSGS - 1
Pids    == 1 .. MaxPids

None   == 0              \* no process: fd or pid -1 in the code
NoQid  == -1
NoName == ""
NoNick == <<"", 0>>
Nick   == (Nicks \cup {""}) \X (0 .. MaxUnderscores)

\* A line from the parent to a child.  "to" is the network a text was
\* addressed to with irctarget, NoName when it answers the current one.
Line(cmd, to, nick) == [cmd |-> cmd, to |-> to, nick |-> nick]
Empty      == Line("", NoName, NoNick)
OK         == Line("OK", NoName, NoNick)
DISCONNECT == Line("DISCONNECT", NoName, NoNick)
LineCmds   == {"", "OK", "MSG", "DISCONNECT", "RECONNECT", "NICK"}
Lines      == [cmd : LineCmds, to : Names \cup {NoName}, nick : Nick]
Texts      == {l \in Lines : l.cmd # "OK"}

\* A line from a child to the parent: the slot and the command.  The pid is
\* in the line only for HELLO (the name of the child's FIFO); for the other
\* commands it is there for the properties and no handler reads it.
Requests == AllEvents \cup {"HELLO", "UPDATE"}
Message  == [cid : Slots, cmd : Requests, pid : Pids]
NoMsg    == [cid |-> -1, cmd |-> "", pid |-> None]

VARIABLES
  (* the parent *)
  ppc,       \* where main and the handlers it calls are
  serving,   \* the message whose handler runs
  forked,    \* fork() has returned this pid and it is not yet recorded
  ui,        \* loop index of server_update
  usent,     \* server_update has sent entry ui and not yet cleared it
  type, fd, pid, name, nick, new_nick, parent,   \* struct connection
  mq,        \* conn[].queue[].qid
  queue,     \* the texts
  count,     \* number of children
  target,    \* irctarget
  input,     \* contents of the well-known FIFO
  fds,       \* FIFOs the parent has opened; it closes none
  sigchld,   \* SIGCHLD is pending
  (* the children *)
  cpc,       \* where each child is
  slot,      \* the slot it was forked for
  req,       \* its last request
  fifo,      \* contents of its FIFO
  quit,      \* irc_client's quit flag
  botnick,   \* irc_client's botnick
  terms,     \* term_count
  opened,    \* how it was opened: [dcc, nick, net]
  (* counters for the bounds *)
  forks, ops, signals, faults

control  == <<ppc, serving, forked, ui, usent>>
table    == <<type, fd, pid, name, nick, new_nick, parent, count>>
texts    == <<mq, queue>>
children == <<cpc, slot, req, fifo, quit, botnick, terms, opened>>
bounds   == <<forks, ops, signals, faults>>
vars == <<control, table, texts, target, input, fds, sigchld, children, bounds>>

CPc == {"unborn", "init", "wait", "connect", "read", "timer", "tail", "exit",
        "zombie", "reaped"}

ControlType ==
  /\ ppc \in {"start", "server", "hello", "script", "update", "exited", "crashed"}
  /\ serving \in Message \cup {NoMsg}
  /\ forked \in {None} \cup Pids
  /\ ui \in 0 .. QUEUE_MSGS
  /\ usent \in BOOLEAN
  /\ usent => ui < QUEUE_MSGS

TableType ==
  /\ type \in [Slots -> {"CLOSED", "CLIENT", "DCC"}]
  /\ fd \in [Slots -> {None} \cup Pids]
  /\ pid \in [Slots -> {None} \cup Pids]
  /\ name \in [Slots -> Names \cup {NoName}]
  /\ nick \in [Slots -> Nick]
  /\ new_nick \in [Slots -> Nick]
  /\ parent \in [Slots -> Slots]
  /\ count \in Int

TextsType ==
  /\ mq \in [Slots -> [Entries -> {NoQid} \cup QIds]]
  /\ queue \in [QIds -> Texts]

InputType ==
  /\ input \in Seq(Message)
  /\ target \in Names \cup {NoName}
  /\ fds \in Nat
  /\ sigchld \in BOOLEAN

ChildrenType ==
  /\ cpc \in [Pids -> CPc]
  /\ slot \in [Pids -> Slots]
  /\ req \in [Pids -> Requests]
  /\ fifo \in [Pids -> Seq(Lines)]
  /\ quit \in [Pids -> {"none", "reconnect", "disconnect"}]
  /\ botnick \in [Pids -> Nick]
  /\ terms \in [Pids -> 0..3]
  /\ opened \in [Pids -> [dcc : BOOLEAN, nick : Nick, net : Names \cup {NoName}]]

BoundsType ==
  /\ forks \in 0 .. MaxPids
  /\ ops \in Nat
  /\ signals \in Nat
  /\ faults \in Nat

TypeOK ==
  /\ ControlType
  /\ TableType
  /\ TextsType
  /\ InputType
  /\ ChildrenType
  /\ BoundsType

Init ==
  /\ ppc = "start"
  /\ serving = NoMsg
  /\ forked = None
  /\ ui = 0
  /\ usent = FALSE
  /\ type = [s \in Slots |-> "CLOSED"]
  /\ fd = [s \in Slots |-> None]
  /\ pid = [s \in Slots |-> None]
  /\ name = [s \in Slots |-> NoName]
  /\ nick = [s \in Slots |-> NoNick]
  /\ new_nick = [s \in Slots |-> NoNick]
  /\ parent = [s \in Slots |-> 0]
  /\ mq = [s \in Slots |-> [j \in Entries |-> NoQid]]
  /\ queue = [q \in QIds |-> Empty]
  /\ count = 0
  /\ target = NoName
  /\ input = <<>>
  /\ fds = 0
  /\ sigchld = FALSE
  /\ cpc = [p \in Pids |-> "unborn"]
  /\ slot = [p \in Pids |-> 0]
  /\ req = [p \in Pids |-> "HELLO"]
  /\ fifo = [p \in Pids |-> <<>>]
  /\ quit = [p \in Pids |-> "none"]
  /\ botnick = [p \in Pids |-> NoNick]
  /\ terms = [p \in Pids |-> 0]
  /\ opened = [p \in Pids |-> [dcc |-> FALSE, nick |-> NoNick, net |-> NoName]]
  /\ forks = 0
  /\ ops = 0
  /\ signals = 0
  /\ faults = 0

(***************************************************************************)
(* Helpers                                                                 *)
(***************************************************************************)
Alive(p) == cpc[p] \notin {"unborn", "zombie", "reaped"}
Waiting(p) == cpc[p] = "wait"
Running == ppc \notin {"exited", "crashed"}

\* The parent's main thread: a handler of a signal may interrupt it anywhere,
\* but it takes no other step between fork() and the recording of the pid.
Main(pc) == ppc = pc /\ forked = None

\* send_to_child: refused when the slot is closed or has no FIFO; the write
\* fails (EPIPE, SIGPIPE is ignored) when the reader has died.
CanSend(s) == type[s] # "CLOSED" /\ fd[s] # None /\ Alive(fd[s])
Send(s, lines) ==
  fifo' = IF CanSend(s) THEN [fifo EXCEPT ![fd[s]] = @ \o lines] ELSE fifo

\* connection_find returns the first of the slots in use that have the name.
Named(n) == {s \in Slots : type[s] # "CLOSED" /\ name[s] = n}
ConnectionFind(n) == Min(Named(n))

\* connection_get_name: a connection that is not a client has its parent's.
ConnectionGetName(s) == IF type[s] = "CLIENT" THEN name[s] ELSE name[parent[s]]

\* Free texts, free entries of a connection and free slots; the code takes
\* the first of them.
FreeQids == {q \in QIds : queue[q] = Empty}
FreeEntries(s) == {j \in Entries : mq[s][j] = NoQid}
FreeSlots == {s \in Slots : type[s] = "CLOSED"}

\* connection_queue: the text goes to the first free place of the shared
\* queue and its index to the first free entry of the connection.  When the
\* connection has no free entry the loop goes on, copies the text to every
\* free place of the shared queue and fails.
ConnectionQueue(n, text) ==
  IF Named(n) = {} \/ FreeQids = {}
  THEN UNCHANGED texts
  ELSE LET s == ConnectionFind(n) IN
       IF FreeEntries(s) = {}
       THEN /\ queue' = [q \in QIds |-> IF q \in FreeQids THEN text ELSE queue[q]]
            /\ UNCHANGED mq
       ELSE /\ queue' = [queue EXCEPT ![Min(FreeQids)] = text]
            /\ mq' = [mq EXCEPT ![s] =
                        [@ EXCEPT ![Min(FreeEntries(s))] = Min(FreeQids)]]

\* connection_shutdown: every connection in use loses what was queued for it
\* and gets one entry, which refers to the text with the number of its slot.
ConnectionShutdown ==
  /\ mq' = [s \in Slots |->
              IF type[s] = "CLOSED" THEN mq[s]
              ELSE [j \in Entries |-> IF j = 0 THEN s ELSE NoQid]]
  /\ queue' = [q \in QIds |-> IF q \in Slots /\ type[q] # "CLOSED"
                              THEN DISCONNECT ELSE queue[q]]

(***************************************************************************)
(* Faulty forms of the actions below, each with a mistake that a change of *)
(* the code could make.  None is used: each shows that a property of the   *)
(* end of this module is about the code.                                   *)
(***************************************************************************)

\* connection_close that leaves fd as it is.
SigchildKeepsFd ==
  /\ Running /\ sigchld
  /\ sigchld' = FALSE
  /\ \E p \in Pids :
       /\ cpc[p] = "zombie"
       /\ cpc' = [cpc EXCEPT ![p] = "reaped"]
       /\ LET found == {s \in Slots : type[s] # "CLOSED" /\ pid[s] = p} IN
          IF found = {}
          THEN UNCHANGED <<type, pid, count>>
          ELSE /\ type' = [type EXCEPT ![Min(found)] = "CLOSED"]
               /\ pid' = [pid EXCEPT ![Min(found)] = None]
               /\ count' = count - 1
  /\ UNCHANGED <<control, fd, name, nick, new_nick, parent, texts, target, input, fds,
                 slot, req, fifo, quit, botnick, terms, opened, bounds>>

\* sigchild that closes the first connection in use.
SigchildClosesFirst ==
  /\ Running /\ sigchld
  /\ sigchld' = FALSE
  /\ \E p \in Pids :
       /\ cpc[p] = "zombie"
       /\ cpc' = [cpc EXCEPT ![p] = "reaped"]
  /\ LET found == Slots \ FreeSlots IN
     /\ found # {}
     /\ type' = [type EXCEPT ![Min(found)] = "CLOSED"]
     /\ fd' = [fd EXCEPT ![Min(found)] = None]
     /\ pid' = [pid EXCEPT ![Min(found)] = None]
     /\ count' = count - 1
  /\ UNCHANGED <<control, name, nick, new_nick, parent, texts, target, input, fds,
                 slot, req, fifo, quit, botnick, terms, opened, bounds>>

\* connection_close that does not count the child out.
SigchildKeepsCount ==
  /\ Running /\ sigchld
  /\ sigchld' = FALSE
  /\ \E p \in Pids :
       /\ cpc[p] = "zombie"
       /\ cpc' = [cpc EXCEPT ![p] = "reaped"]
       /\ LET found == {s \in Slots : type[s] # "CLOSED" /\ pid[s] = p} IN
          /\ type' = [s \in Slots |-> IF s \in found THEN "CLOSED" ELSE type[s]]
          /\ fd' = [s \in Slots |-> IF s \in found THEN None ELSE fd[s]]
          /\ pid' = [s \in Slots |-> IF s \in found THEN None ELSE pid[s]]
  /\ UNCHANGED <<control, name, nick, new_nick, parent, texts, target, input, fds,
                 count, slot, req, fifo, quit, botnick, terms, opened, bounds>>

\* The pid is recorded but the child is not counted in.
RecordPidUncounted ==
  /\ Running
  /\ forked # None
  /\ pid' = [pid EXCEPT ![slot[forked]] = forked]
  /\ forked' = None
  /\ UNCHANGED <<ppc, serving, ui, usent, type, fd, name, nick, new_nick, parent, count,
                 texts, target, input, fds, sigchld, children, bounds>>

\* server_hello that does not answer.
HelloOpenSilent ==
  /\ Main("hello")
  /\ fds < MaxFds /\ Alive(serving.pid)
  /\ fds' = fds + 1
  /\ fd' = [fd EXCEPT ![serving.cid] = serving.pid]
  /\ ppc' = "server"
  /\ serving' = NoMsg
  /\ UNCHANGED <<forked, ui, usent, type, pid, name, nick, new_nick, parent, count,
                 texts, target, input, sigchld, children, bounds>>

\* server_update that clears the text and leaves the entry.
UpdateClearKeepsEntry ==
  /\ Main("update")
  /\ usent
  /\ queue' = [queue EXCEPT ![ui] = Empty]
  /\ usent' = FALSE
  /\ ui' = ui + 1
  /\ UNCHANGED <<ppc, serving, forked, mq, table, target, input, fds, sigchld, children,
                 bounds>>

\* script_exec that answers the child when the script fails.
ScriptErrorAnswers ==
  /\ Main("script")
  /\ ops < MaxOps
  /\ ops' = ops + 1
  /\ Send(serving.cid, <<Line("MSG", NoName, NoNick), OK>>)
  /\ UNCHANGED <<control, table, texts, target, input, fds, sigchld, cpc, slot, req,
                 quit, botnick, terms, opened, forks, signals, faults>>

\* read_input that serves a line and leaves it in its buffer.
ReceiveKeepsLine(cmds) ==
  /\ Main("server")
  /\ count # 0
  /\ input # <<>>
  /\ Head(input).cmd \in cmds
  /\ UNCHANGED input

\* client() that connects again after DISCONNECT.
ChildTailReconnects(p) ==
  /\ cpc[p] = "tail"
  /\ cpc' = [cpc EXCEPT ![p] = IF quit[p] = "none" THEN "read" ELSE "connect"]
  /\ UNCHANGED <<control, table, texts, target, input, fds, sigchld, slot, req, fifo,
                 quit, botnick, terms, opened, bounds>>

(***************************************************************************)
(* Opening and closing connections                                         *)
(***************************************************************************)

\* fork() in connection_open and connection_open_dcc.  A failure leaves the
\* slot marked as in use.
Fork(s, how) ==
  \/ /\ faults < MaxFaults
     /\ faults' = faults + 1
     /\ UNCHANGED <<forked, forks, cpc, slot, opened>>
  \/ /\ forks < MaxPids
     /\ forks' = forks + 1
     /\ forked' = forks + 1
     /\ cpc' = [cpc EXCEPT ![forks + 1] = "init"]
     /\ slot' = [slot EXCEPT ![forks + 1] = s]
     /\ opened' = [opened EXCEPT ![forks + 1] = how]
     /\ UNCHANGED faults

NotOpened == UNCHANGED <<type, name, nick, new_nick, parent, forked, forks, faults,
                         cpc, slot, opened>>

\* connection_open(n, ..., k, ...): new_nick, the queue entries and fd keep
\* what the last user of the slot left there.
ConnectionOpen(n, k) ==
  IF FreeSlots = {} THEN NotOpened
  ELSE LET s == Min(FreeSlots) IN
       /\ type' = [type EXCEPT ![s] = "CLIENT"]
       /\ name' = [name EXCEPT ![s] = n]
       /\ nick' = [nick EXCEPT ![s] = <<k, 0>>]
       /\ UNCHANGED <<new_nick, parent>>
       /\ Fork(s, [dcc |-> FALSE, nick |-> <<k, 0>>, net |-> n])

\* connection_open_dcc(from, ...): the chat keeps the slot it was asked from.
ConnectionOpenDcc(from) ==
  IF FreeSlots = {} THEN NotOpened
  ELSE LET s == Min(FreeSlots) IN
       /\ type' = [type EXCEPT ![s] = "DCC"]
       /\ name' = [name EXCEPT ![s] = NoName]
       /\ nick' = [nick EXCEPT ![s] = NoNick]
       /\ new_nick' = [new_nick EXCEPT ![s] = NoNick]
       /\ parent' = [parent EXCEPT ![s] = from]
       /\ Fork(s, [dcc |-> TRUE, nick |-> NoNick, net |-> ConnectionGetName(from)])

\* The end of connection_open: the parent records the pid and counts the
\* child, whatever has happened to the child since fork() returned.
RecordPid ==
  /\ Running
  /\ forked # None
  /\ pid' = [pid EXCEPT ![slot[forked]] = forked]
  /\ count' = count + 1
  /\ forked' = None
  /\ UNCHANGED <<ppc, serving, ui, usent, type, fd, name, nick, new_nick, parent,
                 texts, target, input, fds, sigchld, children, bounds>>

\* sigchild and connection_close: one wait() for each SIGCHLD that arrives,
\* and SIGCHLDs that are pending together arrive as one.  The slot is found
\* by its pid; its FIFO is forgotten but not closed.
Sigchild ==
  /\ Running
  /\ sigchld
  /\ sigchld' = FALSE
  /\ \E p \in Pids :
       /\ cpc[p] = "zombie"
       /\ cpc' = [cpc EXCEPT ![p] = "reaped"]
       /\ LET found == {s \in Slots : type[s] # "CLOSED" /\ pid[s] = p} IN
          IF found = {}
          THEN UNCHANGED <<type, fd, pid, count>>
          ELSE /\ type' = [type EXCEPT ![Min(found)] = "CLOSED"]
               /\ fd' = [fd EXCEPT ![Min(found)] = None]
               /\ pid' = [pid EXCEPT ![Min(found)] = None]
               /\ count' = count - 1
  /\ UNCHANGED <<control, name, nick, new_nick, parent, texts, target, input, fds,
                 slot, req, fifo, quit, botnick, terms, opened, bounds>>

\* sigint, sigterm: the handler runs connection_shutdown in the middle of
\* whatever the parent does.
Sigint ==
  /\ Running
  /\ signals < MaxSignals
  /\ signals' = signals + 1
  /\ ConnectionShutdown
  /\ UNCHANGED <<control, table, target, input, fds, sigchld, children, forks, ops,
                 faults>>

\* The parent dies (SIGKILL).
ParentCrash ==
  /\ Running
  /\ faults < MaxFaults
  /\ faults' = faults + 1
  /\ ppc' = "crashed"
  /\ UNCHANGED <<serving, forked, ui, usent, table, texts, target, input, fds, sigchld,
                 children, forks, ops, signals>>

\* main opens the first connection, whatever the outcome, then serves.
MainOpen ==
  /\ Main("start")
  /\ \E n \in Names, k \in Nicks : ConnectionOpen(n, k)
  /\ ppc' = "server"
  /\ UNCHANGED <<serving, ui, usent, fd, pid, count, texts, target, input, fds, sigchld,
                 req, fifo, quit, botnick, terms, ops, signals>>

\* connection_server returns -1 when no child is left, and main ends.
MainExit ==
  /\ Main("server")
  /\ count = 0
  /\ ppc' = "exited"
  /\ UNCHANGED <<serving, forked, ui, usent, table, texts, target, input, fds, sigchld,
                 children, bounds>>

(***************************************************************************)
(* Serving requests                                                        *)
(***************************************************************************)

\* connection_server, read_input and parse_server_input: the parent takes
\* the first line of its FIFO.  Main ends instead when no child is left.
Receive(cmds) ==
  /\ Main("server")
  /\ count # 0
  /\ input # <<>>
  /\ Head(input).cmd \in cmds
  /\ input' = Tail(input)

\* A handler that only answers.  Its changes to the table of users are in
\* module UserCache.
Answer(cmds) ==
  /\ Receive(cmds)
  /\ Send(Head(input).cid, <<OK>>)
  /\ UNCHANGED <<control, table, texts, target, fds, sigchld, cpc, slot, req, quit,
                 botnick, terms, opened, bounds>>

\* A handler that goes on in the state pc.
Enter(cmds, pc) ==
  /\ Receive(cmds)
  /\ ppc' = pc
  /\ serving' = Head(input)
  /\ UNCHANGED <<forked, ui, usent, table, texts, target, fds, sigchld, children, bounds>>

\* A handler that runs scripts: each of them runs any sequence of commands,
\* none when there is no script of that name, and then the child is answered.
RunScript(cmd) == Enter({cmd}, "script")

ServerMsg     == RunScript("MSG")
ServerCtcp    == RunScript("CTCP")
ServerNotice  == RunScript("NOTICE")
ServerSnotice == RunScript("SNOTICE")
ServerCtcpr   == RunScript("CTCPR")
ServerPart    == RunScript("PART")
ServerConnect == RunScript("CONNECT")
ServerTopic   == RunScript("TOPIC")
ServerDcc     == RunScript("DCC")
ServerInvite  == RunScript("INVITE")
\* A JOIN that comes from a reply to WHO runs no script.
ServerJoin    == RunScript("JOIN") \/ Answer({"WHO"})
ServerNick    == Answer({"NICK"})
ServerQuit    == Answer({"QUIT"})

\* server_note: a nick in use gets an underscore while there is room for it.
ServerNote ==
  /\ Receive({"NICKINUSE", "JOINFAILURE"})
  /\ LET s == Head(input).cid
         longer == <<nick[s][1], nick[s][2] + 1>>
     IN IF Head(input).cmd = "NICKINUSE" /\ nick[s][2] < MaxUnderscores
        THEN /\ nick' = [nick EXCEPT ![s] = longer]
             /\ Send(s, <<Line("NICK", NoName, longer), OK>>)
        ELSE /\ Send(s, <<OK>>)
             /\ UNCHANGED nick
  /\ UNCHANGED <<control, type, fd, pid, name, new_nick, parent, count, texts, target,
                 fds, sigchld, cpc, slot, req, quit, botnick, terms, opened, bounds>>

\* server_hello: open() blocks until the FIFO has a reader, and fails when
\* the parent has no descriptor left; then the child is not answered at all.
ServerHello == Enter({"HELLO"}, "hello")

HelloOpen ==
  /\ Main("hello")
  /\ LET s == serving.cid IN
     \/ /\ fds = MaxFds
        /\ fd' = [fd EXCEPT ![s] = None]
        /\ UNCHANGED <<fds, fifo>>
     \/ /\ fds < MaxFds
        /\ Alive(serving.pid)
        /\ fds' = fds + 1
        /\ fd' = [fd EXCEPT ![s] = serving.pid]
        /\ fifo' = IF type[s] = "CLOSED" THEN fifo
                   ELSE [fifo EXCEPT ![serving.pid] = Append(@, OK)]
  /\ ppc' = "server"
  /\ serving' = NoMsg
  /\ UNCHANGED <<forked, ui, usent, type, pid, name, nick, new_nick, parent, count,
                 texts, target, input, sigchld, cpc, slot, req, quit, botnick, terms,
                 opened, bounds>>

\* server_update walks the entries of the connection.  An entry in use is
\* sent, then the text with the number of the ENTRY is cleared (line 1340;
\* qid is the number of the text), then the entry.
ServerUpdate == Enter({"UPDATE"}, "update")

UpdateUnchanged == UNCHANGED <<forked, table, target, input, fds, sigchld, cpc, slot, req,
                               quit, botnick, terms, opened, bounds>>

UpdateSkip ==
  /\ Main("update")
  /\ ui < QUEUE_MSGS /\ ~usent
  /\ mq[serving.cid][ui] = NoQid
  /\ ui' = ui + 1
  /\ UNCHANGED <<ppc, serving, usent, texts, fifo>>
  /\ UpdateUnchanged

UpdateSend ==
  /\ Main("update")
  /\ ui < QUEUE_MSGS /\ ~usent
  /\ mq[serving.cid][ui] # NoQid
  /\ Send(serving.cid, <<queue[mq[serving.cid][ui]]>>)
  /\ usent' = TRUE
  /\ UNCHANGED <<ppc, serving, ui, texts>>
  /\ UpdateUnchanged

UpdateClear ==
  /\ Main("update")
  /\ usent
  /\ queue' = [queue EXCEPT ![ui] = Empty]
  /\ mq' = [mq EXCEPT ![serving.cid] = [@ EXCEPT ![ui] = NoQid]]
  /\ usent' = FALSE
  /\ ui' = ui + 1
  /\ UNCHANGED <<ppc, serving, fifo>>
  /\ UpdateUnchanged

\* The end of server_update: a nick a script has asked for, then OK.
UpdateDone ==
  /\ Main("update")
  /\ ui = QUEUE_MSGS
  /\ LET s == serving.cid IN
     IF new_nick[s] = NoNick
     THEN /\ Send(s, <<OK>>)
          /\ UNCHANGED <<nick, new_nick>>
     ELSE /\ Send(s, <<Line("NICK", NoName, new_nick[s]), OK>>)
          /\ nick' = [nick EXCEPT ![s] = new_nick[s]]
          /\ new_nick' = [new_nick EXCEPT ![s] = NoNick]
  /\ ui' = 0
  /\ ppc' = "server"
  /\ serving' = NoMsg
  /\ UNCHANGED <<forked, usent, type, fd, pid, name, parent, count, texts, target, input,
                 fds, sigchld, cpc, slot, req, quit, botnick, terms, opened, bounds>>

(***************************************************************************)
(* What a script does to this module's state, one command a step           *)
(***************************************************************************)
ScriptStep ==
  /\ Main("script")
  /\ ops < MaxOps
  /\ ops' = ops + 1
  /\ UNCHANGED <<ppc, serving, ui, usent, fd, pid, count, input, fds, sigchld, req, quit,
                 botnick, terms, signals>>

\* The SEND macro: to the connection that is served, or through the queue to
\* the network chosen with irctarget.
ScriptSend(cmd) ==
  /\ ScriptStep
  /\ IF target = NoName
     THEN Send(serving.cid, <<Line(cmd, NoName, NoNick)>>) /\ UNCHANGED texts
     ELSE ConnectionQueue(target, Line(cmd, target, NoNick)) /\ UNCHANGED fifo
  /\ UNCHANGED <<type, name, nick, new_nick, parent, target, forked, cpc, slot, opened,
                 forks, faults>>

\* script_exec reports an error of the script to the connection served; a
\* network that the script has chosen stays chosen.
ScriptError ==
  /\ ScriptStep
  /\ Send(serving.cid, <<Line("MSG", NoName, NoNick)>>)
  /\ UNCHANGED <<type, name, nick, new_nick, parent, texts, target, forked, cpc, slot,
                 opened, forks, faults>>

\* irctarget
ScriptTarget(n) ==
  /\ ScriptStep
  /\ target' = n
  /\ UNCHANGED <<type, name, nick, new_nick, parent, texts, fifo, forked, cpc, slot,
                 opened, forks, faults>>

\* setnick, connection_set_nick
ScriptSetnick(k) ==
  /\ ScriptStep
  /\ new_nick' = [new_nick EXCEPT ![serving.cid] = <<k, 0>>]
  /\ UNCHANGED <<type, name, nick, parent, texts, target, fifo, forked, cpc, slot, opened,
                 forks, faults>>

\* shutdown
ScriptShutdown ==
  /\ ScriptStep
  /\ ConnectionShutdown
  /\ UNCHANGED <<type, name, nick, new_nick, parent, target, fifo, forked, cpc, slot,
                 opened, forks, faults>>

\* connect, connectdcc
ScriptConnect ==
  /\ ScriptStep
  /\ \/ \E n \in Names, k \in Nicks : ConnectionOpen(n, k)
     \/ ConnectionOpenDcc(serving.cid)
  /\ UNCHANGED <<texts, target, fifo>>

ScriptReturn ==
  /\ Main("script")
  /\ Send(serving.cid, <<OK>>)
  /\ ppc' = "server"
  /\ serving' = NoMsg
  /\ UNCHANGED <<forked, ui, usent, table, texts, target, input, fds, sigchld, cpc, slot,
                 req, quit, botnick, terms, opened, bounds>>

(***************************************************************************)
(* The children                                                            *)
(***************************************************************************)
ChildUnchanged(p) == UNCHANGED <<control, table, texts, target, fds, slot, opened, forks,
                                 ops, signals>>

\* The end of a process: the parent gets a SIGCHLD.
Die(p) ==
  /\ cpc' = [cpc EXCEPT ![p] = "zombie"]
  /\ sigchld' = TRUE

\* send_to_parent: the line is written at once (it is shorter than PIPE_BUF)
\* and the child starts to wait; without a parent the write fails and the
\* child exits.
Request(p, cmd) ==
  IF ppc = "crashed"
  THEN Die(p) /\ UNCHANGED <<req, input>>
  ELSE /\ input' = Append(input, [cid |-> slot[p], cmd |-> cmd, pid |-> p])
       /\ req' = [req EXCEPT ![p] = cmd]
       /\ cpc' = [cpc EXCEPT ![p] = "wait"]
       /\ UNCHANGED sigchld

\* child_init: says HELLO when its FIFO is open.  It fails when the FIFO
\* cannot be made.
ChildInit(p) ==
  /\ cpc[p] = "init"
  /\ \/ Request(p, "HELLO") /\ UNCHANGED faults
     \/ /\ faults < MaxFaults
        /\ faults' = faults + 1
        /\ cpc' = [cpc EXCEPT ![p] = "exit"]
        /\ UNCHANGED <<req, input, sigchld>>
  /\ UNCHANGED <<fifo, quit, botnick, terms>>
  /\ ChildUnchanged(p)

\* The child reads one line of its FIFO: OK and FAIL end the wait; the other
\* lines are obeyed, an unknown one (an empty text) is ignored.  Messages to
\* the server go to the output queue (module IrcQueue).
ChildReceive(p) ==
  /\ Waiting(p)
  /\ fifo[p] # <<>>
  /\ fifo' = [fifo EXCEPT ![p] = Tail(@)]
  /\ LET line == Head(fifo[p]) IN
     /\ cpc' = IF line.cmd # "OK" THEN cpc
               ELSE [cpc EXCEPT ![p] = CASE req[p] = "HELLO"  -> "connect"
                                         [] req[p] = "UPDATE" -> "tail"
                                         [] OTHER             -> "timer"]
     /\ quit' = CASE line.cmd = "DISCONNECT" -> [quit EXCEPT ![p] = "disconnect"]
                  [] line.cmd = "RECONNECT"  -> [quit EXCEPT ![p] = "reconnect"]
                  [] OTHER                   -> quit
     /\ botnick' = IF line.cmd = "NICK" THEN [botnick EXCEPT ![p] = line.nick]
                   ELSE botnick
  /\ UNCHANGED <<req, input, sigchld, terms, faults>>
  /\ ChildUnchanged(p)

\* client(): one round of the outer loop starts with a connection to the
\* server; a failure ends the child.  The nick asked for is the one the
\* connection was opened with.
ChildConnect(p) ==
  /\ cpc[p] = "connect"
  /\ quit' = [quit EXCEPT ![p] = "none"]
  /\ \/ /\ cpc' = [cpc EXCEPT ![p] = "read"]
        /\ botnick' = IF opened[p].dcc THEN botnick
                      ELSE [botnick EXCEPT ![p] = opened[p].nick]
     \/ /\ cpc' = [cpc EXCEPT ![p] = "exit"]
        /\ UNCHANGED botnick
  /\ UNCHANGED <<req, fifo, input, sigchld, terms, faults>>
  /\ ChildUnchanged(p)

\* The inner loop reads a line that the parent is told of (a DCC child
\* reports nothing but DCC), or no such line.
ChildReport(p) ==
  /\ cpc[p] = "read"
  /\ \E e \in Events : (e = "DCC" <=> opened[p].dcc) /\ Request(p, e)
  /\ UNCHANGED <<fifo, quit, botnick, terms, faults>>
  /\ ChildUnchanged(p)

ChildNoReport(p) ==
  /\ cpc[p] = "read"
  /\ cpc' = [cpc EXCEPT ![p] = "timer"]
  /\ UNCHANGED <<req, fifo, quit, botnick, input, sigchld, terms, faults>>
  /\ ChildUnchanged(p)

\* A read error makes the child reconnect, or end for DCC; ERROR from the
\* server has the effect of the first.
ChildReadError(p) ==
  /\ cpc[p] = "read"
  /\ cpc' = [cpc EXCEPT ![p] = "timer"]
  /\ quit' = [quit EXCEPT ![p] = IF opened[p].dcc THEN "disconnect" ELSE "reconnect"]
  /\ UNCHANGED <<req, fifo, botnick, input, sigchld, terms, faults>>
  /\ ChildUnchanged(p)

\* handle_timer, in every round: UPDATE, or after two SIGTERMs the end.
ChildTimer(p) ==
  /\ cpc[p] = "timer"
  /\ IF terms[p] > 1
     THEN /\ quit' = [quit EXCEPT ![p] = "disconnect"]
          /\ cpc' = [cpc EXCEPT ![p] = "tail"]
          /\ UNCHANGED <<req, input, sigchld>>
     ELSE Request(p, "UPDATE") /\ UNCHANGED quit
  /\ UNCHANGED <<fifo, botnick, terms, faults>>
  /\ ChildUnchanged(p)

\* The loop conditions of client().
ChildTail(p) ==
  /\ cpc[p] = "tail"
  /\ cpc' = [cpc EXCEPT ![p] = CASE quit[p] = "none"      -> "read"
                                 [] quit[p] = "reconnect" -> "connect"
                                 [] OTHER                 -> "exit"]
  /\ UNCHANGED <<req, fifo, quit, botnick, input, sigchld, terms, faults>>
  /\ ChildUnchanged(p)

\* child_shutdown and _exit.
ChildExit(p) ==
  /\ cpc[p] = "exit"
  /\ Die(p)
  /\ UNCHANGED <<req, fifo, quit, botnick, input, terms, faults>>
  /\ ChildUnchanged(p)

\* sigterm_child: the third signal ends the process where it is.
ChildTerm(p) ==
  /\ Alive(p)
  /\ terms[p] < MaxTerms
  /\ terms' = [terms EXCEPT ![p] = @ + 1]
  /\ IF terms[p] = 2 THEN Die(p) ELSE UNCHANGED <<cpc, sigchld>>
  /\ UNCHANGED <<req, fifo, quit, botnick, input, faults>>
  /\ ChildUnchanged(p)

-----------------------------------------------------------------------------
Server == \/ ServerHello \/ ServerMsg \/ ServerCtcp \/ ServerNotice \/ ServerSnotice
          \/ ServerCtcpr \/ ServerJoin \/ ServerPart \/ ServerNick \/ ServerQuit
          \/ ServerConnect \/ ServerUpdate \/ ServerTopic \/ ServerNote
          \/ ServerDcc \/ ServerInvite

Update == UpdateSkip \/ UpdateSend \/ UpdateClear \/ UpdateDone

Script == \/ \E c \in Commands : ScriptSend(c)
          \/ ScriptError
          \/ \E n \in Names \cup {NoName} : ScriptTarget(n)
          \/ \E k \in Nicks : ScriptSetnick(k)
          \/ ScriptShutdown
          \/ ScriptConnect
          \/ ScriptReturn

Parent == MainOpen \/ RecordPid \/ MainExit \/ Server \/ HelloOpen \/ Update \/ Script

Child(p) == \/ ChildInit(p) \/ ChildReceive(p) \/ ChildConnect(p) \/ ChildReport(p)
            \/ ChildNoReport(p) \/ ChildReadError(p) \/ ChildTimer(p) \/ ChildTail(p)
            \/ ChildExit(p)

Next == \/ Parent
        \/ Sigchild
        \/ Sigint
        \/ ParentCrash
        \/ \E p \in Pids : Child(p) \/ ChildTerm(p)

Spec == Init /\ [][Next]_vars

\* The operating system runs every process that can run and delivers pending
\* signals.  Nothing makes a server close a connection or a user speak.
Fairness == /\ WF_vars(Parent)
            /\ WF_vars(Sigchild)
            /\ \A p \in Pids : WF_vars(Child(p))
FairSpec == Spec /\ Fairness

-----------------------------------------------------------------------------
(***************************************************************************)
(* Properties                                                              *)
(***************************************************************************)

\* Where the request of a child is: in the parent's FIFO, with the handler
\* that runs, or answered.
Asked(p)    == \E i \in DOMAIN input : input[i].pid = p
Served(p)   == serving.pid = p
Answered(p) == \E i \in DOMAIN fifo[p] : fifo[p][i].cmd = "OK"

\* Requests and answers of a living child never get out of step.  A child that
\* does not wait owes nothing and has nothing to read; one that waits has its
\* request in exactly one place, and OK is the last line it will read.  Only a
\* HELLO can be lost, when the parent has no descriptor left.  This must
\* survive children that are killed while they wait and the reuse of their
\* slots (send_to_parent, connection_close, server_hello).
ReplyDiscipline ==
  \A p \in Pids : Alive(p) =>
    /\ ~Waiting(p) => ~Asked(p) /\ ~Served(p) /\ fifo[p] = <<>>
    /\ \A i, j \in DOMAIN input : input[i].pid = p /\ input[j].pid = p => i = j
    /\ ~(Asked(p) /\ Served(p))
    /\ ~(Answered(p) /\ (Asked(p) \/ Served(p)))
    /\ \A i \in DOMAIN fifo[p] : fifo[p][i].cmd = "OK" => i = Len(fifo[p])
    /\ Waiting(p) => \/ Asked(p) \/ Served(p) \/ Answered(p)
                     \/ req[p] = "HELLO" /\ fds = MaxFds

\* A slot belongs to one living child: it is neither closed nor given to
\* another connection while its child lives (connection_open,
\* connection_close).
SlotOwned ==
  \A p \in Pids : Alive(p) =>
    /\ type[slot[p]] # "CLOSED"
    /\ \A q \in Pids : Alive(q) /\ slot[q] = slot[p] => q = p

\* What the parent writes goes to the child that asked: while a request of a
\* slot waits in the FIFO or is served, the slot's FIFO, if it is open, is
\* that of the process that sent the request (read_input, connection_close).
RepliesGoHome ==
  /\ \A i \in DOMAIN input : fd[input[i].cid] # None => fd[input[i].cid] = input[i].pid
  /\ serving # NoMsg /\ fd[serving.cid] # None => fd[serving.cid] = serving.pid

\* main ends only when no child is left (connection_server).
NoOrphans == ppc = "exited" => \A p \in Pids : ~Alive(p)

\* The inductive invariant behind the four.  Where main is and what it serves:
ControlInv ==
  /\ ppc \in {"hello", "script", "update"} => serving # NoMsg
  /\ ppc \in {"start", "server", "exited"} => serving = NoMsg
  /\ ppc = "hello" <=> serving.cmd = "HELLO" /\ ppc # "crashed"

\* Slots, processes and FIFOs: what the table says of a process is true.
TableInv ==
  /\ \A p \in Pids : cpc[p] = "unborn" <=> p > forks
  /\ forked # None => /\ forked <= forks
                      /\ type[slot[forked]] # "CLOSED"
                      /\ pid[slot[forked]] = None
  /\ \A s \in Slots :
       /\ type[s] = "CLOSED" => pid[s] = None /\ fd[s] = None
       /\ pid[s] # None => pid[s] <= forks /\ slot[pid[s]] = s
       /\ fd[s] # None => fd[s] <= forks /\ slot[fd[s]] = s
  /\ \A p \in Pids : Alive(p) => /\ p # forked => pid[slot[p]] = p
                                 /\ fd[slot[p]] \in {None, p}
                                 /\ cpc[p] = "init" => fd[slot[p]] = None

\* The children are counted by the pids in the table.
CountInv == count = Cardinality({s \in Slots : pid[s] # None})

\* The requests not yet answered.  Those of one slot are in the order of the
\* forks, and those of a process that has died come before any request of
\* the process that has the slot now.
Pending == {input[i] : i \in DOMAIN input} \cup ({serving} \ {NoMsg})
RequestInv ==
  /\ \A m \in Pending :
       /\ m.pid <= forks
       /\ m.cid = slot[m.pid]
       /\ Alive(m.pid) => Waiting(m.pid) /\ req[m.pid] = m.cmd
       /\ \A p \in Pids : Alive(p) /\ slot[p] = m.cid => m.pid <= p
       /\ fd[m.cid] \in {None, m.pid}
       /\ Alive(m.pid) /\ m.cmd = "HELLO" => fd[m.cid] = None
  /\ \A i, j \in DOMAIN input :
       i < j /\ input[i].cid = input[j].cid => input[i].pid < input[j].pid
  /\ serving # NoMsg => \A i \in DOMAIN input :
       input[i].cid = serving.cid => serving.pid < input[i].pid

\* What a living child has to read, and that the parent can write to it once
\* it has been answered.
FifoOf(p) ==
  /\ ~Waiting(p) => fifo[p] = <<>>
  /\ Asked(p) \/ Served(p) => ~Answered(p)
  /\ \A i \in DOMAIN fifo[p] : fifo[p][i].cmd = "OK" => i = Len(fifo[p])
  /\ \/ cpc[p] \in {"connect", "read", "timer", "tail"}
     \/ Waiting(p) /\ req[p] # "HELLO"
     \/ fifo[p] # <<>>
     => fd[slot[p]] = p
  /\ Waiting(p) => \/ Asked(p) \/ Served(p) \/ Answered(p)
                   \/ req[p] = "HELLO" /\ fds = MaxFds
FifoInv == \A p \in Pids : Alive(p) => FifoOf(p)

\* Nobody has written to a process that is not there yet.
UnbornInv == \A p \in Pids : cpc[p] = "unborn" => fifo[p] = <<>>

IInv == /\ TypeOK /\ ControlInv /\ TableInv /\ CountInv /\ RequestInv /\ FifoInv
        /\ UnbornInv /\ NoOrphans

\* Every request is answered, whatever the scripts do in the meantime
\* (send_to_parent loops until it reads OK or FAIL).
RequestAnswered == \A p \in Pids : Waiting(p) ~> ~Waiting(p)

\* Every entry of a connection refers to a text that is still there
\* (connection_queue, server_update, connection_shutdown).
EntriesBacked ==
  \A s \in Slots, j \in Entries :
    mq[s][j] # NoQid /\ ~(usent /\ s = serving.cid /\ j = ui) => queue[mq[s][j]] # Empty

\* doc/tcl-commands.txt:92: after irctarget the network of that name is the
\* current network, so a text for it reaches no child of another network.
DeliveredToTarget ==
  \A p \in Pids : \A i \in DOMAIN fifo[p] :
    fifo[p][i].to \in {NoName, opened[p].net}

\* doc/tcl-commands.txt:477: shutdown disconnects from all servers, closes the
\* other connections and exits.  Once DISCONNECT is queued for every connection
\* in use, by a script or by a signal in the middle of anything, all children
\* end.  What the code does not do: a DISCONNECT that SIGINT queues between the
\* sending of the first entry and its clearing is cleared with it
\* (server_update, connection.c:1340); and children that wait when the parent is
\* killed wait for ever.
ShutdownQueued ==
  /\ forked = None
  /\ ~(usent /\ ui = 0)
  /\ \E s \in Slots : type[s] # "CLOSED"
  /\ \A s \in Slots : type[s] # "CLOSED" => mq[s][0] = s /\ queue[s] = DISCONNECT
ShutdownDisconnects ==
  ShutdownQueued ~> (ppc = "crashed" \/ \A p \in Pids : ~Alive(p))

\* connection.c:824: the parent exits when there are no more children, whatever
\* they died of, and has nothing left to serve.  It does so unless the end of a
\* child was handled before its pid was stored (connection_open,
\* connection.c:312): then no slot is found, and the count stays for ever.
EndUnseen == forked # None /\ cpc[forked] = "reaped"
Childless == ppc = "server" /\ input = <<>> /\ \A p \in Pids : ~Alive(p)
ExitsWithoutChildren ==
  []~EndUnseen => (Childless ~> ppc \in {"exited", "crashed"})
=============================================================================
