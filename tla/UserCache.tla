------------------------------- MODULE UserCache -------------------------------
(***************************************************************************)
(* What the parent knows of the people on IRC (user.c, channel.c): a table *)
(* of nicks with what stands behind them (user@host), their channels and   *)
(* the user of the database they are taken for, looked up once and kept.   *)
(* Children report what they see, one report after the other; the commands *)
(* of scripts change the database (TextDb) and then look the entries it    *)
(* may concern up again, one by one.  The table of people on the networks  *)
(* is what is really so; their channels are those they share with the bot. *)
(*                                                                         *)
(* Masks match nick!user@host, the ident of a nick on a host.  Time is     *)
(* counted in ticks, and the time an entry was lost in ticks before now: 0 *)
(* is in sight, 1 just lost, Delay + 2 lost for longer than the purge      *)
(* delay.                                                                  *)
(***************************************************************************)
EXTENDS TextDb

CONSTANTS
  Servers,     \* the connections
  Nicks, Bot,  \* nicks; the bot's own may be one of them
  Hosts,       \* what stands behind the nick: user@host
  Ident,       \* Ident[n][h], the ident of nick n on host h
  Chans,       \* names of channels
  MaxChans,    \* N_CHANNELS
  Delay,       \* purge_delay
  MaxEntries,  \* bound: entries of the table in use (realloc makes more)
  MaxEvents    \* bound: what happens on IRC

ASSUME CacheAssumption ==
  /\ MaxChans \in Nat
  /\ Delay \in Nat
  /\ MaxEntries \in Nat \ {0}
  /\ MaxEvents \in Nat
  /\ "" \notin Nicks
  /\ Ident \in [Nicks -> [Hosts -> Idents]]

VARIABLES
  user,      \* the table of users
  channel,   \* the names in the table of channels, which all networks share
  todo,      \* the entries that a command still has to look up
  person,    \* who is on IRC
  events

vars == <<dbvars, user, channel, todo, person, events>>

Entries == 1 .. MaxEntries
Ages == 0 .. Delay + 2
Old == Delay + 2
Free == [nick |-> "", host |-> "", server |-> 0, chans |-> {}, id |-> 0, lost |-> 0,
         ident |-> "", auth |-> FALSE, quit |-> FALSE]
Nobody == [host |-> "", chans |-> {}]

\* ident, auth and quit are histories: the ident that was looked up last; the id
\* comes from setauth; the nick has quit IRC and joined no channel since.
CacheTypeOK ==
  /\ DbTypeOK
  /\ user \in [Entries ->
       [nick : Nicks \cup {""}, host : Hosts \cup {""}, server : Servers \cup {0},
        chans : SUBSET Chans, id : Nat, lost : Ages, ident : Idents \cup {""},
        auth : BOOLEAN, quit : BOOLEAN]]
  /\ channel \subseteq Chans /\ Cardinality(channel) <= MaxChans
  /\ todo \subseteq Entries
  /\ person \in [Servers -> [Nicks -> [host : Hosts \cup {""}, chans : SUBSET Chans]]]
  /\ events \in 0 .. MaxEvents

NoUsers == [i \in Entries |-> Free]
NoPersons == [s \in Servers |-> [n \in Nicks |-> Nobody]]

\* user_init and chan_init
CacheInit ==
  /\ DbInit
  /\ user = NoUsers
  /\ channel = {}
  /\ todo = {}
  /\ person = NoPersons
  /\ events = 0

(***************************************************************************)
(* The tables                                                              *)
(***************************************************************************)
Live(i) == user[i] # Free

\* user_find takes the first.
Find(s, n) == {i \in Entries : user[i].server = s /\ user[i].nick = n}

\* userdb_check_password without a password.
NoPassword(u) ==
  LET row == RowsWith(file["users"], "users", u) IN
  row # {} /\ (Len(Val("users", Min(row))) = 1 \/ Val("users", Min(row))[2] = 1)

\* lookup_user: the first mask that matches, whose search leaves a file open,
\* then the password of its user.
Lookup(ident) ==
  IF Matching(ident) # {} /\ leaked + 1 < MaxFds /\ NoPassword(FindByMask(ident))
  THEN FindByMask(ident) ELSE 0
Leaks(ident) == IF Readable /\ Matching(ident) # {} THEN leaked + 1 ELSE leaked

\* user_add, when the nick is not in the table.
Added(s, n, h) ==
  IF Find(s, n) # {} THEN user[Min(Find(s, n))]
  ELSE [Free EXCEPT !.nick = n, !.host = h, !.server = s, !.id = Lookup(Ident[n][h]),
                    !.ident = Ident[n][h], !.lost = 1]
Add1(s, n, h, entry) ==
  IF Find(s, n) # {}
  THEN user' = [user EXCEPT ![Min(Find(s, n))] = entry] /\ UNCHANGED leaked
  ELSE LET free == {i \in Entries : ~Live(i)} IN
       /\ free # {}
       /\ user' = [user EXCEPT ![Min(free)] = entry]
       /\ leaked' = Leaks(Ident[n][h])

\* user_part: the channel is none of the user's any more.
Without(entry, c) == [entry EXCEPT !.chans = @ \ {c}]

\* Faulty form of Checked, not used: nobody is lost by leaving a channel.
CheckedNever(entry) == entry

\* check_user
Checked(entry) == IF entry.chans = {} THEN [entry EXCEPT !.lost = 1] ELSE entry

\* Faulty form of Seen, not used: it does not ask whether the user is in sight.
SeenAlways(entry) == IF entry.id # 0 THEN [entry EXCEPT !.lost = 1] ELSE entry

\* user_status when the user is known: user_set_seen.
Seen(entry) ==
  IF entry.id # 0 /\ entry.lost # 0 THEN [entry EXCEPT !.lost = 1] ELSE entry

\* chan_add fails when the table is full.
Tracked(c) == c \in channel \/ Cardinality(channel) < MaxChans
Joined(entry, c) ==
  IF Tracked(c)
  THEN [entry EXCEPT !.chans = @ \cup {c}, !.lost = 0, !.quit = FALSE]
  ELSE entry

(***************************************************************************)
(* What happens on IRC, and the child's report of it                       *)
(***************************************************************************)
Serving == dbpc = "idle" /\ todo = {}
Event ==
  /\ Serving
  /\ events < MaxEvents
  /\ events' = events + 1
  /\ UNCHANGED <<file, dbpc, call, dbops, crashes, todo>>
NotReported == UNCHANGED <<user, channel, leaked>>

Online(s, n) == person[s][n].host # ""
Visible(s, n) == person[s][n].chans # {}

Arrive(s, n, h) ==
  /\ Event
  /\ ~Online(s, n)
  /\ person' = [person EXCEPT ![s][n].host = h]
  /\ NotReported

\* server_join, for a JOIN or for the reply to a WHO.
Join(s, n, c, who) ==
  LET h == person[s][n].host
      e == Joined(Added(s, n, h), c)
  IN /\ Event
     /\ Online(s, n)
     /\ who \/ c \notin person[s][n].chans
     /\ Bot \in Nicks \ {n} => c \in person[s][Bot].chans
     /\ person' = [person EXCEPT ![s][n].chans = @ \cup {c}]
     /\ channel' = IF Tracked(c) THEN channel \cup {c} ELSE channel
     /\ Add1(s, n, h, IF who THEN e ELSE Seen(e))

\* Who shares the channel with the bot no more when a nick leaves it.
Left(s, n, c) ==
  [person EXCEPT ![s] = [m \in Nicks |->
     IF m = n \/ n = Bot THEN Without(@[m], c) ELSE @[m]]]

\* server_part; also for the bot itself, with its nick.
Part(s, n, c) ==
  /\ Event
  /\ c \in person[s][n].chans
  /\ person' = Left(s, n, c)
  /\ IF Find(s, n) = {} THEN UNCHANGED user
     ELSE user' = [user EXCEPT ![Min(Find(s, n))] =
                     Seen(IF c \in channel THEN Checked(Without(@, c)) ELSE @)]
  /\ UNCHANGED <<channel, leaked>>

\* Children have no handler for KICK.
Kick(s, n, c) ==
  /\ Event
  /\ c \in person[s][n].chans
  /\ person' = Left(s, n, c)
  /\ NotReported

\* server_nick: user_nick looks at the entries of all networks, and does not look
\* the user up under the new nick.
Nick(s, new, old) ==
  LET found == {i \in Entries : user[i].nick = old} IN
  /\ Event
  /\ old # Bot /\ Online(s, old) /\ ~Online(s, new) /\ new # Bot
  /\ person' = [person EXCEPT ![s][new] = person[s][old], ![s][old] = Nobody]
  /\ IF Visible(s, old) /\ found # {}
     THEN user' = [user EXCEPT ![Min(found)].nick = new]
     ELSE UNCHANGED user
  /\ UNCHANGED <<channel, leaked>>

\* server_quit
Quit(s, n) ==
  /\ Event
  /\ n # Bot /\ Online(s, n)
  /\ person' = [person EXCEPT ![s][n] = Nobody]
  /\ IF Visible(s, n) /\ Find(s, n) # {}
     THEN user' = [user EXCEPT ![Min(Find(s, n))].lost = Old, ![Min(Find(s, n))].quit = TRUE]
     ELSE UNCHANGED user
  /\ UNCHANGED <<channel, leaked>>

\* server_msg, server_ctcp and server_invite: user_status adds the user.
Msg(s, n) ==
  /\ Event
  /\ Online(s, n)
  /\ Add1(s, n, person[s][n].host, Seen(Added(s, n, person[s][n].host)))
  /\ UNCHANGED <<person, channel>>

\* server_connect: the bot has connected again and is in no channel.
Connect(s) ==
  /\ Event
  /\ user' = [i \in Entries |-> IF user[i].server = s THEN Free ELSE user[i]]
  /\ person' = [person EXCEPT ![s] = [n \in Nicks |-> [@[n] EXCEPT !.chans = {}]]]
  /\ UNCHANGED <<channel, leaked>>

Tick ==
  /\ Serving
  /\ user' = [i \in Entries |->
       IF user[i].lost \in 1 .. Old - 1 THEN [user[i] EXCEPT !.lost = @ + 1] ELSE user[i]]
  /\ UNCHANGED <<dbvars, channel, todo, person, events>>

\* server_update: user_update
Update ==
  /\ Serving
  /\ user' = [i \in Entries |-> IF user[i].lost > Delay + 1 THEN Free ELSE user[i]]
  /\ UNCHANGED <<dbvars, channel, todo, person, events>>

(***************************************************************************)
(* Commands of scripts (lib/user.c)                                        *)
(***************************************************************************)

\* Faulty form of Stale, not used: a new password changes no entry.
StaleNotSetpass(op, u, val) ==
  {i \in Entries : /\ Live(i)
                   /\ \/ op \in {"del", "delmask"} /\ user[i].id = u
                      \/ op = "addmask" /\ user[i].id = 0
                      \/ op = "add" /\ val # 0 /\ user[i].id = 0}

\* user_update_id and user_update_add: the entries to be looked up again.
Stale(op, u, val) ==
  {i \in Entries : /\ Live(i)
                   /\ \/ op \in {"del", "delmask", "setpass"} /\ user[i].id = u
                      \/ op = "addmask" /\ user[i].id = 0
                      \/ op = "add" /\ val # 0 /\ user[i].id = 0}

UserCall ==
  \/ \E name \in Handles, mask \in Masks : UserAdd(name, mask)
  \/ \E u \in Uids :
       \/ \E mask \in Masks : UserAddmask(u, mask) \/ UserDelmask(u, mask)
       \/ \E pass \in {1, 2} : UserSetpass(u, pass)
       \/ UserDel(u)

Command ==
  /\ todo = {}
  /\ UserCall \/ CallStep
  /\ todo' = IF dbpc' = "idle" THEN Stale(call'.op, call'.uid, call'.val) ELSE {}
  /\ UNCHANGED <<user, channel, person, events>>

LookupStep ==
  /\ dbpc = "idle"
  /\ todo # {}
  /\ LET i == Min(todo)
         ident == Ident[user[i].nick][user[i].host]
     IN
     /\ user' = [user EXCEPT ![i].id = Lookup(ident), ![i].ident = ident, ![i].auth = FALSE]
     /\ leaked' = Leaks(ident)
     /\ todo' = todo \ {i}
  /\ UNCHANGED <<file, dbpc, call, dbops, crashes, channel, person, events>>

\* auth.tcl: one of the user's masks matches the ident of the message, and the
\* password is right; then user_set_id.
Setauth(s, n, u) ==
  /\ Event
  /\ Online(s, n)
  /\ Readable
  /\ GetStr(file["users"], "users", u)[2] = 2
  /\ \E i \in MasksOf(u) : i \in Matching(Ident[n][person[s][n].host])
  /\ Find(s, n) # {}
  /\ user' = [user EXCEPT ![Min(Find(s, n))].id = u, ![Min(Find(s, n))].auth = TRUE]
  /\ UNCHANGED <<person, channel, leaked>>

\* The parent dies, and starts with empty tables.
Die == Crash /\ UNCHANGED <<user, channel, todo, person, events>>
Restart ==
  /\ Start
  /\ user' = NoUsers
  /\ channel' = {}
  /\ todo' = {}
  /\ person' = NoPersons
  /\ UNCHANGED events

CacheNext ==
  \/ \E s \in Servers, n \in Nicks :
       \/ \E h \in Hosts : Arrive(s, n, h)
       \/ \E c \in Chans : Part(s, n, c) \/ Kick(s, n, c)
       \/ \E c \in Chans, who \in BOOLEAN : Join(s, n, c, who)
       \/ \E new \in Nicks : Nick(s, new, n)
       \/ Quit(s, n) \/ Msg(s, n)
       \/ \E u \in Uids : Setauth(s, n, u)
  \/ \E s \in Servers : Connect(s)
  \/ Tick \/ Update \/ Command \/ LookupStep \/ Die \/ Restart

CacheSpec == CacheInit /\ [][CacheNext]_vars

(***************************************************************************)
(* Properties                                                              *)
(***************************************************************************)

\* Between two commands, whoever is taken for a user of the database is that
\* user by what the database says now: the user exists, and the nick either gave
\* the password (setauth), with no new one and no mask taken away since, or the
\* user has no password and one of his masks matches the ident that was looked up
\* last.  What is kept is never older than the last change of the files.  It is
\* not more than that: after a NICK the entry has another ident, which no mask of
\* the user need match, and keeps the user (user_nick, user.c:332).
IdentityBacked ==
  Serving => \A i \in Entries : user[i].id # 0 =>
    /\ HasUser(user[i].id)
    /\ \/ user[i].auth
       \/ /\ NoPassword(user[i].id)
          /\ \E m \in MasksOf(user[i].id) : m \in Matching(user[i].ident)

\* The tables are well formed, no more channels are known than there is room for,
\* and identities are backed.
CacheInv == CacheTypeOK /\ IdentityBacked

\* Whoever is in a channel is not forgotten for being away: such an entry goes
\* only when the nick has quit, at a new connection, or when the parent dies.
InSightKept ==
  [][\A i \in Entries :
       user[i].chans # {} /\ ~user[i].quit /\ user'[i] = Free =>
         \/ dbpc = "dead"
         \/ \A j \in Entries : user[j].server = user[i].server => user'[j] = Free]_vars

\* Whoever has left the last channel is not taken to be in sight: otherwise the
\* entry would stay for ever.
LostWhenAway ==
  \A i \in Entries : Live(i) /\ user[i].chans = {} => user[i].lost # 0
=============================================================================
