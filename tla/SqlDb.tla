--------------------------------- MODULE SqlDb ---------------------------------
(***************************************************************************)
(* The MySQL database (db/sql) behind db.h: every function is a sequence   *)
(* of statements, without transactions.  Two processes use it, each with a *)
(* connection of its own: the bot, whose scripts make one call after the   *)
(* other, and mx3bot --setup or --setup-owner (SqlSetup).                  *)
(*                                                                         *)
(* db_query (mysql.c) hides no failure.  When the connection is lost it    *)
(* connects again without a user and a database, so that this statement    *)
(* and every later one fails; whether the server has executed the          *)
(* statement on which the connection was lost is open.  A function goes on *)
(* with an empty result, and dies when it reads the row of a COUNT.        *)
(*                                                                         *)
(* The bot's connection is also used by its children, who inherit it and   *)
(* ask for variables (connection.c, handle_ctcp), and by the handlers of   *)
(* SIGINT and SIGTERM: then the reply to one query goes to another.        *)
(*                                                                         *)
(* Words are those that db_escape leaves alone.  Parameters of modes, texts*)
(* and the ids of masks, bans and notes are left out.                      *)
(***************************************************************************)
EXTENDS Integers, FiniteSets

CONSTANTS
  Names, Masks, Modes, Vars, Vals,
  MaxUsers,     \* bound: ids given to users
  MaxOps,       \* bound: calls of scripts
  MaxFaults     \* bound: connections lost, replies gone astray, processes killed

ASSUME SqlAssumption ==
  /\ "" \notin Names \cup Masks \cup Modes \cup Vars
  /\ "w" \in Modes /\ Vals \subseteq Nat \ {0}
  /\ MaxUsers \in Nat /\ MaxOps \in Nat /\ MaxFaults \in Nat

VARIABLES
  db,         \* the tables, and what the server knows besides
  call,       \* what each process is doing
  conn,       \* its connection
  alarm,      \* its error function was called
  mixed,      \* history: a reply of the bot has gone to another query
  contested,  \* history: users on whom setup and a script have worked at a time
  raced,      \* history: names asked for by one while the other was about to give them
  ops, faults

sqlvars == <<db, call, conn, alarm, mixed, contested, raced, ops, faults>>

Procs == {"bot", "setup"}
Tables == {"user", "mask", "mode", "var", "ban", "note"}
Ids == 1 .. MaxUsers
Steps ==
  {"off", "idle", "find name", "ins user", "ins mask", "count mask", "drop mask", "upd name",
   "upd pass", "count mode", "ins mode", "upd mode", "drop mode", "count var", "ins var",
   "upd var", "drop var", "count uvar", "sel ban", "ins ban", "upd ban", "drop ban",
   "ins note", "drop note", "find mask", "check pass", "del ban", "del mode", "del author",
   "del target", "del var", "del mask", "del user", "paths", "config", "write config",
   "connect", "grant", "select", "create db", "check", "begin create", "create"}
NoCall == [op |-> "", at |-> "off", uid |-> 0, name |-> "", mask |-> "", key |-> "", val |-> 0,
           pass |-> FALSE, ret |-> 0]

Ops == {"", "add", "del", "setname", "setpass", "addmask", "delmask", "addban", "delban",
        "setmode", "addnote", "delnote", "setvar", "setuvar", "unset", "lookup", "setup", "owner"}

\* The rows of the tables, the database and a call.
UserType == [uid : Ids, name : Names, pass : BOOLEAN]
MaskType == [uid : Ids, mask : Masks]
ModeType == [uid : Ids, mode : Modes]
VarType  == [uid : Ids \cup {0}, name : Vars, val : Vals]
NoteType == [author : Ids, target : Ids]
DbType == [user : SUBSET UserType, mask : SUBSET MaskType, mode : SUBSET ModeType,
           var : SUBSET VarType, ban : SUBSET MaskType, note : SUBSET NoteType,
           last : 0 .. MaxUsers, exists : BOOLEAN, tables : SUBSET Tables]
CallType == [op : Ops, at : Steps, uid : 0 .. MaxUsers, name : Names \cup {""},
             mask : Masks \cup {""}, key : Modes \cup Vars \cup {""}, val : Nat,
             pass : BOOLEAN, ret : Int]

SqlTypeOK ==
  /\ db \in DbType
  /\ call \in [Procs -> CallType]
  /\ conn \in [Procs -> {"up", "down"}]
  /\ alarm \in [Procs -> BOOLEAN]
  /\ mixed \in BOOLEAN
  /\ contested \subseteq Ids
  /\ raced \subseteq Names
  /\ ops \in 0 .. MaxOps /\ faults \in 0 .. MaxFaults

SqlInit ==
  /\ db = [user |-> {}, mask |-> {}, mode |-> {}, var |-> {}, ban |-> {}, note |-> {},
           last |-> 0, exists |-> FALSE, tables |-> {}]
  /\ call = [p \in Procs |-> NoCall]
  /\ conn = [p \in Procs |-> "down"]
  /\ alarm = [p \in Procs |-> FALSE]
  /\ mixed = FALSE
  /\ contested = {}
  /\ raced = {}
  /\ ops = 0 /\ faults = 0

(***************************************************************************)
(* mysql.c                                                                 *)
(***************************************************************************)
Become(p, c) == call' = [call EXCEPT ![p] = c]
Fault == faults < MaxFaults /\ faults' = faults + 1
Alert(p) == alarm' = [alarm EXCEPT ![p] = TRUE]
Goto(p, at) == [call[p] EXCEPT !.at = at]
Return(p, ret) == [NoCall EXCEPT !.at = "idle", !.ret = ret]

\* The statement succeeds: the database becomes new, and the call goes on.
Executed(p, can, next, new) ==
  /\ conn[p] = "up" /\ can
  /\ db' = new
  /\ Become(p, next)
  /\ UNCHANGED <<conn, alarm, mixed, faults>>

\* The server refuses the statement: no database is selected, the table is not
\* there, or a key is not unique.
Refused(p, can, failed) ==
  /\ conn[p] = "down" \/ ~can
  /\ Become(p, failed)
  /\ Alert(p)
  /\ UNCHANGED <<db, conn, mixed, faults>>

\* Faulty form of Lost, not used: it connects again as before, but the statement is
\* not repeated.
LostGoesOn(p, can, failed, new) ==
  /\ conn[p] = "up" /\ can
  /\ Fault
  /\ db' \in {db, new}
  /\ Become(p, failed)
  /\ Alert(p)
  /\ UNCHANGED <<conn, mixed>>

\* CR_SERVER_LOST.  When connecting again fails too, the handle is null and the
\* process dies.
Lost(p, can, failed, new) ==
  /\ conn[p] = "up" /\ can
  /\ Fault
  /\ db' \in {db, new}
  /\ conn' = [conn EXCEPT ![p] = "down"]
  /\ Become(p, failed) \/ Become(p, NoCall)
  /\ Alert(p)
  /\ UNCHANGED mixed

\* A child or a handler of a signal asks for a variable at the same time: the
\* result is a text or nothing.  The handler may also have replaced the text of
\* the statement in db_query's buffer.
Mixed(p, can, strange, new) ==
  /\ p = "bot" /\ conn[p] = "up" /\ can
  /\ Fault
  /\ mixed' = TRUE
  /\ db' \in {db, new}
  /\ \E c \in strange : Become(p, c)
  /\ UNCHANGED <<conn, alarm>>

\* db_query: a statement, and how the call goes on: with its result, when it has
\* failed, or with the result of another one.
Query(p, at, can, next, failed, strange, new) ==
  /\ call[p].at = at
  /\ \/ Executed(p, can, next, new)
     \/ Refused(p, can, failed)
     \/ Lost(p, can, failed, new)
     \/ Mixed(p, can, strange, new)
  /\ UNCHANGED <<contested, ops>>
  /\ at # "find name" => UNCHANGED raced

\* A statement whose result nobody looks at.
Do(p, at, can, next, new) == Query(p, at, can, next, next, {next}, new)

\* A row of COUNT that is not there is read nevertheless.
Count(p, at, can, next, none) == Query(p, at, can, next, NoCall, {none, NoCall}, db)

(***************************************************************************)
(* Tables                                                                  *)
(***************************************************************************)
Has(t) == t \in db.tables
UserIds == {r.uid : r \in db.user}
Called(n) == {r \in db.user : r.name = n}
MaskRow(c) == [uid |-> c.uid, mask |-> c.mask]
ModeRow(c) == [uid |-> c.uid, mode |-> c.key]
VarRow(c) == [uid |-> c.uid, name |-> c.key, val |-> c.val]
NoteRow(c) == [author |-> c.uid, target |-> c.val]
VarRows(c) == {r \in db.var : r.uid = c.uid /\ r.name = c.key}
BansOn(m) == {r \in db.ban : r.mask = m}
Owner(c) == c.op \in {"setup", "owner"}    \* setup_add_owner
OfUser(rows, u) == {r \in rows : r.uid = u}

(***************************************************************************)
(* userdb.c                                                                *)
(***************************************************************************)

AboutToName(p, n) == call[p].name = n /\ call[p].at \in {"ins user", "upd name"}
Ask(n) == raced' = raced \cup {m \in {n} : \E p \in Procs : AboutToName(p, n)}

\* Faulty form of FindName, not used: setname does not ask.
FindNameUnasked(p) ==
  LET c == call[p]
      fresh == Goto(p, IF c.op = "setname" THEN "upd name" ELSE "ins user")
  IN Query(p, "find name", Has("user"), fresh, fresh, {fresh}, db) /\ Ask(c.name)

\* sql_userdb_find_byname, first in adduser.tcl, setup_add_owner and
\* sql_userdb_set_name.  Setup reports success when the name is there.
FindName(p) ==
  LET c == call[p]
      fresh == Goto(p, IF c.op = "setname" THEN "upd name" ELSE "ins user")
      known == Return(p, IF c.op = "setname" THEN -1 ELSE 0)
  IN Query(p, "find name", Has("user"), IF Called(c.name) # {} THEN known ELSE fresh, fresh,
           {fresh}, db) /\ Ask(c.name)

\* sql_userdb_add: the user, and with the id the mask.  db_id gives an old id
\* when the reply was another one.
InsUser(p) ==
  LET u == db.last + 1
      With(id) == IF id = 0 THEN Return(p, IF Owner(call[p]) THEN -1 ELSE 0)
                  ELSE [Goto(p, "ins mask") EXCEPT !.uid = id, !.ret = id]
  IN /\ db.last < MaxUsers
     /\ Query(p, "ins user", Has("user"), With(u), With(0), {With(id) : id \in 0 .. db.last},
              [db EXCEPT !.user = @ \cup {[uid |-> u, name |-> call[p].name, pass |-> FALSE]},
                         !.last = u])
InsMask(p) ==
  Do(p, "ins mask", Has("mask"),
     IF Owner(call[p]) THEN [Goto(p, "count mode") EXCEPT !.key = "w"] ELSE Return(p, call[p].ret),
     [db EXCEPT !.mask = @ \cup {MaskRow(call[p])}])

\* sql_userdb_addmask
CountMask(p) ==
  Count(p, "count mask", Has("mask"),
        IF MaskRow(call[p]) \in db.mask THEN Return(p, -1) ELSE Goto(p, "ins mask"),
        Goto(p, "ins mask"))

\* sql_userdb_delmask
DropMask(p) ==
  Do(p, "drop mask", Has("mask"), Return(p, 0), [db EXCEPT !.mask = @ \ {MaskRow(call[p])}])

\* sql_userdb_set_name and sql_userdb_set_password
UpdName(p) ==
  LET c == call[p] IN
  Do(p, "upd name", Has("user"), Return(p, 0),
     [db EXCEPT !.user = {IF r.uid = c.uid THEN [r EXCEPT !.name = c.name] ELSE r : r \in @}])
UpdPass(p) ==
  LET c == call[p] IN
  Do(p, "upd pass", Has("user"), Return(p, c.ret),
     [db EXCEPT !.user = {IF r.uid = c.uid THEN [r EXCEPT !.pass = c.pass] ELSE r : r \in @}])

\* lookup_user (user.c): sql_userdb_find_bymask for an ident that this mask
\* matches, then sql_userdb_check_password without a password.
FindMask(p) ==
  LET found == {r.uid : r \in {s \in db.mask : s.mask = call[p].mask}} \cap UserIds
      With(u) == [Goto(p, "check pass") EXCEPT !.uid = u]
  IN \E u \in found \cup {0} :
       /\ u = 0 => found = {}
       /\ Query(p, "find mask", Has("user") /\ Has("mask"),
                IF u = 0 THEN Return(p, 0) ELSE With(u), Return(p, 0), {Return(p, 0), NoCall}, db)

\* Faulty form of CheckPass, not used: a user who is not found has no password.
CheckPassFound(p) ==
  LET c == call[p] IN
  Query(p, "check pass", Has("user"),
        Return(p, IF \E r \in OfUser(db.user, c.uid) : r.pass THEN 0 ELSE c.uid),
        Return(p, c.uid), {Return(p, 0)}, db)

CheckPass(p) ==
  LET c == call[p] IN
  Query(p, "check pass", Has("user"),
        Return(p, IF \E r \in OfUser(db.user, c.uid) : ~r.pass THEN c.uid ELSE 0),
        Return(p, 0), {Return(p, 0)}, db)

(***************************************************************************)
(* mode.c, var.c, ban.c and note.c                                         *)
(***************************************************************************)

\* Faulty form of ModeDone, not used: the test for a password is inverted.
ModeDoneInverted(p) ==
  IF Owner(call[p]) /\ ~call[p].pass THEN Goto(p, "upd pass") ELSE Return(p, call[p].ret)
\* What comes after mode_set and var_set: setup goes on.
ModeDone(p) ==
  IF Owner(call[p]) /\ call[p].pass THEN Goto(p, "upd pass") ELSE Return(p, call[p].ret)
VarDone(p) ==
  IF call[p].op = "setup" THEN Goto(p, "find name") ELSE Return(p, 0)

\* sql_mode_set; setup gives the owner the mode w.
Plus(c) == Owner(c) \/ c.val = 1
CountMode(p) ==
  LET c == call[p]
      absent == IF Plus(c) THEN Goto(p, "ins mode") ELSE ModeDone(p)
  IN Count(p, "count mode", Has("mode"),
           IF ModeRow(c) \in db.mode THEN Goto(p, IF Plus(c) THEN "upd mode" ELSE "drop mode")
           ELSE absent, absent)
InsMode(p) ==
  Do(p, "ins mode", Has("mode") /\ ModeRow(call[p]) \notin db.mode, ModeDone(p),
     [db EXCEPT !.mode = @ \cup {ModeRow(call[p])}])
UpdMode(p) == Do(p, "upd mode", Has("mode"), ModeDone(p), db)
DropMode(p) ==
  Do(p, "drop mode", Has("mode"), ModeDone(p), [db EXCEPT !.mode = @ \ {ModeRow(call[p])}])

\* sql_var_set
DropVar(p) ==
  Do(p, "drop var", Has("var"), VarDone(p), [db EXCEPT !.var = @ \ VarRows(call[p])])
CountVar(p) ==
  Count(p, "count var", Has("var"),
        Goto(p, IF VarRows(call[p]) = {} THEN "ins var" ELSE "upd var"), Goto(p, "ins var"))
InsVar(p) ==
  Do(p, "ins var", Has("var") /\ VarRows(call[p]) = {}, VarDone(p),
     [db EXCEPT !.var = @ \cup {VarRow(call[p])}])
UpdVar(p) ==
  LET c == call[p] IN
  Do(p, "upd var", Has("var"), VarDone(p),
     [db EXCEPT !.var = IF VarRows(c) = {} THEN @ ELSE (@ \ VarRows(c)) \cup {VarRow(c)}])

\* sql_var_set_unique: names are drawn until one is not there.
CountUvar(p) ==
  \E v \in Vars :
    LET c == [call[p] EXCEPT !.key = v] IN
    Count(p, "count uvar", Has("var"),
          IF VarRows(c) = {} THEN [c EXCEPT !.at = "count var"] ELSE call[p],
          [c EXCEPT !.at = "count var"])

\* sql_ban_add: without a row the ban is inserted; a row of text has id 0, and
\* the UPDATE changes nothing.
SelBan(p) ==
  Query(p, "sel ban", Has("ban"),
        Goto(p, IF BansOn(call[p].mask) = {} THEN "ins ban" ELSE "upd ban"), Goto(p, "ins ban"),
        {Goto(p, "ins ban"), Return(p, 0)}, db)
InsBan(p) ==
  Do(p, "ins ban", Has("ban"), Return(p, 0), [db EXCEPT !.ban = @ \cup {MaskRow(call[p])}])
UpdBan(p) ==
  LET c == call[p] IN
  Do(p, "upd ban", Has("ban"), Return(p, 0),
     [db EXCEPT !.ban = {IF r.mask = c.mask THEN [r EXCEPT !.uid = c.uid] ELSE r : r \in @}])

\* sql_ban_del, sql_note_add and sql_note_del
DropBan(p) ==
  Do(p, "drop ban", Has("ban"), Return(p, 0), [db EXCEPT !.ban = @ \ BansOn(call[p].mask)])
InsNote(p) ==
  Do(p, "ins note", Has("note"), Return(p, 0), [db EXCEPT !.note = @ \cup {NoteRow(call[p])}])
DropNote(p) ==
  Do(p, "drop note", Has("note"), Return(p, 0), [db EXCEPT !.note = @ \ {NoteRow(call[p])}])

(***************************************************************************)
(* sql_userdb_del: ban_deluser, mode_deluser, note_deluser, var_deluser,   *)
(* the masks, the user                                                     *)
(***************************************************************************)
DelBans(p) ==
  Do(p, "del ban", Has("ban"), Goto(p, "del mode"),
     [db EXCEPT !.ban = @ \ OfUser(@, call[p].uid)])
DelModes(p) ==
  Do(p, "del mode", Has("mode"), Goto(p, "del author"),
     [db EXCEPT !.mode = @ \ OfUser(@, call[p].uid)])
DelAuthor(p) ==
  Do(p, "del author", Has("note"), Goto(p, "del target"),
     [db EXCEPT !.note = {r \in @ : r.author # call[p].uid}])
DelTarget(p) ==
  Do(p, "del target", Has("note"), Goto(p, "del var"),
     [db EXCEPT !.note = {r \in @ : r.target # call[p].uid}])
\* Faulty form of DelVars, not used: the masks are forgotten.
DelVarsOnly(p) ==
  Do(p, "del var", Has("var"), Goto(p, "del user"), [db EXCEPT !.var = @ \ OfUser(@, call[p].uid)])
DelVars(p) ==
  Do(p, "del var", Has("var"), Goto(p, "del mask"), [db EXCEPT !.var = @ \ OfUser(@, call[p].uid)])

DelMasks(p) ==
  Do(p, "del mask", Has("mask"), Goto(p, "del user"),
     [db EXCEPT !.mask = @ \ OfUser(@, call[p].uid)])
DelUser(p) ==
  Do(p, "del user", Has("user"), Return(p, 0), [db EXCEPT !.user = @ \ OfUser(@, call[p].uid)])
=============================================================================
