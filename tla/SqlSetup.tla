-------------------------------- MODULE SqlSetup --------------------------------
(***************************************************************************)
(* The two users of the MySQL database: the bot, whose scripts make one    *)
(* call of SqlDb after the other, and mx3bot --setup (setup.c,             *)
(* db/sql/setup.c), which makes directories, the configuration, the        *)
(* account, the tables and an owner, or mx3bot --setup-owner, which makes  *)
(* another owner while the bot runs.  Each may be killed at any time, and  *)
(* setup may be run again.                                                 *)
(*                                                                         *)
(* What the user of setup answers is chosen at its start.  The seven       *)
(* default variables are set alike and stand as one.                       *)
(***************************************************************************)
EXTENDS SqlDb

VARIABLES
  made,       \* how many of ~/.mx3bot, temp, log and fifo are there
  config,     \* its file config: "none", "empty" (opened, not yet written) or "full"
  account     \* the server knows the database user

vars == <<db, call, conn, alarm, mixed, contested, raced, ops, faults, made, config, account>>
files == <<made, config, account>>

TypeOK ==
  /\ SqlTypeOK
  /\ made \in 0 .. 4 /\ config \in {"none", "empty", "full"} /\ account \in BOOLEAN

Init ==
  /\ SqlInit
  /\ made = 0 /\ config = "none" /\ account = FALSE

(***************************************************************************)
(* The bot                                                                 *)
(***************************************************************************)
Unused == UNCHANGED <<ops, faults, mixed, raced, files>>

\* main: db_init; an error before there are connections ends nothing.
BotStart ==
  /\ call["bot"].at = "off" /\ config = "full" /\ made = 4 /\ account /\ db.exists
  /\ Become("bot", [NoCall EXCEPT !.at = "idle"])
  /\ conn' = [conn EXCEPT !["bot"] = "up"]
  /\ alarm' = [alarm EXCEPT !["bot"] = FALSE]
  /\ UNCHANGED <<db, contested>> /\ Unused

\* main: db_error_handler has called connection_shutdown.
BotExit ==
  /\ call["bot"].at = "idle" /\ alarm["bot"]
  /\ Become("bot", NoCall)
  /\ UNCHANGED <<db, conn, alarm, contested>> /\ Unused

\* In the middle of a call; a process that is killed between calls leaves no trace.
Busy(p) == call[p].at \notin {"off", "idle"}
Kill(p) ==
  /\ Busy(p) /\ Fault
  /\ Become(p, NoCall)
  /\ UNCHANGED <<db, conn, alarm, mixed, contested, raced, ops, files>>

\* A script calls a function of db.h.
Begin(c) ==
  /\ call["bot"].at = "idle" /\ ops < MaxOps
  /\ ops' = ops + 1
  /\ Become("bot", [c EXCEPT !.ret = 0])
  /\ contested' = contested \cup {u \in {c.uid, c.val} \cap Ids : Busy("setup") /\ u = call["setup"].uid}
  /\ UNCHANGED <<db, conn, alarm, mixed, raced, faults, files>>

Call(op, at, u) == [NoCall EXCEPT !.op = op, !.at = at, !.uid = u]

\* adduser.tcl asks for the name first.
CallAdd ==
  \E n \in Names, m \in Masks :
    Begin([Call("add", "find name", 0) EXCEPT !.name = n, !.mask = m])
\* The scripts take the id of a user from "user getid".
CallUser ==
  \E u \in UserIds :
    \/ Begin(Call("del", "del ban", u))
    \/ \E n \in Names : Begin([Call("setname", "find name", u) EXCEPT !.name = n])
    \/ \E b \in BOOLEAN : Begin([Call("setpass", "upd pass", u) EXCEPT !.pass = b])
    \/ \E m \in Masks :
         \/ Begin([Call("addmask", "count mask", u) EXCEPT !.mask = m])
         \/ Begin([Call("delmask", "drop mask", u) EXCEPT !.mask = m])
         \/ Begin([Call("addban", "sel ban", u) EXCEPT !.mask = m])
    \/ \E w \in Modes, plus \in {0, 1} :
         Begin([Call("setmode", "count mode", u) EXCEPT !.key = w, !.val = plus])
    \/ \E v \in UserIds : Begin([Call("addnote", "ins note", u) EXCEPT !.val = v])
CallVar ==
  \E u \in UserIds \cup {0}, x \in Vals :
    \/ Begin([Call("setuvar", "count uvar", u) EXCEPT !.val = x])
    \/ \E v \in Vars :
         \/ Begin([Call("setvar", "count var", u) EXCEPT !.key = v, !.val = x])
         \/ Begin([Call("unset", "drop var", u) EXCEPT !.key = v])
CallDelBan == \E m \in Masks : Begin([Call("delban", "drop ban", 0) EXCEPT !.mask = m])
CallDelNote ==
  \E r \in db.note : Begin([Call("delnote", "drop note", r.author) EXCEPT !.val = r.target])
\* user.c: the identity of a nick.
CallLookup == \E m \in Masks : Begin([Call("lookup", "find mask", 0) EXCEPT !.mask = m])

(***************************************************************************)
(* Setup                                                                   *)
(***************************************************************************)
Next1(at) == Become("setup", Goto("setup", at))
Stop(ret) == Become("setup", Return("setup", ret))
Server == UNCHANGED <<db, mixed, contested, raced, ops, faults>>

\* setup_all, and main with --setup-owner; with the answers of the user.
SetupStart ==
  /\ call["setup"].at \in {"off", "idle"}
  /\ alarm' = [alarm EXCEPT !["setup"] = FALSE]
  /\ \E n \in Names, m \in Masks, b \in BOOLEAN :
       \/ /\ \E v \in Vars, x \in Vals :
               Become("setup", [NoCall EXCEPT !.op = "setup", !.at = "paths", !.name = n,
                                              !.mask = m, !.pass = b, !.key = v, !.val = x])
          /\ conn' = [conn EXCEPT !["setup"] = "down"]
       \/ /\ config = "full" /\ made = 4 /\ account /\ db.exists
          /\ Become("setup", [NoCall EXCEPT !.op = "owner", !.at = "find name", !.name = n,
                                            !.mask = m, !.pass = b])
          /\ conn' = [conn EXCEPT !["setup"] = "up"]
  /\ Server /\ UNCHANGED files

MakePath ==
  /\ call["setup"].at = "paths"
  /\ made' = IF made < 4 THEN made + 1 ELSE made
  /\ IF made = 4 THEN Next1("config") ELSE UNCHANGED call
  /\ UNCHANGED <<conn, alarm, config, account>> /\ Server

\* Parameters that are not in the file stay uninitialized: no server is found.
ReadConfig ==
  /\ call["setup"].at = "config"
  /\ config' = IF config = "none" THEN "empty" ELSE config
  /\ CASE config = "none"  -> Next1("write config")
       [] config = "empty" -> Stop(-1)
       [] config = "full"  -> Next1("connect")
  /\ UNCHANGED <<conn, alarm, made, account>> /\ Server

\* setup_make_config: what is printed is written by fclose.
WriteConfig ==
  /\ call["setup"].at = "write config"
  /\ config' = "full"
  /\ Next1("connect")
  /\ UNCHANGED <<conn, alarm, made, account>> /\ Server

\* sql_setup_database
Connect ==
  /\ call["setup"].at = "connect"
  /\ Next1(IF account THEN "select" ELSE "grant")
  /\ conn' = [conn EXCEPT !["setup"] = IF account THEN "up" ELSE "down"]
  /\ UNCHANGED <<alarm, files>> /\ Server

\* setup_create_user, which the user may cancel, or which may fail.
Grant ==
  /\ call["setup"].at = "grant"
  /\ \/ account' = TRUE /\ Next1("connect")
     \/ account' \in BOOLEAN /\ Stop(-1)
  /\ UNCHANGED <<conn, alarm, made, config>> /\ Server

Select ==
  /\ call["setup"].at = "select"
  /\ Next1(IF conn["setup"] = "up" /\ db.exists THEN "check" ELSE "create db")
  /\ UNCHANGED <<conn, alarm, files>> /\ Server

Untouched == UNCHANGED files
CreateDb ==
  /\ Query("setup", "create db", ~db.exists, Goto("setup", "check"), Return("setup", -1), {},
           [db EXCEPT !.exists = TRUE])
  /\ Untouched

\* An error is taken to mean that there are no tables.
CheckTables ==
  /\ Query("setup", "check", Has("user"),
           IF db.user # {} THEN Return("setup", -1) ELSE Goto("setup", "count var"),
           Goto("setup", "begin create"), {}, db)
  /\ Untouched

\* setup_create_tables forgets the error, and goes through schema.h.
BeginCreate ==
  /\ call["setup"].at = "begin create"
  /\ Become("setup", [Goto("setup", "create") EXCEPT !.ret = 1])
  /\ alarm' = [alarm EXCEPT !["setup"] = FALSE]
  /\ UNCHANGED <<conn, files>> /\ Server

\* Faulty form of Schema, not used: the tables that setup itself needs come first.
SchemaUsersFirst == <<"user", "var", "mask", "mode", "note", "ban">>
Schema == <<"mask", "mode", "note", "user", "var", "ban">>
CreateTable ==
  LET i == call["setup"].ret
      next == [call["setup"] EXCEPT !.ret = i + 1] IN
  /\ i <= 6
  /\ Do("setup", "create", Schema[i] \notin db.tables, next,
        [db EXCEPT !.tables = @ \cup {Schema[i]}])
  /\ Untouched
EndCreate ==
  /\ call["setup"].at = "create" /\ call["setup"].ret = 7
  /\ IF alarm["setup"] THEN Stop(-1)
     ELSE Become("setup", [Goto("setup", "count var") EXCEPT !.ret = 0])
  /\ UNCHANGED <<conn, alarm, files>> /\ Server

(***************************************************************************)
(* The specification                                                       *)
(***************************************************************************)
Statement(p) ==
  \/ FindName(p) \/ InsUser(p) \/ InsMask(p) \/ UpdPass(p)
  \/ CountMode(p) \/ InsMode(p) \/ UpdMode(p) \/ DropMode(p)
  \/ CountVar(p) \/ InsVar(p) \/ UpdVar(p) \/ DropVar(p)
  \/ CountMask(p) \/ DropMask(p) \/ UpdName(p) \/ FindMask(p) \/ CheckPass(p) \/ CountUvar(p)
  \/ SelBan(p) \/ InsBan(p) \/ UpdBan(p) \/ DropBan(p) \/ InsNote(p) \/ DropNote(p)
  \/ DelBans(p) \/ DelModes(p) \/ DelAuthor(p) \/ DelTarget(p) \/ DelVars(p) \/ DelMasks(p)
  \/ DelUser(p)

BotNext ==
  \/ BotStart \/ BotExit
  \/ CallAdd \/ CallUser \/ CallVar \/ CallDelBan \/ CallDelNote \/ CallLookup
SetupNext ==
  \/ SetupStart \/ MakePath \/ ReadConfig \/ WriteConfig \/ Connect \/ Grant \/ Select
  \/ CreateDb \/ CheckTables \/ BeginCreate \/ CreateTable \/ EndCreate

Next ==
  \/ BotNext \/ SetupNext
  \/ \E p \in Procs : Kill(p) \/ (Statement(p) /\ Untouched)

Spec == Init /\ [][Next]_vars

(***************************************************************************)
(* What scripts and setup rely on                                          *)
(***************************************************************************)

\* No row belongs to a user who is gone (userdb_del, userdb_add), whatever
\* connection is lost and whatever process is killed, unless a reply went to
\* another query or setup was still working on that user.
RowsHaveUsers ==
  ~mixed =>
    /\ {r.uid : r \in db.mask \cup db.ban} \cup {r.uid : r \in db.mode}
         \cup {r.uid : r \in db.var} \subseteq UserIds \cup {0} \cup contested
    /\ \A r \in db.note : {r.author, r.target} \subseteq UserIds \cup contested

\* Calls, files and tables are well formed (ids are those the server gave), and
\* rows have users.
SqlInv == TypeOK /\ RowsHaveUsers

\* adduser, setname and setup ask for a name before they give it
\* (userdb_find_byname): two users have one name only when another gave it in
\* between.
NamesUnique ==
  ~mixed => \A r, s \in db.user : r.name = s.name /\ r # s => r.name \in raced

Returns(p) == Busy(p) /\ call'[p].at = "idle"

\* What a call c has made of the database d when it returns ret and no error was
\* reported (db.h, tcl-commands.txt).
Done(d, c, ret) ==
  LET OfVar == {r \in d.var : r.uid = c.uid /\ r.name = c.key}
      Bans == {r \in d.ban : r.mask = c.mask} IN
  /\ c.op = "add" /\ ret # 0 =>
       /\ \E r \in d.user : r.uid = ret /\ r.name = c.name
       /\ [uid |-> ret, mask |-> c.mask] \in d.mask
  /\ c.op = "setname" /\ ret = 0 => \E r \in d.user : r.uid = c.uid /\ r.name = c.name
  /\ c.op = "addmask" => MaskRow(c) \in d.mask
  /\ c.op = "delmask" => MaskRow(c) \notin d.mask
  /\ c.op = "setpass" => \E r \in d.user : r.uid = c.uid /\ r.pass = c.pass
  /\ c.op = "setmode" => (ModeRow(c) \in d.mode <=> c.val = 1)
  /\ c.op \in {"setvar", "setuvar"} => OfVar = {VarRow(c)}
  /\ c.op = "unset" => OfVar = {}
  /\ c.op = "addban" => \E r \in Bans : r.uid = c.uid
  /\ c.op = "delban" => Bans = {}
  /\ c.op = "addnote" => NoteRow(c) \in d.note
  /\ c.op = "delnote" => NoteRow(c) \notin d.note
  /\ c.op = "del" =>
       /\ \A r \in d.user \cup d.mask \cup d.ban : r.uid # c.uid
       /\ \A r \in d.mode \cup d.var : r.uid # c.uid
       /\ \A r \in d.note : c.uid \notin {r.author, r.target}
KeptPromise ==
  Returns("bot") /\ ~alarm'["bot"] /\ ~mixed' /\ call["bot"].uid \notin contested
    => Done(db', call["bot"], call'["bot"].ret)
PromiseKept == [][KeptPromise]_vars

\* A nick is taken for a user only if there is that user, without a password and
\* with a mask that matches (user.c, lookup_user), whatever has failed.
HonestLookup ==
  LET u == call'["bot"].ret IN
  Returns("bot") /\ call["bot"].op = "lookup" /\ u > 0
    => /\ \E r \in db.user : r.uid = u /\ ~r.pass
       /\ [uid |-> u, mask |-> call["bot"].mask] \in db.mask
LookupHonest == [][HonestLookup]_vars

\* When --setup says that it is complete, the bot can be started and finds its
\* tables, however often setup was killed before: all but that of bans, which it
\* never asks for.
WorkingSetup ==
  Returns("setup") /\ call["setup"].op = "setup" /\ call'["setup"].ret >= 0
    => made = 4 /\ config = "full" /\ Tables \ {"ban"} \subseteq db.tables
SetupWorks == [][WorkingSetup]_vars

\* An owner whom setup says it has added has the mask, the mode w and the
\* password, if no statement of it failed (setup_add_owner).
CompleteOwner ==
  LET c == call["setup"]
      u == call'["setup"].ret IN
  Returns("setup") /\ u > 0 /\ ~alarm'["setup"] /\ u \notin contested
    => /\ \E r \in db'.user : r.uid = u /\ r.name = c.name /\ r.pass = c.pass
       /\ [uid |-> u, mask |-> c.mask] \in db'.mask
       /\ [uid |-> u, mode |-> "w"] \in db'.mode
OwnerAdded == [][CompleteOwner]_vars
=============================================================================
