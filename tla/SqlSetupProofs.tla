---------------------------- MODULE SqlSetupProofs ----------------------------
(***************************************************************************)
(* What scripts and setup rely on, for any number of names, masks, modes,  *)
(* variables, users, calls and faults.                                     *)
(***************************************************************************)
EXTENDS SqlSetup, TLAPS

(***************************************************************************)
(* The inductive invariant: calls, the database, and what a call has       *)
(* already seen or done when it comes to a statement.                      *)
(***************************************************************************)
bot == call["bot"]
setup == call["setup"]

VarSteps == {"count var", "ins var", "upd var"}
ModeSteps == {"count mode", "ins mode", "upd mode"}
DelSteps == {"del ban", "del mode", "del author", "del target", "del var", "del mask", "del user"}

\* The statements of each call of a script, and what its arguments are.
BotCall(c) ==
  /\ c \in CallType
  /\ \/ c.at \in {"off", "idle"} /\ c.op = "" /\ c.uid = 0
     \/ /\ c.op = "add" /\ c.name \in Names /\ c.mask \in Masks
        /\ \/ c.at \in {"find name", "ins user"} /\ c.uid = 0
           \/ c.at = "ins mask" /\ c.uid \in Ids /\ c.ret = c.uid
     \/ c.op = "del" /\ c.at \in DelSteps /\ c.uid \in Ids
     \/ c.op = "setname" /\ c.at \in {"find name", "upd name"} /\ c.uid \in Ids /\ c.name \in Names
     \/ c.op = "setpass" /\ c.at = "upd pass" /\ c.uid \in Ids
     \/ c.op = "addmask" /\ c.at \in {"count mask", "ins mask"} /\ c.uid \in Ids /\ c.mask \in Masks
     \/ c.op = "delmask" /\ c.at = "drop mask" /\ c.uid \in Ids
     \/ /\ c.op = "addban" /\ c.at \in {"sel ban", "ins ban", "upd ban"}
        /\ c.uid \in Ids /\ c.mask \in Masks
     \/ /\ c.op = "setmode" /\ c.at \in ModeSteps \cup {"drop mode"}
        /\ c.uid \in Ids /\ c.key \in Modes
     \/ c.op = "addnote" /\ c.at = "ins note" /\ c.uid \in Ids /\ c.val \in Ids
     \/ c.op = "delnote" /\ c.at = "drop note" /\ c.uid \in Ids
     \/ c.op \in {"setuvar", "setvar"} /\ c.at \in VarSteps /\ c.key \in Vars /\ c.val \in Vals
     \/ c.op = "setuvar" /\ c.at = "count uvar" /\ c.val \in Vals
     \/ c.op = "unset" /\ c.at = "drop var"
     \/ c.op = "delban" /\ c.at = "drop ban" /\ c.uid = 0
     \/ c.op = "lookup" /\ c.at = "find mask" /\ c.uid = 0
     \/ c.op = "lookup" /\ c.at = "check pass" /\ c.uid \in Ids
BotOK == BotCall(bot)

\* The steps of setup.
BeforeUser == {"paths", "config", "write config", "connect", "grant", "select", "create db",
               "check", "begin create", "create"}
WithUser == ModeSteps \cup {"ins mask", "upd pass"}
SetupCall(c) ==
  /\ c \in CallType
  /\ \/ c.at \in {"off", "idle"} /\ c.op = "" /\ c.uid = 0
     \/ /\ c.op = "setup" /\ c.uid = 0 /\ c.at \in BeforeUser \cup VarSteps
        /\ c.name \in Names /\ c.mask \in Masks /\ c.key \in Vars /\ c.val \in Vals
     \/ /\ c.op \in {"setup", "owner"} /\ c.uid = 0 /\ c.at \in {"find name", "ins user"}
        /\ c.name \in Names /\ c.mask \in Masks
     \/ /\ c.op \in {"setup", "owner"} /\ c.uid \in Ids /\ c.ret = c.uid /\ c.at \in WithUser
        /\ c.name \in Names /\ c.mask \in Masks
        /\ c.at # "ins mask" => c.key = "w"
        /\ c.at = "upd pass" => c.pass
SetupOK == SetupCall(setup)

\* Ids are given once, and tables without a schema are empty.
Tidy ==
  /\ \A r \in db.user : r.uid <= db.last
  /\ \A r, s \in db.user : r.uid = s.uid => r = s
  /\ \A r \in db.note : r.author <= db.last
  /\ bot.uid <= db.last /\ setup.uid <= db.last
  /\ db.user # {} => Has("user")
  /\ db.mask # {} => Has("mask")
  /\ db.mode # {} => Has("mode")
  /\ db.var # {} => Has("var")
  /\ db.ban # {} => Has("ban")
  /\ db.note # {} => Has("note")

\* The tables are made in the order of the schema, and setup knows how far it is.
SetupSteady ==
  /\ Has("ban") => Has("var")
  /\ Has("var") => Has("user")
  /\ Has("user") => Has("note")
  /\ Has("note") => Has("mode")
  /\ Has("mode") => Has("mask")
  /\ setup.at = "create" =>
       /\ setup.ret \in 1 .. 7
       /\ conn["setup"] = "up" => \A i \in 1 .. setup.ret - 1 : Has(Schema[i])
  /\ setup.op = "setup" =>
       /\ setup.at # "paths" => made = 4
       /\ setup.at \notin {"paths", "config", "write config"} => config = "full"
       /\ setup.at \notin BeforeUser \cup {"count var"} => Has("var")

\* What the bot works on is there, and what it has deleted is gone; nobody but the
\* bot deletes, and setup adds to nobody but its own user.
Apart ==
  bot.uid # 0 /\ bot.uid = setup.uid /\ bot.op \notin {"add", "lookup"} => bot.uid \in contested
Deleted ==
  bot.op = "del" /\ bot.uid \notin contested /\ conn["bot"] = "up" =>
    /\ bot.at \notin {"del ban"} => \A r \in db.ban : r.uid # bot.uid
    /\ bot.at \notin {"del ban", "del mode"} => \A r \in db.mode : r.uid # bot.uid
    /\ bot.at \notin {"del ban", "del mode", "del author"} => \A r \in db.note : r.author # bot.uid
    /\ bot.at \in {"del var", "del mask", "del user"} => \A r \in db.note : r.target # bot.uid
    /\ bot.at \in {"del mask", "del user"} => \A r \in db.var : r.uid # bot.uid
    /\ bot.at = "del user" => \A r \in db.mask : r.uid # bot.uid
Present ==
  /\ bot.uid # 0 /\ bot.op \notin {"del", "delnote", "lookup"} => bot.uid \in UserIds
  /\ bot.op = "addnote" => bot.val \in UserIds
  /\ bot.op = "add" /\ bot.at = "ins mask" => \E r \in db.user : r.uid = bot.uid /\ r.name = bot.name
  /\ setup.uid # 0 => setup.uid \in UserIds \cup contested

\* What a call has seen is still there when it acts on it.
Seen ==
  /\ bot.at = "upd mode" => ModeRow(bot) \in db.mode /\ bot.val = 1
  /\ bot.at = "ins mode" => bot.val = 1
  /\ bot.at = "drop mode" => bot.val # 1
  /\ bot.at = "upd ban" => BansOn(bot.mask) # {}
  /\ bot.at = "upd var" => VarRows(bot) # {}
  /\ bot.at = "check pass" => MaskRow(bot) \in db.mask

\* What setup has done for its owner.
OwnerSoFar ==
  setup.uid # 0 /\ setup.uid \notin contested /\ ~alarm["setup"] =>
    /\ [uid |-> setup.uid, name |-> setup.name, pass |-> FALSE] \in db.user
    /\ setup.at # "ins mask" => MaskRow(setup) \in db.mask
    /\ setup.at \in {"upd mode", "upd pass"} => ModeRow(setup) \in db.mode

\* A name that is about to be given is free, or has been asked for meanwhile, or
\* it will not be given, for the connection is lost.
NamesFree ==
  /\ \A p \in Procs, n \in Names :
       AboutToName(p, n) => n \in raced \/ conn[p] = "down" \/ Called(n) = {}
  /\ \A n \in Names : AboutToName("bot", n) /\ AboutToName("setup", n) => n \in raced

Inv ==
  /\ TypeOK /\ BotOK /\ SetupOK /\ Tidy /\ SetupSteady /\ Apart /\ Seen /\ OwnerSoFar
  /\ ~mixed => Deleted /\ Present /\ NamesFree /\ NamesUnique /\ RowsHaveUsers

(***************************************************************************)
(* Statements                                                              *)
(***************************************************************************)
Good(p, c) == IF p = "bot" THEN BotCall(c) ELSE SetupCall(c)

\* A call becomes d, and nobody else's does.
Becomes(p, d) ==
  /\ call' = [call EXCEPT ![p] = d]
  /\ call'[p] = d
  /\ \A q \in Procs \ {p} : call'[q] = call[q]

LEMMA BecomeBecomes ==
  ASSUME SqlTypeOK, NEW p \in Procs, NEW d, Become(p, d)
  PROVE  Becomes(p, d)
BY DEF SqlTypeOK, Becomes, Become

LEMMA Constants ==
  /\ MaxUsers \in Nat /\ MaxOps \in Nat /\ MaxFaults \in Nat
  /\ "w" \in Modes /\ Vals \subseteq Nat \ {0}
BY SqlAssumption, Zenon

LEMMA CallRecord ==
  ASSUME NEW o \in Ops, NEW at \in Steps, NEW u \in 0 .. MaxUsers, NEW n \in Names \cup {""},
         NEW m \in Masks \cup {""}, NEW k \in Modes \cup Vars \cup {""}, NEW v \in Nat,
         NEW b \in BOOLEAN, NEW r \in Int
  PROVE  [op |-> o, at |-> at, uid |-> u, name |-> n, mask |-> m, key |-> k, val |-> v,
          pass |-> b, ret |-> r] \in CallType
BY DEF CallType

LEMMA NoCallFields ==
  /\ NoCall \in CallType
  /\ NoCall.op = "" /\ NoCall.at = "off" /\ NoCall.uid = 0 /\ NoCall.ret = 0
<1>1. "" \in Ops /\ "off" \in Steps
  BY DEF Ops, Steps
<1>2. 0 \in 0 .. MaxUsers
  BY Constants
<1>3. /\ "" \in Names \cup {""} /\ "" \in Masks \cup {""} /\ "" \in Modes \cup Vars \cup {""}
      /\ FALSE \in BOOLEAN /\ 0 \in Nat /\ 0 \in Int
  OBVIOUS
<1>4. NoCall \in CallType
  BY <1>1, <1>2, <1>3, CallRecord, Zenon DEF NoCall
<1>5. NoCall.op = "" /\ NoCall.at = "off" /\ NoCall.uid = 0 /\ NoCall.ret = 0
  BY DEF NoCall
<1> QED BY <1>4, <1>5

LEMMA ReturnFields ==
  ASSUME NEW p \in Procs, NEW ret \in Int
  PROVE  /\ Return(p, ret) \in CallType
         /\ Return(p, ret).op = "" /\ Return(p, ret).at = "idle" /\ Return(p, ret).uid = 0
         /\ Return(p, ret).ret = ret
<1>1. "idle" \in Steps
  BY DEF Steps
<1> QED BY <1>1, NoCallFields DEF Return, CallType

LEMMA NoCallGood ==
  ASSUME NEW p \in Procs
  PROVE  Good(p, NoCall)
BY NoCallFields DEF Good, BotCall, SetupCall

LEMMA ReturnGood ==
  ASSUME NEW p \in Procs, NEW ret \in Int
  PROVE  Good(p, Return(p, ret))
BY ReturnFields DEF Good, BotCall, SetupCall

LEMMA GotoType ==
  ASSUME SqlTypeOK, NEW p \in Procs, NEW at \in Steps
  PROVE  /\ Goto(p, at) \in CallType
         /\ Goto(p, at).at = at
         /\ Goto(p, at).op = call[p].op /\ Goto(p, at).uid = call[p].uid
         /\ Goto(p, at).name = call[p].name /\ Goto(p, at).mask = call[p].mask
         /\ Goto(p, at).key = call[p].key /\ Goto(p, at).val = call[p].val
         /\ Goto(p, at).pass = call[p].pass /\ Goto(p, at).ret = call[p].ret
<1>1. call[p] \in CallType
  BY DEF SqlTypeOK
<1> QED BY <1>1 DEF CallType, Goto

\* Whatever becomes of a statement, the call and the database are well formed.
LEMMA QueryTypes ==
  ASSUME TypeOK, BotOK, SetupOK, NEW p \in Procs,
         NEW at, NEW can, NEW next, NEW failed, NEW strange, NEW new,
         Query(p, at, can, next, failed, strange, new), Untouched, raced' \subseteq Names,
         Good(p, next), Good(p, failed), p = "bot" => \A c \in strange : Good(p, c),
         conn[p] = "up" /\ can => new \in DbType
  PROVE  TypeOK' /\ BotOK' /\ SetupOK'
<1>1. PICK d : Become(p, d) /\ Good(p, d)
  BY NoCallGood DEF Query, Executed, Refused, Lost, Mixed
<1>2. Becomes(p, d)
  BY <1>1, BecomeBecomes DEF TypeOK
<1>3. db' \in DbType /\ conn' \in [Procs -> {"up", "down"}] /\ alarm' \in [Procs -> BOOLEAN]
  BY DEF Query, Executed, Refused, Lost, Mixed, Alert, TypeOK, SqlTypeOK
<1>4. mixed' \in BOOLEAN /\ contested' \subseteq Ids /\ ops' \in 0 .. MaxOps
  BY DEF Query, Executed, Refused, Lost, Mixed, TypeOK, SqlTypeOK
<1>5. faults' \in 0 .. MaxFaults
  <2>1. faults' = faults \/ (faults < MaxFaults /\ faults' = faults + 1)
    BY DEF Query, Executed, Refused, Lost, Mixed, Fault
  <2> QED BY <2>1, Constants DEF TypeOK, SqlTypeOK
<1>6. made' = made /\ config' = config /\ account' = account
  BY DEF Untouched, files
<1>7. BotOK' /\ SetupOK'
  BY <1>1, <1>2 DEF Good, BotOK, SetupOK, bot, setup, Procs, Becomes
<1>8. call' \in [Procs -> CallType]
  <2>1. d \in CallType
    BY <1>1 DEF Good, BotCall, SetupCall
  <2> QED BY <1>2, <2>1 DEF Becomes, TypeOK, SqlTypeOK
<1> QED BY <1>3, <1>4, <1>5, <1>6, <1>7, <1>8 DEF TypeOK, SqlTypeOK

LEMMA DoTypes ==
  ASSUME TypeOK, BotOK, SetupOK, NEW p \in Procs, NEW at, NEW can, NEW next, NEW new,
         Do(p, at, can, next, new), Untouched, at # "find name",
         Good(p, next), conn[p] = "up" /\ can => new \in DbType
  PROVE  TypeOK' /\ BotOK' /\ SetupOK'
<1>1. PICK strange : strange = {next}
  OBVIOUS
<1>2. Query(p, at, can, next, next, strange, new)
  BY <1>1 DEF Do
<1>3. \A c \in strange : Good(p, c)
  BY <1>1
<1>4. raced' \subseteq Names
  BY <1>2 DEF Query, TypeOK, SqlTypeOK
<1> QED BY <1>2, <1>3, <1>4, QueryTypes

LEMMA CountTypes ==
  ASSUME TypeOK, BotOK, SetupOK, NEW p \in Procs, NEW at, NEW can, NEW next, NEW none,
         Count(p, at, can, next, none), Untouched, at # "find name",
         Good(p, next), Good(p, none)
  PROVE  TypeOK' /\ BotOK' /\ SetupOK'
<1>1. PICK strange : strange = {none, NoCall}
  OBVIOUS
<1>2. Query(p, at, can, next, NoCall, strange, db)
  BY <1>1 DEF Count
<1>3. Good(p, NoCall) /\ \A c \in strange : Good(p, c)
  BY <1>1, NoCallGood
<1>4. raced' \subseteq Names /\ db \in DbType
  BY <1>2 DEF Query, TypeOK, SqlTypeOK
<1> QED BY <1>2, <1>3, <1>4, QueryTypes

LEMMA CallGood ==
  ASSUME TypeOK, BotOK, SetupOK, NEW p \in Procs
  PROVE  call[p] \in CallType /\ Good(p, call[p]) /\ db \in DbType
BY DEF TypeOK, SqlTypeOK, BotOK, SetupOK, Good, Procs, bot, setup

(***************************************************************************)
(* What a statement does.  Each of the two processes can rely on what the  *)
(* statements of the other do not do: setup removes nothing, and the bot   *)
(* changes nothing of the user whom setup is working on, unless the user   *)
(* is contested.                                                           *)
(***************************************************************************)
Frame(p) ==
  /\ Becomes(p, call'[p])
  /\ contested' = contested /\ made' = made /\ config' = config
  /\ \A q \in Procs \ {p} : conn'[q] = conn[q] /\ alarm'[q] = alarm[q]
  /\ conn'[p] = "up" => conn[p] = "up"
  /\ alarm[p] => alarm'[p]
  /\ mixed => mixed'

\* The four outcomes of a statement.
Outcome(p, can, next, failed, strange, new) ==
  /\ Frame(p)
  /\ \/ /\ call'[p] = next /\ db' = new /\ can /\ conn[p] = "up"
        /\ conn' = conn /\ alarm' = alarm /\ mixed' = mixed
     \/ /\ call'[p] = failed /\ db' = db /\ alarm'[p] /\ conn' = conn
        /\ conn[p] = "down" \/ ~can
     \/ /\ call'[p] = failed \/ call'[p] = NoCall
        /\ db' = db \/ db' = new
        /\ conn[p] = "up" /\ can /\ conn'[p] = "down" /\ alarm'[p]
     \/ /\ p = "bot" /\ mixed' /\ call'[p] \in strange
        /\ db' = db \/ db' = new
        /\ conn[p] = "up" /\ can

\* Rows are added by those who own them, and removed by the bot.
RowsEffect(p) ==
  LET c == call[p] IN
  /\ db.tables \subseteq db'.tables
  /\ p = "bot" => db'.tables = db.tables
  /\ p = "setup" => db'.ban = db.ban
  /\ \A r \in db'.mask \ db.mask : Has("mask") /\ r.uid = c.uid /\ c.at = "ins mask"
  /\ \A r \in db'.mode \ db.mode : Has("mode") /\ r.uid = c.uid /\ c.at = "ins mode"
  /\ \A r \in db'.var \ db.var : Has("var") /\ r.uid = c.uid /\ c.at \in {"ins var", "upd var"}
  /\ \A r \in db'.ban \ db.ban :
       Has("ban") /\ r.uid = c.uid /\ c.at \in {"ins ban", "upd ban"}
  /\ \A r \in db'.note \ db.note :
       Has("note") /\ r.author = c.uid /\ r.target = c.val /\ c.at = "ins note"
  /\ \A r \in db.mask \ db'.mask : r.uid = c.uid /\ c.op \in {"del", "delmask"}
  /\ \A r \in db.mode \ db'.mode : r.uid = c.uid /\ c.op \in {"del", "setmode"}
  /\ p = "setup" => \A r \in db.var : \E s \in db'.var : s.uid = r.uid /\ s.name = r.name

Renamed(c) == {IF r.uid = c.uid THEN [r EXCEPT !.name = c.name] ELSE r : r \in db.user}
Relocked(c) == {IF r.uid = c.uid THEN [r EXCEPT !.pass = c.pass] ELSE r : r \in db.user}
NewUser(c) == [uid |-> db.last + 1, name |-> c.name, pass |-> FALSE]
UserEffect(p) ==
  LET c == call[p] IN
  \/ db'.user = db.user /\ db'.last = db.last
  \/ /\ Has("user") /\ conn[p] = "up"
     /\ \/ /\ c.at = "ins user" /\ db'.user = db.user \cup {NewUser(c)}
           /\ db'.last = db.last + 1
        \/ c.at = "upd name" /\ db'.user = Renamed(c) /\ db'.last = db.last
        \/ c.at = "upd pass" /\ db'.user = Relocked(c) /\ db'.last = db.last
        \/ c.at = "del user" /\ db'.user = db.user \ OfUser(db.user, c.uid) /\ db'.last = db.last

CallEffect(p) ==
  LET c == call[p]
      d == call'[p] IN
  /\ d.op \in {c.op, ""}
  /\ d.op # "" => d.name = c.name /\ d.mask = c.mask /\ d.val = c.val
  /\ \/ d.uid \in {0, c.uid}
     \/ c.at = "find mask" /\ d.uid \in UserIds
     \/ /\ c.at = "ins user" /\ d.at = "ins mask" /\ d.uid <= db'.last
        /\ ~mixed' \/ p = "setup" => d.uid = db.last + 1 /\ NewUser(c) \in db'.user
  /\ d.at = "ins mask" /\ d.op = "add" => d.uid # c.uid
  /\ IF d.at \in {"ins user", "upd name"}
     THEN /\ c.at = "find name" /\ d.name = c.name /\ db' = db
          /\ raced' = raced \cup {m \in {c.name} : \E q \in Procs : AboutToName(q, m)}
          /\ ~mixed' => conn'[p] = "down" \/ Called(c.name) = {}
     ELSE raced \subseteq raced'

\* What the process whose statement it is knows afterwards.
OwnEffect(p) ==
  /\ p = "bot" => Seen' /\ (~mixed' => Deleted')
  /\ p = "setup" => SetupSteady' /\ OwnerSoFar'

Effect(p) == Frame(p) /\ RowsEffect(p) /\ UserEffect(p) /\ CallEffect(p) /\ OwnEffect(p)

LEMMA QueryOutcome ==
  ASSUME SqlTypeOK, NEW p \in Procs,
         NEW at, NEW can, NEW next, NEW failed, NEW strange, NEW new,
         Query(p, at, can, next, failed, strange, new), Untouched
  PROVE  /\ Outcome(p, can, next, failed, strange, new)
         /\ call[p].at = at
         /\ at # "find name" => raced' = raced
<1>1. /\ call[p].at = at /\ contested' = contested /\ made' = made /\ config' = config
      /\ at # "find name" => raced' = raced
  BY DEF Query, Untouched, files
<1>2. conn \in [Procs -> {"up", "down"}] /\ alarm \in [Procs -> BOOLEAN]
  BY DEF SqlTypeOK
<1>3. ASSUME NEW d, Become(p, d) PROVE Becomes(p, call'[p]) /\ call'[p] = d
  BY <1>3, BecomeBecomes DEF Becomes
<1>4. CASE Executed(p, can, next, new)
  BY <1>1, <1>3, <1>4 DEF Executed, Outcome, Frame
<1>5. CASE Refused(p, can, failed)
  <2>1. alarm'[p] /\ \A q \in Procs \ {p} : alarm'[q] = alarm[q]
    BY <1>2, <1>5 DEF Refused, Alert
  <2> QED BY <1>1, <1>3, <1>5, <2>1 DEF Refused, Outcome, Frame
<1>6. CASE Lost(p, can, failed, new)
  <2>1. alarm'[p] /\ \A q \in Procs \ {p} : alarm'[q] = alarm[q]
    BY <1>2, <1>6 DEF Lost, Alert
  <2>2. conn'[p] = "down" /\ \A q \in Procs \ {p} : conn'[q] = conn[q]
    BY <1>2, <1>6 DEF Lost
  <2>3. /\ call'[p] = failed \/ call'[p] = NoCall
        /\ Becomes(p, call'[p])
    BY <1>3, <1>6 DEF Lost
  <2> QED BY <1>1, <1>6, <2>1, <2>2, <2>3 DEF Lost, Outcome, Frame
<1>7. CASE Mixed(p, can, strange, new)
  <2>1. call'[p] \in strange /\ Becomes(p, call'[p])
    BY <1>3, <1>7 DEF Mixed
  <2> QED BY <1>1, <1>7, <2>1 DEF Mixed, Outcome, Frame
<1>8. QED
  BY <1>1, <1>4, <1>5, <1>6, <1>7 DEF Query

(***************************************************************************)
(* The outcomes of the two kinds of statements, and what follows when the  *)
(* call is over or goes on with what it was called with.                   *)
(***************************************************************************)
Ended(d) == d.op = "" /\ d.uid = 0 /\ d.at \in {"off", "idle"}
Moved(c, d) ==
  /\ d.op = c.op /\ d.uid = c.uid /\ d.name = c.name /\ d.mask = c.mask /\ d.val = c.val

LEMMA EndedNoCall == Ended(NoCall)
BY NoCallFields DEF Ended

LEMMA EndedReturn ==
  ASSUME NEW p \in Procs, NEW ret \in Int
  PROVE  Ended(Return(p, ret))
BY ReturnFields DEF Ended

DoResult(p, can, next, new) ==
  /\ Frame(p) /\ raced' = raced
  /\ call'[p] = next \/ Ended(call'[p])
  /\ db' = db \/ (db' = new /\ can /\ conn[p] = "up")
  /\ \/ call'[p] = next /\ db' = new /\ can /\ conn[p] = "up"
     \/ alarm'[p] /\ (conn'[p] = "down" \/ ~can)
     \/ p = "bot" /\ mixed'

LEMMA DoOutcome ==
  ASSUME SqlTypeOK, NEW p \in Procs, NEW at, NEW can, NEW next, NEW new,
         Do(p, at, can, next, new), Untouched, at # "find name"
  PROVE  DoResult(p, can, next, new)
<1>1. PICK strange : strange = {next}
  OBVIOUS
<1>2. Query(p, at, can, next, next, strange, new)
  BY <1>1 DEF Do
<1>3. Outcome(p, can, next, next, strange, new)
  BY <1>2, QueryOutcome
<1>4. raced' = raced
  BY <1>2 DEF Query
<1> QED BY <1>1, <1>3, <1>4, EndedNoCall DEF Outcome, Frame, DoResult

CountResult(p, can, next, none) ==
  /\ Frame(p) /\ raced' = raced /\ db' = db
  /\ \/ call'[p] = next /\ can /\ conn[p] = "up"
     \/ Ended(call'[p])
     \/ p = "bot" /\ mixed' /\ call'[p] = none

LEMMA CountOutcome ==
  ASSUME SqlTypeOK, NEW p \in Procs, NEW at, NEW can, NEW next, NEW none,
         Count(p, at, can, next, none), Untouched, at # "find name"
  PROVE  CountResult(p, can, next, none)
<1>1. PICK strange : strange = {none, NoCall}
  OBVIOUS
<1>2. Query(p, at, can, next, NoCall, strange, db)
  BY <1>1 DEF Count
<1>3. Outcome(p, can, next, NoCall, strange, db)
  BY <1>2, QueryOutcome
<1>4. raced' = raced
  BY <1>2 DEF Query
<1> QED BY <1>1, <1>3, <1>4, EndedNoCall DEF Outcome, CountResult

WentTo(c, next, at) ==
  /\ next \in CallType /\ next.at = at /\ Moved(c, next)
  /\ next.key = c.key /\ next.pass = c.pass /\ next.ret = c.ret

LEMMA GotoMoves ==
  ASSUME SqlTypeOK, NEW p \in Procs, NEW at \in Steps, NEW c, c = call[p],
         NEW next, next = Goto(p, at)
  PROVE  WentTo(c, next, at)
BY GotoType DEF Moved, WentTo

LEMMA BotOwn ==
  ASSUME NEW p, p = "bot", Seen', ~mixed' => Deleted'
  PROVE  OwnEffect(p)
BY DEF OwnEffect

LEMMA SetupOwn ==
  ASSUME NEW p, p = "setup", SetupSteady', OwnerSoFar'
  PROVE  OwnEffect(p)
BY DEF OwnEffect

LEMMA SameRows ==
  ASSUME NEW p \in Procs, db' = db
  PROVE  RowsEffect(p) /\ UserEffect(p)
BY DEF RowsEffect, UserEffect

\* A call that is over knows nothing.
LEMMA EndedEffect ==
  ASSUME SetupSteady, NEW p \in Procs, Frame(p), Ended(call'[p]),
         raced \subseteq raced', db'.tables = db.tables
  PROVE  CallEffect(p) /\ OwnEffect(p)
<1>1. CallEffect(p)
  BY DEF Ended, CallEffect
<1>2. p = "bot" => Seen' /\ Deleted'
  BY DEF Ended, Seen, Deleted, bot
<1>3. p = "setup" => SetupSteady' /\ OwnerSoFar'
  BY DEF Ended, SetupSteady, OwnerSoFar, setup, Has, BeforeUser
<1> QED BY <1>1, <1>2, <1>3 DEF OwnEffect

\* One that goes on without giving a name, or as a new user, asks for nothing.
LEMMA MovedEffect ==
  ASSUME NEW p \in Procs, Moved(call[p], call'[p]), raced \subseteq raced',
         call'[p].at \notin {"ins user", "upd name"},
         call'[p].at = "ins mask" => call'[p].op # "add"
  PROVE  CallEffect(p)
BY DEF Moved, CallEffect

\* The last statement of a call.
LEMMA LastStatement ==
  ASSUME TypeOK, BotOK, SetupOK, SetupSteady, NEW p \in Procs, NEW at, NEW can, NEW next, NEW new,
         Do(p, at, can, next, new), Untouched, at # "find name", Good(p, next), Ended(next),
         new \in DbType /\ new.tables = db.tables
  PROVE  /\ TypeOK' /\ BotOK' /\ SetupOK'
         /\ CallEffect(p) /\ OwnEffect(p)
         /\ DoResult(p, can, next, new)
<1>1. TypeOK' /\ BotOK' /\ SetupOK'
  BY DoTypes
<1>2. DoResult(p, can, next, new)
  BY DoOutcome DEF TypeOK
<1>3. Ended(call'[p])
  BY <1>2 DEF Ended, DoResult
<1>4. CallEffect(p) /\ OwnEffect(p)
  BY <1>2, <1>3, EndedEffect DEF DoResult
<1> QED BY <1>1, <1>2, <1>4

LEMMA ReturnEnds ==
  ASSUME NEW p \in Procs, NEW ret \in Int
  PROVE  Good(p, Return(p, ret)) /\ Ended(Return(p, ret))
BY ReturnGood, EndedReturn

LEMMA ReturnZero ==
  ASSUME NEW p \in Procs, NEW next, next = Return(p, 0)
  PROVE  Good(p, next) /\ Ended(next)
BY ReturnEnds

LEMMA ReturnFails ==
  ASSUME NEW p \in Procs, NEW next, next = Return(p, -1)
  PROVE  Good(p, next) /\ Ended(next)
BY ReturnEnds

\* The tables of a database of which one changes.
LEMMA NewMasks ==
  ASSUME db \in DbType, NEW x \in SUBSET MaskType, NEW new, new = [db EXCEPT !.mask = x]
  PROVE  /\ new \in DbType /\ new.mask = x /\ new.user = db.user /\ new.mode = db.mode
         /\ new.var = db.var /\ new.ban = db.ban /\ new.note = db.note /\ new.last = db.last
         /\ new.tables = db.tables
BY DEF DbType

LEMMA NewModes ==
  ASSUME db \in DbType, NEW x \in SUBSET ModeType, NEW new, new = [db EXCEPT !.mode = x]
  PROVE  /\ new \in DbType /\ new.mode = x /\ new.user = db.user /\ new.mask = db.mask
         /\ new.var = db.var /\ new.ban = db.ban /\ new.note = db.note /\ new.last = db.last
         /\ new.tables = db.tables
BY DEF DbType

LEMMA NewVars ==
  ASSUME db \in DbType, NEW x \in SUBSET VarType, NEW new, new = [db EXCEPT !.var = x]
  PROVE  /\ new \in DbType /\ new.var = x /\ new.user = db.user /\ new.mask = db.mask
         /\ new.mode = db.mode /\ new.ban = db.ban /\ new.note = db.note /\ new.last = db.last
         /\ new.tables = db.tables
BY DEF DbType

LEMMA NewBans ==
  ASSUME db \in DbType, NEW x \in SUBSET MaskType, NEW new, new = [db EXCEPT !.ban = x]
  PROVE  /\ new \in DbType /\ new.ban = x /\ new.user = db.user /\ new.mask = db.mask
         /\ new.mode = db.mode /\ new.var = db.var /\ new.note = db.note /\ new.last = db.last
         /\ new.tables = db.tables
BY DEF DbType

LEMMA NewNotes ==
  ASSUME db \in DbType, NEW x \in SUBSET NoteType, NEW new, new = [db EXCEPT !.note = x]
  PROVE  /\ new \in DbType /\ new.note = x /\ new.user = db.user /\ new.mask = db.mask
         /\ new.mode = db.mode /\ new.var = db.var /\ new.ban = db.ban /\ new.last = db.last
         /\ new.tables = db.tables
BY DEF DbType

LEMMA NewUsers ==
  ASSUME db \in DbType, NEW x \in SUBSET UserType, NEW new, new = [db EXCEPT !.user = x]
  PROVE  /\ new \in DbType /\ new.user = x /\ new.mask = db.mask /\ new.mode = db.mode
         /\ new.var = db.var /\ new.ban = db.ban /\ new.note = db.note /\ new.last = db.last
         /\ new.tables = db.tables
BY DEF DbType

LEMMA Rows ==
  ASSUME db \in DbType
  PROVE  /\ db.user \in SUBSET UserType /\ db.mask \in SUBSET MaskType
         /\ db.mode \in SUBSET ModeType /\ db.var \in SUBSET VarType
         /\ db.ban \in SUBSET MaskType /\ db.note \in SUBSET NoteType
         /\ db.last \in 0 .. MaxUsers /\ db.tables \in SUBSET Tables
BY DEF DbType

(***************************************************************************)
(* The statements, one by one.  First what a call says at each.            *)
(***************************************************************************)
Stepped(p) == TypeOK' /\ BotOK' /\ SetupOK' /\ Effect(p)

LEMMA Arguments ==
  ASSUME TypeOK, BotOK, SetupOK, NEW p \in Procs, NEW c, c = call[p]
  PROVE  /\ c \in CallType /\ c.pass \in BOOLEAN /\ c.ret \in Int /\ c.val \in Nat
         /\ c.at \in {"ins mask", "count mask", "sel ban", "ins ban", "upd ban"}
              => c.uid \in Ids /\ c.mask \in Masks
         /\ c.at \in {"upd name", "upd pass", "check pass"} => c.uid \in Ids
         /\ c.at \in {"find name", "ins user", "upd name"} => c.name \in Names
         /\ c.at \in ModeSteps \cup {"drop mode"} => c.uid \in Ids /\ c.key \in Modes
         /\ c.at \in VarSteps => c.uid \in Ids \cup {0} /\ c.key \in Vars /\ c.val \in Vals
         /\ c.at = "ins note" => c.uid \in Ids /\ c.val \in Ids
         /\ p = "setup" => c.at \in BeforeUser \cup VarSteps \cup WithUser \cup
                                    {"off", "idle", "find name", "ins user"}
<1>1. c \in CallType /\ Good(p, c)
  BY CallGood
<1>2. c.uid \in Ids \cup {0}
  <2>1. c.uid \in 0 .. MaxUsers
    BY <1>1 DEF CallType
  <2> QED BY <2>1, Constants DEF Ids
<1>3. c.pass \in BOOLEAN /\ c.ret \in Int /\ c.val \in Nat
  BY <1>1 DEF CallType
<1>4. CASE p = "bot"
  BY <1>1, <1>2, <1>3, <1>4 DEF Good, BotCall, DelSteps, ModeSteps, VarSteps
<1>5. CASE p = "setup"
  BY <1>1, <1>2, <1>3, <1>5, Constants DEF Good, SetupCall, BeforeUser, WithUser, ModeSteps, VarSteps
<1> QED BY <1>4, <1>5 DEF Procs

\* Only scripts come here.
LEMMA BotArguments ==
  ASSUME TypeOK, BotOK, SetupOK, NEW p \in Procs, NEW c, c = call[p],
         c.at \in DelSteps \cup {"drop mask", "drop mode", "drop var", "drop ban", "drop note",
                                 "upd name", "count mask", "find mask", "check pass", "count uvar",
                                 "sel ban", "ins ban", "upd ban", "ins note"}
  PROVE  /\ p = "bot"
         /\ c.at \in DelSteps <=> c.op = "del"
         /\ c.at = "drop mask" => c.op = "delmask"
         /\ c.at = "drop mode" => c.op = "setmode"
         /\ c.at = "drop var" => c.op = "unset"
         /\ c.at \in {"find mask", "check pass"} => c.op = "lookup"
         /\ c.at \in {"sel ban", "ins ban", "upd ban"} => c.op = "addban"
<1>1. Good(p, c)
  BY CallGood
<1>2. p = "bot"
  BY <1>1 DEF Good, SetupCall, BeforeUser, WithUser, ModeSteps, VarSteps, DelSteps, Procs
<1> QED BY <1>1, <1>2 DEF Good, BotCall, DelSteps, ModeSteps, VarSteps

LEMMA RowTypes ==
  ASSUME NEW c
  PROVE  /\ c.uid \in Ids /\ c.mask \in Masks => MaskRow(c) \in MaskType
         /\ c.uid \in Ids /\ c.key \in Modes => ModeRow(c) \in ModeType
         /\ c.uid \in Ids \cup {0} /\ c.key \in Vars /\ c.val \in Vals => VarRow(c) \in VarType
         /\ c.uid \in Ids /\ c.val \in Ids => NoteRow(c) \in NoteType
BY DEF MaskRow, MaskType, ModeRow, ModeType, VarRow, VarType, NoteRow, NoteType

LEMMA DropMaskStep ==
  ASSUME TypeOK, BotOK, SetupOK, SetupSteady, NEW p \in Procs, DropMask(p), Untouched
  PROVE  Stepped(p)
<1>1. PICK c : c = call[p]
  OBVIOUS
<1>2. PICK x : x = db.mask \ {MaskRow(c)}
  OBVIOUS
<1>3. PICK new : new = [db EXCEPT !.mask = x]
  OBVIOUS
<1>4. PICK next : next = Return(p, 0)
  OBVIOUS
<1>5. Do(p, "drop mask", Has("mask"), next, new) /\ c.at = "drop mask"
  BY <1>1, <1>2, <1>3, <1>4 DEF DropMask, Do, Query
<1>6. c \in CallType /\ db \in DbType /\ p = "bot" /\ c.op = "delmask"
  BY ZenonT(30), <1>1, <1>5, CallGood, BotArguments
<1>7. x \in SUBSET MaskType
  BY <1>2, <1>5, <1>6, Rows
<1>8. /\ new \in DbType /\ new.mask = x /\ new.tables = db.tables /\ new.last = db.last
      /\ new.user = db.user /\ new.mode = db.mode /\ new.var = db.var /\ new.ban = db.ban /\ new.note = db.note
  BY <1>3, <1>6, <1>7, NewMasks
<1>9. Good(p, next) /\ Ended(next)
  BY <1>4, <1>6, ReturnEnds
<1>10. /\ TypeOK' /\ BotOK' /\ SetupOK' /\ CallEffect(p) /\ OwnEffect(p)
       /\ DoResult(p, Has("mask"), next, new)
  BY <1>5, <1>8, <1>9, LastStatement
<1>11. CASE db' = db
  BY <1>10, <1>11, SameRows DEF Stepped, Effect, DoResult
<1>12. CASE db' # db
  <2>1. db' = new /\ Has("mask") /\ conn[p] = "up"
    BY <1>10, <1>12 DEF DoResult
  <2>2. UserEffect(p)
    BY <1>1, <1>2, <1>5, <1>8, <2>1 DEF UserEffect
  <2>3. /\ \A r \in db'.mask : r \in db.mask
        /\ \A r \in db.mask \ db'.mask : r.uid = c.uid
    BY <1>2, <1>6, <1>8, <2>1 DEF MaskRow
  <2>4. RowsEffect(p)
    BY <1>1, <1>5, <1>6, <1>8, <2>1, <2>3 DEF RowsEffect
  <2> QED BY <1>10, <2>2, <2>4 DEF Stepped, Effect, DoResult
<1> QED BY <1>11, <1>12

LEMMA UpdNameStep ==
  ASSUME TypeOK, BotOK, SetupOK, SetupSteady, NEW p \in Procs, UpdName(p), Untouched
  PROVE  Stepped(p)
<1>1. PICK c : c = call[p]
  OBVIOUS
<1>2. PICK x : x = Renamed(c)
  OBVIOUS
<1>3. PICK new : new = [db EXCEPT !.user = x]
  OBVIOUS
<1>4. PICK next : next = Return(p, 0)
  OBVIOUS
<1>5. Do(p, "upd name", Has("user"), next, new) /\ c.at = "upd name"
  BY <1>1, <1>2, <1>3, <1>4 DEF UpdName, Do, Query, Renamed
<1>6. c \in CallType /\ db \in DbType /\ c.name \in Names
  BY <1>1, <1>5, CallGood, Arguments
<1>7. x \in SUBSET UserType
  BY <1>2, <1>5, <1>6, Rows DEF Renamed, UserType
<1>8. /\ new \in DbType /\ new.user = x /\ new.tables = db.tables /\ new.last = db.last
      /\ new.mask = db.mask /\ new.mode = db.mode /\ new.var = db.var /\ new.ban = db.ban /\ new.note = db.note
  BY <1>3, <1>6, <1>7, NewUsers
<1>9. Good(p, next) /\ Ended(next)
  BY <1>4, <1>6, ReturnEnds
<1>10. /\ TypeOK' /\ BotOK' /\ SetupOK' /\ CallEffect(p) /\ OwnEffect(p)
       /\ DoResult(p, Has("user"), next, new)
  BY <1>5, <1>8, <1>9, LastStatement
<1>11. CASE db' = db
  BY <1>10, <1>11, SameRows DEF Stepped, Effect, DoResult
<1>12. CASE db' # db
  <2>1. db' = new /\ Has("user") /\ conn[p] = "up"
    BY <1>10, <1>12 DEF DoResult
  <2>2. UserEffect(p)
    BY <1>1, <1>2, <1>5, <1>8, <2>1 DEF UserEffect
  <2>3. RowsEffect(p)
    BY <1>8, <2>1 DEF RowsEffect
  <2> QED BY <1>10, <2>2, <2>3 DEF Stepped, Effect, DoResult
<1> QED BY <1>11, <1>12

LEMMA UpdPassStep ==
  ASSUME TypeOK, BotOK, SetupOK, SetupSteady, NEW p \in Procs, UpdPass(p), Untouched
  PROVE  Stepped(p)
<1>1. PICK c : c = call[p]
  OBVIOUS
<1>2. PICK x : x = Relocked(c)
  OBVIOUS
<1>3. PICK new : new = [db EXCEPT !.user = x]
  OBVIOUS
<1>4. PICK next : next = Return(p, c.ret)
  OBVIOUS
<1>5. Do(p, "upd pass", Has("user"), next, new) /\ c.at = "upd pass"
  BY <1>1, <1>2, <1>3, <1>4 DEF UpdPass, Do, Query, Relocked
<1>6. c \in CallType /\ db \in DbType /\ c.pass \in BOOLEAN /\ c.ret \in Int
  BY <1>1, <1>5, CallGood, Arguments
<1>7. x \in SUBSET UserType
  BY ZenonT(30), <1>2, <1>5, <1>6, Rows DEF Relocked, UserType
<1>8. /\ new \in DbType /\ new.user = x /\ new.tables = db.tables /\ new.last = db.last
      /\ new.mask = db.mask /\ new.mode = db.mode /\ new.var = db.var /\ new.ban = db.ban /\ new.note = db.note
  BY <1>3, <1>6, <1>7, NewUsers
<1>9. Good(p, next) /\ Ended(next)
  BY <1>4, <1>6, ReturnEnds
<1>10. /\ TypeOK' /\ BotOK' /\ SetupOK' /\ CallEffect(p) /\ OwnEffect(p)
       /\ DoResult(p, Has("user"), next, new)
  BY <1>5, <1>8, <1>9, LastStatement
<1>11. CASE db' = db
  BY <1>10, <1>11, SameRows DEF Stepped, Effect, DoResult
<1>12. CASE db' # db
  <2>1. db' = new /\ Has("user") /\ conn[p] = "up"
    BY <1>10, <1>12 DEF DoResult
  <2>2. UserEffect(p)
    BY <1>1, <1>2, <1>5, <1>8, <2>1 DEF UserEffect
  <2>3. RowsEffect(p)
    BY <1>8, <2>1 DEF RowsEffect
  <2> QED BY <1>10, <2>2, <2>3 DEF Stepped, Effect, DoResult
<1> QED BY <1>11, <1>12

LEMMA InsBanStep ==
  ASSUME TypeOK, BotOK, SetupOK, SetupSteady, NEW p \in Procs, InsBan(p), Untouched
  PROVE  Stepped(p)
<1>1. PICK c : c = call[p]
  OBVIOUS
<1>2. PICK x : x = db.ban \cup {MaskRow(c)}
  OBVIOUS
<1>3. PICK new : new = [db EXCEPT !.ban = x]
  OBVIOUS
<1>4. PICK next : next = Return(p, 0)
  OBVIOUS
<1>5. Do(p, "ins ban", Has("ban"), next, new) /\ c.at = "ins ban"
  BY <1>1, <1>2, <1>3, <1>4 DEF InsBan, Do, Query
<1>6. c \in CallType /\ db \in DbType /\ p = "bot" /\ c.uid \in Ids /\ c.mask \in Masks
  BY <1>1, <1>5, CallGood, Arguments, BotArguments
<1>7. x \in SUBSET MaskType
  BY <1>2, <1>5, <1>6, Rows, RowTypes
<1>8. /\ new \in DbType /\ new.ban = x /\ new.tables = db.tables /\ new.last = db.last
      /\ new.user = db.user /\ new.mask = db.mask /\ new.mode = db.mode /\ new.var = db.var /\ new.note = db.note
  BY <1>3, <1>6, <1>7, NewBans
<1>9. Good(p, next) /\ Ended(next)
  BY <1>4, <1>6, ReturnEnds
<1>10. /\ TypeOK' /\ BotOK' /\ SetupOK' /\ CallEffect(p) /\ OwnEffect(p)
       /\ DoResult(p, Has("ban"), next, new)
  BY <1>5, <1>8, <1>9, LastStatement
<1>11. CASE db' = db
  BY <1>10, <1>11, SameRows DEF Stepped, Effect, DoResult
<1>12. CASE db' # db
  <2>1. db' = new /\ Has("ban") /\ conn[p] = "up"
    BY <1>10, <1>12 DEF DoResult
  <2>2. UserEffect(p)
    BY <1>1, <1>2, <1>5, <1>8, <2>1 DEF UserEffect
  <2>3. \A r \in db'.ban \ db.ban : r.uid = c.uid
    BY <1>2, <1>6, <1>8, <2>1 DEF MaskRow
  <2>4. RowsEffect(p)
    BY <1>1, <1>5, <1>6, <1>8, <2>1, <2>3 DEF RowsEffect
  <2> QED BY <1>10, <2>2, <2>4 DEF Stepped, Effect, DoResult
<1> QED BY <1>11, <1>12

LEMMA UpdBanStep ==
  ASSUME TypeOK, BotOK, SetupOK, SetupSteady, NEW p \in Procs, UpdBan(p), Untouched
  PROVE  Stepped(p)
<1>1. PICK c : c = call[p]
  OBVIOUS
<1>2. PICK x : x = {IF r.mask = c.mask THEN [r EXCEPT !.uid = c.uid] ELSE r : r \in db.ban}
  OBVIOUS
<1>3. PICK new : new = [db EXCEPT !.ban = x]
  OBVIOUS
<1>4. PICK next : next = Return(p, 0)
  OBVIOUS
<1>5. Do(p, "upd ban", Has("ban"), next, new) /\ c.at = "upd ban"
  BY <1>1, <1>2, <1>3, <1>4 DEF UpdBan, Do, Query
<1>6. c \in CallType /\ db \in DbType /\ p = "bot" /\ c.uid \in Ids /\ c.mask \in Masks
  BY <1>1, <1>5, CallGood, Arguments, BotArguments
<1>7. x \in SUBSET MaskType
  BY <1>2, <1>5, <1>6, Rows DEF MaskType
<1>8. /\ new \in DbType /\ new.ban = x /\ new.tables = db.tables /\ new.last = db.last
      /\ new.user = db.user /\ new.mask = db.mask /\ new.mode = db.mode /\ new.var = db.var /\ new.note = db.note
  BY <1>3, <1>6, <1>7, NewBans
<1>9. Good(p, next) /\ Ended(next)
  BY <1>4, <1>6, ReturnEnds
<1>10. /\ TypeOK' /\ BotOK' /\ SetupOK' /\ CallEffect(p) /\ OwnEffect(p)
       /\ DoResult(p, Has("ban"), next, new)
  BY <1>5, <1>8, <1>9, LastStatement
<1>11. CASE db' = db
  BY <1>10, <1>11, SameRows DEF Stepped, Effect, DoResult
<1>12. CASE db' # db
  <2>1. db' = new /\ Has("ban") /\ conn[p] = "up"
    BY <1>10, <1>12 DEF DoResult
  <2>2. UserEffect(p)
    BY <1>1, <1>2, <1>5, <1>8, <2>1 DEF UserEffect
  <2>3. \A r \in db'.ban \ db.ban : r.uid = c.uid
    BY <1>2, <1>6, <1>8, <2>1, Rows DEF MaskType
  <2>4. RowsEffect(p)
    BY <1>1, <1>5, <1>6, <1>8, <2>1, <2>3 DEF RowsEffect
  <2> QED BY <1>10, <2>2, <2>4 DEF Stepped, Effect, DoResult
<1> QED BY <1>11, <1>12

LEMMA DropBanStep ==
  ASSUME TypeOK, BotOK, SetupOK, SetupSteady, NEW p \in Procs, DropBan(p), Untouched
  PROVE  Stepped(p)
<1>1. PICK c : c = call[p]
  OBVIOUS
<1>2. PICK x : x = db.ban \ BansOn(c.mask)
  OBVIOUS
<1>3. PICK new : new = [db EXCEPT !.ban = x]
  OBVIOUS
<1>4. PICK next : next = Return(p, 0)
  OBVIOUS
<1>5. Do(p, "drop ban", Has("ban"), next, new) /\ c.at = "drop ban"
  BY <1>1, <1>2, <1>3, <1>4 DEF DropBan, Do, Query
<1>6. c \in CallType /\ db \in DbType /\ p = "bot"
  BY <1>1, <1>5, CallGood, BotArguments
<1>7. x \in SUBSET MaskType
  BY <1>2, <1>5, <1>6, Rows
<1>8. /\ new \in DbType /\ new.ban = x /\ new.tables = db.tables /\ new.last = db.last
      /\ new.user = db.user /\ new.mask = db.mask /\ new.mode = db.mode /\ new.var = db.var /\ new.note = db.note
  BY <1>3, <1>6, <1>7, NewBans
<1>9. Good(p, next) /\ Ended(next)
  BY <1>4, <1>6, ReturnEnds
<1>10. /\ TypeOK' /\ BotOK' /\ SetupOK' /\ CallEffect(p) /\ OwnEffect(p)
       /\ DoResult(p, Has("ban"), next, new)
  BY <1>5, <1>8, <1>9, LastStatement
<1>11. CASE db' = db
  BY <1>10, <1>11, SameRows DEF Stepped, Effect, DoResult
<1>12. CASE db' # db
  <2>1. db' = new /\ Has("ban") /\ conn[p] = "up"
    BY <1>10, <1>12 DEF DoResult
  <2>2. UserEffect(p)
    BY <1>1, <1>2, <1>5, <1>8, <2>1 DEF UserEffect
  <2>3. /\ \A r \in db'.ban : r \in db.ban
    BY <1>2, <1>6, <1>8, <2>1
  <2>4. RowsEffect(p)
    BY <1>1, <1>5, <1>6, <1>8, <2>1, <2>3 DEF RowsEffect
  <2> QED BY <1>10, <2>2, <2>4 DEF Stepped, Effect, DoResult
<1> QED BY <1>11, <1>12

LEMMA InsNoteStep ==
  ASSUME TypeOK, BotOK, SetupOK, SetupSteady, NEW p \in Procs, InsNote(p), Untouched
  PROVE  Stepped(p)
<1>1. PICK c : c = call[p]
  OBVIOUS
<1>2. PICK x : x = db.note \cup {NoteRow(c)}
  OBVIOUS
<1>3. PICK new : new = [db EXCEPT !.note = x]
  OBVIOUS
<1>4. PICK next : next = Return(p, 0)
  OBVIOUS
<1>5. Do(p, "ins note", Has("note"), next, new) /\ c.at = "ins note"
  BY <1>1, <1>2, <1>3, <1>4 DEF InsNote, Do, Query
<1>6. c \in CallType /\ db \in DbType /\ p = "bot" /\ c.uid \in Ids /\ c.val \in Ids
  BY <1>1, <1>5, CallGood, Arguments, BotArguments
<1>7. x \in SUBSET NoteType
  BY <1>2, <1>5, <1>6, Rows, RowTypes
<1>8. /\ new \in DbType /\ new.note = x /\ new.tables = db.tables /\ new.last = db.last
      /\ new.user = db.user /\ new.mask = db.mask /\ new.mode = db.mode /\ new.var = db.var /\ new.ban = db.ban
  BY <1>3, <1>6, <1>7, NewNotes
<1>9. Good(p, next) /\ Ended(next)
  BY <1>4, <1>6, ReturnEnds
<1>10. /\ TypeOK' /\ BotOK' /\ SetupOK' /\ CallEffect(p) /\ OwnEffect(p)
       /\ DoResult(p, Has("note"), next, new)
  BY <1>5, <1>8, <1>9, LastStatement
<1>11. CASE db' = db
  BY <1>10, <1>11, SameRows DEF Stepped, Effect, DoResult
<1>12. CASE db' # db
  <2>1. db' = new /\ Has("note") /\ conn[p] = "up"
    BY <1>10, <1>12 DEF DoResult
  <2>2. UserEffect(p)
    BY <1>1, <1>2, <1>5, <1>8, <2>1 DEF UserEffect
  <2>3. \A r \in db'.note \ db.note : r.author = c.uid /\ r.target = c.val
    BY <1>2, <1>6, <1>8, <2>1 DEF NoteRow
  <2>4. RowsEffect(p)
    BY <1>1, <1>5, <1>6, <1>8, <2>1, <2>3 DEF RowsEffect
  <2> QED BY <1>10, <2>2, <2>4 DEF Stepped, Effect, DoResult
<1> QED BY <1>11, <1>12

LEMMA DropNoteStep ==
  ASSUME TypeOK, BotOK, SetupOK, SetupSteady, NEW p \in Procs, DropNote(p), Untouched
  PROVE  Stepped(p)
<1>1. PICK c : c = call[p]
  OBVIOUS
<1>2. PICK x : x = db.note \ {NoteRow(c)}
  OBVIOUS
<1>3. PICK new : new = [db EXCEPT !.note = x]
  OBVIOUS
<1>4. PICK next : next = Return(p, 0)
  OBVIOUS
<1>5. Do(p, "drop note", Has("note"), next, new) /\ c.at = "drop note"
  BY <1>1, <1>2, <1>3, <1>4 DEF DropNote, Do, Query
<1>6. c \in CallType /\ db \in DbType /\ p = "bot"
  BY <1>1, <1>5, CallGood, BotArguments
<1>7. x \in SUBSET NoteType
  BY <1>2, <1>5, <1>6, Rows
<1>8. /\ new \in DbType /\ new.note = x /\ new.tables = db.tables /\ new.last = db.last
      /\ new.user = db.user /\ new.mask = db.mask /\ new.mode = db.mode /\ new.var = db.var /\ new.ban = db.ban
  BY <1>3, <1>6, <1>7, NewNotes
<1>9. Good(p, next) /\ Ended(next)
  BY <1>4, <1>6, ReturnEnds
<1>10. /\ TypeOK' /\ BotOK' /\ SetupOK' /\ CallEffect(p) /\ OwnEffect(p)
       /\ DoResult(p, Has("note"), next, new)
  BY <1>5, <1>8, <1>9, LastStatement
<1>11. CASE db' = db
  BY <1>10, <1>11, SameRows DEF Stepped, Effect, DoResult
<1>12. CASE db' # db
  <2>1. db' = new /\ Has("note") /\ conn[p] = "up"
    BY <1>10, <1>12 DEF DoResult
  <2>2. UserEffect(p)
    BY <1>1, <1>2, <1>5, <1>8, <2>1 DEF UserEffect
  <2>3. /\ \A r \in db'.note : r \in db.note
    BY <1>2, <1>6, <1>8, <2>1
  <2>4. RowsEffect(p)
    BY <1>1, <1>5, <1>6, <1>8, <2>1, <2>3 DEF RowsEffect
  <2> QED BY <1>10, <2>2, <2>4 DEF Stepped, Effect, DoResult
<1> QED BY <1>11, <1>12

LEMMA DelUserStep ==
  ASSUME TypeOK, BotOK, SetupOK, SetupSteady, NEW p \in Procs, DelUser(p), Untouched
  PROVE  Stepped(p)
<1>1. PICK c : c = call[p]
  OBVIOUS
<1>2. PICK x : x = db.user \ OfUser(db.user, c.uid)
  OBVIOUS
<1>3. PICK new : new = [db EXCEPT !.user = x]
  OBVIOUS
<1>4. PICK next : next = Return(p, 0)
  OBVIOUS
<1>5. Do(p, "del user", Has("user"), next, new) /\ c.at = "del user"
  BY <1>1, <1>2, <1>3, <1>4 DEF DelUser, Do, Query
<1>6. c \in CallType /\ db \in DbType
  BY <1>1, <1>5, CallGood
<1>7. x \in SUBSET UserType
  BY <1>2, <1>5, <1>6, Rows
<1>8. /\ new \in DbType /\ new.user = x /\ new.tables = db.tables /\ new.last = db.last
      /\ new.mask = db.mask /\ new.mode = db.mode /\ new.var = db.var /\ new.ban = db.ban /\ new.note = db.note
  BY <1>3, <1>6, <1>7, NewUsers
<1>9. Good(p, next) /\ Ended(next)
  BY <1>4, <1>6, ReturnEnds
<1>10. /\ TypeOK' /\ BotOK' /\ SetupOK' /\ CallEffect(p) /\ OwnEffect(p)
       /\ DoResult(p, Has("user"), next, new)
  BY <1>5, <1>8, <1>9, LastStatement
<1>11. CASE db' = db
  BY <1>10, <1>11, SameRows DEF Stepped, Effect, DoResult
<1>12. CASE db' # db
  <2>1. db' = new /\ Has("user") /\ conn[p] = "up"
    BY <1>10, <1>12 DEF DoResult
  <2>2. UserEffect(p)
    BY <1>1, <1>2, <1>5, <1>8, <2>1 DEF UserEffect
  <2>3. RowsEffect(p)
    BY <1>8, <2>1 DEF RowsEffect
  <2> QED BY <1>10, <2>2, <2>3 DEF Stepped, Effect, DoResult
<1> QED BY <1>11, <1>12

LEMMA DelBansStep ==
  ASSUME TypeOK, BotOK, SetupOK, SetupSteady, Tidy, ~mixed => Deleted, NEW p \in Procs,
         DelBans(p), Untouched
  PROVE  Stepped(p)
<1>1. PICK c : c = call[p]
  OBVIOUS
<1>2. PICK x : x = db.ban \ OfUser(db.ban, c.uid)
  OBVIOUS
<1>3. PICK new : new = [db EXCEPT !.ban = x]
  OBVIOUS
<1>4. PICK next : next = Goto(p, "del mode")
  OBVIOUS
<1>5. Do(p, "del ban", Has("ban"), next, new) /\ c.at = "del ban"
  BY <1>1, <1>2, <1>3, <1>4 DEF DelBans, Do, Query, OfUser
<1>6. c \in CallType /\ Good(p, c) /\ db \in DbType /\ p = "bot" /\ c.op = "del" /\ SqlTypeOK
  BY <1>1, <1>5, CallGood, BotArguments DEF DelSteps, TypeOK
<1>7. x \in SUBSET MaskType
  BY <1>2, <1>6, Rows
<1>8. /\ new \in DbType /\ new.ban = x /\ new.tables = db.tables /\ new.last = db.last
      /\ new.user = db.user /\ new.mask = db.mask /\ new.mode = db.mode /\ new.var = db.var /\ new.note = db.note
  BY <1>3, <1>6, <1>7, NewBans
<1>9. next \in CallType /\ next.at = "del mode" /\ Moved(c, next)
  <2>1. "del mode" \in Steps
    BY DEF Steps
  <2>2. WentTo(c, next, "del mode")
    BY <1>1, <1>4, <1>6, <2>1, GotoMoves
  <2> QED BY <2>2 DEF WentTo
<1>10. Good(p, next)
  BY <1>5, <1>6, <1>9 DEF Good, BotCall, Moved, DelSteps
<1>11. TypeOK' /\ BotOK' /\ SetupOK'
  BY <1>5, <1>8, <1>10, DoTypes
<1>12. DoResult(p, Has("ban"), next, new)
  BY <1>5, <1>6, DoOutcome
<1>13. UserEffect(p)
  BY <1>8, <1>12 DEF UserEffect, DoResult
<1>14. /\ \A r \in db'.ban : r \in db.ban
  BY <1>2, <1>8, <1>12 DEF OfUser, DoResult
<1>15. RowsEffect(p)
  <2>1. /\ db'.mask = db.mask /\ db'.mode = db.mode /\ db'.var = db.var /\ db'.note = db.note
        /\ db'.tables = db.tables
    BY <1>8, <1>12 DEF DoResult
  <2>2. call[p] = c /\ p = "bot" /\ c.op = "del"
    BY <1>1, <1>6
  <2> QED BY <1>14, <2>1, <2>2 DEF RowsEffect
<1>16. CASE call'[p] = next
  <2>1. CallEffect(p)
    BY <1>1, <1>6, <1>9, <1>12, <1>16, MovedEffect DEF DoResult
  <2>2. Seen'
    BY <1>6, <1>9, <1>16 DEF Seen, bot
  <2>3. ~mixed' => Deleted'
    <3>1. SUFFICES ASSUME ~mixed', c.uid \notin contested, conn'["bot"] = "up"
                   PROVE  Deleted'
      BY <1>1, <1>6, <1>9, <1>12, <1>16 DEF Deleted, Frame, Moved, bot, DoResult
    <3>2. Deleted /\ conn["bot"] = "up" /\ bot = c /\ bot' = next
      BY <1>1, <1>6, <1>12, <1>16, <3>1 DEF Frame, bot, DoResult
    <3>3. \A r \in db'.ban : r.uid # c.uid
      <4>1. CASE ~Has("ban")
        BY <1>12, <4>1 DEF Tidy, DoResult
      <4>2. CASE db' = new
        BY <1>2, <1>8, <4>2 DEF OfUser
      <4> QED BY <1>6, <1>12, <3>1, <4>1, <4>2 DEF DoResult
    <3>4. /\ db'.mask = db.mask /\ db'.mode = db.mode /\ db'.var = db.var /\ db'.note = db.note
      BY <1>8, <1>12 DEF DoResult
    <3>5. /\ c.op = "del" /\ c.at = "del ban"
          /\ next.op = "del" /\ next.uid = c.uid /\ next.at = "del mode"
      BY <1>5, <1>6, <1>9 DEF Moved
    <3>6. \A r \in db'.ban : r \in db.ban
      BY <1>14
    <3> QED BY <3>1, <3>2, <3>3, <3>4, <3>5, <3>6 DEF Deleted
  <2> QED BY <1>6, <1>11, <1>12, <1>13, <1>15, <2>1, <2>2, <2>3
      DEF Stepped, Effect, OwnEffect, DoResult
<1>17. CASE Ended(call'[p])
  <2>1. CallEffect(p) /\ OwnEffect(p)
    BY <1>8, <1>12, <1>17, EndedEffect DEF DoResult
  <2> QED BY <1>11, <1>12, <1>13, <1>15, <2>1 DEF Stepped, Effect, DoResult
<1> QED BY <1>12, <1>16, <1>17 DEF DoResult

LEMMA DelModesStep ==
  ASSUME TypeOK, BotOK, SetupOK, SetupSteady, Tidy, ~mixed => Deleted, NEW p \in Procs,
         DelModes(p), Untouched
  PROVE  Stepped(p)
<1>1. PICK c : c = call[p]
  OBVIOUS
<1>2. PICK x : x = db.mode \ OfUser(db.mode, c.uid)
  OBVIOUS
<1>3. PICK new : new = [db EXCEPT !.mode = x]
  OBVIOUS
<1>4. PICK next : next = Goto(p, "del author")
  OBVIOUS
<1>5. Do(p, "del mode", Has("mode"), next, new) /\ c.at = "del mode"
  BY <1>1, <1>2, <1>3, <1>4 DEF DelModes, Do, Query, OfUser
<1>6. c \in CallType /\ Good(p, c) /\ db \in DbType /\ p = "bot" /\ c.op = "del" /\ SqlTypeOK
  BY <1>1, <1>5, CallGood, BotArguments DEF DelSteps, TypeOK
<1>7. x \in SUBSET ModeType
  BY <1>2, <1>6, Rows
<1>8. /\ new \in DbType /\ new.mode = x /\ new.tables = db.tables /\ new.last = db.last
      /\ new.user = db.user /\ new.mask = db.mask /\ new.var = db.var /\ new.ban = db.ban /\ new.note = db.note
  BY <1>3, <1>6, <1>7, NewModes
<1>9. next \in CallType /\ next.at = "del author" /\ Moved(c, next)
  <2>1. "del author" \in Steps
    BY DEF Steps
  <2>2. WentTo(c, next, "del author")
    BY <1>1, <1>4, <1>6, <2>1, GotoMoves
  <2> QED BY <2>2 DEF WentTo
<1>10. Good(p, next)
  BY <1>5, <1>6, <1>9 DEF Good, BotCall, Moved, DelSteps
<1>11. TypeOK' /\ BotOK' /\ SetupOK'
  BY <1>5, <1>8, <1>10, DoTypes
<1>12. DoResult(p, Has("mode"), next, new)
  BY <1>5, <1>6, DoOutcome
<1>13. UserEffect(p)
  BY <1>8, <1>12 DEF UserEffect, DoResult
<1>14. /\ \A r \in db'.mode : r \in db.mode
       /\ \A r \in db.mode \ db'.mode : r.uid = c.uid
  BY <1>2, <1>8, <1>12 DEF OfUser, DoResult
<1>15. RowsEffect(p)
  <2>1. /\ db'.mask = db.mask /\ db'.var = db.var /\ db'.ban = db.ban /\ db'.note = db.note
        /\ db'.tables = db.tables
    BY <1>8, <1>12 DEF DoResult
  <2>2. call[p] = c /\ p = "bot" /\ c.op = "del"
    BY <1>1, <1>6
  <2> QED BY <1>14, <2>1, <2>2 DEF RowsEffect
<1>16. CASE call'[p] = next
  <2>1. CallEffect(p)
    BY <1>1, <1>6, <1>9, <1>12, <1>16, MovedEffect DEF DoResult
  <2>2. Seen'
    BY <1>6, <1>9, <1>16 DEF Seen, bot
  <2>3. ~mixed' => Deleted'
    <3>1. SUFFICES ASSUME ~mixed', c.uid \notin contested, conn'["bot"] = "up"
                   PROVE  Deleted'
      BY <1>1, <1>6, <1>9, <1>12, <1>16 DEF Deleted, Frame, Moved, bot, DoResult
    <3>2. Deleted /\ conn["bot"] = "up" /\ bot = c /\ bot' = next
      BY <1>1, <1>6, <1>12, <1>16, <3>1 DEF Frame, bot, DoResult
    <3>3. \A r \in db'.mode : r.uid # c.uid
      <4>1. CASE ~Has("mode")
        BY <1>12, <4>1 DEF Tidy, DoResult
      <4>2. CASE db' = new
        BY <1>2, <1>8, <4>2 DEF OfUser
      <4> QED BY <1>6, <1>12, <3>1, <4>1, <4>2 DEF DoResult
    <3>4. /\ db'.mask = db.mask /\ db'.var = db.var /\ db'.ban = db.ban /\ db'.note = db.note
      BY <1>8, <1>12 DEF DoResult
    <3>5. /\ c.op = "del" /\ c.at = "del mode"
          /\ next.op = "del" /\ next.uid = c.uid /\ next.at = "del author"
      BY <1>5, <1>6, <1>9 DEF Moved
    <3>6. \A r \in db'.mode : r \in db.mode
      BY <1>14
    <3> QED BY <3>1, <3>2, <3>3, <3>4, <3>5, <3>6 DEF Deleted
  <2> QED BY <1>6, <1>11, <1>12, <1>13, <1>15, <2>1, <2>2, <2>3
      DEF Stepped, Effect, OwnEffect, DoResult
<1>17. CASE Ended(call'[p])
  <2>1. CallEffect(p) /\ OwnEffect(p)
    BY <1>8, <1>12, <1>17, EndedEffect DEF DoResult
  <2> QED BY <1>11, <1>12, <1>13, <1>15, <2>1 DEF Stepped, Effect, DoResult
<1> QED BY <1>12, <1>16, <1>17 DEF DoResult

LEMMA DelAuthorStep ==
  ASSUME TypeOK, BotOK, SetupOK, SetupSteady, Tidy, ~mixed => Deleted, NEW p \in Procs,
         DelAuthor(p), Untouched
  PROVE  Stepped(p)
<1>1. PICK c : c = call[p]
  OBVIOUS
<1>2. PICK x : x = {r \in db.note : r.author # c.uid}
  OBVIOUS
<1>3. PICK new : new = [db EXCEPT !.note = x]
  OBVIOUS
<1>4. PICK next : next = Goto(p, "del target")
  OBVIOUS
<1>5. Do(p, "del author", Has("note"), next, new) /\ c.at = "del author"
  BY <1>1, <1>2, <1>3, <1>4 DEF DelAuthor, Do, Query, OfUser
<1>6. c \in CallType /\ Good(p, c) /\ db \in DbType /\ p = "bot" /\ c.op = "del" /\ SqlTypeOK
  BY <1>1, <1>5, CallGood, BotArguments DEF DelSteps, TypeOK
<1>7. x \in SUBSET NoteType
  BY <1>2, <1>6, Rows
<1>8. /\ new \in DbType /\ new.note = x /\ new.tables = db.tables /\ new.last = db.last
      /\ new.user = db.user /\ new.mask = db.mask /\ new.mode = db.mode /\ new.var = db.var /\ new.ban = db.ban
  BY <1>3, <1>6, <1>7, NewNotes
<1>9. next \in CallType /\ next.at = "del target" /\ Moved(c, next)
  <2>1. "del target" \in Steps
    BY DEF Steps
  <2>2. WentTo(c, next, "del target")
    BY <1>1, <1>4, <1>6, <2>1, GotoMoves
  <2> QED BY <2>2 DEF WentTo
<1>10. Good(p, next)
  BY <1>5, <1>6, <1>9 DEF Good, BotCall, Moved, DelSteps
<1>11. TypeOK' /\ BotOK' /\ SetupOK'
  BY <1>5, <1>8, <1>10, DoTypes
<1>12. DoResult(p, Has("note"), next, new)
  BY <1>5, <1>6, DoOutcome
<1>13. UserEffect(p)
  BY <1>8, <1>12 DEF UserEffect, DoResult
<1>14. /\ \A r \in db'.note : r \in db.note
  BY <1>2, <1>8, <1>12 DEF OfUser, DoResult
<1>15. RowsEffect(p)
  <2>1. /\ db'.mask = db.mask /\ db'.mode = db.mode /\ db'.var = db.var /\ db'.ban = db.ban
        /\ db'.tables = db.tables
    BY <1>8, <1>12 DEF DoResult
  <2>2. call[p] = c /\ p = "bot" /\ c.op = "del"
    BY <1>1, <1>6
  <2> QED BY <1>14, <2>1, <2>2 DEF RowsEffect
<1>16. CASE call'[p] = next
  <2>1. CallEffect(p)
    BY <1>1, <1>6, <1>9, <1>12, <1>16, MovedEffect DEF DoResult
  <2>2. Seen'
    BY <1>6, <1>9, <1>16 DEF Seen, bot
  <2>3. ~mixed' => Deleted'
    <3>1. SUFFICES ASSUME ~mixed', c.uid \notin contested, conn'["bot"] = "up"
                   PROVE  Deleted'
      BY <1>1, <1>6, <1>9, <1>12, <1>16 DEF Deleted, Frame, Moved, bot, DoResult
    <3>2. Deleted /\ conn["bot"] = "up" /\ bot = c /\ bot' = next
      BY <1>1, <1>6, <1>12, <1>16, <3>1 DEF Frame, bot, DoResult
    <3>3. \A r \in db'.note : r.author # c.uid
      <4>1. CASE ~Has("note")
        BY <1>12, <4>1 DEF Tidy, DoResult
      <4>2. CASE db' = new
        BY <1>2, <1>8, <4>2 DEF OfUser
      <4> QED BY <1>6, <1>12, <3>1, <4>1, <4>2 DEF DoResult
    <3>4. /\ db'.mask = db.mask /\ db'.mode = db.mode /\ db'.var = db.var /\ db'.ban = db.ban
      BY <1>8, <1>12 DEF DoResult
    <3>5. /\ c.op = "del" /\ c.at = "del author"
          /\ next.op = "del" /\ next.uid = c.uid /\ next.at = "del target"
      BY <1>5, <1>6, <1>9 DEF Moved
    <3>6. \A r \in db'.note : r \in db.note
      BY <1>14
    <3> QED BY <3>1, <3>2, <3>3, <3>4, <3>5, <3>6 DEF Deleted
  <2> QED BY <1>6, <1>11, <1>12, <1>13, <1>15, <2>1, <2>2, <2>3
      DEF Stepped, Effect, OwnEffect, DoResult
<1>17. CASE Ended(call'[p])
  <2>1. CallEffect(p) /\ OwnEffect(p)
    BY <1>8, <1>12, <1>17, EndedEffect DEF DoResult
  <2> QED BY <1>11, <1>12, <1>13, <1>15, <2>1 DEF Stepped, Effect, DoResult
<1> QED BY <1>12, <1>16, <1>17 DEF DoResult

LEMMA DelTargetStep ==
  ASSUME TypeOK, BotOK, SetupOK, SetupSteady, Tidy, ~mixed => Deleted, NEW p \in Procs,
         DelTarget(p), Untouched
  PROVE  Stepped(p)
<1>1. PICK c : c = call[p]
  OBVIOUS
<1>2. PICK x : x = {r \in db.note : r.target # c.uid}
  OBVIOUS
<1>3. PICK new : new = [db EXCEPT !.note = x]
  OBVIOUS
<1>4. PICK next : next = Goto(p, "del var")
  OBVIOUS
<1>5. Do(p, "del target", Has("note"), next, new) /\ c.at = "del target"
  BY <1>1, <1>2, <1>3, <1>4 DEF DelTarget, Do, Query, OfUser
<1>6. c \in CallType /\ Good(p, c) /\ db \in DbType /\ p = "bot" /\ c.op = "del" /\ SqlTypeOK
  BY <1>1, <1>5, CallGood, BotArguments DEF DelSteps, TypeOK
<1>7. x \in SUBSET NoteType
  BY <1>2, <1>6, Rows
<1>8. /\ new \in DbType /\ new.note = x /\ new.tables = db.tables /\ new.last = db.last
      /\ new.user = db.user /\ new.mask = db.mask /\ new.mode = db.mode /\ new.var = db.var /\ new.ban = db.ban
  BY <1>3, <1>6, <1>7, NewNotes
<1>9. next \in CallType /\ next.at = "del var" /\ Moved(c, next)
  <2>1. "del var" \in Steps
    BY DEF Steps
  <2>2. WentTo(c, next, "del var")
    BY <1>1, <1>4, <1>6, <2>1, GotoMoves
  <2> QED BY <2>2 DEF WentTo
<1>10. Good(p, next)
  BY <1>5, <1>6, <1>9 DEF Good, BotCall, Moved, DelSteps
<1>11. TypeOK' /\ BotOK' /\ SetupOK'
  BY <1>5, <1>8, <1>10, DoTypes
<1>12. DoResult(p, Has("note"), next, new)
  BY <1>5, <1>6, DoOutcome
<1>13. UserEffect(p)
  BY <1>8, <1>12 DEF UserEffect, DoResult
<1>14. /\ \A r \in db'.note : r \in db.note
  BY <1>2, <1>8, <1>12 DEF OfUser, DoResult
<1>15. RowsEffect(p)
  <2>1. /\ db'.mask = db.mask /\ db'.mode = db.mode /\ db'.var = db.var /\ db'.ban = db.ban
        /\ db'.tables = db.tables
    BY <1>8, <1>12 DEF DoResult
  <2>2. call[p] = c /\ p = "bot" /\ c.op = "del"
    BY <1>1, <1>6
  <2> QED BY <1>14, <2>1, <2>2 DEF RowsEffect
<1>16. CASE call'[p] = next
  <2>1. CallEffect(p)
    BY <1>1, <1>6, <1>9, <1>12, <1>16, MovedEffect DEF DoResult
  <2>2. Seen'
    BY <1>6, <1>9, <1>16 DEF Seen, bot
  <2>3. ~mixed' => Deleted'
    <3>1. SUFFICES ASSUME ~mixed', c.uid \notin contested, conn'["bot"] = "up"
                   PROVE  Deleted'
      BY <1>1, <1>6, <1>9, <1>12, <1>16 DEF Deleted, Frame, Moved, bot, DoResult
    <3>2. Deleted /\ conn["bot"] = "up" /\ bot = c /\ bot' = next
      BY <1>1, <1>6, <1>12, <1>16, <3>1 DEF Frame, bot, DoResult
    <3>3. \A r \in db'.note : r.target # c.uid
      <4>1. CASE ~Has("note")
        BY <1>12, <4>1 DEF Tidy, DoResult
      <4>2. CASE db' = new
        BY <1>2, <1>8, <4>2 DEF OfUser
      <4> QED BY <1>6, <1>12, <3>1, <4>1, <4>2 DEF DoResult
    <3>4. /\ db'.mask = db.mask /\ db'.mode = db.mode /\ db'.var = db.var /\ db'.ban = db.ban
      BY <1>8, <1>12 DEF DoResult
    <3>5. /\ c.op = "del" /\ c.at = "del target"
          /\ next.op = "del" /\ next.uid = c.uid /\ next.at = "del var"
      BY <1>5, <1>6, <1>9 DEF Moved
    <3>6. \A r \in db'.note : r \in db.note
      BY <1>14
    <3> QED BY <3>1, <3>2, <3>3, <3>4, <3>5, <3>6 DEF Deleted
  <2> QED BY <1>6, <1>11, <1>12, <1>13, <1>15, <2>1, <2>2, <2>3
      DEF Stepped, Effect, OwnEffect, DoResult
<1>17. CASE Ended(call'[p])
  <2>1. CallEffect(p) /\ OwnEffect(p)
    BY <1>8, <1>12, <1>17, EndedEffect DEF DoResult
  <2> QED BY <1>11, <1>12, <1>13, <1>15, <2>1 DEF Stepped, Effect, DoResult
<1> QED BY <1>12, <1>16, <1>17 DEF DoResult

LEMMA DelVarsStep ==
  ASSUME TypeOK, BotOK, SetupOK, SetupSteady, Tidy, ~mixed => Deleted, NEW p \in Procs,
         DelVars(p), Untouched
  PROVE  Stepped(p)
<1>1. PICK c : c = call[p]
  OBVIOUS
<1>2. PICK x : x = db.var \ OfUser(db.var, c.uid)
  OBVIOUS
<1>3. PICK new : new = [db EXCEPT !.var = x]
  OBVIOUS
<1>4. PICK next : next = Goto(p, "del mask")
  OBVIOUS
<1>5. Do(p, "del var", Has("var"), next, new) /\ c.at = "del var"
  BY <1>1, <1>2, <1>3, <1>4 DEF DelVars, Do, Query, OfUser
<1>6. c \in CallType /\ Good(p, c) /\ db \in DbType /\ p = "bot" /\ c.op = "del" /\ SqlTypeOK
  BY <1>1, <1>5, CallGood, BotArguments DEF DelSteps, TypeOK
<1>7. x \in SUBSET VarType
  BY <1>2, <1>6, Rows
<1>8. /\ new \in DbType /\ new.var = x /\ new.tables = db.tables /\ new.last = db.last
      /\ new.user = db.user /\ new.mask = db.mask /\ new.mode = db.mode /\ new.ban = db.ban /\ new.note = db.note
  BY <1>3, <1>6, <1>7, NewVars
<1>9. next \in CallType /\ next.at = "del mask" /\ Moved(c, next)
  <2>1. "del mask" \in Steps
    BY DEF Steps
  <2>2. WentTo(c, next, "del mask")
    BY <1>1, <1>4, <1>6, <2>1, GotoMoves
  <2> QED BY <2>2 DEF WentTo
<1>10. Good(p, next)
  BY <1>5, <1>6, <1>9 DEF Good, BotCall, Moved, DelSteps
<1>11. TypeOK' /\ BotOK' /\ SetupOK'
  BY <1>5, <1>8, <1>10, DoTypes
<1>12. DoResult(p, Has("var"), next, new)
  BY <1>5, <1>6, DoOutcome
<1>13. UserEffect(p)
  BY <1>8, <1>12 DEF UserEffect, DoResult
<1>14. /\ \A r \in db'.var : r \in db.var
  BY <1>2, <1>8, <1>12 DEF OfUser, DoResult
<1>15. RowsEffect(p)
  <2>1. /\ db'.mask = db.mask /\ db'.mode = db.mode /\ db'.ban = db.ban /\ db'.note = db.note
        /\ db'.tables = db.tables
    BY <1>8, <1>12 DEF DoResult
  <2>2. call[p] = c /\ p = "bot" /\ c.op = "del"
    BY <1>1, <1>6
  <2> QED BY <1>14, <2>1, <2>2 DEF RowsEffect
<1>16. CASE call'[p] = next
  <2>1. CallEffect(p)
    BY <1>1, <1>6, <1>9, <1>12, <1>16, MovedEffect DEF DoResult
  <2>2. Seen'
    BY <1>6, <1>9, <1>16 DEF Seen, bot
  <2>3. ~mixed' => Deleted'
    <3>1. SUFFICES ASSUME ~mixed', c.uid \notin contested, conn'["bot"] = "up"
                   PROVE  Deleted'
      BY <1>1, <1>6, <1>9, <1>12, <1>16 DEF Deleted, Frame, Moved, bot, DoResult
    <3>2. Deleted /\ conn["bot"] = "up" /\ bot = c /\ bot' = next
      BY <1>1, <1>6, <1>12, <1>16, <3>1 DEF Frame, bot, DoResult
    <3>3. \A r \in db'.var : r.uid # c.uid
      <4>1. CASE ~Has("var")
        BY <1>12, <4>1 DEF Tidy, DoResult
      <4>2. CASE db' = new
        BY <1>2, <1>8, <4>2 DEF OfUser
      <4> QED BY <1>6, <1>12, <3>1, <4>1, <4>2 DEF DoResult
    <3>4. /\ db'.mask = db.mask /\ db'.mode = db.mode /\ db'.ban = db.ban /\ db'.note = db.note
      BY <1>8, <1>12 DEF DoResult
    <3>5. /\ c.op = "del" /\ c.at = "del var"
          /\ next.op = "del" /\ next.uid = c.uid /\ next.at = "del mask"
      BY <1>5, <1>6, <1>9 DEF Moved
    <3>6. \A r \in db'.var : r \in db.var
      BY <1>14
    <3> QED BY <3>1, <3>2, <3>3, <3>4, <3>5, <3>6 DEF Deleted
  <2> QED BY <1>6, <1>11, <1>12, <1>13, <1>15, <2>1, <2>2, <2>3
      DEF Stepped, Effect, OwnEffect, DoResult
<1>17. CASE Ended(call'[p])
  <2>1. CallEffect(p) /\ OwnEffect(p)
    BY <1>8, <1>12, <1>17, EndedEffect DEF DoResult
  <2> QED BY <1>11, <1>12, <1>13, <1>15, <2>1 DEF Stepped, Effect, DoResult
<1> QED BY <1>12, <1>16, <1>17 DEF DoResult

LEMMA DelMasksStep ==
  ASSUME TypeOK, BotOK, SetupOK, SetupSteady, Tidy, ~mixed => Deleted, NEW p \in Procs,
         DelMasks(p), Untouched
  PROVE  Stepped(p)
<1>1. PICK c : c = call[p]
  OBVIOUS
<1>2. PICK x : x = db.mask \ OfUser(db.mask, c.uid)
  OBVIOUS
<1>3. PICK new : new = [db EXCEPT !.mask = x]
  OBVIOUS
<1>4. PICK next : next = Goto(p, "del user")
  OBVIOUS
<1>5. Do(p, "del mask", Has("mask"), next, new) /\ c.at = "del mask"
  BY <1>1, <1>2, <1>3, <1>4 DEF DelMasks, Do, Query, OfUser
<1>6. c \in CallType /\ Good(p, c) /\ db \in DbType /\ p = "bot" /\ c.op = "del" /\ SqlTypeOK
  BY <1>1, <1>5, CallGood, BotArguments DEF DelSteps, TypeOK
<1>7. x \in SUBSET MaskType
  BY <1>2, <1>6, Rows
<1>8. /\ new \in DbType /\ new.mask = x /\ new.tables = db.tables /\ new.last = db.last
      /\ new.user = db.user /\ new.mode = db.mode /\ new.var = db.var /\ new.ban = db.ban /\ new.note = db.note
  BY <1>3, <1>6, <1>7, NewMasks
<1>9. next \in CallType /\ next.at = "del user" /\ Moved(c, next)
  <2>1. "del user" \in Steps
    BY DEF Steps
  <2>2. WentTo(c, next, "del user")
    BY <1>1, <1>4, <1>6, <2>1, GotoMoves
  <2> QED BY <2>2 DEF WentTo
<1>10. Good(p, next)
  BY <1>5, <1>6, <1>9 DEF Good, BotCall, Moved, DelSteps
<1>11. TypeOK' /\ BotOK' /\ SetupOK'
  BY <1>5, <1>8, <1>10, DoTypes
<1>12. DoResult(p, Has("mask"), next, new)
  BY <1>5, <1>6, DoOutcome
<1>13. UserEffect(p)
  BY <1>8, <1>12 DEF UserEffect, DoResult
<1>14. /\ \A r \in db'.mask : r \in db.mask
       /\ \A r \in db.mask \ db'.mask : r.uid = c.uid
  BY <1>2, <1>8, <1>12 DEF OfUser, DoResult
<1>15. RowsEffect(p)
  <2>1. /\ db'.mode = db.mode /\ db'.var = db.var /\ db'.ban = db.ban /\ db'.note = db.note
        /\ db'.tables = db.tables
    BY <1>8, <1>12 DEF DoResult
  <2>2. call[p] = c /\ p = "bot" /\ c.op = "del"
    BY <1>1, <1>6
  <2> QED BY <1>14, <2>1, <2>2 DEF RowsEffect
<1>16. CASE call'[p] = next
  <2>1. CallEffect(p)
    BY <1>1, <1>6, <1>9, <1>12, <1>16, MovedEffect DEF DoResult
  <2>2. Seen'
    BY <1>6, <1>9, <1>16 DEF Seen, bot
  <2>3. ~mixed' => Deleted'
    <3>1. SUFFICES ASSUME ~mixed', c.uid \notin contested, conn'["bot"] = "up"
                   PROVE  Deleted'
      BY <1>1, <1>6, <1>9, <1>12, <1>16 DEF Deleted, Frame, Moved, bot, DoResult
    <3>2. Deleted /\ conn["bot"] = "up" /\ bot = c /\ bot' = next
      BY <1>1, <1>6, <1>12, <1>16, <3>1 DEF Frame, bot, DoResult
    <3>3. \A r \in db'.mask : r.uid # c.uid
      <4>1. CASE ~Has("mask")
        BY <1>12, <4>1 DEF Tidy, DoResult
      <4>2. CASE db' = new
        BY <1>2, <1>8, <4>2 DEF OfUser
      <4> QED BY <1>6, <1>12, <3>1, <4>1, <4>2 DEF DoResult
    <3>4. /\ db'.mode = db.mode /\ db'.var = db.var /\ db'.ban = db.ban /\ db'.note = db.note
      BY <1>8, <1>12 DEF DoResult
    <3>5. /\ c.op = "del" /\ c.at = "del mask"
          /\ next.op = "del" /\ next.uid = c.uid /\ next.at = "del user"
      BY <1>5, <1>6, <1>9 DEF Moved
    <3>6. \A r \in db'.mask : r \in db.mask
      BY <1>14
    <3> QED BY <3>1, <3>2, <3>3, <3>4, <3>5, <3>6 DEF Deleted
  <2> QED BY <1>6, <1>11, <1>12, <1>13, <1>15, <2>1, <2>2, <2>3
      DEF Stepped, Effect, OwnEffect, DoResult
<1>17. CASE Ended(call'[p])
  <2>1. CallEffect(p) /\ OwnEffect(p)
    BY <1>8, <1>12, <1>17, EndedEffect DEF DoResult
  <2> QED BY <1>11, <1>12, <1>13, <1>15, <2>1 DEF Stepped, Effect, DoResult
<1> QED BY <1>12, <1>16, <1>17 DEF DoResult

\* Only setup works on an owner.
LEMMA Owners ==
  ASSUME BotOK, SetupOK, NEW p \in Procs, NEW c, c = call[p]
  PROVE  /\ p = "bot" => ~Owner(c) /\ c.op # "setup"
         /\ p = "setup" /\ c.at \in WithUser \cup {"find name", "ins user"} => Owner(c)
         /\ p = "setup" /\ c.at \in VarSteps => c.op = "setup"
         /\ p = "setup" /\ c.at \in WithUser => c.ret = c.uid /\ c.name \in Names /\ c.mask \in Masks
         /\ p = "setup" /\ c.at \in ModeSteps => c.key = "w"
<1>1. CASE p = "bot"
  BY <1>1 DEF BotOK, BotCall, bot, Owner
<1>2. CASE p = "setup"
  BY <1>2 DEF SetupOK, SetupCall, setup, Owner, BeforeUser, VarSteps, ModeSteps, WithUser
<1> QED BY <1>1, <1>2 DEF Procs

\* Once setup has come to the users, everything before is there.
LEMMA StillSteady ==
  ASSUME SetupSteady, Frame("setup"), db'.tables = db.tables, setup'.op = setup.op,
         setup.at \notin BeforeUser \cup {"count var"},
         setup'.at \notin BeforeUser \cup {"count var"}
  PROVE  SetupSteady'
BY DEF SetupSteady, Frame, Has, BeforeUser

LEMMA InsMaskStep ==
  ASSUME TypeOK, BotOK, SetupOK, SetupSteady, OwnerSoFar, NEW p \in Procs, InsMask(p), Untouched
  PROVE  Stepped(p)
<1>1. PICK c : c = call[p]
  OBVIOUS
<1>2. PICK x : x = db.mask \cup {MaskRow(c)}
  OBVIOUS
<1>3. PICK new : new = [db EXCEPT !.mask = x]
  OBVIOUS
<1>4. PICK next : next = IF Owner(c) THEN [Goto(p, "count mode") EXCEPT !.key = "w"]
                       ELSE Return(p, c.ret)
  OBVIOUS
<1>5. Do(p, "ins mask", Has("mask"), next, new) /\ c.at = "ins mask"
  BY <1>1, <1>2, <1>3, <1>4 DEF InsMask, Do, Query
<1>6. /\ c \in CallType /\ Good(p, c) /\ c.ret \in Int /\ db \in DbType /\ SqlTypeOK
      /\ c.uid \in Ids /\ c.mask \in Masks
      /\ (p = "setup" <=> Owner(c))
  <2>1. c \in CallType /\ Good(p, c) /\ db \in DbType /\ SqlTypeOK
    BY <1>1, CallGood DEF TypeOK
  <2>2. c.ret \in Int /\ c.uid \in Ids /\ c.mask \in Masks
    BY <1>1, <1>5, Arguments DEF WithUser, ModeSteps, VarSteps
  <2>3. (p = "setup" <=> Owner(c))
    BY <1>1, <1>5, Owners DEF WithUser, ModeSteps, VarSteps, Procs
  <2> QED BY <2>1, <2>2, <2>3
<1>7. x \in SUBSET MaskType
  BY <1>2, <1>6, Rows, RowTypes
<1>8. /\ new \in DbType /\ new.mask = x /\ new.tables = db.tables /\ new.last = db.last
      /\ new.user = db.user /\ new.mode = db.mode /\ new.var = db.var /\ new.ban = db.ban /\ new.note = db.note
  BY <1>3, <1>6, <1>7, NewMasks
<1>9. ASSUME p = "setup"
      PROVE  /\ next \in CallType /\ next.at = "count mode" /\ next.key = "w" /\ Moved(c, next)
             /\ next.pass = c.pass /\ next.ret = c.ret
  <2>1. PICK g : g = Goto(p, "count mode")
    OBVIOUS
  <2>2. "count mode" \in Steps /\ "w" \in Modes
    BY Constants DEF Steps
  <2>3. /\ g \in CallType /\ g.at = "count mode" /\ Moved(c, g)
        /\ g.pass = c.pass /\ g.ret = c.ret
    <3>1. WentTo(c, g, "count mode")
      BY <1>1, <1>6, <2>1, <2>2, GotoMoves
    <3> QED BY <3>1 DEF WentTo
  <2>4. next = [g EXCEPT !.key = "w"]
    BY <1>4, <1>6, <1>9, <2>1
  <2> QED BY <2>2, <2>3, <2>4 DEF CallType, Moved
<1>10. Good(p, next) /\ (p = "bot" => Ended(next))
  <2>1. CASE p = "bot"
    BY <1>4, <1>6, <2>1, ReturnEnds
  <2>2. CASE p = "setup"
    <3>1. c.name \in Names /\ c.ret = c.uid
      BY <1>1, <1>5, <2>2, Owners DEF WithUser
    <3> QED BY <1>6, <1>9, <2>2, <3>1 DEF Good, SetupCall, Moved, WithUser, ModeSteps, Owner
  <2> QED BY <2>1, <2>2 DEF Procs
<1>11. TypeOK' /\ BotOK' /\ SetupOK'
  BY <1>5, <1>8, <1>10, DoTypes
<1>12. DoResult(p, Has("mask"), next, new)
  BY <1>5, <1>6, DoOutcome
<1>13. UserEffect(p)
  BY <1>8, <1>12 DEF UserEffect, DoResult
<1>14. RowsEffect(p)
  <2>1. /\ \A r \in db.mask : r \in db'.mask
        /\ \A r \in db'.mask \ db.mask : r.uid = c.uid /\ Has("mask")
    BY <1>2, <1>6, <1>8, <1>12 DEF DoResult, MaskRow
  <2>2. /\ db'.mode = db.mode /\ db'.var = db.var /\ db'.ban = db.ban /\ db'.note = db.note
        /\ db'.tables = db.tables
    BY <1>8, <1>12 DEF DoResult
  <2>3. call[p] = c /\ c.at = "ins mask"
    BY <1>1, <1>5
  <2> QED BY <1>6, <2>1, <2>2, <2>3 DEF RowsEffect
<1>16. CASE p = "setup" /\ call'[p] = next
  <2>1. CallEffect(p)
    BY <1>1, <1>9, <1>12, <1>16, MovedEffect DEF DoResult
  <2>2. setup = c /\ setup' = next
    BY <1>1, <1>16 DEF setup
  <2>3. SetupSteady'
    <3>1. Frame("setup") /\ db'.tables = db.tables
      BY <1>8, <1>12, <1>16 DEF DoResult
    <3>2. setup'.op = setup.op /\ setup.at = "ins mask" /\ setup'.at = "count mode"
      BY <1>5, <1>9, <1>16, <2>2 DEF Moved
    <3> QED BY <3>1, <3>2, StillSteady DEF BeforeUser
  <2>4. OwnerSoFar'
    <3>1. SUFFICES ASSUME c.uid # 0, c.uid \notin contested, ~alarm'["setup"]
                   PROVE  OwnerSoFar'
      BY <1>9, <1>12, <1>16, <2>2 DEF OwnerSoFar, Moved, DoResult, Frame
    <3>2. db' = new /\ ~alarm["setup"]
      BY <1>12, <1>16, <3>1 DEF DoResult, Frame
    <3>3. /\ [uid |-> c.uid, name |-> c.name, pass |-> FALSE] \in db'.user
          /\ MaskRow(next) \in db'.mask
      BY <1>2, <1>8, <1>9, <1>16, <2>2, <3>1, <3>2 DEF OwnerSoFar, MaskRow, Moved
    <3> QED BY <1>9, <1>16, <2>2, <3>3 DEF OwnerSoFar, Moved
  <2> QED BY <1>11, <1>12, <1>13, <1>14, <1>16, <2>1, <2>3, <2>4
      DEF Stepped, Effect, OwnEffect, DoResult
<1>17. CASE Ended(call'[p])
  <2>1. CallEffect(p) /\ OwnEffect(p)
    BY <1>8, <1>12, <1>17, EndedEffect DEF DoResult
  <2> QED BY <1>11, <1>12, <1>13, <1>14, <2>1 DEF Stepped, Effect, DoResult
<1> QED BY <1>6, <1>10, <1>12, <1>16, <1>17 DEF DoResult, Ended, Procs

LEMMA ModeDoneNext ==
  ASSUME TypeOK, BotOK, SetupOK, NEW p \in Procs, NEW c, c = call[p],
         c.at \in ModeSteps \/ c.at = "drop mode", NEW next, next = ModeDone(p)
  PROVE  /\ Good(p, next)
         /\ Ended(next) \/ (p = "setup" /\ WentTo(c, next, "upd pass"))
<1>1. c \in CallType /\ Good(p, c) /\ SqlTypeOK /\ c.ret \in Int
  BY CallGood, Arguments DEF TypeOK
<1>2. CASE ~(Owner(c) /\ c.pass)
  <2>1. next = Return(p, c.ret)
    BY <1>2 DEF ModeDone
  <2> QED BY <1>1, <2>1, ReturnEnds
<1>3. CASE Owner(c) /\ c.pass
  <2>1. next = Goto(p, "upd pass") /\ p = "setup"
    BY <1>3, Owners DEF ModeDone, Procs
  <2>2. "upd pass" \in Steps
    BY DEF Steps
  <2>3. WentTo(c, next, "upd pass")
    BY <1>1, <2>1, <2>2, GotoMoves
  <2>4. c.at \in ModeSteps /\ SetupCall(c)
    BY <1>1, <2>1 DEF Good, SetupCall, BeforeUser, VarSteps, ModeSteps, WithUser
  <2>5. SetupCall(next)
    BY <1>3, <2>3, <2>4 DEF SetupCall, WentTo, Moved, BeforeUser, VarSteps, ModeSteps, WithUser, Owner
  <2> QED BY <2>1, <2>3, <2>5 DEF Good
<1> QED BY <1>2, <1>3

LEMMA VarDoneNext ==
  ASSUME TypeOK, BotOK, SetupOK, NEW p \in Procs, NEW c, c = call[p],
         c.at \in VarSteps \/ c.at = "drop var", NEW next, next = VarDone(p)
  PROVE  /\ Good(p, next)
         /\ Ended(next) \/ (p = "setup" /\ WentTo(c, next, "find name"))
<1>1. c \in CallType /\ Good(p, c) /\ SqlTypeOK /\ c.ret \in Int
  BY CallGood, Arguments DEF TypeOK
<1>2. CASE c.op # "setup"
  <2>1. next = Return(p, 0)
    BY <1>2 DEF VarDone
  <2> QED BY <2>1, ReturnZero
<1>3. CASE c.op = "setup"
  <2>1. next = Goto(p, "find name") /\ p = "setup"
    BY <1>3, Owners DEF VarDone, Procs
  <2>2. "find name" \in Steps
    BY DEF Steps
  <2>3. WentTo(c, next, "find name")
    BY <1>1, <2>1, <2>2, GotoMoves
  <2>4. c.at \in VarSteps /\ SetupCall(c)
    BY <1>1, <2>1 DEF Good, SetupCall, BeforeUser, VarSteps, ModeSteps, WithUser
  <2>5. SetupCall(next)
    BY <1>3, <2>3, <2>4 DEF SetupCall, WentTo, Moved, BeforeUser, VarSteps, ModeSteps, WithUser
  <2> QED BY <2>1, <2>3, <2>5 DEF Good
<1> QED BY <1>2, <1>3

\* What setup knows when it goes on to the password.
LEMMA ModeDoneEffect ==
  ASSUME SetupSteady, OwnerSoFar, BotOK, SetupOK, NEW p, p = "setup", NEW c, c = call[p], c.at \in ModeSteps,
         NEW next, call'[p] = next, WentTo(c, next, "upd pass"), Frame(p), raced' = raced,
         db'.user = db.user, db'.mask = db.mask, db'.tables = db.tables,
         c.uid \notin contested /\ ~alarm'["setup"] => ModeRow(c) \in db'.mode
  PROVE  CallEffect(p) /\ OwnEffect(p)
<1>1. Moved(c, next) /\ next.at = "upd pass" /\ next.key = c.key
  BY DEF WentTo
<1>2. CallEffect(p)
  BY <1>1, MovedEffect DEF Procs
<1>3. setup = c /\ setup' = next
  BY DEF setup
<1>4. SetupSteady'
  <2>1. setup'.op = setup.op /\ setup.at \in ModeSteps /\ setup'.at = "upd pass" /\ Frame("setup")
    BY <1>1, <1>3 DEF Moved
  <2> QED BY <2>1, StillSteady DEF BeforeUser, ModeSteps
<1>5. OwnerSoFar'
  <2>1. SUFFICES ASSUME c.uid # 0, c.uid \notin contested, ~alarm'["setup"]
                 PROVE  OwnerSoFar'
    BY <1>1, <1>3 DEF OwnerSoFar, Moved, Frame
  <2>2. ~alarm["setup"] /\ ModeRow(c) \in db'.mode
    BY <2>1 DEF Frame
  <2>3. /\ [uid |-> c.uid, name |-> c.name, pass |-> FALSE] \in db'.user
        /\ MaskRow(next) \in db'.mask /\ ModeRow(next) \in db'.mode
    BY <1>1, <1>3, <2>1, <2>2 DEF OwnerSoFar, MaskRow, ModeRow, Moved, ModeSteps
  <2> QED BY <1>1, <1>3, <2>3 DEF OwnerSoFar, Moved
<1> QED BY <1>2, <1>4, <1>5 DEF OwnEffect

\* ... and when it goes on to the owner.
LEMMA VarDoneEffect ==
  ASSUME SetupSteady, SetupOK, NEW p, p = "setup", NEW c, c = call[p],
         c.at \in {"ins var", "upd var"},
         NEW next, call'[p] = next, WentTo(c, next, "find name"), Frame(p), raced' = raced,
         db'.tables = db.tables
  PROVE  CallEffect(p) /\ OwnEffect(p)
<1>1. Moved(c, next) /\ next.at = "find name"
  BY DEF WentTo
<1>2. CallEffect(p)
  BY <1>1, MovedEffect DEF Procs
<1>3. setup = c /\ setup' = next
  BY DEF setup
<1>4. SetupSteady'
  <2>1. /\ setup'.op = setup.op /\ setup.at \in {"ins var", "upd var"}
        /\ setup'.at = "find name" /\ Frame("setup")
    BY <1>1, <1>3 DEF Moved
  <2> QED BY <2>1, StillSteady DEF BeforeUser
<1>5. OwnerSoFar'
  <2>1. c.uid = 0
    BY <1>3 DEF SetupOK, SetupCall, WithUser, ModeSteps
  <2> QED BY <1>1, <1>3, <2>1 DEF OwnerSoFar, Moved
<1> QED BY <1>2, <1>4, <1>5 DEF OwnEffect

LEMMA InsModeStep ==
  ASSUME TypeOK, BotOK, SetupOK, SetupSteady, OwnerSoFar, NEW p \in Procs, InsMode(p), Untouched
  PROVE  Stepped(p)
<1>1. PICK c : c = call[p]
  OBVIOUS
<1>2. PICK x : x = db.mode \cup {ModeRow(c)}
  OBVIOUS
<1>3. PICK new : new = [db EXCEPT !.mode = x]
  OBVIOUS
<1>4. PICK next : next = ModeDone(p)
  OBVIOUS
<1>5. Do(p, "ins mode", Has("mode") /\ ModeRow(c) \notin db.mode, next, new) /\ c.at = "ins mode"
  BY <1>1, <1>2, <1>3, <1>4 DEF InsMode, Do, Query
<1>6. /\ c \in CallType /\ Good(p, c) /\ c.ret \in Int /\ db \in DbType /\ SqlTypeOK
      /\ c.uid \in Ids /\ c.key \in Modes
  <2>1. c \in CallType /\ Good(p, c) /\ db \in DbType /\ SqlTypeOK
    BY <1>1, CallGood DEF TypeOK
  <2>2. c.ret \in Int /\ c.uid \in Ids /\ c.key \in Modes
    BY <1>1, <1>5, Arguments DEF WithUser, ModeSteps, VarSteps
  <2> QED BY <2>1, <2>2
<1>7. x \in SUBSET ModeType
  BY <1>2, <1>6, Rows, RowTypes
<1>8. /\ new \in DbType /\ new.mode = x /\ new.tables = db.tables /\ new.last = db.last
      /\ new.user = db.user /\ new.mask = db.mask /\ new.var = db.var /\ new.ban = db.ban /\ new.note = db.note
  BY <1>3, <1>6, <1>7, NewModes
<1>9. /\ Good(p, next)
      /\ Ended(next) \/ (p = "setup" /\ WentTo(c, next, "upd pass"))
  BY <1>1, <1>4, <1>5, ModeDoneNext DEF ModeSteps, VarSteps
<1>10. Good(p, next)
  BY <1>9
<1>11. TypeOK' /\ BotOK' /\ SetupOK'
  BY <1>5, <1>8, <1>10, DoTypes
<1>12. DoResult(p, Has("mode") /\ ModeRow(c) \notin db.mode, next, new)
  BY <1>5, <1>6, DoOutcome
<1>13. UserEffect(p)
  BY <1>8, <1>12 DEF UserEffect, DoResult
<1>14. RowsEffect(p)
  <2>1. /\ \A r \in db.mode : r \in db'.mode
        /\ \A r \in db'.mode \ db.mode : r.uid = c.uid /\ Has("mode")
    BY <1>2, <1>6, <1>8, <1>12 DEF DoResult, ModeRow
  <2>2. /\ db'.mask = db.mask /\ db'.var = db.var /\ db'.ban = db.ban /\ db'.note = db.note
        /\ db'.tables = db.tables
    BY <1>8, <1>12 DEF DoResult
  <2>3. call[p] = c /\ c.at = "ins mode"
    BY <1>1, <1>5
  <2> QED BY <1>6, <2>1, <2>2, <2>3 DEF RowsEffect
<1>16. CASE p = "setup" /\ call'[p] = next /\ ~Ended(next)
  <2>1. CallEffect(p) /\ OwnEffect(p)
    <3>1. WentTo(c, next, "upd pass")
      BY <1>9, <1>16
    <3>2. /\ Frame(p) /\ raced' = raced /\ db'.user = db.user /\ db'.mask = db.mask
          /\ db'.tables = db.tables
      BY <1>8, <1>12 DEF DoResult
    <3>3. ~alarm'["setup"] => ModeRow(c) \in db'.mode
      BY <1>2, <1>8, <1>12, <1>16 DEF DoResult
    <3>4. c.at \in ModeSteps
      BY <1>5 DEF ModeSteps
    <3> QED BY <1>1, <1>16, <3>1, <3>2, <3>3, <3>4, ModeDoneEffect
  <2> QED BY <1>11, <1>12, <1>13, <1>14, <2>1 DEF Stepped, Effect, DoResult
<1>17. CASE Ended(call'[p])
  <2>1. CallEffect(p) /\ OwnEffect(p)
    BY <1>8, <1>12, <1>17, EndedEffect DEF DoResult
  <2> QED BY <1>11, <1>12, <1>13, <1>14, <2>1 DEF Stepped, Effect, DoResult
<1>18. call'[p] = next \/ Ended(call'[p])
  BY <1>12 DEF DoResult
<1> QED BY <1>9, <1>16, <1>17, <1>18 DEF Ended

LEMMA DropModeStep ==
  ASSUME TypeOK, BotOK, SetupOK, SetupSteady, OwnerSoFar, NEW p \in Procs, DropMode(p), Untouched
  PROVE  Stepped(p)
<1>1. PICK c : c = call[p]
  OBVIOUS
<1>2. PICK x : x = db.mode \ {ModeRow(c)}
  OBVIOUS
<1>3. PICK new : new = [db EXCEPT !.mode = x]
  OBVIOUS
<1>4. PICK next : next = ModeDone(p)
  OBVIOUS
<1>5. Do(p, "drop mode", Has("mode"), next, new) /\ c.at = "drop mode"
  BY <1>1, <1>2, <1>3, <1>4 DEF DropMode, Do, Query
<1>6. /\ c \in CallType /\ Good(p, c) /\ c.ret \in Int /\ db \in DbType /\ SqlTypeOK
      /\ c.op = "setmode" /\ p = "bot"
  <2>1. c \in CallType /\ Good(p, c) /\ db \in DbType /\ SqlTypeOK
    BY <1>1, CallGood DEF TypeOK
  <2>2. c.ret \in Int /\ c.op = "setmode" /\ p = "bot"
    <3>1. c.ret \in Int
      BY <1>1, Arguments
    <3>2. c.at \in DelSteps \cup {"drop mask", "drop mode", "drop var", "drop ban", "drop note",
                                  "upd name", "count mask", "find mask", "check pass", "count uvar",
                                  "sel ban", "ins ban", "upd ban", "ins note"}
      BY <1>5
    <3> QED BY <1>1, <1>5, <3>1, <3>2, BotArguments
  <2> QED BY <2>1, <2>2
<1>7. x \in SUBSET ModeType
  BY <1>2, <1>6, Rows 
<1>8. /\ new \in DbType /\ new.mode = x /\ new.tables = db.tables /\ new.last = db.last
      /\ new.user = db.user /\ new.mask = db.mask /\ new.var = db.var /\ new.ban = db.ban /\ new.note = db.note
  BY <1>3, <1>6, <1>7, NewModes
<1>9. /\ Good(p, next)
      /\ Ended(next) \/ (p = "setup" /\ WentTo(c, next, "upd pass"))
  BY <1>1, <1>4, <1>5, ModeDoneNext DEF ModeSteps, VarSteps
<1>10. Good(p, next)
  BY <1>9
<1>11. TypeOK' /\ BotOK' /\ SetupOK'
  BY <1>5, <1>8, <1>10, DoTypes
<1>12. DoResult(p, Has("mode"), next, new)
  BY <1>5, <1>6, DoOutcome
<1>13. UserEffect(p)
  BY <1>8, <1>12 DEF UserEffect, DoResult
<1>14. RowsEffect(p)
  <2>1. /\ \A r \in db'.mode : r \in db.mode
        /\ \A r \in db.mode \ db'.mode : r.uid = c.uid
    BY <1>2, <1>6, <1>8, <1>12 DEF DoResult, ModeRow
  <2>2. /\ db'.mask = db.mask /\ db'.var = db.var /\ db'.ban = db.ban /\ db'.note = db.note
        /\ db'.tables = db.tables
    BY <1>8, <1>12 DEF DoResult
  <2>3. call[p] = c /\ c.at = "drop mode"
    BY <1>1, <1>5
  <2> QED BY <1>6, <2>1, <2>2, <2>3 DEF RowsEffect
<1>16. CASE p = "setup" /\ call'[p] = next /\ ~Ended(next)
  <2>1. CallEffect(p) /\ OwnEffect(p)
    BY <1>6, <1>16
  <2> QED BY <1>11, <1>12, <1>13, <1>14, <2>1 DEF Stepped, Effect, DoResult
<1>17. CASE Ended(call'[p])
  <2>1. CallEffect(p) /\ OwnEffect(p)
    BY <1>8, <1>12, <1>17, EndedEffect DEF DoResult
  <2> QED BY <1>11, <1>12, <1>13, <1>14, <2>1 DEF Stepped, Effect, DoResult
<1>18. call'[p] = next \/ Ended(call'[p])
  BY <1>12 DEF DoResult
<1> QED BY <1>9, <1>16, <1>17, <1>18 DEF Ended

LEMMA InsVarStep ==
  ASSUME TypeOK, BotOK, SetupOK, SetupSteady, OwnerSoFar, NEW p \in Procs, InsVar(p), Untouched
  PROVE  Stepped(p)
<1>1. PICK c : c = call[p]
  OBVIOUS
<1>2. PICK x : x = db.var \cup {VarRow(c)}
  OBVIOUS
<1>3. PICK new : new = [db EXCEPT !.var = x]
  OBVIOUS
<1>4. PICK next : next = VarDone(p)
  OBVIOUS
<1>5. Do(p, "ins var", Has("var") /\ VarRows(c) = {}, next, new) /\ c.at = "ins var"
  BY <1>1, <1>2, <1>3, <1>4 DEF InsVar, Do, Query
<1>6. /\ c \in CallType /\ Good(p, c) /\ c.ret \in Int /\ db \in DbType /\ SqlTypeOK
      /\ c.uid \in Ids \cup {0} /\ c.key \in Vars /\ c.val \in Vals
  <2>1. c \in CallType /\ Good(p, c) /\ db \in DbType /\ SqlTypeOK
    BY <1>1, CallGood DEF TypeOK
  <2>2. c.ret \in Int /\ c.uid \in Ids \cup {0} /\ c.key \in Vars /\ c.val \in Vals
    BY <1>1, <1>5, Arguments DEF WithUser, ModeSteps, VarSteps
  <2> QED BY <2>1, <2>2
<1>7. x \in SUBSET VarType
  BY <1>2, <1>6, Rows, RowTypes
<1>8. /\ new \in DbType /\ new.var = x /\ new.tables = db.tables /\ new.last = db.last
      /\ new.user = db.user /\ new.mask = db.mask /\ new.mode = db.mode /\ new.ban = db.ban /\ new.note = db.note
  BY <1>3, <1>6, <1>7, NewVars
<1>9. /\ Good(p, next)
      /\ Ended(next) \/ (p = "setup" /\ WentTo(c, next, "find name"))
  BY <1>1, <1>4, <1>5, VarDoneNext DEF ModeSteps, VarSteps
<1>10. Good(p, next)
  BY <1>9
<1>11. TypeOK' /\ BotOK' /\ SetupOK'
  BY <1>5, <1>8, <1>10, DoTypes
<1>12. DoResult(p, Has("var") /\ VarRows(c) = {}, next, new)
  BY <1>5, <1>6, DoOutcome
<1>13. UserEffect(p)
  BY <1>8, <1>12 DEF UserEffect, DoResult
<1>14. RowsEffect(p)
  <2>1. /\ \A r \in db'.var \ db.var : r.uid = c.uid /\ Has("var")
        /\ p = "setup" => \A r \in db.var : \E q \in db'.var : q.uid = r.uid /\ q.name = r.name
    BY <1>2, <1>6, <1>8, <1>12 DEF DoResult, VarRow
  <2>2. /\ db'.mask = db.mask /\ db'.mode = db.mode /\ db'.ban = db.ban /\ db'.note = db.note
        /\ db'.tables = db.tables
    BY <1>8, <1>12 DEF DoResult
  <2>3. call[p] = c /\ c.at = "ins var"
    BY <1>1, <1>5
  <2> QED BY <1>6, <2>1, <2>2, <2>3 DEF RowsEffect
<1>16. CASE p = "setup" /\ call'[p] = next /\ ~Ended(next)
  <2>1. CallEffect(p) /\ OwnEffect(p)
    <3>1. WentTo(c, next, "find name")
      BY <1>9, <1>16
    <3>2. Frame(p) /\ raced' = raced /\ db'.tables = db.tables
      BY <1>8, <1>12 DEF DoResult
    <3>3. c.at \in {"ins var", "upd var"}
      BY <1>5
    <3> QED BY <1>1, <1>16, <3>1, <3>2, <3>3, VarDoneEffect
  <2> QED BY <1>11, <1>12, <1>13, <1>14, <2>1 DEF Stepped, Effect, DoResult
<1>17. CASE Ended(call'[p])
  <2>1. CallEffect(p) /\ OwnEffect(p)
    BY <1>8, <1>12, <1>17, EndedEffect DEF DoResult
  <2> QED BY <1>11, <1>12, <1>13, <1>14, <2>1 DEF Stepped, Effect, DoResult
<1>18. call'[p] = next \/ Ended(call'[p])
  BY <1>12 DEF DoResult
<1> QED BY <1>9, <1>16, <1>17, <1>18 DEF Ended

LEMMA UpdVarStep ==
  ASSUME TypeOK, BotOK, SetupOK, SetupSteady, OwnerSoFar, NEW p \in Procs, UpdVar(p), Untouched
  PROVE  Stepped(p)
<1>1. PICK c : c = call[p]
  OBVIOUS
<1>2. PICK x : x = IF VarRows(c) = {} THEN db.var ELSE (db.var \ VarRows(c)) \cup {VarRow(c)}
  OBVIOUS
<1>3. PICK new : new = [db EXCEPT !.var = x]
  OBVIOUS
<1>4. PICK next : next = VarDone(p)
  OBVIOUS
<1>5. Do(p, "upd var", Has("var"), next, new) /\ c.at = "upd var"
  BY <1>1, <1>2, <1>3, <1>4 DEF UpdVar, Do, Query
<1>6. /\ c \in CallType /\ Good(p, c) /\ c.ret \in Int /\ db \in DbType /\ SqlTypeOK
      /\ c.uid \in Ids \cup {0} /\ c.key \in Vars /\ c.val \in Vals
  <2>1. c \in CallType /\ Good(p, c) /\ db \in DbType /\ SqlTypeOK
    BY <1>1, CallGood DEF TypeOK
  <2>2. c.ret \in Int /\ c.uid \in Ids \cup {0} /\ c.key \in Vars /\ c.val \in Vals
    BY <1>1, <1>5, Arguments DEF WithUser, ModeSteps, VarSteps
  <2> QED BY <2>1, <2>2
<1>7. x \in SUBSET VarType
  BY <1>2, <1>6, Rows, RowTypes
<1>8. /\ new \in DbType /\ new.var = x /\ new.tables = db.tables /\ new.last = db.last
      /\ new.user = db.user /\ new.mask = db.mask /\ new.mode = db.mode /\ new.ban = db.ban /\ new.note = db.note
  BY <1>3, <1>6, <1>7, NewVars
<1>9. /\ Good(p, next)
      /\ Ended(next) \/ (p = "setup" /\ WentTo(c, next, "find name"))
  BY <1>1, <1>4, <1>5, VarDoneNext DEF ModeSteps, VarSteps
<1>10. Good(p, next)
  BY <1>9
<1>11. TypeOK' /\ BotOK' /\ SetupOK'
  BY <1>5, <1>8, <1>10, DoTypes
<1>12. DoResult(p, Has("var"), next, new)
  BY <1>5, <1>6, DoOutcome
<1>13. UserEffect(p)
  BY <1>8, <1>12 DEF UserEffect, DoResult
<1>14. RowsEffect(p)
  <2>1. /\ \A r \in db'.var \ db.var : r.uid = c.uid /\ Has("var")
        /\ p = "setup" => \A r \in db.var : \E q \in db'.var : q.uid = r.uid /\ q.name = r.name
    <3>1. CASE db' = db
      BY <3>1
    <3>2. CASE db'.var = x /\ Has("var")
      <4>1. VarRow(c).uid = c.uid /\ VarRow(c).name = c.key
        BY DEF VarRow
      <4>2. \A r \in x \ db.var : r.uid = c.uid
        BY <1>2, <4>1
      <4>3. ASSUME NEW r \in db.var PROVE \E q \in x : q.uid = r.uid /\ q.name = r.name
        <5>1. CASE r \in VarRows(c)
          <6>1. VarRow(c) \in x /\ r.uid = c.uid /\ r.name = c.key
            BY <1>2, <5>1 DEF VarRows
          <6> QED BY <4>1, <6>1
        <5>2. CASE r \notin VarRows(c)
          BY <1>2, <5>2
        <5> QED BY <5>1, <5>2
      <4> QED BY <3>2, <4>2, <4>3
    <3> QED BY <1>8, <1>12, <3>1, <3>2 DEF DoResult
  <2>2. /\ db'.mask = db.mask /\ db'.mode = db.mode /\ db'.ban = db.ban /\ db'.note = db.note
        /\ db'.tables = db.tables
    BY <1>8, <1>12 DEF DoResult
  <2>3. call[p] = c /\ c.at = "upd var"
    BY <1>1, <1>5
  <2> QED BY <1>6, <2>1, <2>2, <2>3 DEF RowsEffect
<1>16. CASE p = "setup" /\ call'[p] = next /\ ~Ended(next)
  <2>1. CallEffect(p) /\ OwnEffect(p)
    <3>1. WentTo(c, next, "find name")
      BY <1>9, <1>16
    <3>2. Frame(p) /\ raced' = raced /\ db'.tables = db.tables
      BY <1>8, <1>12 DEF DoResult
    <3>3. c.at \in {"ins var", "upd var"}
      BY <1>5
    <3> QED BY <1>1, <1>16, <3>1, <3>2, <3>3, VarDoneEffect
  <2> QED BY <1>11, <1>12, <1>13, <1>14, <2>1 DEF Stepped, Effect, DoResult
<1>17. CASE Ended(call'[p])
  <2>1. CallEffect(p) /\ OwnEffect(p)
    BY <1>8, <1>12, <1>17, EndedEffect DEF DoResult
  <2> QED BY <1>11, <1>12, <1>13, <1>14, <2>1 DEF Stepped, Effect, DoResult
<1>18. call'[p] = next \/ Ended(call'[p])
  BY <1>12 DEF DoResult
<1> QED BY <1>9, <1>16, <1>17, <1>18 DEF Ended

LEMMA DropVarStep ==
  ASSUME TypeOK, BotOK, SetupOK, SetupSteady, OwnerSoFar, NEW p \in Procs, DropVar(p), Untouched
  PROVE  Stepped(p)
<1>1. PICK c : c = call[p]
  OBVIOUS
<1>2. PICK x : x = db.var \ VarRows(c)
  OBVIOUS
<1>3. PICK new : new = [db EXCEPT !.var = x]
  OBVIOUS
<1>4. PICK next : next = VarDone(p)
  OBVIOUS
<1>5. Do(p, "drop var", Has("var"), next, new) /\ c.at = "drop var"
  BY <1>1, <1>2, <1>3, <1>4 DEF DropVar, Do, Query
<1>6. /\ c \in CallType /\ Good(p, c) /\ c.ret \in Int /\ db \in DbType /\ SqlTypeOK
      /\ c.op = "unset" /\ p = "bot"
  <2>1. c \in CallType /\ Good(p, c) /\ db \in DbType /\ SqlTypeOK
    BY <1>1, CallGood DEF TypeOK
  <2>2. c.ret \in Int /\ c.op = "unset" /\ p = "bot"
    <3>1. c.ret \in Int
      BY <1>1, Arguments
    <3>2. c.at \in DelSteps \cup {"drop mask", "drop mode", "drop var", "drop ban", "drop note",
                                  "upd name", "count mask", "find mask", "check pass", "count uvar",
                                  "sel ban", "ins ban", "upd ban", "ins note"}
      BY <1>5
    <3> QED BY <1>1, <1>5, <3>1, <3>2, BotArguments
  <2> QED BY <2>1, <2>2
<1>7. x \in SUBSET VarType
  BY <1>2, <1>6, Rows 
<1>8. /\ new \in DbType /\ new.var = x /\ new.tables = db.tables /\ new.last = db.last
      /\ new.user = db.user /\ new.mask = db.mask /\ new.mode = db.mode /\ new.ban = db.ban /\ new.note = db.note
  BY <1>3, <1>6, <1>7, NewVars
<1>9. /\ Good(p, next)
      /\ Ended(next) \/ (p = "setup" /\ WentTo(c, next, "find name"))
  BY <1>1, <1>4, <1>5, VarDoneNext DEF ModeSteps, VarSteps
<1>10. Good(p, next)
  BY <1>9
<1>11. TypeOK' /\ BotOK' /\ SetupOK'
  BY <1>5, <1>8, <1>10, DoTypes
<1>12. DoResult(p, Has("var"), next, new)
  BY <1>5, <1>6, DoOutcome
<1>13. UserEffect(p)
  BY <1>8, <1>12 DEF UserEffect, DoResult
<1>14. RowsEffect(p)
  <2>1. \A r \in db'.var : r \in db.var
    BY <1>2, <1>6, <1>8, <1>12 DEF DoResult, VarRows
  <2>2. /\ db'.mask = db.mask /\ db'.mode = db.mode /\ db'.ban = db.ban /\ db'.note = db.note
        /\ db'.tables = db.tables
    BY <1>8, <1>12 DEF DoResult
  <2>3. call[p] = c /\ c.at = "drop var"
    BY <1>1, <1>5
  <2> QED BY <1>6, <2>1, <2>2, <2>3 DEF RowsEffect
<1>16. CASE p = "setup" /\ call'[p] = next /\ ~Ended(next)
  <2>1. CallEffect(p) /\ OwnEffect(p)
    BY <1>6, <1>16
  <2> QED BY <1>11, <1>12, <1>13, <1>14, <2>1 DEF Stepped, Effect, DoResult
<1>17. CASE Ended(call'[p])
  <2>1. CallEffect(p) /\ OwnEffect(p)
    BY <1>8, <1>12, <1>17, EndedEffect DEF DoResult
  <2> QED BY <1>11, <1>12, <1>13, <1>14, <2>1 DEF Stepped, Effect, DoResult
<1>18. call'[p] = next \/ Ended(call'[p])
  BY <1>12 DEF DoResult
<1> QED BY <1>9, <1>16, <1>17, <1>18 DEF Ended

\* A call of a script goes on, and what it knows needs no proof.
LEMMA BotMoves ==
  ASSUME NEW p, p = "bot", NEW c, c = call[p], NEW next, call'[p] = next, Moved(c, next),
         c.op # "del", next.at \notin {"upd mode", "ins mode", "drop mode", "upd ban", "upd var", "check pass"}
  PROVE  OwnEffect(p)
<1>1. bot' = next
  BY DEF bot
<1>2. Seen' /\ Deleted'
  BY <1>1 DEF Seen, Deleted, Moved
<1> QED BY <1>2 DEF OwnEffect

LEMMA UpdModeStep ==
  ASSUME TypeOK, BotOK, SetupOK, SetupSteady, OwnerSoFar, NEW p \in Procs, UpdMode(p), Untouched
  PROVE  Stepped(p)
<1>1. PICK c : c = call[p]
  OBVIOUS
<1>2. PICK next : next = ModeDone(p)
  OBVIOUS
<1>3. Do(p, "upd mode", Has("mode"), next, db) /\ c.at = "upd mode"
  BY <1>1, <1>2 DEF UpdMode, Do, Query
<1>4. db \in DbType /\ SqlTypeOK
  BY CallGood DEF TypeOK
<1>5. c.at \in ModeSteps
  BY <1>3 DEF ModeSteps
<1>6. /\ Good(p, next)
      /\ Ended(next) \/ (p = "setup" /\ WentTo(c, next, "upd pass"))
  BY <1>1, <1>2, <1>5, ModeDoneNext
<1>7. TypeOK' /\ BotOK' /\ SetupOK'
  BY <1>3, <1>4, <1>6, DoTypes
<1>8. DoResult(p, Has("mode"), next, db)
  BY <1>3, <1>4, DoOutcome
<1>9. db' = db /\ Frame(p) /\ raced' = raced
  BY <1>8 DEF DoResult
<1>10. RowsEffect(p) /\ UserEffect(p)
  BY <1>9, SameRows
<1>11. CASE Ended(call'[p])
  <2>1. CallEffect(p) /\ OwnEffect(p)
    BY <1>9, <1>11, EndedEffect
  <2> QED BY <1>7, <1>9, <1>10, <2>1 DEF Stepped, Effect
<1>12. CASE p = "setup" /\ call'[p] = next /\ WentTo(c, next, "upd pass")
  <2>1. ASSUME c.uid \notin contested, ~alarm'["setup"] PROVE ModeRow(c) \in db'.mode
    <3>1. setup = c /\ ~alarm["setup"]
      BY <1>1, <1>9, <1>12, <2>1 DEF setup, Frame
    <3>2. c.uid \in Ids
      BY <1>1, <1>5, Arguments
    <3>3. c.uid # 0
      BY <3>2 DEF Ids
    <3> QED BY <1>3, <1>9, <2>1, <3>1, <3>3 DEF OwnerSoFar
  <2>2. db'.user = db.user /\ db'.mask = db.mask /\ db'.tables = db.tables
    BY <1>9
  <2>3. CallEffect(p) /\ OwnEffect(p)
    BY <1>1, <1>5, <1>9, <1>12, <2>1, <2>2, ModeDoneEffect
  <2> QED BY <1>7, <1>9, <1>10, <2>3 DEF Stepped, Effect
<1>13. call'[p] = next \/ Ended(call'[p])
  BY <1>8 DEF DoResult
<1> QED BY <1>6, <1>11, <1>12, <1>13 DEF Ended

LEMMA CountMaskStep ==
  ASSUME TypeOK, BotOK, SetupOK, SetupSteady, NEW p \in Procs, CountMask(p), Untouched
  PROVE  Stepped(p)
<1>1. PICK c : c = call[p]
  OBVIOUS
<1>2. PICK none : none = Goto(p, "ins mask")
  OBVIOUS
<1>3. PICK next : next = IF MaskRow(c) \in db.mask THEN Return(p, -1) ELSE none
  OBVIOUS
<1>4. Count(p, "count mask", Has("mask"), next, none) /\ c.at = "count mask"
  BY <1>1, <1>2, <1>3 DEF CountMask, Count, Query
<1>5. db \in DbType /\ SqlTypeOK /\ Good(p, c) /\ p = "bot"
  BY <1>1, <1>4, CallGood, BotArguments DEF TypeOK
<1>6. "ins mask" \in Steps
  BY DEF Steps
<1>7. WentTo(c, none, "ins mask")
  BY <1>1, <1>2, <1>5, <1>6, GotoMoves
<1>8. c.op = "addmask" /\ c.uid \in Ids /\ c.mask \in Masks
  BY <1>4, <1>5 DEF Good, BotCall, DelSteps, ModeSteps, VarSteps
<1>9. Good(p, none)
  BY <1>5, <1>7, <1>8 DEF Good, BotCall, WentTo, Moved
<1>10. next = none \/ (Good(p, next) /\ Ended(next))
  <2>1. CASE MaskRow(c) \in db.mask
    BY <1>3, <2>1, ReturnEnds
  <2> QED BY <1>3, <2>1
<1>11. Good(p, next)
  BY <1>9, <1>10
<1>12. TypeOK' /\ BotOK' /\ SetupOK'
  BY <1>4, <1>9, <1>11, CountTypes
<1>13. CountResult(p, Has("mask"), next, none)
  BY <1>4, <1>5, CountOutcome
<1>14. db' = db /\ Frame(p) /\ raced' = raced
  BY <1>13 DEF CountResult
<1>15. RowsEffect(p) /\ UserEffect(p)
  BY <1>14, SameRows
<1>16. CASE Ended(call'[p])
  BY <1>14, <1>16, EndedEffect, <1>12, <1>15 DEF Stepped, Effect
<1>17. CASE call'[p] = none
  <2>1. Moved(c, none) /\ none.at = "ins mask"
    BY <1>7 DEF WentTo
  <2>2. OwnEffect(p)
    BY <1>1, <1>5, <1>8, <1>17, <2>1, BotMoves
  <2>3. CallEffect(p)
    BY <1>1, <1>8, <1>14, <1>17, <2>1, MovedEffect DEF Moved
  <2> QED BY <1>12, <1>14, <1>15, <2>2, <2>3 DEF Stepped, Effect
<1>18. Ended(call'[p]) \/ call'[p] = none
  BY <1>10, <1>13 DEF CountResult, Ended
<1> QED BY <1>16, <1>17, <1>18

LEMMA CountVarStep ==
  ASSUME TypeOK, BotOK, SetupOK, SetupSteady, NEW p \in Procs, CountVar(p), Untouched
  PROVE  Stepped(p)
<1>1. PICK c : c = call[p]
  OBVIOUS
<1>2. PICK none : none = Goto(p, "ins var")
  OBVIOUS
<1>3. PICK next : next = Goto(p, IF VarRows(c) = {} THEN "ins var" ELSE "upd var")
  OBVIOUS
<1>4. Count(p, "count var", Has("var"), next, none) /\ c.at = "count var"
  BY <1>1, <1>2, <1>3 DEF CountVar, Count, Query
<1>5. db \in DbType /\ SqlTypeOK /\ Good(p, c)
  BY <1>1, CallGood DEF TypeOK
<1>6. "ins var" \in Steps /\ "upd var" \in Steps
  BY DEF Steps
<1>7. WentTo(c, none, "ins var")
  BY <1>1, <1>2, <1>5, <1>6, GotoMoves
<1>8. next = none \/ (WentTo(c, next, "upd var") /\ VarRows(c) # {})
  <2>1. CASE VarRows(c) = {}
    BY <1>2, <1>3, <2>1
  <2>2. CASE VarRows(c) # {}
    <3>1. next = Goto(p, "upd var")
      BY <1>3, <2>2
    <3> QED BY <1>1, <1>5, <1>6, <2>2, <3>1, GotoMoves
  <2> QED BY <2>1, <2>2
<1>9. ASSUME NEW d, WentTo(c, d, "ins var") \/ WentTo(c, d, "upd var")
      PROVE  Good(p, d)
  <2>1. d \in CallType /\ d.at \in {"ins var", "upd var"} /\ Moved(c, d) /\ d.key = c.key
    BY <1>9 DEF WentTo
  <2>2. CASE p = "bot"
    BY <1>4, <1>5, <2>1, <2>2 DEF Good, BotCall, Moved, VarSteps, DelSteps, ModeSteps
  <2>3. CASE p = "setup"
    BY <1>4, <1>5, <2>1, <2>3 DEF Good, SetupCall, Moved, VarSteps, BeforeUser, WithUser, ModeSteps
  <2> QED BY <2>2, <2>3 DEF Procs
<1>10. Good(p, none) /\ Good(p, next)
  BY <1>7, <1>8, <1>9
<1>11. TypeOK' /\ BotOK' /\ SetupOK'
  BY <1>4, <1>10, CountTypes
<1>12. CountResult(p, Has("var"), next, none)
  BY <1>4, <1>5, CountOutcome
<1>13. db' = db /\ Frame(p) /\ raced' = raced
  BY <1>12 DEF CountResult
<1>14. RowsEffect(p) /\ UserEffect(p)
  BY <1>13, SameRows
<1>15. CASE Ended(call'[p])
  <2>1. CallEffect(p) /\ OwnEffect(p)
    BY <1>13, <1>15, EndedEffect
  <2> QED BY <1>11, <1>13, <1>14, <2>1 DEF Stepped, Effect
<1>16. CASE ~Ended(call'[p])
  <2>1. PICK d : d = call'[p]
    OBVIOUS
  <2>2. /\ d = none \/ (d = next /\ WentTo(c, next, "upd var") /\ VarRows(c) # {})
        /\ p = "setup" => Has("var")
    BY <1>8, <1>12, <1>16, <2>1 DEF CountResult
  <2>3. /\ Moved(c, d) /\ d.key = c.key
        /\ d.at = "ins var" \/ (d.at = "upd var" /\ VarRows(c) # {})
    BY <1>7, <2>2 DEF WentTo
  <2>4. CallEffect(p)
    BY <1>1, <1>13, <2>1, <2>3, MovedEffect
  <2>5. ASSUME p = "bot" PROVE OwnEffect(p)
    <3>1. bot' = d /\ bot = c
      BY <1>1, <2>1, <2>5 DEF bot
    <3>2. d.op # "del"
      BY <1>4, <1>5, <2>3, <2>5 DEF Good, BotCall, DelSteps, Moved
    <3>3. VarRows(d)' = VarRows(c)
      BY <1>13, <2>3 DEF VarRows, Moved
    <3>4. Seen'
      BY <2>3, <3>1, <3>3 DEF Seen
    <3>5. Deleted'
      BY <3>1, <3>2 DEF Deleted
    <3> QED BY <2>5, <3>4, <3>5, BotOwn
  <2>6. ASSUME p = "setup" PROVE OwnEffect(p)
    <3>1. setup' = d /\ setup = c /\ setup.op = "setup"
      BY <1>1, <1>4, <2>1, <2>6, Owners DEF setup, VarSteps
    <3>2. SetupSteady'
      BY <1>4, <1>13, <2>2, <2>3, <2>6, <3>1 DEF SetupSteady, Moved, Frame, BeforeUser, Has
    <3>3. c.uid = 0
      BY <1>4, <1>5, <2>6 DEF Good, SetupCall, WithUser, ModeSteps
    <3>4. OwnerSoFar'
      BY <2>3, <3>1, <3>3 DEF OwnerSoFar, Moved
    <3> QED BY <2>6, <3>2, <3>4, SetupOwn
  <2> QED BY <1>11, <1>13, <1>14, <2>4, <2>5, <2>6 DEF Stepped, Effect, Procs
<1> QED BY <1>15, <1>16

LEMMA CountUvarStep ==
  ASSUME TypeOK, BotOK, SetupOK, SetupSteady, NEW p \in Procs, CountUvar(p), Untouched
  PROVE  Stepped(p)
<1>1. PICK c : c = call[p]
  OBVIOUS
<1>0. PICK v \in Vars : \E d, none, next :
        /\ d = [c EXCEPT !.key = v]
        /\ none = [d EXCEPT !.at = "count var"]
        /\ next = (IF VarRows(d) = {} THEN none ELSE c)
        /\ Count(p, "count uvar", Has("var"), next, none)
  BY <1>1 DEF CountUvar
<1>2. PICK d, none, next :
        /\ d = [c EXCEPT !.key = v]
        /\ none = [d EXCEPT !.at = "count var"]
        /\ next = (IF VarRows(d) = {} THEN none ELSE c)
        /\ Count(p, "count uvar", Has("var"), next, none)
  BY <1>0
<1>3. c.at = "count uvar"
  BY <1>1, <1>2 DEF Count, Query
<1>4. db \in DbType /\ SqlTypeOK /\ c \in CallType /\ Good(p, c) /\ p = "bot"
  BY <1>1, <1>3, CallGood, BotArguments DEF TypeOK
<1>5. c.op = "setuvar" /\ c.val \in Vals
  BY <1>3, <1>4 DEF Good, BotCall, VarSteps, DelSteps, ModeSteps
<1>6. none \in CallType /\ none.at = "count var" /\ none.key = v /\ Moved(c, none)
  <2>1. "count var" \in Steps
    BY DEF Steps
  <2>2. d \in CallType /\ d.key = v /\ Moved(c, d)
    BY <1>2, <1>4 DEF CallType, Moved
  <2> QED BY <1>2, <2>1, <2>2 DEF CallType, Moved
<1>7. Good(p, none)
  BY <1>4, <1>5, <1>6 DEF Good, BotCall, Moved, VarSteps
<1>8. Good(p, next) /\ (next = none \/ next = c)
  BY <1>2, <1>4, <1>7
<1>9. TypeOK' /\ BotOK' /\ SetupOK'
  BY <1>2, <1>7, <1>8, CountTypes
<1>10. CountResult(p, Has("var"), next, none)
  BY <1>2, <1>4, CountOutcome
<1>11. db' = db /\ Frame(p) /\ raced' = raced
  BY <1>10 DEF CountResult
<1>12. RowsEffect(p) /\ UserEffect(p)
  BY <1>11, SameRows
<1>13. CASE Ended(call'[p])
  <2>1. CallEffect(p) /\ OwnEffect(p)
    BY <1>11, <1>13, EndedEffect
  <2> QED BY <1>9, <1>11, <1>12, <2>1 DEF Stepped, Effect
<1>14. CASE ~Ended(call'[p])
  <2>1. PICK e : e = call'[p]
    OBVIOUS
  <2>2. e = none \/ e = c
    BY <1>8, <1>10, <1>14, <2>1 DEF CountResult
  <2>3. Moved(c, e) /\ e.at \in {"count var", "count uvar"}
    BY <1>3, <1>6, <2>2 DEF Moved
  <2>4. CallEffect(p)
    BY <1>1, <1>11, <2>1, <2>3, MovedEffect
  <2>5. OwnEffect(p)
    BY <1>1, <1>4, <1>5, <2>1, <2>3, BotMoves
  <2> QED BY <1>9, <1>11, <1>12, <2>4, <2>5 DEF Stepped, Effect
<1> QED BY <1>13, <1>14

LEMMA CountModeStep ==
  ASSUME TypeOK, BotOK, SetupOK, SetupSteady, OwnerSoFar, NEW p \in Procs, CountMode(p), Untouched
  PROVE  Stepped(p)
<1>1. PICK c : c = call[p]
  OBVIOUS
<1>2. PICK absent : absent = IF Plus(c) THEN Goto(p, "ins mode") ELSE ModeDone(p)
  OBVIOUS
<1>3. PICK next : next = IF ModeRow(c) \in db.mode
                         THEN Goto(p, IF Plus(c) THEN "upd mode" ELSE "drop mode") ELSE absent
  OBVIOUS
<1>4. Count(p, "count mode", Has("mode"), next, absent) /\ c.at = "count mode"
  BY <1>1, <1>2, <1>3 DEF CountMode, Count, Query
<1>5. db \in DbType /\ SqlTypeOK /\ Good(p, c) /\ c.at \in ModeSteps
  BY <1>1, <1>4, CallGood DEF TypeOK, ModeSteps
<1>6. "ins mode" \in Steps /\ "upd mode" \in Steps /\ "drop mode" \in Steps
  BY DEF Steps
<1>7. /\ p = "bot" => c.op = "setmode" /\ ~Owner(c)
      /\ p = "setup" => Owner(c) /\ Plus(c)
  <2>1. p = "bot" => c.op = "setmode"
    BY <1>4, <1>5 DEF Good, BotCall, VarSteps, DelSteps
  <2> QED BY <1>1, <1>5, <2>1, Owners DEF Plus, WithUser
<1>8. ASSUME NEW d, \/ Plus(c) /\ WentTo(c, d, "ins mode")
                    \/ Plus(c) /\ WentTo(c, d, "upd mode")
                    \/ ~Plus(c) /\ WentTo(c, d, "drop mode")
      PROVE  Good(p, d)
  <2>1. d \in CallType /\ Moved(c, d) /\ d.key = c.key /\ d.ret = c.ret
    BY <1>8 DEF WentTo
  <2>2. CASE p = "bot"
    <3>1. d.at \in {"ins mode", "upd mode", "drop mode"}
      BY <1>8 DEF WentTo
    <3> QED BY <1>4, <1>5, <1>7, <2>1, <2>2, <3>1 DEF Good, BotCall, Moved, ModeSteps
  <2>3. CASE p = "setup"
    <3>1. d.at \in {"ins mode", "upd mode"}
      BY <1>7, <1>8, <2>3 DEF WentTo
    <3> QED BY <1>4, <1>5, <2>1, <2>3, <3>1
        DEF Good, SetupCall, Moved, VarSteps, BeforeUser, WithUser, ModeSteps
  <2> QED BY <2>2, <2>3 DEF Procs
<1>9. \/ Plus(c) /\ WentTo(c, absent, "ins mode")
      \/ ~Plus(c) /\ Good(p, absent) /\ Ended(absent)
  <2>1. CASE Plus(c)
    <3>1. absent = Goto(p, "ins mode")
      BY <1>2, <2>1
    <3> QED BY <1>1, <1>5, <1>6, <2>1, <3>1, GotoMoves
  <2>2. CASE ~Plus(c)
    <3>1. absent = ModeDone(p) /\ p # "setup"
      BY <1>2, <1>7, <2>2
    <3>2. Good(p, absent) /\ Ended(absent)
      BY <1>1, <1>5, <3>1, ModeDoneNext
    <3> QED BY <2>2, <3>2
  <2> QED BY <2>1, <2>2
<1>10. \/ next = absent
       \/ ModeRow(c) \in db.mode /\ Plus(c) /\ WentTo(c, next, "upd mode")
       \/ ModeRow(c) \in db.mode /\ ~Plus(c) /\ WentTo(c, next, "drop mode")
  <2>1. CASE ModeRow(c) \notin db.mode
    BY <1>3, <2>1
  <2>2. CASE ModeRow(c) \in db.mode /\ Plus(c)
    <3>1. next = Goto(p, "upd mode")
      BY <1>3, <2>2
    <3> QED BY <1>1, <1>5, <1>6, <2>2, <3>1, GotoMoves
  <2>3. CASE ModeRow(c) \in db.mode /\ ~Plus(c)
    <3>1. next = Goto(p, "drop mode")
      BY <1>3, <2>3
    <3> QED BY <1>1, <1>5, <1>6, <2>3, <3>1, GotoMoves
  <2> QED BY <2>1, <2>2, <2>3
<1>11. Good(p, absent) /\ Good(p, next)
  BY <1>8, <1>9, <1>10
<1>12. TypeOK' /\ BotOK' /\ SetupOK'
  BY <1>4, <1>11, CountTypes
<1>13. CountResult(p, Has("mode"), next, absent)
  BY <1>4, <1>5, CountOutcome
<1>14. db' = db /\ Frame(p) /\ raced' = raced
  BY <1>13 DEF CountResult
<1>15. RowsEffect(p) /\ UserEffect(p)
  BY <1>14, SameRows
<1>16. CASE Ended(call'[p])
  <2>1. CallEffect(p) /\ OwnEffect(p)
    BY <1>14, <1>16, EndedEffect
  <2> QED BY <1>12, <1>14, <1>15, <2>1 DEF Stepped, Effect
<1>17. CASE ~Ended(call'[p])
  <2>1. PICK d : d = call'[p]
    OBVIOUS
  <2>2. d = next \/ d = absent
    BY <1>13, <1>17, <2>1 DEF CountResult
  <2>3. \/ Plus(c) /\ WentTo(c, d, "ins mode")
        \/ ModeRow(c) \in db.mode /\ Plus(c) /\ WentTo(c, d, "upd mode")
        \/ ModeRow(c) \in db.mode /\ ~Plus(c) /\ WentTo(c, d, "drop mode")
    BY <1>9, <1>10, <1>17, <2>1, <2>2 DEF Ended
  <2>4. /\ Moved(c, d) /\ d.key = c.key
        /\ \/ Plus(c) /\ d.at = "ins mode"
           \/ ModeRow(c) \in db.mode /\ Plus(c) /\ d.at = "upd mode"
           \/ ModeRow(c) \in db.mode /\ ~Plus(c) /\ d.at = "drop mode"
    BY <2>3 DEF WentTo
  <2>5. CallEffect(p)
    BY <1>1, <1>14, <2>1, <2>4, MovedEffect
  <2>6. ModeRow(d) = ModeRow(c)
    BY <2>4 DEF ModeRow, Moved
  <2>7. ASSUME p = "bot" PROVE OwnEffect(p)
    <3>1. bot' = d /\ c.op = "setmode"
      BY <1>1, <1>7, <2>1, <2>7 DEF bot
    <3>2. Plus(c) <=> d.val = 1
      BY <1>7, <2>4, <2>7 DEF Plus, Moved
    <3>3. ModeRow(bot)' = ModeRow(d) /\ d.at \in {"ins mode", "upd mode", "drop mode"}
      BY <2>4, <3>1 DEF ModeRow
    <3>4. Seen'
      BY <1>14, <2>4, <2>6, <3>1, <3>2, <3>3 DEF Seen
    <3>5. Deleted'
      BY <2>4, <3>1 DEF Deleted, Moved
    <3> QED BY <2>7, <3>4, <3>5, BotOwn
  <2>8. ASSUME p = "setup" PROVE OwnEffect(p)
    <3>1. setup' = d /\ setup = c /\ Frame("setup") /\ db'.tables = db.tables
      BY <1>1, <1>14, <2>1, <2>8 DEF setup
    <3>2. setup'.op = setup.op /\ setup.at = "count mode" /\ setup'.at \in {"ins mode", "upd mode"}
      BY <1>4, <1>7, <2>4, <2>8, <3>1 DEF Moved
    <3>3. SetupSteady'
      BY <3>1, <3>2, StillSteady DEF BeforeUser
    <3>4. OwnerSoFar'
      <4>1. SUFFICES ASSUME c.uid # 0, c.uid \notin contested, ~alarm'["setup"]
                     PROVE  OwnerSoFar'
        BY <2>4, <3>1 DEF OwnerSoFar, Moved, Frame
      <4>2. ~alarm["setup"]
        BY <3>1, <4>1 DEF Frame
      <4>3. /\ [uid |-> c.uid, name |-> c.name, pass |-> FALSE] \in db.user
            /\ MaskRow(c) \in db.mask
        BY <1>4, <3>1, <4>1, <4>2 DEF OwnerSoFar
      <4>4. MaskRow(setup)' = MaskRow(c) /\ ModeRow(setup)' = ModeRow(c)
        BY <2>4, <3>1 DEF MaskRow, ModeRow, Moved
      <4> QED BY <1>14, <2>4, <3>1, <3>2, <4>3, <4>4 DEF OwnerSoFar, Moved
    <3> QED BY <2>8, <3>3, <3>4, SetupOwn
  <2> QED BY <1>12, <1>14, <1>15, <2>5, <2>7, <2>8 DEF Stepped, Effect, Procs
<1> QED BY <1>16, <1>17

LEMMA CheckPassStep ==
  ASSUME TypeOK, BotOK, SetupOK, SetupSteady, NEW p \in Procs, CheckPass(p), Untouched
  PROVE  Stepped(p)
<1>1. PICK c : c = call[p]
  OBVIOUS
<1>2. PICK ret : ret = IF \E r \in OfUser(db.user, c.uid) : ~r.pass THEN c.uid ELSE 0
  OBVIOUS
<1>3. PICK next, failed, strange :
        /\ next = Return(p, ret) /\ failed = Return(p, 0) /\ strange = {failed}
        /\ Query(p, "check pass", Has("user"), next, failed, strange, db)
  BY <1>1, <1>2 DEF CheckPass
<1>4. c.at = "check pass" /\ raced' = raced
  BY <1>1, <1>3 DEF Query
<1>5. ret \in Int
  <2>1. c.uid \in Ids
    BY <1>1, <1>4, Arguments
  <2> QED BY <1>2, <2>1, Constants DEF Ids
<1>6. /\ Good(p, next) /\ Ended(next) /\ Good(p, failed) /\ Ended(failed)
  BY <1>3, <1>5, ReturnEnds, ReturnZero
<1>7. db \in DbType /\ SqlTypeOK /\ raced' \subseteq Names /\ \A d \in strange : Good(p, d)
  BY <1>3, <1>4, <1>6, CallGood DEF TypeOK, SqlTypeOK
<1>8. TypeOK' /\ BotOK' /\ SetupOK'
  BY <1>3, <1>6, <1>7, QueryTypes
<1>9. Outcome(p, Has("user"), next, failed, strange, db)
  BY <1>3, <1>7, QueryOutcome
<1>10. Ended(call'[p]) /\ db' = db /\ Frame(p)
  <2>1. call'[p] \in {next, failed, NoCall} /\ db' = db /\ Frame(p)
    BY <1>3, <1>9 DEF Outcome
  <2> QED BY <1>6, <2>1, EndedNoCall DEF Ended
<1>11. RowsEffect(p) /\ UserEffect(p)
  BY <1>10, SameRows
<1>12. CallEffect(p) /\ OwnEffect(p)
  BY <1>4, <1>10, EndedEffect
<1> QED BY <1>8, <1>10, <1>11, <1>12 DEF Stepped, Effect

LEMMA SelBanStep ==
  ASSUME TypeOK, BotOK, SetupOK, SetupSteady, NEW p \in Procs, SelBan(p), Untouched
  PROVE  Stepped(p)
<1>1. PICK c : c = call[p]
  OBVIOUS
<1>2. PICK ins, ret, next, strange :
        /\ ins = Goto(p, "ins ban") /\ ret = Return(p, 0)
        /\ next = Goto(p, IF BansOn(c.mask) = {} THEN "ins ban" ELSE "upd ban")
        /\ strange = {ins, ret}
        /\ Query(p, "sel ban", Has("ban"), next, ins, strange, db)
  BY <1>1 DEF SelBan
<1>3. c.at = "sel ban" /\ raced' = raced
  BY <1>1, <1>2 DEF Query
<1>4. db \in DbType /\ SqlTypeOK /\ raced' \subseteq Names /\ Good(p, c)
  BY <1>1, <1>3, CallGood DEF TypeOK, SqlTypeOK
<1>5. p = "bot" /\ c.op = "addban"
  BY ZenonT(30), <1>1, <1>3, BotArguments
<1>6. "ins ban" \in Steps /\ "upd ban" \in Steps
  BY DEF Steps
<1>7. WentTo(c, ins, "ins ban")
  BY <1>1, <1>2, <1>4, <1>6, GotoMoves
<1>8. next = ins \/ (WentTo(c, next, "upd ban") /\ BansOn(c.mask) # {})
  <2>1. CASE BansOn(c.mask) = {}
    BY <1>2, <2>1
  <2>2. CASE BansOn(c.mask) # {}
    <3>1. next = Goto(p, "upd ban")
      BY <1>2, <2>2
    <3> QED BY <1>1, <1>4, <1>6, <2>2, <3>1, GotoMoves
  <2> QED BY <2>1, <2>2
<1>9. ASSUME NEW d, WentTo(c, d, "ins ban") \/ WentTo(c, d, "upd ban")
      PROVE  Good(p, d)
  BY <1>3, <1>4, <1>5, <1>9 DEF WentTo, Good, BotCall, Moved, VarSteps, DelSteps, ModeSteps
<1>10. Good(p, ret) /\ Ended(ret)
  BY <1>2, ReturnZero
<1>11. Good(p, ins) /\ Good(p, next) /\ \A d \in strange : Good(p, d)
  BY <1>2, <1>7, <1>8, <1>9, <1>10
<1>12. TypeOK' /\ BotOK' /\ SetupOK'
  BY <1>2, <1>4, <1>11, QueryTypes
<1>13. Outcome(p, Has("ban"), next, ins, strange, db)
  BY <1>2, <1>4, QueryOutcome
<1>14. /\ db' = db /\ Frame(p)
       /\ call'[p] \in {ins, next} \/ Ended(call'[p])
  <2>1. call'[p] \in {next, ins, ret, NoCall} /\ db' = db /\ Frame(p)
    BY <1>2, <1>13 DEF Outcome
  <2> QED BY <1>10, <2>1, EndedNoCall DEF Ended
<1>15. RowsEffect(p) /\ UserEffect(p)
  BY <1>14, SameRows
<1>16. CASE Ended(call'[p])
  <2>1. CallEffect(p) /\ OwnEffect(p)
    BY <1>3, <1>14, <1>16, EndedEffect
  <2> QED BY <1>12, <1>14, <1>15, <2>1 DEF Stepped, Effect
<1>17. CASE ~Ended(call'[p])
  <2>1. PICK d : d = call'[p]
    OBVIOUS
  <2>2. WentTo(c, d, "ins ban") \/ (WentTo(c, d, "upd ban") /\ BansOn(c.mask) # {})
    BY <1>7, <1>8, <1>14, <1>17, <2>1
  <2>3. Moved(c, d) /\ (d.at = "ins ban" \/ (d.at = "upd ban" /\ BansOn(c.mask) # {}))
    BY <2>2 DEF WentTo
  <2>4. CallEffect(p)
    BY <1>1, <1>3, <2>1, <2>3, MovedEffect
  <2>5. bot' = d /\ d.op # "del"
    BY <1>5, <2>1, <2>3 DEF bot, Moved
  <2>6. BansOn(d.mask)' = BansOn(c.mask)
    BY <1>14, <2>3 DEF BansOn, Moved
  <2>7. Seen' /\ Deleted'
    BY <2>3, <2>5, <2>6 DEF Seen, Deleted
  <2>8. OwnEffect(p)
    BY <1>5, <2>7, BotOwn
  <2> QED BY <1>12, <1>14, <1>15, <2>4, <2>8 DEF Stepped, Effect
<1> QED BY <1>16, <1>17

LEMMA FindMaskStep ==
  ASSUME TypeOK, BotOK, SetupOK, SetupSteady, NEW p \in Procs, FindMask(p), Untouched
  PROVE  Stepped(p)
<1>1. PICK c : c = call[p]
  OBVIOUS
<1>2. PICK found : found = {r.uid : r \in {s \in db.mask : s.mask = c.mask}} \cap UserIds
  OBVIOUS
<1>0. PICK u \in found \cup {0} : \E ret, next, strange :
        /\ ret = Return(p, 0) /\ strange = {ret, NoCall}
        /\ next = (IF u = 0 THEN ret ELSE [Goto(p, "check pass") EXCEPT !.uid = u])
        /\ Query(p, "find mask", Has("user") /\ Has("mask"), next, ret, strange, db)
  BY <1>1, <1>2 DEF FindMask
<1>3. PICK ret, next, strange :
        /\ ret = Return(p, 0) /\ strange = {ret, NoCall}
        /\ next = (IF u = 0 THEN ret ELSE [Goto(p, "check pass") EXCEPT !.uid = u])
        /\ Query(p, "find mask", Has("user") /\ Has("mask"), next, ret, strange, db)
  BY <1>0
<1>4. c.at = "find mask" /\ raced' = raced
  BY <1>1, <1>3 DEF Query
<1>5. db \in DbType /\ SqlTypeOK /\ raced' \subseteq Names /\ Good(p, c)
  BY <1>1, <1>4, CallGood DEF TypeOK, SqlTypeOK
<1>6. p = "bot" /\ c.op = "lookup"
  BY ZenonT(30), <1>1, <1>4, BotArguments
<1>7. Good(p, ret) /\ Ended(ret) /\ Good(p, NoCall)
  BY <1>3, ReturnZero, NoCallGood
<1>8. ASSUME u # 0
      PROVE  /\ next \in CallType /\ next.at = "check pass" /\ next.op = "lookup"
             /\ next.uid = u /\ next.mask = c.mask /\ next.name = c.name /\ next.val = c.val
             /\ u \in Ids /\ u \in UserIds /\ MaskRow(next) \in db.mask
  <2>1. u \in UserIds /\ \E s \in db.mask : s.mask = c.mask /\ s.uid = u
    BY <1>2, <1>3, <1>8
  <2>2. u \in Ids
    BY <1>5, <2>1, Rows DEF UserIds, UserType
  <2>3. u \in 0 .. MaxUsers
    BY <2>2, Constants DEF Ids
  <2>4. "check pass" \in Steps
    BY DEF Steps
  <2>5. PICK g : g = Goto(p, "check pass")
    OBVIOUS
  <2>6. WentTo(c, g, "check pass")
    BY <1>1, <1>5, <2>4, <2>5, GotoMoves
  <2>7. next = [g EXCEPT !.uid = u]
    BY <1>3, <1>8, <2>5
  <2>8. /\ next \in CallType /\ next.at = "check pass" /\ next.op = "lookup"
        /\ next.uid = u /\ next.mask = c.mask /\ next.name = c.name /\ next.val = c.val
    BY <1>6, <2>3, <2>6, <2>7 DEF WentTo, Moved, CallType
  <2>9. MaskRow(next) \in db.mask
    <3>1. PICK s \in db.mask : s.mask = c.mask /\ s.uid = u
      BY <2>1
    <3>2. s \in MaskType
      BY <1>5, Rows
    <3>3. s = [uid |-> u, mask |-> c.mask]
      BY <3>1, <3>2 DEF MaskType
    <3> QED BY <2>8, <3>1, <3>3 DEF MaskRow
  <2> QED BY <2>1, <2>2, <2>8, <2>9
<1>9. Good(p, next)
  <2>1. CASE u = 0
    BY <1>3, <1>7, <2>1
  <2>2. CASE u # 0
    BY <1>6, <1>8, <2>2 DEF Good, BotCall
  <2> QED BY <2>1, <2>2
<1>10. \A d \in strange : Good(p, d)
  BY <1>3, <1>7
<1>11. TypeOK' /\ BotOK' /\ SetupOK'
  BY <1>3, <1>5, <1>7, <1>9, <1>10, QueryTypes
<1>12. Outcome(p, Has("user") /\ Has("mask"), next, ret, strange, db)
  BY <1>3, <1>5, QueryOutcome
<1>13. /\ db' = db /\ Frame(p)
       /\ (call'[p] = next /\ u # 0) \/ Ended(call'[p])
  <2>1. call'[p] \in {next, ret, NoCall} /\ db' = db /\ Frame(p)
    BY <1>3, <1>12 DEF Outcome
  <2>2. u = 0 => next = ret
    BY <1>3
  <2> QED BY <1>7, <2>1, <2>2, EndedNoCall DEF Ended
<1>14. RowsEffect(p) /\ UserEffect(p)
  BY <1>13, SameRows
<1>15. CASE Ended(call'[p])
  <2>1. CallEffect(p) /\ OwnEffect(p)
    BY <1>4, <1>13, <1>15, EndedEffect
  <2> QED BY <1>11, <1>13, <1>14, <2>1 DEF Stepped, Effect
<1>16. CASE call'[p] = next /\ u # 0
  <2>1. CallEffect(p)
    BY <1>1, <1>4, <1>6, <1>8, <1>16 DEF CallEffect
  <2>2. bot' = next
    BY <1>6, <1>16 DEF bot
  <2>3. Deleted'
    BY <1>8, <1>16, <2>2 DEF Deleted
  <2>4. MaskRow(bot)' \in db'.mask
    BY <1>8, <1>13, <1>16, <2>2 DEF MaskRow
  <2>5. Seen'
    BY <1>8, <1>16, <2>2, <2>4 DEF Seen
  <2>6. OwnEffect(p)
    BY <1>6, <2>3, <2>5, BotOwn
  <2> QED BY <1>11, <1>13, <1>14, <2>1, <2>6 DEF Stepped, Effect
<1> QED BY <1>13, <1>15, <1>16

LEMMA FindNameStep ==
  ASSUME TypeOK, BotOK, SetupOK, SetupSteady, Tidy, NEW p \in Procs, FindName(p), Untouched
  PROVE  Stepped(p)
<1>1. PICK c : c = call[p]
  OBVIOUS
<1>2. PICK at : at = (IF c.op = "setname" THEN "upd name" ELSE "ins user")
  OBVIOUS
<1>3. PICK ret : ret = IF c.op = "setname" THEN -1 ELSE 0
  OBVIOUS
<1>4. PICK fresh, known, next, strange :
        /\ fresh = Goto(p, at) /\ known = Return(p, ret) /\ strange = {fresh}
        /\ next = (IF Called(c.name) # {} THEN known ELSE fresh)
        /\ Query(p, "find name", Has("user"), next, fresh, strange, db)
        /\ Ask(c.name)
  BY <1>1, <1>2, <1>3 DEF FindName
<1>5. c.at = "find name"
  BY <1>1, <1>4 DEF Query
<1>6. db \in DbType /\ SqlTypeOK /\ Good(p, c) /\ c.name \in Names
  BY <1>1, <1>5, CallGood, Arguments DEF TypeOK
<1>7. raced' \subseteq Names
  BY <1>4, <1>6 DEF Ask, SqlTypeOK
<1>8. ret \in Int
  BY <1>3
<1>9. Good(p, known) /\ Ended(known)
  BY <1>4, <1>8, ReturnEnds
<1>10. at \in Steps /\ (at = "upd name" <=> c.op = "setname") /\ (at = "upd name" \/ at = "ins user")
  BY <1>2 DEF Steps
<1>11. WentTo(c, fresh, at)
  BY <1>1, <1>4, <1>6, <1>10, GotoMoves
<1>12. fresh \in CallType /\ Moved(c, fresh) /\ fresh.at = at
  BY <1>11 DEF WentTo
<1>13. Good(p, fresh)
  <2>1. CASE p = "bot"
    BY <1>5, <1>6, <1>10, <1>12, <2>1 DEF Good, BotCall, Moved, VarSteps, DelSteps, ModeSteps
  <2>2. CASE p = "setup"
    BY <1>5, <1>6, <1>10, <1>12, <2>2
    DEF Good, SetupCall, Moved, VarSteps, BeforeUser, WithUser, ModeSteps
  <2> QED BY <2>1, <2>2 DEF Procs
<1>14. Good(p, next) /\ \A d \in strange : Good(p, d)
  BY <1>4, <1>9, <1>13
<1>15. TypeOK' /\ BotOK' /\ SetupOK'
  BY <1>4, <1>6, <1>7, <1>13, <1>14, QueryTypes
<1>16. Outcome(p, Has("user"), next, fresh, strange, db)
  BY <1>4, <1>6, QueryOutcome
<1>17. /\ db' = db /\ Frame(p)
       /\ call'[p] = fresh \/ Ended(call'[p])
       /\ call'[p] = fresh /\ ~mixed' => conn'[p] = "down" \/ Called(c.name) = {}
  <2>1. CASE call'[p] = next /\ db' = db /\ Frame(p)
    <3>1. CASE Called(c.name) = {}
      BY <1>4, <2>1, <3>1
    <3>2. CASE Called(c.name) # {}
      <4>1. Ended(call'[p]) /\ call'[p].op = "" /\ fresh.op # ""
        <5>1. c.op # ""
          BY <1>5, <1>6 DEF Good, BotCall, SetupCall
        <5> QED BY <1>4, <1>9, <1>12, <2>1, <3>2, <5>1 DEF Ended, Moved
      <4> QED BY <2>1, <4>1
    <3> QED BY <3>1, <3>2
  <2>2. CASE call'[p] = fresh /\ db' = db /\ Frame(p) /\ conn' = conn /\ (conn[p] = "down" \/ ~Has("user"))
    <3>1. ~Has("user") => Called(c.name) = {}
      BY DEF Tidy, Called
    <3> QED BY <2>2, <3>1
  <2>3. CASE (call'[p] = fresh \/ call'[p] = NoCall) /\ db' = db /\ Frame(p) /\ conn'[p] = "down"
    BY <2>3, EndedNoCall DEF Ended
  <2>4. CASE call'[p] \in strange /\ db' = db /\ Frame(p) /\ mixed'
    BY <1>4, <2>4
  <2> QED BY <1>16, <2>1, <2>2, <2>3, <2>4 DEF Outcome
<1>18. RowsEffect(p) /\ UserEffect(p)
  BY <1>17, SameRows
<1>19. raced' = raced \cup {m \in {c.name} : \E q \in Procs : AboutToName(q, m)}
  BY <1>4 DEF Ask
<1>20. CASE Ended(call'[p])
  <2>1. raced \subseteq raced'
    BY <1>19
  <2>2. CallEffect(p) /\ OwnEffect(p)
    BY <1>17, <1>20, <2>1, EndedEffect
  <2> QED BY <1>15, <1>17, <1>18, <2>2 DEF Stepped, Effect
<1>21. CASE call'[p] = fresh
  <2>1. fresh.at # "ins mask" /\ fresh.at \in {"ins user", "upd name"}
    BY <1>10, <1>12
  <2>2. CallEffect(p)
    BY <1>1, <1>5, <1>12, <1>17, <1>19, <1>21, <2>1 DEF CallEffect, Moved
  <2>3. ASSUME p = "bot" PROVE OwnEffect(p)
    <3>1. c.op # "del"
      BY <1>5, <1>6, <2>3 DEF Good, BotCall, DelSteps
    <3> QED BY <1>1, <1>12, <1>21, <2>1, <2>3, <3>1, BotMoves
  <2>4. ASSUME p = "setup" PROVE OwnEffect(p)
    <3>1. setup = c /\ setup' = fresh /\ Frame("setup") /\ db'.tables = db.tables
      BY <1>1, <1>17, <1>21, <2>4 DEF setup
    <3>2. setup'.op = setup.op /\ setup.at = "find name" /\ setup'.at \in {"ins user", "upd name"}
      BY <1>5, <1>12, <2>1, <3>1 DEF Moved
    <3>3. SetupSteady'
      BY <3>1, <3>2, StillSteady DEF BeforeUser
    <3>4. c.uid = 0
      BY <1>5, <1>6, <2>4 DEF Good, SetupCall, WithUser, ModeSteps
    <3>5. OwnerSoFar'
      BY <1>12, <3>1, <3>4 DEF OwnerSoFar, Moved
    <3> QED BY <2>4, <3>3, <3>5, SetupOwn
  <2> QED BY <1>15, <1>17, <1>18, <2>2, <2>3, <2>4 DEF Stepped, Effect, Procs
<1> QED BY <1>17, <1>20, <1>21

LEMMA InsUserStep ==
  ASSUME TypeOK, BotOK, SetupOK, SetupSteady, NEW p \in Procs, InsUser(p), Untouched
  PROVE  Stepped(p)
<1>1. PICK c : c = call[p]
  OBVIOUS
<1>2. PICK u : u = db.last + 1
  OBVIOUS
<1>3. PICK ended : ended = Return(p, IF Owner(c) THEN -1 ELSE 0)
  OBVIOUS
<1> DEFINE With(id) == IF id = 0 THEN ended ELSE [Goto(p, "ins mask") EXCEPT !.uid = id, !.ret = id]
<1>4. PICK x : x = db.user \cup {NewUser(c)}
  OBVIOUS
<1>5. PICK new : new = [db EXCEPT !.user = x, !.last = u]
  OBVIOUS
<1>6. PICK next, failed, strange :
        /\ next = With(u) /\ failed = With(0) /\ strange = {With(id) : id \in 0 .. db.last}
        /\ Query(p, "ins user", Has("user"), next, failed, strange, new)
  BY <1>1, <1>2, <1>3, <1>4, <1>5 DEF InsUser, NewUser
<1>7. c.at = "ins user" /\ raced' = raced /\ db.last < MaxUsers
  BY <1>1, <1>6 DEF Query, InsUser
<1>8. db \in DbType /\ SqlTypeOK /\ Good(p, c) /\ c.name \in Names /\ raced' \subseteq Names
  BY <1>1, <1>7, CallGood, Arguments DEF TypeOK, SqlTypeOK
<1>9. db.last \in Nat /\ u \in Ids /\ u # 0 /\ u \in 0 .. MaxUsers
      /\ \A id \in 0 .. db.last : id \in 0 .. MaxUsers /\ (id # 0 => id \in Ids)
  <2>1. PICK last : last = db.last
    OBVIOUS
  <2>2. last \in 0 .. MaxUsers /\ last < MaxUsers /\ u = last + 1 /\ MaxUsers \in Nat
    BY <1>2, <1>7, <1>8, <2>1, Rows, Constants
  <2>3. last \in Nat /\ u \in Ids /\ u # 0 /\ u \in 0 .. MaxUsers
    BY <2>2 DEF Ids
  <2>4. \A id \in 0 .. last : id \in 0 .. MaxUsers /\ (id # 0 => id \in Ids)
    BY <2>2 DEF Ids
  <2> QED BY <2>1, <2>3, <2>4
<1>10. /\ new \in DbType /\ new.user = x /\ new.last = u /\ new.tables = db.tables
       /\ new.mask = db.mask /\ new.mode = db.mode /\ new.var = db.var /\ new.ban = db.ban
       /\ new.note = db.note
  <2>1. NewUser(c) \in UserType
    BY <1>2, <1>8, <1>9 DEF NewUser, UserType
  <2>2. x \in SUBSET UserType
    BY <1>4, <1>8, <2>1, Rows
  <2> QED BY <1>5, <1>8, <1>9, <2>2 DEF DbType
<1>11. Good(p, ended) /\ Ended(ended) /\ failed = ended
  <2>1. PICK ret : ret = IF Owner(c) THEN -1 ELSE 0
    OBVIOUS
  <2>2. ret \in Int
    BY <2>1
  <2> QED BY <1>3, <1>6, <2>1, <2>2, ReturnEnds
<1>12. /\ p = "bot" => c.op = "add" /\ c.uid = 0 /\ c.mask \in Masks
       /\ p = "setup" => c.op \in {"setup", "owner"} /\ c.uid = 0 /\ c.mask \in Masks
  BY <1>7, <1>8 DEF Good, BotCall, SetupCall, VarSteps, DelSteps, ModeSteps, BeforeUser, WithUser
<1>13. ASSUME NEW id \in Ids, id \in 0 .. MaxUsers, NEW d, d = With(id)
       PROVE  /\ d \in CallType /\ d.at = "ins mask" /\ d.uid = id /\ d.ret = id
              /\ d.op = c.op /\ d.name = c.name /\ d.mask = c.mask /\ d.val = c.val
              /\ Good(p, d)
  <2>1. PICK g : g = Goto(p, "ins mask")
    OBVIOUS
  <2>2. "ins mask" \in Steps
    BY DEF Steps
  <2>3. WentTo(c, g, "ins mask")
    BY <1>1, <1>8, <2>1, <2>2, GotoMoves
  <2>4. d = [g EXCEPT !.uid = id, !.ret = id]
    <3>1. id # 0
      BY <1>13 DEF Ids
    <3> QED BY <1>13, <2>1, <3>1
  <2>5. /\ d \in CallType /\ d.at = "ins mask" /\ d.uid = id /\ d.ret = id
        /\ d.op = c.op /\ d.name = c.name /\ d.mask = c.mask /\ d.val = c.val
    <3>1. id \in Int
      BY <1>13 DEF Ids
    <3> QED BY <1>13, <2>3, <2>4, <3>1 DEF WentTo, Moved, CallType
  <2>6. Good(p, d)
    BY <1>8, <1>12, <1>13, <2>5 DEF Good, BotCall, SetupCall, WithUser, Procs
  <2> QED BY <2>5, <2>6
<1>14. Good(p, next)
  BY <1>6, <1>9, <1>13
<1>15. \A d \in strange : Good(p, d)
  <2>1. SUFFICES ASSUME NEW id \in 0 .. db.last PROVE Good(p, With(id))
    BY <1>6
  <2>2. CASE id = 0
    BY <1>11, <2>2
  <2>3. CASE id # 0
    BY <1>9, <1>13, <2>3
  <2> QED BY <2>2, <2>3
<1>16. TypeOK' /\ BotOK' /\ SetupOK'
  <2>1. Query(p, "ins user", Has("user"), next, failed, strange, new) /\ Good(p, failed)
    BY <1>6, <1>11
  <2> HIDE DEF With
  <2> QED BY <1>8, <1>10, <1>14, <1>15, <2>1, QueryTypes
<1>17. Outcome(p, Has("user"), next, failed, strange, new)
  BY <1>6, <1>8, QueryOutcome
<1>18. /\ Frame(p)
       /\ db' = db \/ (db' = new /\ Has("user") /\ conn[p] = "up")
       /\ \/ Ended(call'[p])
          \/ call'[p] = With(u) /\ db' = new
          \/ p = "bot" /\ mixed' /\ \E id \in 1 .. db.last : call'[p] = With(id)
  <2>1. \A d \in strange : d = ended \/ \E id \in 1 .. db.last : d = With(id)
    <3>1. SUFFICES ASSUME NEW id \in 0 .. db.last, id # 0 PROVE id \in 1 .. db.last
      BY <1>6
    <3> QED BY <1>9, <3>1
  <2> HIDE DEF With
  <2> QED BY <1>6, <1>11, <1>17, <2>1, EndedNoCall DEF Outcome, Ended
<1>19. UserEffect(p)
  BY <1>1, <1>2, <1>4, <1>7, <1>10, <1>18 DEF UserEffect
<1>20. RowsEffect(p)
  BY <1>10, <1>18 DEF RowsEffect
<1>21. db'.tables = db.tables
  BY <1>10, <1>18
<1>22. CASE Ended(call'[p])
  <2>1. CallEffect(p) /\ OwnEffect(p)
    BY <1>7, <1>18, <1>21, <1>22, EndedEffect
  <2> QED BY <1>16, <1>18, <1>19, <1>20, <2>1 DEF Stepped, Effect
<1>23. CASE ~Ended(call'[p])
  <2>1. PICK d : d = call'[p]
    OBVIOUS
  <2>2. PICK id : /\ d = With(id) /\ id \in Ids /\ id \in 0 .. MaxUsers /\ id <= db'.last
                  /\ (id = u /\ db' = new) \/ (p = "bot" /\ mixed')
    <3>1. CASE d = With(u) /\ db' = new
      <4>1. u <= db'.last
        <5>1. db'.last = u /\ u \in Int
          BY <1>9, <1>10, <3>1
        <5> QED BY <5>1
      <4> HIDE DEF With
      <4> QED BY <1>9, <3>1, <4>1
    <3>2. CASE p = "bot" /\ mixed' /\ \E id \in 1 .. db.last : d = With(id)
      <4>1. PICK id \in 1 .. db.last : d = With(id)
        BY <3>2
      <4>2. id \in Ids /\ id \in 0 .. MaxUsers /\ id <= db'.last
        <5>1. id \in 0 .. db.last /\ id # 0
          BY <1>9
        <5>2. id \in Ids /\ id \in 0 .. MaxUsers
          BY <1>9, <5>1
        <5>3. db'.last = db.last \/ db'.last = db.last + 1
          BY <1>2, <1>10, <1>18
        <5>4. id <= db'.last
          BY <1>9, <5>3
        <5> QED BY <5>2, <5>4
      <4> HIDE DEF With
      <4> QED BY <3>2, <4>1, <4>2
    <3> HIDE DEF With
    <3> QED BY <1>18, <1>23, <2>1, <3>1, <3>2
  <2> HIDE DEF With
  <2>3. /\ d.at = "ins mask" /\ d.uid = id /\ d.op = c.op /\ d.name = c.name
        /\ d.mask = c.mask /\ d.val = c.val
    BY <1>13, <2>2
  <2>4. ~mixed' \/ p = "setup" => id = db.last + 1 /\ NewUser(c) \in db'.user
    BY <1>2, <1>4, <1>10, <2>2
  <2>5. c.uid = 0 /\ id # 0
    BY <1>12, <2>2 DEF Procs, Ids
  <2>6. CallEffect(p)
    BY <1>1, <1>7, <2>1, <2>2, <2>3, <2>4, <2>5 DEF CallEffect
  <2>7. ASSUME p = "bot" PROVE OwnEffect(p)
    <3>1. bot' = d /\ d.op = "add"
      BY <1>12, <2>1, <2>3, <2>7 DEF bot
    <3>2. Seen' /\ Deleted'
      BY <2>3, <3>1 DEF Seen, Deleted
    <3> QED BY <2>7, <3>2, BotOwn
  <2>8. ASSUME p = "setup" PROVE OwnEffect(p)
    <3>1. setup = c /\ setup' = d /\ Frame("setup")
      BY <1>1, <1>18, <2>1, <2>8 DEF setup
    <3>2. setup'.op = setup.op /\ setup.at = "ins user" /\ setup'.at = "ins mask"
      BY <1>7, <2>3, <3>1
    <3>3. SetupSteady'
      BY <1>21, <3>1, <3>2, StillSteady DEF BeforeUser
    <3>4. OwnerSoFar'
      BY <2>3, <2>4, <2>8, <3>1 DEF OwnerSoFar, NewUser
    <3> QED BY <2>8, <3>3, <3>4, SetupOwn
  <2> QED BY <1>16, <1>18, <1>19, <1>20, <2>6, <2>7, <2>8 DEF Stepped, Effect, Procs
<1> QED BY <1>22, <1>23

(***************************************************************************)
(* The statements that make the database.                                  *)
(***************************************************************************)
LEMMA CreateDbStep ==
  ASSUME TypeOK, BotOK, SetupOK, SetupSteady, CreateDb
  PROVE  Stepped("setup")
<1>0. PICK p \in Procs : p = "setup"
  BY DEF Procs
<1>1. PICK c : p = "setup" /\ c = call[p]
  BY <1>0
<1>2. PICK next, failed, strange, new :
        /\ next = Goto(p, "check") /\ failed = Return(p, -1) /\ strange = {}
        /\ new = [db EXCEPT !.exists = TRUE]
        /\ Query(p, "create db", ~db.exists, next, failed, strange, new)
  BY <1>1 DEF CreateDb
<1>3. Untouched /\ c.at = "create db" /\ raced' = raced
  BY <1>1, <1>2 DEF CreateDb, Query
<1>4. db \in DbType /\ SqlTypeOK /\ Good(p, c) /\ raced' \subseteq Names
  BY <1>1, <1>3, CallGood DEF TypeOK, SqlTypeOK
<1>5. "check" \in Steps
  BY DEF Steps
<1>6. WentTo(c, next, "check")
  BY <1>1, <1>2, <1>4, <1>5, GotoMoves
<1>7. /\ new \in DbType /\ new.user = db.user /\ new.mask = db.mask /\ new.mode = db.mode
      /\ new.var = db.var /\ new.ban = db.ban /\ new.note = db.note /\ new.last = db.last
      /\ new.tables = db.tables
  BY <1>2, <1>4 DEF DbType
<1>8. c.op = "setup" /\ c.uid = 0
  BY <1>1, <1>3, <1>4 DEF Good, SetupCall, WithUser, ModeSteps, BeforeUser, VarSteps
<1>9. Good(p, next)
  BY <1>1, <1>3, <1>4, <1>6 DEF WentTo, Moved, Good, SetupCall, WithUser, ModeSteps, BeforeUser, VarSteps
<1>10. Good(p, failed) /\ Ended(failed)
  BY <1>2, ReturnFails
<1>11. TypeOK' /\ BotOK' /\ SetupOK'
  <2>1. \A d \in strange : Good(p, d)
    BY <1>2
  <2> QED BY <1>2, <1>3, <1>4, <1>7, <1>9, <1>10, <2>1, QueryTypes
<1>12. Outcome(p, ~db.exists, next, failed, strange, new)
  BY <1>2, <1>3, <1>4, QueryOutcome
<1>13. /\ Frame(p) /\ (db' = db \/ db' = new)
       /\ call'[p] = next \/ Ended(call'[p])
  BY <1>1, <1>10, <1>12, EndedNoCall DEF Outcome, Ended
<1>14. RowsEffect(p) /\ UserEffect(p) /\ db'.tables = db.tables
  BY <1>7, <1>13 DEF RowsEffect, UserEffect
<1>15. CASE Ended(call'[p])
  <2>1. CallEffect(p) /\ OwnEffect(p)
    BY <1>3, <1>13, <1>14, <1>15, EndedEffect
  <2> QED BY <1>1, <1>11, <1>13, <1>14, <2>1 DEF Stepped, Effect
<1>16. CASE call'[p] = next
  <2>1. Moved(c, next) /\ next.at = "check"
    BY <1>6 DEF WentTo
  <2>2. CallEffect(p)
    BY <1>1, <1>3, <1>16, <2>1, MovedEffect
  <2>3. setup = c /\ setup' = next
    BY <1>1, <1>16 DEF setup
  <2>4. SetupSteady'
    BY <1>1, <1>3, <1>13, <1>14, <2>1, <2>3 DEF SetupSteady, Moved, Frame, Has, BeforeUser
  <2>5. OwnerSoFar'
    BY <1>8, <2>1, <2>3 DEF OwnerSoFar, Moved
  <2>6. OwnEffect(p)
    BY <1>1, <2>4, <2>5, SetupOwn
  <2> QED BY <1>1, <1>11, <1>13, <1>14, <2>2, <2>6 DEF Stepped, Effect
<1> QED BY <1>13, <1>15, <1>16

LEMMA CheckTablesStep ==
  ASSUME TypeOK, BotOK, SetupOK, SetupSteady, CheckTables
  PROVE  Stepped("setup")
<1>0. PICK p \in Procs : p = "setup"
  BY DEF Procs
<1>1. PICK c : p = "setup" /\ c = call[p]
  BY <1>0
<1>2. PICK ret, on, next, failed, strange :
        /\ ret = Return(p, -1) /\ on = Goto(p, "count var")
        /\ next = (IF db.user # {} THEN ret ELSE on)
        /\ failed = Goto(p, "begin create") /\ strange = {}
        /\ Query(p, "check", Has("user"), next, failed, strange, db)
  BY <1>1 DEF CheckTables
<1>3. Untouched /\ c.at = "check" /\ raced' = raced
  BY <1>1, <1>2 DEF CheckTables, Query
<1>4. db \in DbType /\ SqlTypeOK /\ Good(p, c) /\ raced' \subseteq Names
  BY <1>1, <1>3, CallGood DEF TypeOK, SqlTypeOK
<1>5. "count var" \in Steps /\ "begin create" \in Steps
  BY DEF Steps
<1>6. WentTo(c, on, "count var") /\ WentTo(c, failed, "begin create")
  <2>1. WentTo(c, on, "count var")
    BY <1>1, <1>2, <1>4, <1>5, GotoMoves
  <2>2. WentTo(c, failed, "begin create")
    BY <1>1, <1>2, <1>4, <1>5, GotoMoves
  <2> QED BY <2>1, <2>2
<1>7. c.op = "setup" /\ c.uid = 0
  BY <1>1, <1>3, <1>4 DEF Good, SetupCall, WithUser, ModeSteps, BeforeUser, VarSteps
<1>8. Good(p, on) /\ Good(p, failed)
  BY <1>1, <1>3, <1>4, <1>6 DEF WentTo, Moved, Good, SetupCall, WithUser, ModeSteps, BeforeUser, VarSteps
<1>9. Good(p, ret) /\ Ended(ret)
  BY <1>2, ReturnFails
<1>10. Good(p, next) /\ next \in {ret, on}
  BY <1>2, <1>8, <1>9
<1>11. TypeOK' /\ BotOK' /\ SetupOK'
  <2>1. \A d \in strange : Good(p, d)
    BY <1>2
  <2> QED BY <1>2, <1>3, <1>4, <1>8, <1>10, <2>1, QueryTypes
<1>12. Outcome(p, Has("user"), next, failed, strange, db)
  BY <1>2, <1>3, <1>4, QueryOutcome
<1>13. /\ Frame(p) /\ db' = db
       /\ call'[p] \in {on, failed} \/ Ended(call'[p])
  <2>1. call'[p] \in {next, failed, NoCall} /\ Frame(p) /\ db' = db
    BY <1>1, <1>12 DEF Outcome
  <2> QED BY <1>9, <1>10, <2>1, EndedNoCall DEF Ended
<1>14. RowsEffect(p) /\ UserEffect(p)
  BY <1>13, SameRows
<1>15. CASE Ended(call'[p])
  <2>1. CallEffect(p) /\ OwnEffect(p)
    BY <1>3, <1>13, <1>15, EndedEffect
  <2> QED BY <1>1, <1>11, <1>13, <1>14, <2>1 DEF Stepped, Effect
<1>16. CASE call'[p] \in {on, failed}
  <2>1. PICK d : d = call'[p]
    OBVIOUS
  <2>2. Moved(c, d) /\ d.at \in {"count var", "begin create"}
    BY <1>6, <1>16, <2>1 DEF WentTo
  <2>3. CallEffect(p)
    BY <1>1, <1>3, <2>1, <2>2, MovedEffect
  <2>4. setup = c /\ setup' = d
    BY <1>1, <2>1 DEF setup
  <2>5. SetupSteady'
    BY <1>1, <1>3, <1>13, <2>2, <2>4 DEF SetupSteady, Moved, Frame, Has, BeforeUser
  <2>6. OwnerSoFar'
    BY <1>7, <2>2, <2>4 DEF OwnerSoFar, Moved
  <2>7. OwnEffect(p)
    BY <1>1, <2>5, <2>6, SetupOwn
  <2> QED BY <1>1, <1>11, <1>13, <1>14, <2>3, <2>7 DEF Stepped, Effect
<1> QED BY <1>13, <1>15, <1>16

LEMMA CreateTableStep ==
  ASSUME TypeOK, BotOK, SetupOK, SetupSteady, CreateTable
  PROVE  Stepped("setup")
<1>0. PICK p \in Procs : p = "setup"
  BY DEF Procs
<1>1. PICK c : p = "setup" /\ c = call[p]
  BY <1>0
<1>2. PICK i, t, next, new :
        /\ i = c.ret /\ t = Schema[i] /\ next = [c EXCEPT !.ret = i + 1]
        /\ new = [db EXCEPT !.tables = db.tables \cup {t}]
        /\ Do(p, "create", t \notin db.tables, next, new)
  BY <1>1 DEF CreateTable
<1>3. Untouched /\ c.at = "create" /\ i <= 6
  BY <1>1, <1>2 DEF CreateTable, Do, Query
<1>4. c \in CallType /\ db \in DbType /\ SqlTypeOK /\ Good(p, c)
  BY <1>1, CallGood DEF TypeOK
<1>5. /\ i \in 1 .. 6
      /\ conn["setup"] = "up" => \A j \in 1 .. i - 1 : Schema[j] \in db.tables
  BY <1>1, <1>2, <1>3 DEF SetupSteady, setup, Has
<1>6. t \in Tables
  BY <1>2, <1>5 DEF Schema, Tables
<1>7. /\ new \in DbType /\ new.user = db.user /\ new.mask = db.mask /\ new.mode = db.mode
      /\ new.var = db.var /\ new.ban = db.ban /\ new.note = db.note /\ new.last = db.last
      /\ new.tables = db.tables \cup {t}
  BY <1>2, <1>4, <1>6 DEF DbType
<1>8. /\ next \in CallType /\ next.at = "create" /\ next.ret = i + 1 /\ Moved(c, next)
      /\ next.key = c.key
  <2>1. i + 1 \in Int
    BY <1>5
  <2> QED BY <1>2, <1>3, <1>4, <2>1 DEF CallType, Moved
<1>9. c.op = "setup" /\ c.uid = 0
  BY <1>1, <1>3, <1>4 DEF Good, SetupCall, WithUser, ModeSteps, BeforeUser, VarSteps
<1>10. Good(p, next)
  BY <1>1, <1>3, <1>4, <1>8 DEF Moved, Good, SetupCall, WithUser, ModeSteps, BeforeUser, VarSteps
<1>11. TypeOK' /\ BotOK' /\ SetupOK'
  BY <1>2, <1>3, <1>7, <1>10, DoTypes
<1>12. DoResult(p, t \notin db.tables, next, new)
  BY <1>2, <1>3, <1>4, DoOutcome
<1>13. Frame(p) /\ raced' = raced
  BY <1>12 DEF DoResult
<1>14. RowsEffect(p) /\ UserEffect(p)
  BY <1>1, <1>7, <1>12 DEF RowsEffect, UserEffect, DoResult
<1>15. /\ db'.tables = db.tables \/ (db'.tables = db.tables \cup {t} /\ conn["setup"] = "up")
       /\ conn'["setup"] = "up" => conn["setup"] = "up" /\ t \in db'.tables
  BY <1>1, <1>7, <1>12 DEF DoResult, Frame
<1>16. /\ Has("ban")' => Has("var")'
       /\ Has("var")' => Has("user")'
       /\ Has("user")' => Has("note")'
       /\ Has("note")' => Has("mode")'
       /\ Has("mode")' => Has("mask")'
  <2>1. CASE db'.tables = db.tables
    BY <2>1 DEF SetupSteady, Has
  <2>2. CASE db'.tables = db.tables \cup {t} /\ conn["setup"] = "up"
    <3>1. \A j \in 1 .. i - 1 : Schema[j] \in db.tables
      BY <1>5, <2>2
    <3>2. /\ Schema[1] = "mask" /\ Schema[2] = "mode" /\ Schema[3] = "note"
          /\ Schema[4] = "user" /\ Schema[5] = "var" /\ Schema[6] = "ban"
      BY DEF Schema
    <3>3. \/ t = "mask"
          \/ t = "mode" /\ "mask" \in db.tables
          \/ t = "note" /\ "mode" \in db.tables
          \/ t = "user" /\ "note" \in db.tables
          \/ t = "var" /\ "user" \in db.tables
          \/ t = "ban" /\ "var" \in db.tables
      <4>1. i = 1 \/ i = 2 \/ i = 3 \/ i = 4 \/ i = 5 \/ i = 6
        BY <1>5
      <4>2. i > 1 => Schema[i - 1] \in db.tables
        BY <1>5, <3>1
      <4> QED BY <1>2, <3>2, <4>1, <4>2
    <3> QED BY <2>2, <3>3 DEF SetupSteady, Has
  <2> QED BY <1>15, <2>1, <2>2
<1>17. CASE Ended(call'[p])
  <2>1. CallEffect(p)
    BY <1>13, <1>17 DEF CallEffect, Ended
  <2>2. SetupSteady' /\ OwnerSoFar'
    BY <1>1, <1>16, <1>17 DEF SetupSteady, OwnerSoFar, Ended, setup, BeforeUser
  <2>3. OwnEffect(p)
    BY <1>1, <2>2, SetupOwn
  <2> QED BY <1>1, <1>11, <1>13, <1>14, <2>1, <2>3 DEF Stepped, Effect
<1>18. CASE call'[p] = next
  <2>1. CallEffect(p)
    BY <1>1, <1>8, <1>13, <1>18, MovedEffect
  <2>2. setup = c /\ setup' = next
    BY <1>1, <1>18 DEF setup
  <2>3. /\ setup'.ret \in 1 .. 7
        /\ conn'["setup"] = "up" => \A j \in 1 .. setup'.ret - 1 : Schema[j] \in db'.tables
    <3>1. i + 1 \in 1 .. 7
      BY <1>5
    <3>2. ASSUME conn'["setup"] = "up", NEW j \in 1 .. i PROVE Schema[j] \in db'.tables
      <4>1. CASE j = i
        BY <1>2, <1>15, <3>2, <4>1
      <4>2. CASE j # i
        <5>1. j \in 1 .. i - 1
          BY <1>5, <4>2
        <5> QED BY <1>5, <1>15, <3>2, <5>1
      <4> QED BY <4>1, <4>2
    <3>3. setup'.ret = i + 1 /\ i + 1 - 1 = i
      BY <1>5, <1>8, <2>2
    <3>4. setup'.ret - 1 = i
      BY <1>5, <3>3
    <3> QED BY <3>1, <3>2, <3>3, <3>4
  <2>4. setup.op = "setup" => made' = 4 /\ config' = "full"
    BY <1>3, <1>13, <2>2 DEF SetupSteady, Frame
  <2>5. SetupSteady'
    BY <1>8, <1>9, <1>16, <2>2, <2>3, <2>4 DEF SetupSteady, Has, BeforeUser
  <2>6. OwnerSoFar'
    BY <1>8, <1>9, <2>2 DEF OwnerSoFar, Moved
  <2>7. OwnEffect(p)
    BY <1>1, <2>5, <2>6, SetupOwn
  <2> QED BY <1>1, <1>11, <1>13, <1>14, <2>1, <2>7 DEF Stepped, Effect
<1>19. call'[p] = next \/ Ended(call'[p])
  BY <1>12 DEF DoResult
<1> QED BY <1>17, <1>18, <1>19

(***************************************************************************)
(* Every statement of one of the processes keeps the invariant.            *)
(***************************************************************************)
LEMMA StatementStep ==
  ASSUME Inv, NEW p \in Procs, Statement(p), Untouched
  PROVE  Stepped(p)
<1>0. /\ TypeOK /\ BotOK /\ SetupOK /\ Tidy /\ SetupSteady /\ OwnerSoFar
      /\ ~mixed => Deleted
  BY DEF Inv
<1>1. CASE FindName(p)
  BY <1>0, <1>1, FindNameStep
<1>2. CASE InsUser(p)
  BY <1>0, <1>2, InsUserStep
<1>3. CASE InsMask(p)
  BY <1>0, <1>3, InsMaskStep
<1>4. CASE UpdPass(p)
  BY <1>0, <1>4, UpdPassStep
<1>5. CASE CountMode(p)
  BY <1>0, <1>5, CountModeStep
<1>6. CASE InsMode(p)
  BY <1>0, <1>6, InsModeStep
<1>7. CASE UpdMode(p)
  BY <1>0, <1>7, UpdModeStep
<1>8. CASE DropMode(p)
  BY <1>0, <1>8, DropModeStep
<1>9. CASE CountVar(p)
  BY <1>0, <1>9, CountVarStep
<1>10. CASE InsVar(p)
  BY <1>0, <1>10, InsVarStep
<1>11. CASE UpdVar(p)
  BY <1>0, <1>11, UpdVarStep
<1>12. CASE DropVar(p)
  BY <1>0, <1>12, DropVarStep
<1>13. CASE CountMask(p)
  BY <1>0, <1>13, CountMaskStep
<1>14. CASE DropMask(p)
  BY <1>0, <1>14, DropMaskStep
<1>15. CASE UpdName(p)
  BY <1>0, <1>15, UpdNameStep
<1>16. CASE FindMask(p)
  BY <1>0, <1>16, FindMaskStep
<1>17. CASE CheckPass(p)
  BY <1>0, <1>17, CheckPassStep
<1>18. CASE CountUvar(p)
  BY <1>0, <1>18, CountUvarStep
<1>19. CASE SelBan(p)
  BY <1>0, <1>19, SelBanStep
<1>20. CASE InsBan(p)
  BY <1>0, <1>20, InsBanStep
<1>21. CASE UpdBan(p)
  BY <1>0, <1>21, UpdBanStep
<1>22. CASE DropBan(p)
  BY <1>0, <1>22, DropBanStep
<1>23. CASE InsNote(p)
  BY <1>0, <1>23, InsNoteStep
<1>24. CASE DropNote(p)
  BY <1>0, <1>24, DropNoteStep
<1>25. CASE DelBans(p)
  BY <1>0, <1>25, DelBansStep
<1>26. CASE DelModes(p)
  BY <1>0, <1>26, DelModesStep
<1>27. CASE DelAuthor(p)
  BY <1>0, <1>27, DelAuthorStep
<1>28. CASE DelTarget(p)
  BY <1>0, <1>28, DelTargetStep
<1>29. CASE DelVars(p)
  BY <1>0, <1>29, DelVarsStep
<1>30. CASE DelMasks(p)
  BY <1>0, <1>30, DelMasksStep
<1>31. CASE DelUser(p)
  BY <1>0, <1>31, DelUserStep
<1> QED
  BY <1>1, <1>2, <1>3, <1>4, <1>5, <1>6, <1>7, <1>8, <1>9, <1>10, <1>11, <1>12, <1>13, <1>14,
     <1>15, <1>16, <1>17, <1>18, <1>19, <1>20, <1>21, <1>22, <1>23, <1>24, <1>25, <1>26, <1>27,
     <1>28, <1>29, <1>30, <1>31 DEF Statement

\* The calls to which the steps belong.
LEMMA BotAt ==
  ASSUME BotOK
  PROVE  /\ bot.at \in {"find mask", "check pass"} => bot.op = "lookup"
         /\ bot.at = "ins user" => bot.op = "add"
         /\ bot.at = "upd name" => bot.op = "setname"
         /\ bot.at = "upd pass" => bot.op = "setpass"
         /\ bot.at = "del user" => bot.op = "del"
         /\ bot.at = "ins note" => bot.op = "addnote"
         /\ bot.at \in {"ins mask", "ins mode", "ins var", "upd var", "ins ban", "upd ban"}
              => bot.op \notin {"del", "delnote", "lookup"}
         /\ bot.op = "" => bot.uid = 0
         /\ bot.op \in {"del", "delmask", "setmode", "setname", "setpass"} => bot.uid # 0
         /\ bot.at = "ins mask" /\ bot.op = "add" => bot.uid # 0
<1>1. 0 \notin Ids
  BY DEF Ids
<1>2. bot.at \in {"find mask", "check pass"} => bot.op = "lookup"
  BY DEF BotOK, BotCall, DelSteps, ModeSteps, VarSteps
<1>3. /\ bot.at = "ins user" => bot.op = "add"
      /\ bot.at = "upd name" => bot.op = "setname"
      /\ bot.at = "upd pass" => bot.op = "setpass"
      /\ bot.at = "del user" => bot.op = "del"
      /\ bot.at = "ins note" => bot.op = "addnote"
  BY DEF BotOK, BotCall, DelSteps, ModeSteps, VarSteps
<1>4. bot.at \in {"ins mask", "ins mode", "ins var", "upd var", "ins ban", "upd ban"}
        => bot.op \notin {"del", "delnote", "lookup"}
  BY DEF BotOK, BotCall, DelSteps, ModeSteps, VarSteps
<1>5. bot.op = "" => bot.uid = 0
  BY DEF BotOK, BotCall
<1>6. bot.op \in {"del", "delmask", "setmode", "setname", "setpass"} => bot.uid # 0
  BY <1>1 DEF BotOK, BotCall
<1>7. bot.at = "ins mask" /\ bot.op = "add" => bot.uid # 0
  BY <1>1 DEF BotOK, BotCall
<1> QED BY <1>2, <1>3, <1>4, <1>5, <1>6, <1>7

LEMMA SetupAt ==
  ASSUME SetupOK
  PROVE  /\ setup.at \notin DelSteps \cup {"upd name", "find mask", "ins note", "ins ban", "upd ban"}
         /\ setup.op \in {"", "setup", "owner"}
         /\ setup.at \in VarSteps => setup.uid = 0
BY DEF SetupOK, SetupCall, DelSteps, ModeSteps, VarSteps, BeforeUser, WithUser

\* What a statement leaves of the users.
LEMMA UsersStay ==
  ASSUME TypeOK, NEW p \in Procs, UserEffect(p)
  PROVE  /\ \A r \in db.user :
              \/ call[p].at = "del user" /\ r.uid = call[p].uid /\ conn[p] = "up"
              \/ \E s \in db'.user : s.uid = r.uid /\ (call[p].at # "upd name" => s.name = r.name)
         /\ \A r \in db'.user :
              \/ \E s \in db.user : r.uid = s.uid /\ (r.name = s.name \/ call[p].at = "upd name")
              \/ call[p].at = "ins user" /\ r = NewUser(call[p])
<1>1. PICK c : c = call[p]
  OBVIOUS
<1>0. db.user \subseteq UserType
  BY DEF TypeOK, SqlTypeOK, DbType
<1>2. CASE db'.user = db.user
  BY <1>2
<1>3. CASE c.at = "ins user" /\ db'.user = db.user \cup {NewUser(c)}
  BY <1>1, <1>3
<1>4. CASE c.at = "upd name" /\ db'.user = Renamed(c)
  <2>1. ASSUME NEW r \in db.user
        PROVE  \E s \in db'.user : s.uid = r.uid
    <3>1. CASE r.uid = c.uid
      <4>1. [r EXCEPT !.name = c.name] \in db'.user
        BY <1>4, <3>1 DEF Renamed
      <4> QED BY <1>0, <4>1 DEF UserType
    <3>2. CASE r.uid # c.uid
      BY <1>4, <3>2 DEF Renamed
    <3> QED BY <3>1, <3>2
  <2>2. \A r \in db'.user : \E s \in db.user : r.uid = s.uid
    BY <1>0, <1>4 DEF Renamed, UserType
  <2> QED BY <1>1, <1>4, <2>1, <2>2
<1>5. CASE c.at = "upd pass" /\ db'.user = Relocked(c)
  <2>1. ASSUME NEW r \in db.user
        PROVE  \E s \in db'.user : s.uid = r.uid /\ s.name = r.name
    <3>1. CASE r.uid = c.uid
      <4>1. [r EXCEPT !.pass = c.pass] \in db'.user
        BY <1>5, <3>1 DEF Relocked
      <4> QED BY <1>0, <4>1 DEF UserType
    <3>2. CASE r.uid # c.uid
      BY <1>5, <3>2 DEF Relocked
    <3> QED BY <3>1, <3>2
  <2>2. \A r \in db'.user : \E s \in db.user : r.uid = s.uid /\ r.name = s.name
    BY <1>0, <1>5 DEF Relocked, UserType
  <2> QED BY <1>1, <1>5, <2>1, <2>2
<1>6. CASE c.at = "del user" /\ conn[p] = "up" /\ db'.user = db.user \ OfUser(db.user, c.uid)
  BY <1>1, <1>6 DEF OfUser
<1> QED BY <1>1, <1>2, <1>3, <1>4, <1>5, <1>6 DEF UserEffect

\* The process that has not made the statement.
LEMMA Frames ==
  ASSUME NEW p \in Procs, Frame(p)
  PROVE  /\ p = "bot" => setup' = setup /\ conn'["setup"] = conn["setup"]
                         /\ alarm'["setup"] = alarm["setup"]
         /\ p = "setup" => bot' = bot /\ conn'["bot"] = conn["bot"]
         /\ p = "bot" => call[p] = bot /\ call'[p] = bot'
         /\ p = "setup" => call[p] = setup /\ call'[p] = setup'
         /\ contested' = contested /\ made' = made /\ config' = config
         /\ mixed => mixed'
         /\ p = "bot" \/ p = "setup"
BY DEF Frame, Becomes, bot, setup, Procs

\* The user of a call stays the same but where it is found or made.
LEMMA SameUser ==
  ASSUME BotOK, SetupOK, BotOK', SetupOK', NEW p \in Procs, Frame(p), CallEffect(p)
  PROVE  /\ p = "bot" => \/ bot'.uid \in {0, bot.uid} /\ bot'.op \in {bot.op, ""}
                         \/ bot.op = "lookup" /\ bot'.op = "lookup" /\ bot'.uid \in UserIds
                         \/ /\ bot.op = "add" /\ bot'.op = "add" /\ bot'.uid <= db'.last
                            /\ ~mixed' => bot'.uid = db.last + 1 /\ NewUser(bot) \in db'.user
         /\ p = "setup" => \/ setup'.uid \in {0, setup.uid}
                           \/ /\ setup.at = "ins user" /\ setup'.uid = db.last + 1
                              /\ setup'.uid <= db'.last /\ NewUser(setup) \in db'.user
<1>1. PICK c, d : c = call[p] /\ d = call'[p]
  OBVIOUS
<1>2. /\ d.op \in {c.op, ""}
      /\ \/ d.uid \in {0, c.uid}
         \/ c.at = "find mask" /\ d.uid \in UserIds
         \/ /\ c.at = "ins user" /\ d.at = "ins mask" /\ d.uid <= db'.last
            /\ ~mixed' \/ p = "setup" => d.uid = db.last + 1 /\ NewUser(c) \in db'.user
  BY <1>1 DEF CallEffect
<1>3. CASE p = "bot"
  <2>1. c = bot /\ d = bot'
    BY <1>1, <1>3, Frames
  <2>2. /\ bot.at = "find mask" => bot.op = "lookup"
        /\ bot.at = "ins user" => bot.op = "add"
        /\ bot'.op = "" => bot'.uid = 0
    <3>1. bot.at = "find mask" => bot.op = "lookup"
      BY BotAt
    <3>2. bot.at = "ins user" => bot.op = "add"
      BY BotAt
    <3>3. bot'.op = "" => bot'.uid = 0
      BY DEF BotOK, BotCall
    <3> QED BY <3>1, <3>2, <3>3
  <2> QED BY <1>2, <1>3, <2>1, <2>2
<1>4. CASE p = "setup"
  <2>1. c = setup /\ d = setup'
    BY <1>1, <1>4, Frames
  <2>2. setup.at # "find mask"
    BY SetupAt
  <2> QED BY <1>2, <1>4, <2>1, <2>2
<1> QED BY <1>3, <1>4 DEF Procs

LEMMA KeepTidy ==
  ASSUME TypeOK, BotOK, SetupOK, Tidy, NEW p \in Procs, Stepped(p)
  PROVE  Tidy'
<1>1. /\ Frame(p) /\ RowsEffect(p) /\ UserEffect(p) /\ CallEffect(p)
      /\ TypeOK' /\ BotOK' /\ SetupOK'
  BY DEF Stepped, Effect
<1>2. PICK c : c = call[p]
  OBVIOUS
<1>3. /\ db.user \subseteq UserType /\ db.last \in 0 .. MaxUsers /\ db'.last \in 0 .. MaxUsers
      /\ bot.uid \in 0 .. MaxUsers /\ setup.uid \in 0 .. MaxUsers
  BY <1>1 DEF TypeOK, SqlTypeOK, DbType, CallType, bot, setup, Procs
<1>4. db.last <= db'.last
  <2>1. db'.last = db.last \/ db'.last = db.last + 1
    BY <1>1 DEF UserEffect
  <2> QED BY <1>3, <2>1, Constants
<1>5. \A r \in db'.user : r.uid <= db'.last
  <2>1. SUFFICES ASSUME NEW r \in db'.user PROVE r.uid <= db'.last
    OBVIOUS
  <2>2. CASE \E s \in db.user : r.uid = s.uid
    <3>1. PICK s \in db.user : r.uid = s.uid
      BY <2>2
    <3>2. s.uid <= db.last /\ s.uid \in Ids
      BY <1>3 DEF Tidy, UserType
    <3> QED BY <1>3, <1>4, <3>1, <3>2, Constants DEF Ids
  <2>3. CASE r \notin db.user /\ c.at = "ins user" /\ r = NewUser(c)
    <3>1. db'.last = db.last + 1
      BY <1>1, <1>2, <2>3 DEF UserEffect
    <3>2. r.uid = db.last + 1
      BY <2>3 DEF NewUser
    <3> QED BY <1>3, <3>1, <3>2, Constants
  <2> QED BY <1>1, <1>2, <2>2, <2>3, UsersStay
<1>6. \A r, s \in db'.user : r.uid = s.uid => r = s
  <2>1. CASE db'.user \subseteq db.user
    BY <2>1 DEF Tidy
  <2>2. CASE db'.user = db.user \cup {NewUser(c)}
    <3>1. NewUser(c).uid = db.last + 1
      BY DEF NewUser
    <3>2. \A r \in db.user : r.uid # NewUser(c).uid
      BY <1>3, <3>1, Constants DEF Tidy, UserType, Ids
    <3> QED BY <2>2, <3>2 DEF Tidy
  <2>3. CASE db'.user = Renamed(c)
    <3>1. \A r \in db'.user : \E s \in db.user :
            r = (IF s.uid = c.uid THEN [s EXCEPT !.name = c.name] ELSE s) /\ r.uid = s.uid
      BY <1>3, <2>3 DEF Renamed, UserType
    <3> QED BY <3>1 DEF Tidy
  <2>4. CASE db'.user = Relocked(c)
    <3>1. \A r \in db'.user : \E s \in db.user :
            r = (IF s.uid = c.uid THEN [s EXCEPT !.pass = c.pass] ELSE s) /\ r.uid = s.uid
      BY <1>3, <2>4 DEF Relocked, UserType
    <3> QED BY <3>1 DEF Tidy
  <2> QED BY <1>1, <1>2, <2>1, <2>2, <2>3, <2>4 DEF UserEffect
<1>7. bot'.uid <= db'.last /\ setup'.uid <= db'.last
  <2>1. /\ bot.uid <= db'.last /\ setup.uid <= db'.last /\ 0 <= db'.last
        /\ \A u \in UserIds : u <= db'.last
    <3>1. \A u \in UserIds : u <= db.last /\ u \in Ids
      BY <1>3 DEF Tidy, UserIds, UserType
    <3>2. bot.uid <= db.last /\ setup.uid <= db.last
      BY DEF Tidy
    <3> QED BY <1>3, <1>4, <3>1, <3>2, Constants DEF Ids
  <2>2. bot'.uid \in {0, bot.uid} \/ bot'.uid \in UserIds \/ bot'.uid <= db'.last
    BY <1>1, SameUser, Frames
  <2>3. setup'.uid \in {0, setup.uid} \/ setup'.uid <= db'.last
    BY <1>1, SameUser, Frames
  <2> QED BY <2>1, <2>2, <2>3
<1>8. \A r \in db'.note : r.author <= db'.last
  <2>1. SUFFICES ASSUME NEW r \in db'.note PROVE r.author <= db'.last
    OBVIOUS
  <2>2. CASE r \in db.note
    <3>1. r.author <= db.last /\ r.author \in Ids
      <4>1. db.note \subseteq NoteType
        BY DEF TypeOK, SqlTypeOK, DbType
      <4> QED BY <2>2, <4>1 DEF Tidy, NoteType
    <3> QED BY <1>3, <1>4, <3>1, Constants DEF Ids
  <2>3. CASE r \notin db.note
    <3>1. r.author = c.uid
      BY <1>1, <1>2, <2>3 DEF RowsEffect
    <3>2. c.uid <= db.last /\ c.uid \in 0 .. MaxUsers
      BY <1>2, <1>3 DEF Tidy, bot, setup, Procs
    <3> QED BY <1>3, <1>4, <3>1, <3>2, Constants
  <2> QED BY <2>2, <2>3
<1>9. db'.user # {} => Has("user")'
  BY <1>1 DEF UserEffect, RowsEffect, Tidy, Has
<1>10. /\ db'.mask # {} => Has("mask")'
       /\ db'.mode # {} => Has("mode")'
       /\ db'.var # {} => Has("var")'
       /\ db'.ban # {} => Has("ban")'
       /\ db'.note # {} => Has("note")'
  BY <1>1 DEF RowsEffect, Tidy, Has
<1> QED BY <1>5, <1>6, <1>7, <1>8, <1>9, <1>10 DEF Tidy

LEMMA KeepSteady ==
  ASSUME SetupSteady, NEW p \in Procs, Stepped(p)
  PROVE  SetupSteady'
<1>1. Frame(p) /\ RowsEffect(p) /\ OwnEffect(p)
  BY DEF Stepped, Effect
<1>2. CASE p = "setup"
  BY <1>1, <1>2 DEF OwnEffect
<1>3. CASE p = "bot"
  <2>1. /\ setup' = setup /\ conn'["setup"] = conn["setup"] /\ made' = made /\ config' = config
        /\ db'.tables = db.tables
    BY <1>1, <1>3, Frames DEF RowsEffect
  <2> QED BY <2>1 DEF SetupSteady, Has
<1> QED BY <1>2, <1>3 DEF Procs

LEMMA KeepApart ==
  ASSUME TypeOK, BotOK, SetupOK, Tidy, Apart, NEW p \in Procs, Stepped(p)
  PROVE  Apart'
<1>1. Frame(p) /\ CallEffect(p) /\ BotOK' /\ SetupOK'
  BY DEF Stepped, Effect
<1>2. SUFFICES ASSUME bot'.uid # 0, bot'.uid = setup'.uid, bot'.op \notin {"add", "lookup"}
               PROVE  bot'.uid \in contested'
  BY DEF Apart
<1>3. CASE p = "bot"
  <2>1. setup' = setup /\ contested' = contested
    BY <1>1, <1>3, Frames
  <2>2. bot'.uid \in {0, bot.uid} /\ bot'.op \in {bot.op, ""}
    BY <1>1, <1>2, <1>3, SameUser
  <2>3. bot'.op = "" => bot'.uid = 0
    BY <1>1 DEF BotOK, BotCall
  <2> QED BY <1>2, <2>1, <2>2, <2>3 DEF Apart
<1>4. CASE p = "setup"
  <2>1. bot' = bot /\ contested' = contested
    BY <1>1, <1>4, Frames
  <2>2. setup'.uid \in {0, setup.uid} \/ setup'.uid = db.last + 1
    BY <1>1, <1>4, SameUser
  <2>3. bot.uid # db.last + 1
    <3>1. bot.uid \in 0 .. MaxUsers /\ db.last \in 0 .. MaxUsers
      BY DEF TypeOK, SqlTypeOK, DbType, CallType, bot, Procs
    <3>2. bot.uid <= db.last
      BY DEF Tidy
    <3> QED BY <3>1, <3>2, Constants
  <2> QED BY <1>2, <2>1, <2>2, <2>3 DEF Apart
<1> QED BY <1>3, <1>4 DEF Procs

LEMMA KeepSeen ==
  ASSUME SetupOK, Seen, NEW p \in Procs, Stepped(p)
  PROVE  Seen'
<1>1. Frame(p) /\ RowsEffect(p) /\ OwnEffect(p)
  BY DEF Stepped, Effect
<1>2. CASE p = "bot"
  BY <1>1, <1>2 DEF OwnEffect
<1>3. CASE p = "setup"
  <2>1. bot' = bot /\ call[p] = setup
    BY <1>1, <1>3, Frames
  <2>2. setup.op \in {"", "setup", "owner"}
    BY SetupAt
  <2>3. db.mask \subseteq db'.mask /\ db.mode \subseteq db'.mode /\ db'.ban = db.ban
    BY <1>1, <1>3, <2>1, <2>2 DEF RowsEffect
  <2>4. VarRows(bot) # {} => VarRows(bot)' # {}
    <3>1. \A r \in db.var : \E s \in db'.var : s.uid = r.uid /\ s.name = r.name
      BY <1>1, <1>3 DEF RowsEffect
    <3> QED BY <2>1, <3>1 DEF VarRows
  <2> QED BY <2>1, <2>3, <2>4 DEF Seen, BansOn, ModeRow, MaskRow
<1> QED BY <1>2, <1>3 DEF Procs

LEMMA KeepOwner ==
  ASSUME TypeOK, BotOK, SetupOK, Apart, OwnerSoFar, NEW p \in Procs, Stepped(p)
  PROVE  OwnerSoFar'
<1>1. Frame(p) /\ RowsEffect(p) /\ UserEffect(p) /\ OwnEffect(p)
  BY DEF Stepped, Effect
<1>2. CASE p = "setup"
  BY <1>1, <1>2 DEF OwnEffect
<1>3. CASE p = "bot"
  <2>1. /\ setup' = setup /\ alarm'["setup"] = alarm["setup"] /\ contested' = contested
        /\ call[p] = bot
    BY <1>1, <1>3, Frames
  <2>2. SUFFICES ASSUME setup.uid # 0, setup.uid \notin contested, ~alarm["setup"]
                 PROVE  /\ [uid |-> setup.uid, name |-> setup.name, pass |-> FALSE] \in db'.user
                        /\ setup.at # "ins mask" => MaskRow(setup) \in db'.mask
                        /\ setup.at \in {"upd mode", "upd pass"} => ModeRow(setup) \in db'.mode
    BY <2>1 DEF OwnerSoFar, MaskRow, ModeRow
  <2>3. bot.op \in {"del", "delmask", "setmode", "setname", "setpass"} => bot.uid # setup.uid
    BY <2>2 DEF Apart
  <2>4. PICK r : r = [uid |-> setup.uid, name |-> setup.name, pass |-> FALSE]
    OBVIOUS
  <2>5. r \in db.user /\ r.uid = setup.uid
    BY <2>2, <2>4 DEF OwnerSoFar
  <2>6. r \in db'.user
    <3>1. CASE db.user \subseteq db'.user
      BY <2>5, <3>1
    <3>2. CASE bot.at = "upd name" /\ db'.user = Renamed(bot)
      <4>1. r.uid # bot.uid
        BY <2>3, <2>5, <3>2, BotAt
      <4> QED BY <2>5, <3>2, <4>1 DEF Renamed
    <3>3. CASE bot.at = "upd pass" /\ db'.user = Relocked(bot)
      <4>1. r.uid # bot.uid
        BY <2>3, <2>5, <3>3, BotAt
      <4> QED BY <2>5, <3>3, <4>1 DEF Relocked
    <3>4. CASE bot.at = "del user" /\ db'.user = db.user \ OfUser(db.user, bot.uid)
      <4>1. r.uid # bot.uid
        BY <2>3, <2>5, <3>4, BotAt
      <4> QED BY <2>5, <3>4, <4>1 DEF OfUser
    <3> QED BY <1>1, <2>1, <3>1, <3>2, <3>3, <3>4 DEF UserEffect
  <2>7. setup.at # "ins mask" => MaskRow(setup) \in db'.mask
    <3>1. \A m \in db.mask \ db'.mask : m.uid = bot.uid /\ bot.op \in {"del", "delmask"}
      BY <1>1, <2>1 DEF RowsEffect
    <3>2. MaskRow(setup).uid = setup.uid
      BY DEF MaskRow
    <3>3. setup.at # "ins mask" => MaskRow(setup) \in db.mask
      BY <2>2 DEF OwnerSoFar
    <3> QED BY <2>3, <3>1, <3>2, <3>3
  <2>8. setup.at \in {"upd mode", "upd pass"} => ModeRow(setup) \in db'.mode
    <3>1. \A m \in db.mode \ db'.mode : m.uid = bot.uid /\ bot.op \in {"del", "setmode"}
      BY <1>1, <2>1 DEF RowsEffect
    <3>2. ModeRow(setup).uid = setup.uid
      BY DEF ModeRow
    <3>3. setup.at \in {"upd mode", "upd pass"} => ModeRow(setup) \in db.mode
      BY <2>2 DEF OwnerSoFar
    <3> QED BY <2>3, <3>1, <3>2, <3>3
  <2> QED BY <2>4, <2>6, <2>7, <2>8
<1> QED BY <1>2, <1>3 DEF Procs

LEMMA KeepDeleted ==
  ASSUME BotOK, SetupOK, Apart, Deleted, NEW p \in Procs, Stepped(p), ~mixed'
  PROVE  Deleted'
<1>1. Frame(p) /\ RowsEffect(p) /\ OwnEffect(p)
  BY DEF Stepped, Effect
<1>2. CASE p = "bot"
  BY <1>1, <1>2 DEF OwnEffect
<1>3. CASE p = "setup"
  <2>1. bot' = bot /\ conn'["bot"] = conn["bot"] /\ contested' = contested /\ call[p] = setup
    BY <1>1, <1>3, Frames
  <2>2. SUFFICES ASSUME bot.op = "del", bot.uid \notin contested, conn["bot"] = "up"
                 PROVE  Deleted'
    BY <2>1 DEF Deleted
  <2>3. setup.uid # bot.uid
    BY <2>2, BotAt DEF Apart
  <2>4. setup.at # "ins note"
    BY SetupAt
  <2>5. /\ \A r \in db'.ban : r \in db.ban
        /\ \A r \in db'.mode : r \in db.mode \/ r.uid # bot.uid
        /\ \A r \in db'.note : r \in db.note
        /\ \A r \in db'.var : r \in db.var \/ r.uid # bot.uid
        /\ \A r \in db'.mask : r \in db.mask \/ r.uid # bot.uid
    BY <1>1, <1>3, <2>1, <2>3, <2>4 DEF RowsEffect
  <2> QED BY <2>1, <2>2, <2>5 DEF Deleted
<1> QED BY <1>2, <1>3 DEF Procs

LEMMA KeepPresent ==
  ASSUME TypeOK, BotOK, SetupOK, Apart, Present, NEW p \in Procs, Stepped(p), ~mixed'
  PROVE  Present'
<1>1. /\ Frame(p) /\ UserEffect(p) /\ CallEffect(p)
      /\ BotOK' /\ SetupOK'
  BY DEF Stepped, Effect
<1>2. PICK c, d : c = call[p] /\ d = call'[p]
  OBVIOUS
<1>3. \A r \in db.user :
        \/ c.at = "del user" /\ r.uid = c.uid
        \/ \E s \in db'.user : s.uid = r.uid /\ (c.at # "upd name" => s.name = r.name)
  BY ZenonT(30), <1>1, <1>2, UsersStay
<1>4. \A u \in UserIds : u \in UserIds' \/ (c.at = "del user" /\ u = c.uid)
  <2>1. SUFFICES ASSUME NEW r \in db.user
                 PROVE  r.uid \in UserIds' \/ (c.at = "del user" /\ r.uid = c.uid)
    BY DEF UserIds
  <2>2. (\E s \in db'.user : s.uid = r.uid) => r.uid \in UserIds'
    BY DEF UserIds
  <2> QED BY <1>3, <2>2
<1>5. NewUser(c).uid = db.last + 1 /\ NewUser(c).name = c.name
  BY DEF NewUser
<1>6. CASE p = "setup"
  <2>1. bot' = bot /\ contested' = contested /\ c = setup
    BY <1>1, <1>2, <1>6, Frames
  <2>2. setup.at # "del user" /\ setup.at # "upd name"
    BY SetupAt DEF DelSteps
  <2>3. UserIds \subseteq UserIds'
    BY <1>4, <2>1, <2>2
  <2>4. \A r \in db.user : \E s \in db'.user : s.uid = r.uid /\ s.name = r.name
    BY <1>3, <2>1, <2>2
  <2>5. setup'.uid # 0 => setup'.uid \in UserIds' \cup contested'
    <3>1. setup'.uid \in {0, setup.uid} \/ (setup'.uid = db.last + 1 /\ NewUser(setup) \in db'.user)
      BY <1>1, <1>6, SameUser
    <3>2. setup'.uid = db.last + 1 /\ NewUser(setup) \in db'.user => setup'.uid \in UserIds'
      BY <1>5, <2>1 DEF UserIds
    <3> QED BY <2>1, <2>3, <3>1, <3>2 DEF Present
  <2> QED BY <2>1, <2>3, <2>4, <2>5 DEF Present
<1>7. CASE p = "bot"
  <2>1. /\ setup' = setup /\ contested' = contested /\ c = bot /\ d = bot'
    BY <1>1, <1>2, <1>7, Frames
  <2>2. bot.op # "del" => UserIds \subseteq UserIds'
    BY <1>4, <2>1, BotAt
  <2>3. /\ bot'.op \in {bot.op, ""}
        /\ bot'.op # "" => bot'.name = bot.name /\ bot'.val = bot.val
        /\ bot'.at = "ins mask" /\ bot'.op = "add" => bot'.uid # bot.uid
    BY <1>1, <1>2, <2>1 DEF CallEffect
  <2>4. \/ bot'.uid \in {0, bot.uid} /\ bot'.op \in {bot.op, ""}
        \/ bot'.op = "lookup"
        \/ bot.op = "add" /\ bot'.op = "add" /\ NewUser(bot) \in db'.user /\ bot'.uid = db.last + 1
    BY <1>1, <1>7, SameUser
  <2>5. /\ bot'.op = "" => bot'.uid = 0
        /\ bot'.at = "ins mask" /\ bot'.op = "add" => bot'.uid # 0
    <3>1. 0 \notin Ids
      BY DEF Ids
    <3> QED BY <1>1, <3>1 DEF BotOK, BotCall
  <2>6. bot'.uid # 0 /\ bot'.op \notin {"del", "delnote", "lookup"} => bot'.uid \in UserIds'
    <3>1. SUFFICES ASSUME bot'.uid # 0, bot'.op \notin {"del", "delnote", "lookup"}
                   PROVE  bot'.uid \in UserIds'
      OBVIOUS
    <3>2. CASE bot'.uid = bot.uid /\ bot'.op = bot.op
      BY <2>2, <3>1, <3>2 DEF Present
    <3>3. CASE NewUser(bot) \in db'.user /\ bot'.uid = db.last + 1
      BY <1>5, <2>1, <3>3 DEF UserIds
    <3> QED BY <2>4, <2>5, <3>1, <3>2, <3>3
  <2>7. bot'.op = "addnote" => bot'.val \in UserIds'
    BY <2>2, <2>3 DEF Present
  <2>8. bot'.op = "add" /\ bot'.at = "ins mask"
          => \E r \in db'.user : r.uid = bot'.uid /\ r.name = bot'.name
    BY <1>5, <2>1, <2>3, <2>4, <2>5
  <2>9. setup.uid # 0 => setup.uid \in UserIds' \cup contested
    <3>1. SUFFICES ASSUME setup.uid # 0, setup.uid \notin contested
                   PROVE  setup.uid \in UserIds'
      OBVIOUS
    <3>2. bot.op = "del" => bot.uid # setup.uid
      BY <3>1 DEF Apart
    <3>3. bot.at = "del user" => bot.op = "del"
      BY BotAt
    <3> QED BY <1>4, <2>1, <3>1, <3>2, <3>3 DEF Present
  <2> QED BY <2>1, <2>6, <2>7, <2>8, <2>9 DEF Present
<1> QED BY <1>6, <1>7 DEF Procs

LEMMA KeepFree ==
  ASSUME TypeOK, NamesFree, NEW p \in Procs, Stepped(p), ~mixed'
  PROVE  NamesFree'
<1>1. Frame(p) /\ UserEffect(p) /\ CallEffect(p)
  BY DEF Stepped, Effect
<1>2. PICK c, d : c = call[p] /\ d = call'[p]
  OBVIOUS
<1>3. /\ raced \subseteq raced'
      /\ \A q \in Procs \ {p} : call'[q] = call[q] /\ conn'[q] = conn[q]
  BY <1>1 DEF CallEffect, Frame, Becomes
<1>4. ASSUME NEW n, AboutToName(p, n)'
      PROVE  /\ n \in raced' \/ conn'[p] = "down" \/ Called(n)' = {}
             /\ \A q \in Procs \ {p} : AboutToName(q, n) => n \in raced'
  <2>1. d.name = n /\ d.at \in {"ins user", "upd name"}
    BY <1>2, <1>4 DEF AboutToName
  <2>2. /\ d.name = c.name /\ db' = db
        /\ raced' = raced \cup {m \in {c.name} : \E q \in Procs : AboutToName(q, m)}
        /\ conn'[p] = "down" \/ Called(c.name) = {}
    BY <1>1, <1>2, <2>1 DEF CallEffect
  <2> QED BY <2>1, <2>2 DEF Called
<1>5. ASSUME NEW q \in Procs \ {p}, NEW n \in Names, AboutToName(q, n)
      PROVE  n \in raced' \/ conn'[q] = "down" \/ Called(n)' = {}
  <2>1. CASE Called(n) # {}
    BY <1>3, <1>5, <2>1 DEF NamesFree
  <2>2. CASE AboutToName(p, n)
    <3>1. n \in raced
      BY <1>5, <2>2 DEF NamesFree, Procs
    <3> QED BY <1>3, <3>1
  <2>3. CASE Called(n) = {} /\ ~AboutToName(p, n)
    <3>1. \A r \in db'.user : r.name # n
      <4>1. \A r \in db'.user : (\E s \in db.user : r.name = s.name)
                                  \/ (c.at \in {"ins user", "upd name"} /\ r.name = c.name)
        <5>1. db.user \subseteq UserType
          BY DEF TypeOK, SqlTypeOK, DbType
        <5>2. CASE db'.user \subseteq db.user \/ (db'.user = db.user \cup {NewUser(c)} /\ c.at = "ins user")
          <6>1. NewUser(c).name = c.name
            BY DEF NewUser
          <6> QED BY <5>2, <6>1
        <5>3. CASE c.at = "upd name" /\ db'.user = Renamed(c)
          BY <5>1, <5>3 DEF Renamed, UserType
        <5>4. CASE db'.user = Relocked(c)
          BY <5>1, <5>4 DEF Relocked, UserType
        <5> QED BY <1>1, <1>2, <5>2, <5>3, <5>4 DEF UserEffect
      <4> QED BY <1>2, <2>3, <4>1 DEF Called, AboutToName
    <3> QED BY <3>1 DEF Called
  <2> QED BY <2>1, <2>2, <2>3
<1>6. ASSUME NEW q \in Procs, NEW n \in Names, AboutToName(q, n)'
      PROVE  n \in raced' \/ conn'[q] = "down" \/ Called(n)' = {}
  <2>1. CASE q = p
    BY <1>4, <1>6, <2>1
  <2>2. CASE q # p
    <3>1. AboutToName(q, n)
      BY <1>3, <1>6, <2>2 DEF AboutToName
    <3> QED BY <1>5, <2>2, <3>1
  <2> QED BY <2>1, <2>2
<1>7. ASSUME NEW n \in Names, AboutToName("bot", n)', AboutToName("setup", n)'
      PROVE  n \in raced'
  <2>1. PICK q \in Procs : q # p /\ AboutToName(q, n)'
    BY <1>7 DEF Procs
  <2>2. AboutToName(q, n)
    BY <1>3, <2>1 DEF AboutToName
  <2>3. AboutToName(p, n)'
    BY <1>7 DEF Procs
  <2> QED BY <1>4, <2>1, <2>2, <2>3
<1> QED BY <1>6, <1>7 DEF NamesFree

LEMMA KeepUnique ==
  ASSUME TypeOK, BotOK, SetupOK, Tidy, NamesFree, NamesUnique, ~mixed, NEW p \in Procs, Stepped(p)
  PROVE  NamesUnique'
<1>1. Frame(p) /\ UserEffect(p) /\ CallEffect(p)
  BY DEF Stepped, Effect
<1>2. PICK c : c = call[p]
  OBVIOUS
<1>3. raced \subseteq raced' /\ db.user \subseteq UserType
  BY <1>1 DEF CallEffect, TypeOK, SqlTypeOK, DbType
<1>4. c.at \in {"ins user", "upd name"} /\ conn[p] = "up" /\ Called(c.name) # {} => c.name \in raced
  <2>1. c.at \in {"ins user", "upd name"} => c.name \in Names
    BY <1>2, Arguments
  <2> QED BY <1>2, <2>1 DEF NamesFree, AboutToName
<1>5. SUFFICES ASSUME NEW r \in db'.user, NEW s \in db'.user, r.name = s.name, r # s
               PROVE  r.name \in raced
  BY <1>3 DEF NamesUnique
<1>6. CASE db'.user \subseteq db.user
  BY <1>5, <1>6 DEF NamesUnique
<1>7. CASE c.at = "ins user" /\ conn[p] = "up" /\ db'.user = db.user \cup {NewUser(c)}
  <2>1. CASE r \in db.user /\ s \in db.user
    BY <1>5, <2>1 DEF NamesUnique
  <2>2. CASE r \notin db.user \/ s \notin db.user
    <3>1. r.name = c.name /\ (r \in db.user \/ s \in db.user)
      <4>1. NewUser(c).name = c.name
        BY DEF NewUser
      <4> QED BY <1>5, <1>7, <2>2, <4>1
    <3>2. Called(c.name) # {}
      BY <1>5, <3>1 DEF Called
    <3> QED BY <1>4, <1>7, <3>1, <3>2
  <2> QED BY <2>1, <2>2
<1>8. CASE c.at = "upd name" /\ conn[p] = "up" /\ db'.user = Renamed(c)
  <2>1. PICK a \in db.user, b \in db.user :
          /\ r = IF a.uid = c.uid THEN [a EXCEPT !.name = c.name] ELSE a
          /\ s = IF b.uid = c.uid THEN [b EXCEPT !.name = c.name] ELSE b
    BY <1>5, <1>8 DEF Renamed
  <2>2. /\ a.uid = c.uid => r.name = c.name
        /\ a.uid # c.uid => r = a
        /\ b.uid = c.uid => s.name = c.name
        /\ b.uid # c.uid => s = b
    BY <1>3, <2>1 DEF UserType
  <2>3. CASE a.uid # c.uid /\ b.uid # c.uid
    BY <1>5, <2>2, <2>3 DEF NamesUnique
  <2>4. CASE a.uid = c.uid /\ b.uid = c.uid
    BY <1>5, <2>1, <2>4 DEF Tidy
  <2>5. CASE (a.uid = c.uid) # (b.uid = c.uid)
    <3>1. r.name = c.name /\ (a.name = c.name \/ b.name = c.name)
      BY <1>5, <2>2, <2>5
    <3>2. Called(c.name) # {}
      BY <3>1 DEF Called
    <3> QED BY <1>4, <1>8, <3>1, <3>2
  <2> QED BY <2>3, <2>4, <2>5
<1>9. CASE db'.user = Relocked(c)
  <2>1. PICK a \in db.user, b \in db.user :
          /\ r = IF a.uid = c.uid THEN [a EXCEPT !.pass = c.pass] ELSE a
          /\ s = IF b.uid = c.uid THEN [b EXCEPT !.pass = c.pass] ELSE b
    BY <1>5, <1>9 DEF Relocked
  <2>2. r.name = a.name /\ s.name = b.name /\ a # b
    BY <1>3, <1>5, <2>1 DEF UserType
  <2> QED BY <1>5, <2>2 DEF NamesUnique
<1> QED BY <1>1, <1>2, <1>6, <1>7, <1>8, <1>9 DEF UserEffect

LEMMA KeepRows ==
  ASSUME TypeOK, BotOK, SetupOK, Apart, Deleted, Present, RowsHaveUsers, ~mixed,
         NEW p \in Procs, Stepped(p)
  PROVE  RowsHaveUsers'
<1>1. Frame(p) /\ RowsEffect(p) /\ UserEffect(p)
  BY DEF Stepped, Effect
<1>2. PICK c : c = call[p]
  OBVIOUS
<1>3. PICK owners : owners = UserIds \cup {0} \cup contested
  OBVIOUS
<1>4. contested' = contested
  BY <1>1, Frames
\* What is deleted with the user has no rows any more.
<1>5. ASSUME NEW u \in owners, u \notin UserIds' \cup {0} \cup contested'
      PROVE  /\ c.at = "del user" /\ u = c.uid
             /\ \A r \in db.mask \cup db.ban : r.uid # u
             /\ \A r \in db.mode : r.uid # u
             /\ \A r \in db.var : r.uid # u
             /\ \A r \in db.note : r.author # u /\ r.target # u
  <2>1. PICK r \in db.user : r.uid = u
    BY <1>3, <1>4, <1>5 DEF UserIds
  <2>2. ~\E s \in db'.user : s.uid = u
    BY <1>5 DEF UserIds
  <2>3. c.at = "del user" /\ u = c.uid /\ conn[p] = "up"
    BY <1>1, <1>2, <2>1, <2>2, UsersStay
  <2>4. p = "bot" /\ c = bot
    <3>1. p = "setup" => c = setup
      BY <1>1, <1>2, Frames
    <3>2. setup.at # "del user"
      BY SetupAt DEF DelSteps
    <3> QED BY <1>1, <1>2, <2>3, <3>1, <3>2, Frames
  <2>5. bot.op = "del" /\ bot.at = "del user" /\ bot.uid \notin contested /\ conn["bot"] = "up"
    BY <1>4, <1>5, <2>3, <2>4, BotAt
  <2> QED BY <2>3, <2>4, <2>5 DEF Deleted
\* The rows that are added belong to the user of the call.
<1>6. c.at \in {"ins mask", "ins mode", "ins var", "upd var", "ins ban", "upd ban", "ins note"}
        => c.uid \in UserIds' \cup {0} \cup contested'
  <2>1. CASE p = "bot"
    <3>1. c = bot
      BY <1>1, <1>2, <2>1, Frames
    <3>2. bot.at = "ins note" => bot.op = "addnote"
      BY BotAt
    <3>3. bot.at \in {"ins mask", "ins mode", "ins var", "upd var", "ins ban", "upd ban"}
            => bot.op \notin {"del", "delnote", "lookup"}
      BY BotAt
    <3> QED BY <1>3, <1>5, <3>1, <3>2, <3>3 DEF Present
  <2>2. CASE p = "setup"
    <3>1. c = setup
      BY <1>1, <1>2, <2>2, Frames
    <3> QED BY <1>3, <1>5, <3>1 DEF Present
  <2> QED BY <2>1, <2>2 DEF Procs
<1>7. c.at = "ins note" => c.uid \in UserIds' \cup contested' /\ c.val \in UserIds' \cup contested'
  <2>1. SUFFICES ASSUME c.at = "ins note"
                 PROVE  c.uid \in UserIds' \cup contested' /\ c.val \in UserIds' \cup contested'
    OBVIOUS
  <2>2. p = "bot" /\ c = bot
    <3>1. p = "setup" => c = setup
      BY <1>1, <1>2, Frames
    <3>2. setup.at # "ins note"
      BY SetupAt
    <3> QED BY <1>1, <1>2, <2>1, <3>1, <3>2, Frames
  <2>3. bot.val \in UserIds
    BY <2>1, <2>2, BotAt DEF Present
  <2>4. c.uid # 0 /\ c.val # 0
    <3>1. c.uid \in Ids /\ c.val \in Ids
      BY <1>2, <2>1, Arguments
    <3> QED BY <3>1 DEF Ids
  <2> QED BY <1>3, <1>5, <1>6, <2>1, <2>2, <2>3, <2>4
<1>8. ~mixed => \A r \in db.mask \cup db.ban : r.uid \in owners
  BY <1>3 DEF RowsHaveUsers
<1>9. /\ \A r \in db.mode : r.uid \in owners
      /\ \A r \in db.var : r.uid \in owners
      /\ \A r \in db.note : /\ r.author \in UserIds \cup contested
                            /\ r.target \in UserIds \cup contested
  BY <1>3 DEF RowsHaveUsers
<1>10. \A r \in db'.mask \cup db'.ban : r.uid \in UserIds' \cup {0} \cup contested'
  BY <1>1, <1>2, <1>5, <1>6, <1>8 DEF RowsEffect
<1>11. \A r \in db'.mode : r.uid \in UserIds' \cup {0} \cup contested'
  BY <1>1, <1>2, <1>5, <1>6, <1>9 DEF RowsEffect
<1>12. \A r \in db'.var : r.uid \in UserIds' \cup {0} \cup contested'
  BY <1>1, <1>2, <1>5, <1>6, <1>9 DEF RowsEffect
<1>13. ASSUME NEW r \in db'.note
       PROVE  r.author \in UserIds' \cup contested' /\ r.target \in UserIds' \cup contested'
  <2>1. CASE r \in db.note
    <3>1. db.note \subseteq NoteType
      BY DEF TypeOK, SqlTypeOK, DbType
    <3>2. r.author # 0 /\ r.target # 0
      BY <2>1, <3>1 DEF NoteType, Ids
    <3> QED BY <1>3, <1>5, <1>9, <2>1, <3>2
  <2>2. CASE r \notin db.note
    BY <1>1, <1>2, <1>7, <1>13, <2>2 DEF RowsEffect
  <2> QED BY <2>1, <2>2
<1> QED BY <1>10, <1>11, <1>12, <1>13 DEF RowsHaveUsers

LEMMA SteppedKeeps ==
  ASSUME Inv, NEW p \in Procs, Stepped(p)
  PROVE  Inv'
<1>1. /\ TypeOK /\ BotOK /\ SetupOK /\ Tidy /\ SetupSteady /\ Apart /\ Seen /\ OwnerSoFar
      /\ ~mixed => Deleted /\ Present /\ NamesFree /\ NamesUnique /\ RowsHaveUsers
  BY DEF Inv
<1>2. TypeOK' /\ BotOK' /\ SetupOK'
  BY DEF Stepped
<1>3. Tidy' /\ SetupSteady' /\ Apart' /\ Seen' /\ OwnerSoFar'
  BY <1>1, KeepTidy, KeepSteady, KeepApart, KeepSeen, KeepOwner
<1>4. ASSUME ~mixed'
      PROVE  Deleted' /\ Present' /\ NamesFree' /\ NamesUnique' /\ RowsHaveUsers'
  <2>1. ~mixed
    BY <1>4, Frames DEF Stepped, Effect
  <2> QED BY <1>1, <1>4, <2>1, KeepDeleted, KeepPresent, KeepFree, KeepUnique, KeepRows
<1> QED BY <1>2, <1>3, <1>4 DEF Inv

(***************************************************************************)
(* The steps that are no statements.                                       *)
(***************************************************************************)
LEMMA CallTypes ==
  ASSUME TypeOK, NEW p \in Procs, NEW d \in CallType, Become(p, d)
  PROVE  call' \in [Procs -> CallType] /\ Becomes(p, d)
BY BecomeBecomes DEF TypeOK, SqlTypeOK, Becomes

LEMMA LastType ==
  ASSUME TypeOK
  PROVE  db.last \in 0 .. MaxUsers /\ 0 <= db.last
<1>1. db.last \in 0 .. MaxUsers
  BY DEF TypeOK, SqlTypeOK, DbType
<1> QED BY <1>1, Constants

LEMMA Given ==
  ASSUME NEW u \in 0 .. MaxUsers, u # 0
  PROVE  u \in Ids
BY Constants DEF Ids

LEMMA Counted ==
  ASSUME NEW n \in Nat, NEW i \in 0 .. n, i < n
  PROVE  i + 1 \in 0 .. n
OBVIOUS

LEMMA Unreturned ==
  ASSUME NEW c \in CallType, NEW d, d = [c EXCEPT !.ret = 0]
  PROVE  /\ d \in CallType /\ d.op = c.op /\ d.at = c.at /\ d.uid = c.uid /\ d.name = c.name
         /\ d.mask = c.mask /\ d.key = c.key /\ d.val = c.val /\ d.pass = c.pass
<1>1. 0 \in Int
  OBVIOUS
<1>2. ASSUME NEW i \in Int
      PROVE  [c EXCEPT !.ret = i] \in CallType
  BY DEF CallType
<1>3. d \in CallType
  BY <1>1, <1>2
<1>4. /\ d.op = c.op /\ d.at = c.at /\ d.uid = c.uid /\ d.name = c.name
      /\ d.mask = c.mask /\ d.key = c.key /\ d.val = c.val /\ d.pass = c.pass
  BY DEF CallType
<1> QED BY <1>3, <1>4

\* A call is over, or the bot has ended.
LEMMA BotEnds ==
  ASSUME Inv, TypeOK', Ended(bot'), setup' = setup, db' = db, mixed' = mixed,
         contested' = contested, raced' = raced, made' = made, config' = config,
         conn'["setup"] = conn["setup"], alarm'["setup"] = alarm["setup"]
  PROVE  Inv'
<1>1. /\ TypeOK /\ BotOK /\ SetupOK /\ Tidy /\ SetupSteady /\ Apart /\ Seen /\ OwnerSoFar
      /\ ~mixed => Deleted /\ Present /\ NamesFree /\ NamesUnique /\ RowsHaveUsers
  BY DEF Inv
<1>2. bot'.op = "" /\ bot'.uid = 0 /\ bot'.at \in {"off", "idle"}
  BY DEF Ended
<1>3. BotOK'
  <2>1. bot' \in CallType
    BY DEF TypeOK, SqlTypeOK, bot, Procs
  <2> QED BY <1>2, <2>1 DEF BotOK, BotCall
<1>4. SetupOK'
  BY <1>1 DEF SetupOK, SetupCall
<1>5. Tidy'
  <2>1. 0 <= db.last
    BY <1>1, LastType
  <2> QED BY <1>1, <1>2, <2>1 DEF Tidy, Has
<1>6. SetupSteady'
  BY <1>1 DEF SetupSteady, Has
<1>7. Apart' /\ Seen' /\ OwnerSoFar'
  BY <1>1, <1>2 DEF Apart, Seen, OwnerSoFar, MaskRow, ModeRow
<1>8. ASSUME ~mixed
      PROVE  Deleted' /\ Present' /\ NamesUnique' /\ RowsHaveUsers'
  BY <1>1, <1>2, <1>8 DEF Deleted, Present, NamesUnique, RowsHaveUsers, UserIds
<1>9. ASSUME ~mixed
      PROVE  NamesFree'
  <2>1. \A n : AboutToName("bot", n)' <=> FALSE
    BY <1>2 DEF AboutToName, bot
  <2>2. \A n : AboutToName("setup", n)' <=> AboutToName("setup", n)
    BY DEF AboutToName, setup
  <2> QED BY <1>1, <1>9, <2>1, <2>2 DEF NamesFree, Procs, Called
<1> QED BY <1>3, <1>4, <1>5, <1>6, <1>7, <1>8, <1>9 DEF Inv

\* Setup is between statements.
LEMMA SetupGoesOn ==
  ASSUME Inv, TypeOK', SetupOK', SetupSteady', setup'.uid = 0,
         setup'.at \notin {"ins user", "upd name"}, bot' = bot, db' = db, mixed' = mixed,
         contested' = contested, raced' = raced, conn'["bot"] = conn["bot"]
  PROVE  Inv'
<1>1. /\ TypeOK /\ BotOK /\ SetupOK /\ Tidy /\ SetupSteady /\ Apart /\ Seen /\ OwnerSoFar
      /\ ~mixed => Deleted /\ Present /\ NamesFree /\ NamesUnique /\ RowsHaveUsers
  BY DEF Inv
<1>2. BotOK'
  BY <1>1 DEF BotOK, BotCall
<1>3. Tidy'
  <2>1. 0 <= db.last
    BY <1>1, LastType
  <2> QED BY <1>1, <2>1 DEF Tidy, Has
<1>4. Apart' /\ Seen' /\ OwnerSoFar'
  BY <1>1 DEF Apart, Seen, OwnerSoFar, MaskRow, ModeRow, VarRows, BansOn
<1>5. ASSUME ~mixed
      PROVE  Deleted' /\ Present' /\ NamesUnique' /\ RowsHaveUsers'
  BY ZenonT(30), <1>1, <1>5 DEF Deleted, Present, NamesUnique, RowsHaveUsers, UserIds
<1>6. ASSUME ~mixed
      PROVE  NamesFree'
  <2>1. \A n : AboutToName("setup", n)' <=> FALSE
    BY DEF AboutToName, setup
  <2>2. \A n : AboutToName("bot", n)' <=> AboutToName("bot", n)
    BY DEF AboutToName, bot
  <2> QED BY <1>1, <1>6, <2>1, <2>2 DEF NamesFree, Procs, Called
<1> QED BY <1>2, <1>3, <1>4, <1>5, <1>6 DEF Inv

\* A script begins a call c: with a user who is there, and having seen nothing yet.
FirstSteps == {"find name", "del ban", "upd pass", "count mask", "drop mask", "sel ban", "count mode",
               "ins note", "drop note", "count var", "count uvar", "drop var", "drop ban", "find mask"}

LEMMA CallBegins ==
  ASSUME Inv, NEW c \in CallType, Begin(c), BotCall(c), c.at \in FirstSteps, c.op # "",
         c.op = "del" => c.at = "del ban",
         c.uid \in UserIds \/ c.uid = 0 \/ (c.op = "delnote" /\ \E r \in db.note : r.author = c.uid),
         c.op = "addnote" => c.val \in UserIds
  PROVE  Inv'
<1>1. /\ TypeOK /\ BotOK /\ SetupOK /\ Tidy /\ SetupSteady /\ Apart /\ Seen /\ OwnerSoFar
      /\ ~mixed => Deleted /\ Present /\ NamesFree /\ NamesUnique /\ RowsHaveUsers
  BY DEF Inv
<1>2. PICK d : d = [c EXCEPT !.ret = 0]
  OBVIOUS
<1>3. /\ d \in CallType /\ d.op = c.op /\ d.at = c.at /\ d.uid = c.uid /\ d.name = c.name
      /\ d.mask = c.mask /\ d.key = c.key /\ d.val = c.val
  BY <1>2, Unreturned
<1>4. /\ Become("bot", d) /\ db' = db /\ conn' = conn /\ alarm' = alarm /\ mixed' = mixed
      /\ raced' = raced /\ faults' = faults /\ made' = made /\ config' = config
      /\ account' = account /\ ops < MaxOps /\ ops' = ops + 1
      /\ contested' = contested \cup {u \in {c.uid, c.val} \cap Ids : Busy("setup") /\ u = setup.uid}
  BY <1>2 DEF Begin, files, setup
<1>5. /\ call' \in [Procs -> CallType] /\ bot' = d /\ setup' = setup
  BY <1>1, <1>3, <1>4, CallTypes DEF Becomes, bot, setup, Procs
<1>6. TypeOK'
  <2>1. ops' \in 0 .. MaxOps
    <3>1. ops \in 0 .. MaxOps
      BY <1>1 DEF TypeOK, SqlTypeOK
    <3>2. MaxOps \in Nat
      BY Constants
    <3>3. ops + 1 \in 0 .. MaxOps
      BY <1>4, <3>1, <3>2, Counted
    <3> QED BY <1>4, <3>3
  <2>2. contested' \subseteq Ids
    BY <1>1, <1>4 DEF TypeOK, SqlTypeOK
  <2> QED BY <1>1, <1>4, <1>5, <2>1, <2>2 DEF TypeOK, SqlTypeOK
<1>7. BotOK' /\ SetupOK'
  <2>1. BotCall(d)
    BY <1>3 DEF BotCall, FirstSteps
  <2> QED BY ZenonT(30), <1>1, <1>5, <2>1 DEF BotOK, SetupOK, SetupCall, BotCall
<1>8. Tidy'
  <2>1. c.uid <= db.last
    <3>1. 0 <= db.last
      BY <1>1, LastType
    <3> QED BY <1>1, <3>1 DEF Tidy, UserIds
  <2> QED BY <1>1, <1>3, <1>4, <1>5, <2>1 DEF Tidy, Has
<1>9. SetupSteady'
  BY <1>1, <1>4, <1>5 DEF SetupSteady, Has
<1>10. Apart'
  <2>1. SUFFICES ASSUME bot'.uid # 0, bot'.uid = setup'.uid
                 PROVE  bot'.uid \in contested'
    BY DEF Apart
  <2>2. c.uid \in Ids /\ c.uid = setup.uid
    <3>1. c.uid \in 0 .. MaxUsers
      BY DEF CallType
    <3>2. c.uid # 0 /\ c.uid = setup.uid
      BY <1>3, <1>5, <2>1
    <3> QED BY <3>1, <3>2, Given
  <2>3. Busy("setup")
    BY <1>1, <1>3, <1>5, <2>1, <2>2 DEF SetupOK, SetupCall, Busy, setup, BeforeUser, WithUser, VarSteps, ModeSteps
  <2> QED BY <1>3, <1>4, <1>5, <2>2, <2>3
<1>11. Seen' /\ OwnerSoFar'
  BY <1>1, <1>3, <1>4, <1>5 DEF Seen, OwnerSoFar, MaskRow, ModeRow, FirstSteps
<1>12. ASSUME ~mixed
       PROVE  Deleted' /\ Present' /\ NamesUnique' /\ RowsHaveUsers'
  <2>1. Deleted'
    BY <1>3, <1>5 DEF Deleted
  <2>2. Present'
    BY <1>1, <1>3, <1>4, <1>5, <1>12 DEF Present, UserIds, FirstSteps
  <2>3. NamesUnique' /\ RowsHaveUsers'
    BY ZenonT(30), <1>1, <1>4, <1>12 DEF NamesUnique, RowsHaveUsers, UserIds
  <2> QED BY <2>1, <2>2, <2>3
<1>13. ASSUME ~mixed
       PROVE  NamesFree'
  <2>1. \A n : AboutToName("bot", n)' <=> FALSE
    BY <1>3, <1>5 DEF AboutToName, bot, FirstSteps
  <2>2. \A n : AboutToName("setup", n)' <=> AboutToName("setup", n)
    BY <1>5 DEF AboutToName, setup
  <2> QED BY ZenonT(30), <1>1, <1>4, <1>13, <2>1, <2>2 DEF NamesFree, Procs, Called
<1> QED BY <1>4, <1>6, <1>7, <1>8, <1>9, <1>10, <1>11, <1>12, <1>13 DEF Inv

LEMMA CallAddKeeps ==
  ASSUME Inv, CallAdd
  PROVE  Inv'
<1>1. PICK n \in Names, m \in Masks :
        Begin([Call("add", "find name", 0) EXCEPT !.name = n, !.mask = m])
  BY DEF CallAdd
<1> QED
  <2>1. PICK e : e = Call("add", "find name", 0)
    OBVIOUS
  <2>2. PICK c : c = [e EXCEPT !.name = n, !.mask = m]
    OBVIOUS
  <2>3. e \in CallType /\ e.op = "add" /\ e.at = "find name" /\ e.uid = 0
    <3>1. "add" \in Ops /\ "find name" \in Steps
      BY DEF Ops, Steps
    <3>2. 0 \in 0 .. MaxUsers
      BY Constants
    <3> QED BY <2>1, <3>1, <3>2, NoCallFields DEF Call, CallType
  <2>4. /\ c \in CallType /\ c.op = "add" /\ c.at = "find name" /\ c.uid = 0
        /\ c.name = n /\ c.mask = m
    BY <1>1, <2>2, <2>3 DEF CallType
  <2>5. BotCall(c) /\ c.at \in FirstSteps
    BY <1>1, <2>4 DEF BotCall, FirstSteps, DelSteps, ModeSteps, VarSteps
  <2> QED BY <1>1, <2>1, <2>2, <2>4, <2>5, CallBegins

LEMMA CallDelBanKeeps ==
  ASSUME Inv, CallDelBan
  PROVE  Inv'
<1>1. PICK m \in Masks :
        Begin([Call("delban", "drop ban", 0) EXCEPT !.mask = m])
  BY DEF CallDelBan
<1> QED
  <2>1. PICK e : e = Call("delban", "drop ban", 0)
    OBVIOUS
  <2>2. PICK c : c = [e EXCEPT !.mask = m]
    OBVIOUS
  <2>3. e \in CallType /\ e.op = "delban" /\ e.at = "drop ban" /\ e.uid = 0
    <3>1. "delban" \in Ops /\ "drop ban" \in Steps
      BY DEF Ops, Steps
    <3>2. 0 \in 0 .. MaxUsers
      BY Constants
    <3> QED BY <2>1, <3>1, <3>2, NoCallFields DEF Call, CallType
  <2>4. /\ c \in CallType /\ c.op = "delban" /\ c.at = "drop ban" /\ c.uid = 0
        /\ c.mask = m
    BY <1>1, <2>2, <2>3 DEF CallType
  <2>5. BotCall(c) /\ c.at \in FirstSteps
    BY <1>1, <2>4 DEF BotCall, FirstSteps, DelSteps, ModeSteps, VarSteps
  <2> QED BY <1>1, <2>1, <2>2, <2>4, <2>5, CallBegins

LEMMA CallLookupKeeps ==
  ASSUME Inv, CallLookup
  PROVE  Inv'
<1>1. PICK m \in Masks :
        Begin([Call("lookup", "find mask", 0) EXCEPT !.mask = m])
  BY DEF CallLookup
<1> QED
  <2>1. PICK e : e = Call("lookup", "find mask", 0)
    OBVIOUS
  <2>2. PICK c : c = [e EXCEPT !.mask = m]
    OBVIOUS
  <2>3. e \in CallType /\ e.op = "lookup" /\ e.at = "find mask" /\ e.uid = 0
    <3>1. "lookup" \in Ops /\ "find mask" \in Steps
      BY DEF Ops, Steps
    <3>2. 0 \in 0 .. MaxUsers
      BY Constants
    <3> QED BY <2>1, <3>1, <3>2, NoCallFields DEF Call, CallType
  <2>4. /\ c \in CallType /\ c.op = "lookup" /\ c.at = "find mask" /\ c.uid = 0
        /\ c.mask = m
    BY <1>1, <2>2, <2>3 DEF CallType
  <2>5. BotCall(c) /\ c.at \in FirstSteps
    BY <1>1, <2>4 DEF BotCall, FirstSteps, DelSteps, ModeSteps, VarSteps
  <2> QED BY <1>1, <2>1, <2>2, <2>4, <2>5, CallBegins

LEMMA CallUserKeeps ==
  ASSUME Inv, CallUser
  PROVE  Inv'
<1>1. PICK u \in UserIds :
        \/ Begin(Call("del", "del ban", u))
        \/ \E n \in Names : Begin([Call("setname", "find name", u) EXCEPT !.name = n])
        \/ \E b \in BOOLEAN : Begin([Call("setpass", "upd pass", u) EXCEPT !.pass = b])
        \/ \E m \in Masks :
             \/ Begin([Call("addmask", "count mask", u) EXCEPT !.mask = m])
             \/ Begin([Call("delmask", "drop mask", u) EXCEPT !.mask = m])
             \/ Begin([Call("addban", "sel ban", u) EXCEPT !.mask = m])
        \/ \E k \in Modes, plus \in {0, 1} :
             Begin([Call("setmode", "count mode", u) EXCEPT !.key = k, !.val = plus])
        \/ \E v \in UserIds : Begin([Call("addnote", "ins note", u) EXCEPT !.val = v])
  BY DEF CallUser
<1>2. u \in Ids /\ UserIds \subseteq Ids
  BY DEF Inv, TypeOK, SqlTypeOK, DbType, UserType, UserIds
<1>3. ASSUME Begin(Call("del", "del ban", u))
      PROVE  Inv'
  <2>1. PICK e : e = Call("del", "del ban", u)
    OBVIOUS
  <2>2. PICK c : c = e
    OBVIOUS
  <2>3. e \in CallType /\ e.op = "del" /\ e.at = "del ban" /\ e.uid = u
    <3>1. "del" \in Ops /\ "del ban" \in Steps
      BY DEF Ops, Steps
    <3>2. u \in 0 .. MaxUsers
      BY <1>2, Constants DEF Ids
    <3> QED BY <2>1, <3>1, <3>2, NoCallFields DEF Call, CallType
  <2>4. /\ c \in CallType /\ c.op = "del" /\ c.at = "del ban" /\ c.uid = u
    BY <2>2, <2>3 DEF CallType
  <2>5. BotCall(c) /\ c.at \in FirstSteps
    BY <1>1, <1>3, <1>2, <2>4 DEF BotCall, FirstSteps, DelSteps, ModeSteps, VarSteps
  <2> QED BY <1>1, <1>3, <2>1, <2>2, <2>4, <2>5, CallBegins
<1>4. ASSUME NEW n \in Names, Begin([Call("setname", "find name", u) EXCEPT !.name = n])
      PROVE  Inv'
  <2>1. PICK e : e = Call("setname", "find name", u)
    OBVIOUS
  <2>2. PICK c : c = [e EXCEPT !.name = n]
    OBVIOUS
  <2>3. e \in CallType /\ e.op = "setname" /\ e.at = "find name" /\ e.uid = u
    <3>1. "setname" \in Ops /\ "find name" \in Steps
      BY DEF Ops, Steps
    <3>2. u \in 0 .. MaxUsers
      BY <1>2, Constants DEF Ids
    <3> QED BY <2>1, <3>1, <3>2, NoCallFields DEF Call, CallType
  <2>4. /\ c \in CallType /\ c.op = "setname" /\ c.at = "find name" /\ c.uid = u
        /\ c.name = n
    BY <1>1, <1>4, <2>2, <2>3 DEF CallType
  <2>5. BotCall(c) /\ c.at \in FirstSteps
    BY <1>1, <1>4, <1>2, <2>4 DEF BotCall, FirstSteps, DelSteps, ModeSteps, VarSteps
  <2> QED BY <1>1, <1>4, <2>1, <2>2, <2>4, <2>5, CallBegins
<1>5. ASSUME NEW b \in BOOLEAN, Begin([Call("setpass", "upd pass", u) EXCEPT !.pass = b])
      PROVE  Inv'
  <2>1. PICK e : e = Call("setpass", "upd pass", u)
    OBVIOUS
  <2>2. PICK c : c = [e EXCEPT !.pass = b]
    OBVIOUS
  <2>3. e \in CallType /\ e.op = "setpass" /\ e.at = "upd pass" /\ e.uid = u
    <3>1. "setpass" \in Ops /\ "upd pass" \in Steps
      BY DEF Ops, Steps
    <3>2. u \in 0 .. MaxUsers
      BY <1>2, Constants DEF Ids
    <3> QED BY <2>1, <3>1, <3>2, NoCallFields DEF Call, CallType
  <2>4. /\ c \in CallType /\ c.op = "setpass" /\ c.at = "upd pass" /\ c.uid = u
        /\ c.pass = b
    BY <1>1, <1>5, <2>2, <2>3 DEF CallType
  <2>5. BotCall(c) /\ c.at \in FirstSteps
    BY <1>1, <1>5, <1>2, <2>4 DEF BotCall, FirstSteps, DelSteps, ModeSteps, VarSteps
  <2> QED BY <1>1, <1>5, <2>1, <2>2, <2>4, <2>5, CallBegins
<1>6. ASSUME NEW m \in Masks, Begin([Call("addmask", "count mask", u) EXCEPT !.mask = m])
      PROVE  Inv'
  <2>1. PICK e : e = Call("addmask", "count mask", u)
    OBVIOUS
  <2>2. PICK c : c = [e EXCEPT !.mask = m]
    OBVIOUS
  <2>3. e \in CallType /\ e.op = "addmask" /\ e.at = "count mask" /\ e.uid = u
    <3>1. "addmask" \in Ops /\ "count mask" \in Steps
      BY DEF Ops, Steps
    <3>2. u \in 0 .. MaxUsers
      BY <1>2, Constants DEF Ids
    <3> QED BY <2>1, <3>1, <3>2, NoCallFields DEF Call, CallType
  <2>4. /\ c \in CallType /\ c.op = "addmask" /\ c.at = "count mask" /\ c.uid = u
        /\ c.mask = m
    BY <1>1, <1>6, <2>2, <2>3 DEF CallType
  <2>5. BotCall(c) /\ c.at \in FirstSteps
    BY <1>1, <1>6, <1>2, <2>4 DEF BotCall, FirstSteps, DelSteps, ModeSteps, VarSteps
  <2> QED BY <1>1, <1>6, <2>1, <2>2, <2>4, <2>5, CallBegins
<1>7. ASSUME NEW m \in Masks, Begin([Call("delmask", "drop mask", u) EXCEPT !.mask = m])
      PROVE  Inv'
  <2>1. PICK e : e = Call("delmask", "drop mask", u)
    OBVIOUS
  <2>2. PICK c : c = [e EXCEPT !.mask = m]
    OBVIOUS
  <2>3. e \in CallType /\ e.op = "delmask" /\ e.at = "drop mask" /\ e.uid = u
    <3>1. "delmask" \in Ops /\ "drop mask" \in Steps
      BY DEF Ops, Steps
    <3>2. u \in 0 .. MaxUsers
      BY <1>2, Constants DEF Ids
    <3> QED BY <2>1, <3>1, <3>2, NoCallFields DEF Call, CallType
  <2>4. /\ c \in CallType /\ c.op = "delmask" /\ c.at = "drop mask" /\ c.uid = u
        /\ c.mask = m
    BY <1>1, <1>7, <2>2, <2>3 DEF CallType
  <2>5. BotCall(c) /\ c.at \in FirstSteps
    BY <1>1, <1>7, <1>2, <2>4 DEF BotCall, FirstSteps, DelSteps, ModeSteps, VarSteps
  <2> QED BY <1>1, <1>7, <2>1, <2>2, <2>4, <2>5, CallBegins
<1>8. ASSUME NEW m \in Masks, Begin([Call("addban", "sel ban", u) EXCEPT !.mask = m])
      PROVE  Inv'
  <2>1. PICK e : e = Call("addban", "sel ban", u)
    OBVIOUS
  <2>2. PICK c : c = [e EXCEPT !.mask = m]
    OBVIOUS
  <2>3. e \in CallType /\ e.op = "addban" /\ e.at = "sel ban" /\ e.uid = u
    <3>1. "addban" \in Ops /\ "sel ban" \in Steps
      BY DEF Ops, Steps
    <3>2. u \in 0 .. MaxUsers
      BY <1>2, Constants DEF Ids
    <3> QED BY <2>1, <3>1, <3>2, NoCallFields DEF Call, CallType
  <2>4. /\ c \in CallType /\ c.op = "addban" /\ c.at = "sel ban" /\ c.uid = u
        /\ c.mask = m
    BY <1>1, <1>8, <2>2, <2>3 DEF CallType
  <2>5. BotCall(c) /\ c.at \in FirstSteps
    BY <1>1, <1>8, <1>2, <2>4 DEF BotCall, FirstSteps, DelSteps, ModeSteps, VarSteps
  <2> QED BY <1>1, <1>8, <2>1, <2>2, <2>4, <2>5, CallBegins
<1>9. ASSUME NEW k \in Modes, NEW plus \in {0, 1}, Begin([Call("setmode", "count mode", u) EXCEPT !.key = k, !.val = plus])
      PROVE  Inv'
  <2>1. PICK e : e = Call("setmode", "count mode", u)
    OBVIOUS
  <2>2. PICK c : c = [e EXCEPT !.key = k, !.val = plus]
    OBVIOUS
  <2>3. e \in CallType /\ e.op = "setmode" /\ e.at = "count mode" /\ e.uid = u
    <3>1. "setmode" \in Ops /\ "count mode" \in Steps
      BY DEF Ops, Steps
    <3>2. u \in 0 .. MaxUsers
      BY <1>2, Constants DEF Ids
    <3> QED BY <2>1, <3>1, <3>2, NoCallFields DEF Call, CallType
  <2>4. /\ c \in CallType /\ c.op = "setmode" /\ c.at = "count mode" /\ c.uid = u
        /\ c.key = k /\ c.val = plus
    <3>1. plus \in Nat
      OBVIOUS
    <3> QED BY <1>1, <1>9, <2>2, <2>3, <3>1 DEF CallType
  <2>5. BotCall(c) /\ c.at \in FirstSteps
    BY <1>1, <1>9, <1>2, <2>4 DEF BotCall, FirstSteps, DelSteps, ModeSteps, VarSteps
  <2> QED BY <1>1, <1>9, <2>1, <2>2, <2>4, <2>5, CallBegins
<1>10. ASSUME NEW v \in UserIds, Begin([Call("addnote", "ins note", u) EXCEPT !.val = v])
      PROVE  Inv'
  <2>1. PICK e : e = Call("addnote", "ins note", u)
    OBVIOUS
  <2>2. PICK c : c = [e EXCEPT !.val = v]
    OBVIOUS
  <2>3. e \in CallType /\ e.op = "addnote" /\ e.at = "ins note" /\ e.uid = u
    <3>1. "addnote" \in Ops /\ "ins note" \in Steps
      BY DEF Ops, Steps
    <3>2. u \in 0 .. MaxUsers
      BY <1>2, Constants DEF Ids
    <3> QED BY <2>1, <3>1, <3>2, NoCallFields DEF Call, CallType
  <2>4. /\ c \in CallType /\ c.op = "addnote" /\ c.at = "ins note" /\ c.uid = u
        /\ c.val = v
    <3>1. v \in Nat
      BY <1>2 DEF Ids
    <3> QED BY <1>1, <1>10, <2>2, <2>3, <3>1 DEF CallType
  <2>5. BotCall(c) /\ c.at \in FirstSteps
    BY <1>1, <1>10, <1>2, <2>4 DEF BotCall, FirstSteps, DelSteps, ModeSteps, VarSteps
  <2> QED BY <1>1, <1>10, <2>1, <2>2, <2>4, <2>5, CallBegins
<1> QED BY <1>1, <1>3, <1>4, <1>5, <1>6, <1>7, <1>8, <1>9, <1>10

LEMMA CallVarKeeps ==
  ASSUME Inv, CallVar
  PROVE  Inv'
<1>1. PICK u \in UserIds \cup {0}, x \in Vals :
        \/ Begin([Call("setuvar", "count uvar", u) EXCEPT !.val = x])
        \/ \E v \in Vars :
             \/ Begin([Call("setvar", "count var", u) EXCEPT !.key = v, !.val = x])
             \/ Begin([Call("unset", "drop var", u) EXCEPT !.key = v])
  BY DEF CallVar
<1>2. u \in Ids \cup {0} /\ x \in Nat
  <2>1. UserIds \subseteq Ids
    BY DEF Inv, TypeOK, SqlTypeOK, DbType, UserType, UserIds
  <2> QED BY <2>1, Constants
<1>3. ASSUME Begin([Call("setuvar", "count uvar", u) EXCEPT !.val = x])
      PROVE  Inv'
  <2>1. PICK e : e = Call("setuvar", "count uvar", u)
    OBVIOUS
  <2>2. PICK c : c = [e EXCEPT !.val = x]
    OBVIOUS
  <2>3. e \in CallType /\ e.op = "setuvar" /\ e.at = "count uvar" /\ e.uid = u
    <3>1. "setuvar" \in Ops /\ "count uvar" \in Steps
      BY DEF Ops, Steps
    <3>2. u \in 0 .. MaxUsers
      BY <1>2, Constants DEF Ids
    <3> QED BY <2>1, <3>1, <3>2, NoCallFields DEF Call, CallType
  <2>4. /\ c \in CallType /\ c.op = "setuvar" /\ c.at = "count uvar" /\ c.uid = u
        /\ c.val = x
    <3>1. x \in Nat
      BY <1>2
    <3> QED BY <1>1, <1>3, <2>2, <2>3, <3>1 DEF CallType
  <2>5. BotCall(c) /\ c.at \in FirstSteps
    BY <1>1, <1>3, <1>2, <2>4 DEF BotCall, FirstSteps, DelSteps, ModeSteps, VarSteps
  <2> QED BY <1>1, <1>3, <2>1, <2>2, <2>4, <2>5, CallBegins
<1>4. ASSUME NEW v \in Vars, Begin([Call("setvar", "count var", u) EXCEPT !.key = v, !.val = x])
      PROVE  Inv'
  <2>1. PICK e : e = Call("setvar", "count var", u)
    OBVIOUS
  <2>2. PICK c : c = [e EXCEPT !.key = v, !.val = x]
    OBVIOUS
  <2>3. e \in CallType /\ e.op = "setvar" /\ e.at = "count var" /\ e.uid = u
    <3>1. "setvar" \in Ops /\ "count var" \in Steps
      BY DEF Ops, Steps
    <3>2. u \in 0 .. MaxUsers
      BY <1>2, Constants DEF Ids
    <3> QED BY <2>1, <3>1, <3>2, NoCallFields DEF Call, CallType
  <2>4. /\ c \in CallType /\ c.op = "setvar" /\ c.at = "count var" /\ c.uid = u
        /\ c.key = v /\ c.val = x
    <3>1. x \in Nat
      BY <1>2
    <3> QED BY <1>1, <1>4, <2>2, <2>3, <3>1 DEF CallType
  <2>5. BotCall(c) /\ c.at \in FirstSteps
    BY <1>1, <1>4, <1>2, <2>4 DEF BotCall, FirstSteps, DelSteps, ModeSteps, VarSteps
  <2> QED BY <1>1, <1>4, <2>1, <2>2, <2>4, <2>5, CallBegins
<1>5. ASSUME NEW v \in Vars, Begin([Call("unset", "drop var", u) EXCEPT !.key = v])
      PROVE  Inv'
  <2>1. PICK e : e = Call("unset", "drop var", u)
    OBVIOUS
  <2>2. PICK c : c = [e EXCEPT !.key = v]
    OBVIOUS
  <2>3. e \in CallType /\ e.op = "unset" /\ e.at = "drop var" /\ e.uid = u
    <3>1. "unset" \in Ops /\ "drop var" \in Steps
      BY DEF Ops, Steps
    <3>2. u \in 0 .. MaxUsers
      BY <1>2, Constants DEF Ids
    <3> QED BY <2>1, <3>1, <3>2, NoCallFields DEF Call, CallType
  <2>4. /\ c \in CallType /\ c.op = "unset" /\ c.at = "drop var" /\ c.uid = u
        /\ c.key = v
    BY <1>1, <1>5, <2>2, <2>3 DEF CallType
  <2>5. BotCall(c) /\ c.at \in FirstSteps
    BY <1>1, <1>5, <1>2, <2>4 DEF BotCall, FirstSteps, DelSteps, ModeSteps, VarSteps
  <2> QED BY <1>1, <1>5, <2>1, <2>2, <2>4, <2>5, CallBegins
<1> QED BY <1>1, <1>3, <1>4, <1>5

LEMMA CallDelNoteKeeps ==
  ASSUME Inv, CallDelNote
  PROVE  Inv'
<1>1. PICK r \in db.note : Begin([Call("delnote", "drop note", r.author) EXCEPT !.val = r.target])
  BY DEF CallDelNote
<1>2. r.author \in Ids /\ r.target \in Ids
  BY DEF Inv, TypeOK, SqlTypeOK, DbType, NoteType
<1> QED
  <2>1. PICK e : e = Call("delnote", "drop note", r.author)
    OBVIOUS
  <2>2. PICK c : c = [e EXCEPT !.val = r.target]
    OBVIOUS
  <2>3. e \in CallType /\ e.op = "delnote" /\ e.at = "drop note" /\ e.uid = r.author
    <3>1. "delnote" \in Ops /\ "drop note" \in Steps
      BY DEF Ops, Steps
    <3>2. r.author \in 0 .. MaxUsers
      BY <1>2, Constants DEF Ids
    <3> QED BY <2>1, <3>1, <3>2, NoCallFields DEF Call, CallType
  <2>4. /\ c \in CallType /\ c.op = "delnote" /\ c.at = "drop note" /\ c.uid = r.author
        /\ c.val = r.target
    <3>1. r.target \in Nat
      BY <1>2 DEF Ids
    <3> QED BY <1>1, <2>2, <2>3, <3>1 DEF CallType
  <2>5. BotCall(c) /\ c.at \in FirstSteps
    BY <1>1, <1>2, <2>4 DEF BotCall, FirstSteps, DelSteps, ModeSteps, VarSteps
  <2> QED BY <1>1, <2>1, <2>2, <2>4, <2>5, CallBegins
LEMMA BotStartKeeps ==
  ASSUME Inv, BotStart
  PROVE  Inv'
<1>1. TypeOK
  BY DEF Inv
<1>2. PICK d : d = [NoCall EXCEPT !.at = "idle"]
  OBVIOUS
<1>3. d \in CallType /\ Ended(d)
  <2>1. "idle" \in Steps
    BY DEF Steps
  <2> QED BY <1>2, <2>1, NoCallFields DEF CallType, Ended
<1>4. /\ Become("bot", d) /\ conn' = [conn EXCEPT !["bot"] = "up"]
      /\ alarm' = [alarm EXCEPT !["bot"] = FALSE] /\ db' = db /\ contested' = contested
      /\ ops' = ops /\ faults' = faults /\ mixed' = mixed /\ raced' = raced /\ made' = made
      /\ config' = config /\ account' = account
  BY <1>2 DEF BotStart, Unused, files
<1>5. call' \in [Procs -> CallType] /\ bot' = d /\ setup' = setup
  BY <1>1, <1>3, <1>4, CallTypes DEF Becomes, bot, setup, Procs
<1>6. /\ conn' \in [Procs -> {"up", "down"}] /\ conn'["setup"] = conn["setup"]
      /\ alarm' \in [Procs -> BOOLEAN] /\ alarm'["setup"] = alarm["setup"]
  BY <1>1, <1>4 DEF TypeOK, SqlTypeOK, Procs
<1>7. TypeOK'
  BY <1>1, <1>4, <1>5, <1>6 DEF TypeOK, SqlTypeOK
<1>8. Ended(bot')
  BY <1>3, <1>5 DEF Ended
<1> QED BY <1>4, <1>5, <1>6, <1>7, <1>8, BotEnds

LEMMA BotExitKeeps ==
  ASSUME Inv, BotExit
  PROVE  Inv'
<1>1. TypeOK
  BY DEF Inv
<1>2. NoCall \in CallType /\ Ended(NoCall)
  BY NoCallFields, EndedNoCall
<1>3. /\ Become("bot", NoCall) /\ conn' = conn /\ alarm' = alarm /\ db' = db
      /\ contested' = contested /\ ops' = ops /\ faults' = faults /\ mixed' = mixed
      /\ raced' = raced /\ made' = made /\ config' = config /\ account' = account
  BY DEF BotExit, Unused, files
<1>4. call' \in [Procs -> CallType] /\ bot' = NoCall /\ setup' = setup
  BY <1>1, <1>2, <1>3, CallTypes DEF Becomes, bot, setup, Procs
<1>5. TypeOK'
  BY <1>1, <1>3, <1>4 DEF TypeOK, SqlTypeOK
<1>6. Ended(bot')
  BY <1>2, <1>4 DEF Ended
<1> QED BY <1>3, <1>4, <1>5, <1>6, BotEnds

\* What setup does between statements is well formed, and what it knows stays true.
LEMMA SetupTypes ==
  ASSUME Inv, NEW d \in CallType, SetupCall(d), Become("setup", d), Server,
         conn' \in [Procs -> {"up", "down"}], alarm' \in [Procs -> BOOLEAN],
         made' \in 0 .. 4, config' \in {"none", "empty", "full"}, account' \in BOOLEAN
  PROVE  /\ TypeOK' /\ SetupOK' /\ bot' = bot /\ setup' = d /\ db' = db /\ mixed' = mixed
         /\ contested' = contested /\ raced' = raced
<1>1. TypeOK
  BY DEF Inv
<1>2. /\ db' = db /\ mixed' = mixed /\ contested' = contested /\ raced' = raced /\ ops' = ops
      /\ faults' = faults
  BY DEF Server
<1>3. call' \in [Procs -> CallType] /\ setup' = d /\ bot' = bot
  BY <1>1, CallTypes DEF Becomes, bot, setup, Procs
<1>4. TypeOK'
  BY <1>1, <1>2, <1>3 DEF TypeOK, SqlTypeOK
<1>5. SetupOK'
  BY <1>3 DEF SetupOK, SetupCall
<1> QED BY <1>2, <1>3, <1>4, <1>5

LEMMA KillKeeps ==
  ASSUME Inv, NEW p \in Procs, Kill(p)
  PROVE  Inv'
<1>1. TypeOK /\ SetupSteady
  BY DEF Inv
<1>2. NoCall \in CallType /\ Ended(NoCall) /\ NoCall.op = "" /\ NoCall.uid = 0 /\ NoCall.at = "off"
  BY NoCallFields, EndedNoCall
<1>3. /\ Become(p, NoCall) /\ conn' = conn /\ alarm' = alarm /\ db' = db
      /\ contested' = contested /\ ops' = ops /\ mixed' = mixed
      /\ raced' = raced /\ made' = made /\ config' = config /\ account' = account
      /\ faults < MaxFaults /\ faults' = faults + 1
  BY DEF Kill, Fault, files
<1>4. call' \in [Procs -> CallType] /\ Becomes(p, NoCall)
  BY <1>1, <1>2, <1>3, CallTypes
<1>5. TypeOK'
  <2>1. faults' \in 0 .. MaxFaults
    <3>1. faults \in 0 .. MaxFaults /\ MaxFaults \in Nat
      BY <1>1, Constants DEF TypeOK, SqlTypeOK
    <3> QED BY <1>3, <3>1, Counted
  <2> QED BY <1>1, <1>3, <1>4, <2>1 DEF TypeOK, SqlTypeOK
<1>6. CASE p = "bot"
  <2>1. Ended(bot') /\ setup' = setup
    BY <1>2, <1>4, <1>6 DEF Becomes, bot, setup, Procs, Ended
  <2> QED BY <1>3, <1>5, <2>1, BotEnds
<1>7. CASE p = "setup"
  <2>1. setup' = NoCall /\ bot' = bot
    BY <1>4, <1>7 DEF Becomes, bot, setup, Procs
  <2>2. SetupOK'
    BY <1>2, <2>1 DEF SetupOK, SetupCall
  <2>3. SetupSteady'
    BY <1>1, <1>2, <1>3, <2>1 DEF SetupSteady, Has
  <2> QED BY <1>2, <1>3, <1>5, <2>1, <2>2, <2>3, SetupGoesOn
<1> QED BY <1>6, <1>7 DEF Procs

\* Setup stops, or goes on to the next step.
LEMMA SetupStops ==
  ASSUME Inv, NEW ret \in Int, Stop(ret), Server, conn' = conn, alarm' = alarm,
         made' = made, config' \in {"none", "empty", "full"}, account' \in BOOLEAN
  PROVE  Inv'
<1>1. PICK d : d = Return("setup", ret)
  OBVIOUS
<1>2. d \in CallType /\ d.op = "" /\ d.at = "idle" /\ d.uid = 0
  BY <1>1, ReturnFields DEF Procs
<1>3. SetupCall(d)
  BY <1>2 DEF SetupCall
<1>4. Become("setup", d)
  BY <1>1 DEF Stop
<1>5. TypeOK /\ SetupSteady
  BY DEF Inv
<1>6. /\ conn' \in [Procs -> {"up", "down"}] /\ alarm' \in [Procs -> BOOLEAN] /\ made' \in 0 .. 4
  BY <1>5 DEF TypeOK, SqlTypeOK
<1>7. /\ TypeOK' /\ SetupOK' /\ bot' = bot /\ setup' = d /\ db' = db /\ mixed' = mixed
      /\ contested' = contested /\ raced' = raced
  BY <1>2, <1>3, <1>4, <1>6, SetupTypes
<1>8. SetupSteady'
  BY <1>2, <1>5, <1>7 DEF SetupSteady, Has
<1>9. setup'.uid = 0 /\ setup'.at \notin {"ins user", "upd name"} /\ conn'["bot"] = conn["bot"]
  BY <1>2, <1>7
<1> QED BY <1>7, <1>8, <1>9, SetupGoesOn

LEMMA SetupNext1 ==
  ASSUME Inv, setup.at \in BeforeUser, NEW at \in BeforeUser, Next1(at), Server,
         conn' \in [Procs -> {"up", "down"}], conn'["bot"] = conn["bot"], alarm' = alarm,
         made' \in 0 .. 4, config' \in {"none", "empty", "full"}, account' \in BOOLEAN,
         at # "create", at # "paths" => made' = 4,
         at \notin {"paths", "config", "write config"} => config' = "full"
  PROVE  Inv'
<1>1. PICK c, d : c = setup /\ d = Goto("setup", at)
  OBVIOUS
<1>2. TypeOK /\ SetupOK /\ SetupSteady
  BY DEF Inv
<1>3. WentTo(c, d, at)
  <2>1. at \in Steps /\ "setup" \in Procs
    BY DEF BeforeUser, Steps, Procs
  <2> QED BY <1>1, <1>2, <2>1, GotoMoves DEF setup, TypeOK
<1>4. c.op = "setup" /\ c.uid = 0 /\ c.name \in Names /\ c.mask \in Masks /\ c.key \in Vars /\ c.val \in Vals
  BY <1>1, <1>2 DEF SetupOK, SetupCall, BeforeUser, WithUser, ModeSteps
<1>5. d \in CallType /\ SetupCall(d) /\ d.at = at /\ d.uid = 0 /\ d.op = "setup"
  BY <1>3, <1>4 DEF WentTo, Moved, SetupCall
<1>6. Become("setup", d)
  BY <1>1 DEF Next1
<1>7. /\ TypeOK' /\ SetupOK' /\ bot' = bot /\ setup' = d /\ db' = db /\ mixed' = mixed
      /\ contested' = contested /\ raced' = raced
  <2>1. alarm' \in [Procs -> BOOLEAN]
    BY <1>2 DEF TypeOK, SqlTypeOK
  <2> QED BY <1>5, <1>6, <2>1, SetupTypes
<1>8. SetupSteady'
  BY <1>2, <1>5, <1>7 DEF SetupSteady, Has, BeforeUser
<1>9. setup'.uid = 0 /\ setup'.at \notin {"ins user", "upd name"}
  BY <1>5, <1>7 DEF BeforeUser
<1> QED BY <1>7, <1>8, <1>9, SetupGoesOn

LEMMA MakePathKeeps ==
  ASSUME Inv, MakePath
  PROVE  Inv'
<1>1. TypeOK /\ SetupOK /\ SetupSteady
  BY DEF Inv
<1>2. /\ setup.at = "paths" /\ conn' = conn /\ alarm' = alarm /\ config' = config
      /\ account' = account /\ Server
  BY DEF MakePath, setup
<1>3. /\ conn \in [Procs -> {"up", "down"}] /\ made' \in 0 .. 4
      /\ config \in {"none", "empty", "full"} /\ account \in BOOLEAN
  BY <1>1 DEF TypeOK, SqlTypeOK, MakePath
<1>4. CASE made = 4
  <2>1. Next1("config") /\ made' = 4
    BY <1>4 DEF MakePath
  <2>2. setup.at \in BeforeUser /\ "config" \in BeforeUser
    BY <1>2 DEF BeforeUser
  <2> QED BY <1>2, <1>3, <2>1, <2>2, SetupNext1
<1>5. CASE made # 4
  <2>1. call' = call /\ bot' = bot /\ setup' = setup
    BY <1>5 DEF MakePath, bot, setup
  <2>2. /\ db' = db /\ mixed' = mixed /\ contested' = contested /\ raced' = raced /\ ops' = ops
        /\ faults' = faults
    BY <1>2 DEF Server
  <2>3. TypeOK' /\ SetupOK'
    BY <1>1, <1>2, <1>3, <2>1, <2>2 DEF TypeOK, SqlTypeOK, SetupOK, SetupCall
  <2>4. setup.uid = 0
    BY <1>1, <1>2 DEF SetupOK, SetupCall, WithUser, ModeSteps
  <2>5. SetupSteady'
    BY <1>1, <1>2, <2>1, <2>2 DEF SetupSteady, Has, BeforeUser
  <2> QED BY <1>2, <2>1, <2>2, <2>3, <2>4, <2>5, SetupGoesOn
<1> QED BY <1>4, <1>5

LEMMA ReadConfigKeeps ==
  ASSUME Inv, ReadConfig
  PROVE  Inv'
<1>1. TypeOK /\ SetupOK /\ SetupSteady
  BY DEF Inv
<1>2. /\ setup.at = "config" /\ conn' = conn /\ alarm' = alarm /\ made' = made
      /\ account' = account /\ Server
  BY DEF ReadConfig, setup
<1>3. /\ conn \in [Procs -> {"up", "down"}] /\ made \in 0 .. 4
      /\ config' \in {"none", "empty", "full"} /\ account \in BOOLEAN
      /\ config \in {"none", "empty", "full"}
  BY <1>1 DEF TypeOK, SqlTypeOK, ReadConfig
<1>4. setup.at \in BeforeUser /\ "write config" \in BeforeUser /\ "connect" \in BeforeUser
  BY <1>2 DEF BeforeUser
<1>5. made = 4
  <2>1. setup.op = "setup"
    BY <1>1, <1>2 DEF SetupOK, SetupCall, WithUser, ModeSteps
  <2> QED BY <1>1, <1>2, <2>1 DEF SetupSteady
<1>6. CASE config = "none"
  <2>1. Next1("write config")
    BY <1>6 DEF ReadConfig
  <2> QED BY <1>2, <1>3, <1>4, <1>5, <2>1, SetupNext1
<1>7. CASE config = "empty"
  <2>1. Stop(-1)
    BY <1>7 DEF ReadConfig
  <2> QED BY <1>2, <1>3, <2>1, SetupStops
<1>8. CASE config = "full"
  <2>1. Next1("connect") /\ config' = "full"
    BY <1>8 DEF ReadConfig
  <2> QED BY <1>2, <1>3, <1>4, <1>5, <2>1, SetupNext1
<1> QED BY <1>3, <1>6, <1>7, <1>8

LEMMA WriteConfigKeeps ==
  ASSUME Inv, WriteConfig
  PROVE  Inv'
<1>1. TypeOK /\ SetupOK /\ SetupSteady
  BY DEF Inv
<1>2. /\ setup.at = "write config" /\ conn' = conn /\ alarm' = alarm /\ made' = made
      /\ config' = "full" /\ account' = account /\ Server /\ Next1("connect")
  BY DEF WriteConfig, setup
<1>3. /\ conn \in [Procs -> {"up", "down"}] /\ made \in 0 .. 4 /\ account \in BOOLEAN
  BY <1>1 DEF TypeOK, SqlTypeOK
<1>4. setup.at \in BeforeUser /\ "connect" \in BeforeUser
  BY <1>2 DEF BeforeUser
<1>5. made = 4
  <2>1. setup.op = "setup"
    BY <1>1, <1>2 DEF SetupOK, SetupCall, WithUser, ModeSteps
  <2> QED BY <1>1, <1>2, <2>1 DEF SetupSteady
<1> QED BY <1>2, <1>3, <1>4, <1>5, SetupNext1

\* From here on the paths and the configuration are there.
LEMMA FilesMade ==
  ASSUME Inv, setup.at \in {"connect", "grant", "select"}
  PROVE  made = 4 /\ config = "full" /\ setup.at \in BeforeUser
<1>1. TypeOK /\ SetupOK /\ SetupSteady
  BY DEF Inv
<1>2. setup.op = "setup"
  BY <1>1 DEF SetupOK, SetupCall, WithUser, ModeSteps
<1> QED BY <1>1, <1>2 DEF SetupSteady, BeforeUser

LEMMA ConnectKeeps ==
  ASSUME Inv, Connect
  PROVE  Inv'
<1>1. TypeOK
  BY DEF Inv
<1>2. PICK at : at = (IF account THEN "select" ELSE "grant")
  OBVIOUS
<1>3. /\ setup.at = "connect" /\ alarm' = alarm /\ made' = made /\ config' = config
      /\ account' = account /\ Server /\ Next1(at)
      /\ conn' = [conn EXCEPT !["setup"] = IF account THEN "up" ELSE "down"]
  BY <1>2 DEF Connect, setup, files
<1>4. /\ conn' \in [Procs -> {"up", "down"}] /\ conn'["bot"] = conn["bot"] /\ made \in 0 .. 4
      /\ account \in BOOLEAN
  BY <1>1, <1>3 DEF TypeOK, SqlTypeOK, Procs
<1>5. made = 4 /\ config = "full" /\ setup.at \in BeforeUser
  BY <1>3, FilesMade
<1>6. at \in BeforeUser /\ at \notin {"create", "paths"}
  BY <1>2 DEF BeforeUser
<1> QED BY <1>3, <1>4, <1>5, <1>6, SetupNext1

LEMMA GrantKeeps ==
  ASSUME Inv, Grant
  PROVE  Inv'
<1>1. TypeOK
  BY DEF Inv
<1>2. /\ setup.at = "grant" /\ conn' = conn /\ alarm' = alarm /\ made' = made
      /\ config' = config /\ account' \in BOOLEAN /\ Server
  BY DEF Grant, setup
<1>3. /\ conn \in [Procs -> {"up", "down"}] /\ made \in 0 .. 4
      /\ config \in {"none", "empty", "full"}
  BY <1>1 DEF TypeOK, SqlTypeOK
<1>4. made = 4 /\ config = "full" /\ setup.at \in BeforeUser
  BY <1>2, FilesMade
<1>5. CASE Next1("connect")
  <2>1. "connect" \in BeforeUser
    BY DEF BeforeUser
  <2> QED BY <1>2, <1>3, <1>4, <1>5, <2>1, SetupNext1
<1>6. CASE Stop(-1)
  BY <1>2, <1>3, <1>6, SetupStops
<1> QED BY <1>5, <1>6 DEF Grant

LEMMA SelectKeeps ==
  ASSUME Inv, Select
  PROVE  Inv'
<1>1. TypeOK
  BY DEF Inv
<1>2. PICK at : at = (IF conn["setup"] = "up" /\ db.exists THEN "check" ELSE "create db")
  OBVIOUS
<1>3. /\ setup.at = "select" /\ conn' = conn /\ alarm' = alarm /\ made' = made
      /\ config' = config /\ account' = account /\ Server /\ Next1(at)
  BY <1>2 DEF Select, setup, files
<1>4. /\ conn \in [Procs -> {"up", "down"}] /\ made \in 0 .. 4 /\ account \in BOOLEAN
  BY <1>1 DEF TypeOK, SqlTypeOK
<1>5. made = 4 /\ config = "full" /\ setup.at \in BeforeUser
  BY <1>3, FilesMade
<1>6. at \in BeforeUser /\ at \notin {"create", "paths"}
  BY <1>2 DEF BeforeUser
<1> QED BY <1>3, <1>4, <1>5, <1>6, SetupNext1

LEMMA BeginCreateKeeps ==
  ASSUME Inv, BeginCreate
  PROVE  Inv'
<1>1. TypeOK /\ SetupOK /\ SetupSteady
  BY DEF Inv
<1>2. PICK c, g, d : c = setup /\ g = Goto("setup", "create") /\ d = [g EXCEPT !.ret = 1]
  OBVIOUS
<1>3. /\ c.at = "begin create" /\ Become("setup", d) /\ conn' = conn
      /\ alarm' = [alarm EXCEPT !["setup"] = FALSE] /\ made' = made /\ config' = config
      /\ account' = account /\ Server
  BY <1>2 DEF BeginCreate, setup, files
<1>4. /\ c.op = "setup" /\ c.uid = 0 /\ c.name \in Names /\ c.mask \in Masks
      /\ c.key \in Vars /\ c.val \in Vals
  BY <1>1, <1>2, <1>3 DEF SetupOK, SetupCall, WithUser, ModeSteps
<1>5. WentTo(c, g, "create")
  <2>1. "create" \in Steps /\ "setup" \in Procs
    BY DEF Steps, Procs
  <2> QED BY <1>1, <1>2, <2>1, GotoMoves DEF setup, TypeOK
<1>6. /\ d \in CallType /\ d.at = "create" /\ d.ret = 1 /\ d.op = "setup" /\ d.uid = 0
      /\ d.name = c.name /\ d.mask = c.mask /\ d.key = c.key /\ d.val = c.val
  <2>1. 1 \in Int
    OBVIOUS
  <2> QED BY <1>2, <1>4, <1>5, <2>1 DEF WentTo, Moved, CallType
<1>7. SetupCall(d)
  BY <1>4, <1>6 DEF SetupCall, BeforeUser
<1>8. /\ conn' \in [Procs -> {"up", "down"}] /\ alarm' \in [Procs -> BOOLEAN] /\ made' \in 0 .. 4
      /\ config' \in {"none", "empty", "full"} /\ account' \in BOOLEAN
  BY <1>1, <1>3 DEF TypeOK, SqlTypeOK
<1>9. /\ TypeOK' /\ SetupOK' /\ bot' = bot /\ setup' = d /\ db' = db /\ mixed' = mixed
      /\ contested' = contested /\ raced' = raced
  BY <1>3, <1>6, <1>7, <1>8, SetupTypes
<1>10. SetupSteady'
  <2>1. made = 4 /\ config = "full"
    BY <1>1, <1>2, <1>3, <1>4 DEF SetupSteady
  <2>2. setup'.ret \in 1 .. 7 /\ \A i \in 1 .. setup'.ret - 1 : FALSE
    BY <1>6, <1>9
  <2>3. setup'.op = "setup" /\ setup'.at = "create" /\ made' = 4 /\ config' = "full"
    BY <1>3, <1>6, <1>9, <2>1
  <2>4. "create" \in BeforeUser
    BY DEF BeforeUser
  <2>5. \A t : Has(t)' <=> Has(t)
    BY <1>9 DEF Has
  <2> QED BY <1>1, <2>2, <2>3, <2>4, <2>5 DEF SetupSteady
<1> QED BY <1>3, <1>6, <1>9, <1>10, SetupGoesOn

LEMMA EndCreateKeeps ==
  ASSUME Inv, EndCreate
  PROVE  Inv'
<1>1. TypeOK /\ SetupOK /\ SetupSteady
  BY DEF Inv
<1>2. PICK c, g, d : c = setup /\ g = Goto("setup", "count var") /\ d = [g EXCEPT !.ret = 0]
  OBVIOUS
<1>3. /\ c.at = "create" /\ conn' = conn /\ alarm' = alarm /\ made' = made
      /\ config' = config /\ account' = account /\ Server
  BY <1>2 DEF EndCreate, setup, files
<1>4. /\ conn' \in [Procs -> {"up", "down"}] /\ alarm' \in [Procs -> BOOLEAN] /\ made' \in 0 .. 4
      /\ config' \in {"none", "empty", "full"} /\ account' \in BOOLEAN
  BY <1>1, <1>3 DEF TypeOK, SqlTypeOK
<1>5. CASE Stop(-1)
  BY <1>3, <1>4, <1>5, SetupStops
<1>6. CASE Become("setup", d)
  <2>1. /\ c.op = "setup" /\ c.uid = 0 /\ c.name \in Names /\ c.mask \in Masks
        /\ c.key \in Vars /\ c.val \in Vals
    BY <1>1, <1>2, <1>3 DEF SetupOK, SetupCall, WithUser, ModeSteps
  <2>2. WentTo(c, g, "count var")
    <3>1. "count var" \in Steps /\ "setup" \in Procs
      BY DEF Steps, Procs
    <3> QED BY <1>1, <1>2, <3>1, GotoMoves DEF setup, TypeOK
  <2>3. /\ d \in CallType /\ d.at = "count var" /\ d.op = "setup" /\ d.uid = 0
        /\ d.name = c.name /\ d.mask = c.mask /\ d.key = c.key /\ d.val = c.val
    <3>1. 0 \in Int
      OBVIOUS
    <3> QED BY <1>2, <2>1, <2>2, <3>1 DEF WentTo, Moved, CallType
  <2>4. SetupCall(d)
    BY <2>1, <2>3 DEF SetupCall, VarSteps
  <2>5. /\ TypeOK' /\ SetupOK' /\ bot' = bot /\ setup' = d /\ db' = db /\ mixed' = mixed
        /\ contested' = contested /\ raced' = raced
    BY <1>3, <1>4, <1>6, <2>3, <2>4, SetupTypes
  <2>6. SetupSteady'
    <3>1. made = 4 /\ config = "full"
      BY <1>1, <1>2, <1>3, <2>1 DEF SetupSteady
    <3> QED BY <1>1, <1>3, <2>3, <2>5, <3>1 DEF SetupSteady, Has, BeforeUser
  <2> QED BY <1>3, <2>3, <2>5, <2>6, SetupGoesOn
<1> QED BY <1>2, <1>5, <1>6 DEF EndCreate

LEMMA SetupStartKeeps ==
  ASSUME Inv, SetupStart
  PROVE  Inv'
<1>1. TypeOK /\ SetupSteady
  BY DEF Inv
<1>2. PICK n \in Names, m \in Masks, b \in BOOLEAN :
        \/ /\ \E v \in Vars, x \in Vals :
                Become("setup", [NoCall EXCEPT !.op = "setup", !.at = "paths", !.name = n,
                                               !.mask = m, !.pass = b, !.key = v, !.val = x])
           /\ conn' = [conn EXCEPT !["setup"] = "down"]
        \/ /\ config = "full" /\ made = 4 /\ account /\ db.exists
           /\ Become("setup", [NoCall EXCEPT !.op = "owner", !.at = "find name", !.name = n,
                                             !.mask = m, !.pass = b])
           /\ conn' = [conn EXCEPT !["setup"] = "up"]
  BY DEF SetupStart
<1>3. PICK d :
        /\ d \in CallType /\ SetupCall(d) /\ Become("setup", d) /\ d.uid = 0
        /\ (d.op = "setup" /\ d.at = "paths") \/ (d.op = "owner" /\ d.at = "find name")
  <2>1. ASSUME NEW v \in Vars, NEW x \in Vals,
               Become("setup", [NoCall EXCEPT !.op = "setup", !.at = "paths", !.name = n,
                                              !.mask = m, !.pass = b, !.key = v, !.val = x])
        PROVE  \E d : /\ d \in CallType /\ SetupCall(d) /\ Become("setup", d) /\ d.uid = 0
                      /\ d.op = "setup" /\ d.at = "paths"
    <3>1. PICK d : d = [NoCall EXCEPT !.op = "setup", !.at = "paths", !.name = n,
                                      !.mask = m, !.pass = b, !.key = v, !.val = x]
      OBVIOUS
    <3>2. "setup" \in Ops /\ "paths" \in Steps /\ x \in Nat
      BY Constants DEF Ops, Steps
    <3>3. /\ d \in CallType /\ d.op = "setup" /\ d.at = "paths" /\ d.uid = 0 /\ d.name = n
          /\ d.mask = m /\ d.key = v /\ d.val = x
      BY <3>1, <3>2, NoCallFields DEF CallType
    <3>4. SetupCall(d)
      BY <3>3 DEF SetupCall, BeforeUser
    <3> QED BY <2>1, <3>1, <3>3, <3>4
  <2>2. ASSUME Become("setup", [NoCall EXCEPT !.op = "owner", !.at = "find name", !.name = n,
                                              !.mask = m, !.pass = b])
        PROVE  \E d : /\ d \in CallType /\ SetupCall(d) /\ Become("setup", d) /\ d.uid = 0
                      /\ d.op = "owner" /\ d.at = "find name"
    <3>1. PICK d : d = [NoCall EXCEPT !.op = "owner", !.at = "find name", !.name = n,
                                      !.mask = m, !.pass = b]
      OBVIOUS
    <3>2. "owner" \in Ops /\ "find name" \in Steps
      BY DEF Ops, Steps
    <3>3. /\ d \in CallType /\ d.op = "owner" /\ d.at = "find name" /\ d.uid = 0 /\ d.name = n
          /\ d.mask = m
      BY <3>1, <3>2, NoCallFields DEF CallType
    <3>4. SetupCall(d)
      BY <3>3 DEF SetupCall
    <3> QED BY <2>2, <3>1, <3>3, <3>4
  <2> QED BY <1>2, <2>1, <2>2
<1>4. /\ alarm' = [alarm EXCEPT !["setup"] = FALSE] /\ Server /\ made' = made /\ config' = config
      /\ account' = account
  BY DEF SetupStart, files
<1>5. /\ conn' \in [Procs -> {"up", "down"}] /\ conn'["bot"] = conn["bot"]
      /\ alarm' \in [Procs -> BOOLEAN] /\ made' \in 0 .. 4
      /\ config' \in {"none", "empty", "full"} /\ account' \in BOOLEAN
  BY <1>1, <1>2, <1>4 DEF TypeOK, SqlTypeOK, Procs
<1>6. /\ TypeOK' /\ SetupOK' /\ bot' = bot /\ setup' = d /\ db' = db /\ mixed' = mixed
      /\ contested' = contested /\ raced' = raced
  BY <1>3, <1>4, <1>5, SetupTypes
<1>7. SetupSteady'
  BY <1>1, <1>3, <1>6 DEF SetupSteady, Has, BeforeUser
<1> QED BY <1>3, <1>5, <1>6, <1>7, SetupGoesOn

(***************************************************************************)
(* The invariant holds.                                                    *)
(***************************************************************************)
LEMMA InitInv ==
  ASSUME Init
  PROVE  Inv
<1>1. /\ db.user = {} /\ db.mask = {} /\ db.mode = {} /\ db.var = {} /\ db.ban = {}
      /\ db.note = {} /\ db.last = 0 /\ db.tables = {}
      /\ bot = NoCall /\ setup = NoCall /\ raced = {} /\ contested = {} /\ ~mixed
  BY DEF Init, SqlInit, bot, setup, Procs
<1>2. /\ NoCall \in CallType /\ NoCall.op = "" /\ NoCall.uid = 0 /\ NoCall.at = "off"
  BY NoCallFields
<1>3. TypeOK
  <2>1. db \in DbType
    BY Constants DEF Init, SqlInit, DbType
  <2>2. call \in [Procs -> CallType]
    BY <1>2 DEF Init, SqlInit
  <2>3. 0 \in 0 .. MaxOps /\ 0 \in 0 .. MaxFaults /\ 0 \in 0 .. 4
    BY Constants
  <2> QED BY <2>1, <2>2, <2>3 DEF Init, SqlInit, TypeOK, SqlTypeOK
<1>4. BotOK /\ SetupOK
  BY <1>1, <1>2 DEF BotOK, SetupOK, BotCall, SetupCall
<1>5. Tidy
  <2>1. bot.uid = 0 /\ setup.uid = 0
    BY <1>1, <1>2
  <2>2. bot.uid <= db.last /\ setup.uid <= db.last
    BY <1>1, <2>1
  <2> QED BY <1>1, <2>2 DEF Tidy
<1>6. SetupSteady /\ Apart /\ Seen /\ OwnerSoFar
  BY <1>1, <1>2 DEF SetupSteady, Apart, Seen, OwnerSoFar, Has
<1>7. Deleted /\ Present /\ NamesUnique /\ RowsHaveUsers
  BY <1>1, <1>2 DEF Deleted, Present, NamesUnique, RowsHaveUsers, UserIds
<1>8. NamesFree
  BY <1>1, <1>2 DEF NamesFree, AboutToName, Procs, bot, setup
<1> QED BY <1>3, <1>4, <1>5, <1>6, <1>7, <1>8 DEF Inv

LEMMA StutterInv ==
  ASSUME Inv, UNCHANGED vars
  PROVE  Inv'
<1>1. /\ db' = db /\ call' = call /\ conn' = conn /\ alarm' = alarm /\ mixed' = mixed
      /\ contested' = contested /\ raced' = raced /\ ops' = ops /\ faults' = faults
      /\ made' = made /\ config' = config /\ account' = account /\ bot' = bot /\ setup' = setup
  BY DEF vars, bot, setup
<1>2. /\ TypeOK /\ BotOK /\ SetupOK /\ Tidy /\ SetupSteady /\ Apart /\ Seen /\ OwnerSoFar
      /\ ~mixed => Deleted /\ Present /\ NamesFree /\ NamesUnique /\ RowsHaveUsers
  BY DEF Inv
<1>3. TypeOK'
  BY <1>1, <1>2 DEF TypeOK, SqlTypeOK
<1>4. BotOK' /\ SetupOK'
  BY <1>1, <1>2 DEF BotOK, SetupOK, BotCall, SetupCall
<1>5. Tidy' /\ SetupSteady'
  BY <1>1, <1>2 DEF Tidy, SetupSteady, Has
<1>6. Apart' /\ Seen' /\ OwnerSoFar'
  BY <1>1, <1>2 DEF Apart, Seen, OwnerSoFar, MaskRow, ModeRow, VarRows, BansOn
<1>7. ASSUME ~mixed
      PROVE  Deleted' /\ Present' /\ NamesFree' /\ NamesUnique' /\ RowsHaveUsers'
  <2>1. Deleted' /\ Present'
    BY ZenonT(30), <1>1, <1>2, <1>7 DEF Deleted, Present, UserIds
  <2>2. NamesUnique' /\ RowsHaveUsers'
    BY <1>1, <1>2, <1>7 DEF NamesUnique, RowsHaveUsers, UserIds
  <2>3. NamesFree'
    BY <1>1, <1>2, <1>7 DEF NamesFree, AboutToName, Called
  <2> QED BY <2>1, <2>2, <2>3
<1> QED BY <1>1, <1>3, <1>4, <1>5, <1>6, <1>7 DEF Inv

LEMMA NextInv ==
  ASSUME Inv, Next
  PROVE  Inv'
<1>1. TypeOK /\ BotOK /\ SetupOK /\ SetupSteady
  BY DEF Inv
<1>2. ASSUME NEW p \in Procs, Kill(p) \/ (Statement(p) /\ Untouched)
      PROVE  Inv'
  BY <1>2, KillKeeps, StatementStep, SteppedKeeps
<1>3. ASSUME BotNext
      PROVE  Inv'
  BY <1>3, BotStartKeeps, BotExitKeeps, CallAddKeeps, CallUserKeeps, CallVarKeeps,
     CallDelBanKeeps, CallDelNoteKeeps, CallLookupKeeps DEF BotNext
<1>4. ASSUME CreateDb \/ CheckTables \/ CreateTable
      PROVE  Inv'
  <2>1. Stepped("setup")
    BY <1>1, <1>4, CreateDbStep, CheckTablesStep, CreateTableStep
  <2> QED BY <2>1, SteppedKeeps DEF Procs
<1>5. ASSUME SetupNext
      PROVE  Inv'
  BY <1>4, <1>5, SetupStartKeeps, MakePathKeeps, ReadConfigKeeps, WriteConfigKeeps, ConnectKeeps,
     GrantKeeps, SelectKeeps, BeginCreateKeeps, EndCreateKeeps DEF SetupNext
<1> QED BY <1>2, <1>3, <1>5 DEF Next

\* The inductive invariant: every reachable state satisfies it.
THEOREM InvHolds == Spec => []Inv
<1>1. Init => Inv
  BY InitInv
<1>2. Inv /\ [Next]_vars => Inv'
  BY NextInv, StutterInv
<1> QED BY <1>1, <1>2, PTL DEF Spec

\* No row belongs to a user who is gone, whatever connection is lost and whatever
\* process is killed, for any number of users, calls and faults (userdb_del).
THEOREM RowsBelong == Spec => []SqlInv
<1>1. Inv => SqlInv
  BY DEF Inv, SqlInv, RowsHaveUsers
<1> QED BY <1>1, InvHolds, PTL

\* Two users have one name only when it was asked for by both processes at a time
\* (userdb_find_byname).
THEOREM NamesStayUnique == Spec => []NamesUnique
<1>1. Inv => NamesUnique
  BY DEF Inv, NamesUnique
<1> QED BY <1>1, InvHolds, PTL

(***************************************************************************)
(* What calls and setup promise when they return.                          *)
(***************************************************************************)
LEMMA QuerySucceeds ==
  ASSUME SqlTypeOK, NEW p \in Procs,
         NEW at, NEW can, NEW next, NEW failed, NEW strange, NEW new,
         Query(p, at, can, next, failed, strange, new), Untouched,
         ~alarm'[p], p = "setup" \/ ~mixed'
  PROVE  call'[p] = next /\ db' = new /\ can /\ conn[p] = "up"
<1>1. Outcome(p, can, next, failed, strange, new)
  BY QueryOutcome
<1> QED BY <1>1 DEF Outcome

LEMMA DoSucceeds ==
  ASSUME SqlTypeOK, NEW p \in Procs, NEW at, NEW can, NEW next, NEW new,
         Do(p, at, can, next, new), Untouched, ~alarm'[p], p = "setup" \/ ~mixed'
  PROVE  call'[p] = next /\ db' = new /\ can /\ conn[p] = "up"
<1>1. PICK strange : strange = {next}
  OBVIOUS
<1>2. Query(p, at, can, next, next, strange, new)
  BY <1>1 DEF Do
<1> QED BY <1>2, QuerySucceeds

LEMMA CountSucceeds ==
  ASSUME SqlTypeOK, NEW p \in Procs, NEW at, NEW can, NEW next, NEW none,
         Count(p, at, can, next, none), Untouched, ~alarm'[p], p = "setup" \/ ~mixed'
  PROVE  call'[p] = next /\ db' = db /\ can /\ conn[p] = "up"
<1>1. PICK strange : strange = {none, NoCall}
  OBVIOUS
<1>2. Query(p, at, can, next, NoCall, strange, db)
  BY <1>1 DEF Count
<1> QED BY <1>2, QuerySucceeds

LEMMA BotReturns ==
  ASSUME Inv, Next, Returns("bot")
  PROVE  Statement("bot") /\ Untouched
<1>1. TypeOK
  BY DEF Inv
<1>2. bot.at \notin {"off", "idle"} /\ bot'.at = "idle"
  BY DEF Returns, Busy, bot
<1>3. ASSUME NEW d, Become("setup", d)
      PROVE  FALSE
  BY <1>1, <1>2, <1>3, BecomeBecomes DEF TypeOK, Becomes, bot, Procs
<1>4. call' # call
  BY <1>2 DEF bot
<1>5. ~Kill("bot")
  <2>1. Become("bot", NoCall) => bot' = NoCall
    BY <1>1, BecomeBecomes DEF TypeOK, Becomes, bot, Procs
  <2> QED BY <1>2, <2>1, NoCallFields DEF Kill
<1>6. ~BotNext
  BY ZenonT(30), <1>2 DEF BotNext, BotStart, BotExit, CallAdd, CallUser, CallVar, CallDelBan, CallDelNote,
              CallLookup, Begin, bot
<1>7. ~Stepped("setup")
  BY <1>2, Frames DEF Stepped, Effect, Procs
<1>8. ~(CreateDb \/ CheckTables \/ CreateTable)
  BY <1>7, CreateDbStep, CheckTablesStep, CreateTableStep DEF Inv
<1>9. ~(SetupStart \/ MakePath \/ ReadConfig \/ WriteConfig \/ Connect)
  <2>1. ~SetupStart
    BY <1>3 DEF SetupStart
  <2>2. ~MakePath
    BY <1>3, <1>4 DEF MakePath, Next1
  <2>3. ~ReadConfig
    <3>1. config \in {"none", "empty", "full"}
      BY <1>1 DEF TypeOK
    <3> QED BY <1>3, <3>1 DEF ReadConfig, Next1, Stop
  <2>4. ~WriteConfig /\ ~Connect
    BY <1>3 DEF WriteConfig, Connect, Next1
  <2> QED BY <2>1, <2>2, <2>3, <2>4
<1>10. ~(Grant \/ Select \/ BeginCreate \/ EndCreate)
  BY <1>3, <1>4 DEF Grant, Select, BeginCreate, EndCreate, Next1, Stop
<1>11. ~(Kill("setup") \/ (Statement("setup") /\ Untouched))
  BY <1>3, <1>7, StatementStep DEF Kill, Procs
<1> QED BY <1>5, <1>6, <1>8, <1>9, <1>10, <1>11 DEF Next, SetupNext, Procs

\* Which statement it is shows in the call.
LEMMA StatementAt ==
  ASSUME NEW p \in Procs, Statement(p)
  PROVE  \/ FindName(p) /\ call[p].at = "find name"
         \/ InsUser(p) /\ call[p].at = "ins user"
         \/ InsMask(p) /\ call[p].at = "ins mask"
         \/ UpdPass(p) /\ call[p].at = "upd pass"
         \/ CountMode(p) /\ call[p].at = "count mode"
         \/ InsMode(p) /\ call[p].at = "ins mode"
         \/ UpdMode(p) /\ call[p].at = "upd mode"
         \/ DropMode(p) /\ call[p].at = "drop mode"
         \/ CountVar(p) /\ call[p].at = "count var"
         \/ InsVar(p) /\ call[p].at = "ins var"
         \/ UpdVar(p) /\ call[p].at = "upd var"
         \/ DropVar(p) /\ call[p].at = "drop var"
         \/ CountMask(p) /\ call[p].at = "count mask"
         \/ DropMask(p) /\ call[p].at = "drop mask"
         \/ UpdName(p) /\ call[p].at = "upd name"
         \/ FindMask(p) /\ call[p].at = "find mask"
         \/ CheckPass(p) /\ call[p].at = "check pass"
         \/ CountUvar(p) /\ call[p].at = "count uvar"
         \/ SelBan(p) /\ call[p].at = "sel ban"
         \/ InsBan(p) /\ call[p].at = "ins ban"
         \/ UpdBan(p) /\ call[p].at = "upd ban"
         \/ DropBan(p) /\ call[p].at = "drop ban"
         \/ InsNote(p) /\ call[p].at = "ins note"
         \/ DropNote(p) /\ call[p].at = "drop note"
         \/ DelBans(p) /\ call[p].at = "del ban"
         \/ DelModes(p) /\ call[p].at = "del mode"
         \/ DelAuthor(p) /\ call[p].at = "del author"
         \/ DelTarget(p) /\ call[p].at = "del target"
         \/ DelVars(p) /\ call[p].at = "del var"
         \/ DelMasks(p) /\ call[p].at = "del mask"
         \/ DelUser(p) /\ call[p].at = "del user"
<1>1. ASSUME FindName(p) PROVE FindName(p) /\ call[p].at = "find name"
  BY <1>1 DEF FindName, Query
<1>2. ASSUME InsUser(p) PROVE InsUser(p) /\ call[p].at = "ins user"
  BY <1>2 DEF InsUser, Query
<1>3. ASSUME InsMask(p) PROVE InsMask(p) /\ call[p].at = "ins mask"
  BY <1>3 DEF InsMask, Do, Query
<1>4. ASSUME UpdPass(p) PROVE UpdPass(p) /\ call[p].at = "upd pass"
  BY <1>4 DEF UpdPass, Do, Query
<1>5. ASSUME CountMode(p) PROVE CountMode(p) /\ call[p].at = "count mode"
  BY <1>5 DEF CountMode, Count, Query
<1>6. ASSUME InsMode(p) PROVE InsMode(p) /\ call[p].at = "ins mode"
  BY <1>6 DEF InsMode, Do, Query
<1>7. ASSUME UpdMode(p) PROVE UpdMode(p) /\ call[p].at = "upd mode"
  BY <1>7 DEF UpdMode, Do, Query
<1>8. ASSUME DropMode(p) PROVE DropMode(p) /\ call[p].at = "drop mode"
  BY <1>8 DEF DropMode, Do, Query
<1>9. ASSUME CountVar(p) PROVE CountVar(p) /\ call[p].at = "count var"
  BY <1>9 DEF CountVar, Count, Query
<1>10. ASSUME InsVar(p) PROVE InsVar(p) /\ call[p].at = "ins var"
  BY <1>10 DEF InsVar, Do, Query
<1>11. ASSUME UpdVar(p) PROVE UpdVar(p) /\ call[p].at = "upd var"
  BY <1>11 DEF UpdVar, Do, Query
<1>12. ASSUME DropVar(p) PROVE DropVar(p) /\ call[p].at = "drop var"
  BY <1>12 DEF DropVar, Do, Query
<1>13. ASSUME CountMask(p) PROVE CountMask(p) /\ call[p].at = "count mask"
  BY <1>13 DEF CountMask, Count, Query
<1>14. ASSUME DropMask(p) PROVE DropMask(p) /\ call[p].at = "drop mask"
  BY <1>14 DEF DropMask, Do, Query
<1>15. ASSUME UpdName(p) PROVE UpdName(p) /\ call[p].at = "upd name"
  BY <1>15 DEF UpdName, Do, Query
<1>16. ASSUME FindMask(p) PROVE FindMask(p) /\ call[p].at = "find mask"
  BY <1>16 DEF FindMask, Query
<1>17. ASSUME CheckPass(p) PROVE CheckPass(p) /\ call[p].at = "check pass"
  BY <1>17 DEF CheckPass, Query
<1>18. ASSUME CountUvar(p) PROVE CountUvar(p) /\ call[p].at = "count uvar"
  BY <1>18 DEF CountUvar, Count, Query
<1>19. ASSUME SelBan(p) PROVE SelBan(p) /\ call[p].at = "sel ban"
  BY <1>19 DEF SelBan, Query
<1>20. ASSUME InsBan(p) PROVE InsBan(p) /\ call[p].at = "ins ban"
  BY <1>20 DEF InsBan, Do, Query
<1>21. ASSUME UpdBan(p) PROVE UpdBan(p) /\ call[p].at = "upd ban"
  BY <1>21 DEF UpdBan, Do, Query
<1>22. ASSUME DropBan(p) PROVE DropBan(p) /\ call[p].at = "drop ban"
  BY <1>22 DEF DropBan, Do, Query
<1>23. ASSUME InsNote(p) PROVE InsNote(p) /\ call[p].at = "ins note"
  BY <1>23 DEF InsNote, Do, Query
<1>24. ASSUME DropNote(p) PROVE DropNote(p) /\ call[p].at = "drop note"
  BY <1>24 DEF DropNote, Do, Query
<1>25. ASSUME DelBans(p) PROVE DelBans(p) /\ call[p].at = "del ban"
  BY <1>25 DEF DelBans, Do, Query
<1>26. ASSUME DelModes(p) PROVE DelModes(p) /\ call[p].at = "del mode"
  BY <1>26 DEF DelModes, Do, Query
<1>27. ASSUME DelAuthor(p) PROVE DelAuthor(p) /\ call[p].at = "del author"
  BY <1>27 DEF DelAuthor, Do, Query
<1>28. ASSUME DelTarget(p) PROVE DelTarget(p) /\ call[p].at = "del target"
  BY <1>28 DEF DelTarget, Do, Query
<1>29. ASSUME DelVars(p) PROVE DelVars(p) /\ call[p].at = "del var"
  BY <1>29 DEF DelVars, Do, Query
<1>30. ASSUME DelMasks(p) PROVE DelMasks(p) /\ call[p].at = "del mask"
  BY <1>30 DEF DelMasks, Do, Query
<1>31. ASSUME DelUser(p) PROVE DelUser(p) /\ call[p].at = "del user"
  BY <1>31 DEF DelUser, Do, Query
<1> QED
  BY <1>1, <1>2, <1>3, <1>4, <1>5, <1>6, <1>7, <1>8, <1>9, <1>10, <1>11, <1>12, <1>13, <1>14,
     <1>15, <1>16, <1>17, <1>18, <1>19, <1>20, <1>21, <1>22, <1>23, <1>24, <1>25, <1>26, <1>27,
     <1>28, <1>29, <1>30, <1>31 DEF Statement

LEMMA ReturnsZero ==
  ASSUME NEW p \in Procs, NEW next, next = Return(p, 0)
  PROVE  next.ret = 0 /\ next.at = "idle"
BY NoCallFields DEF Return, CallType

LEMMA ReturnsFail ==
  ASSUME NEW p \in Procs, NEW next, next = Return(p, -1)
  PROVE  next.ret = -1 /\ next.at = "idle"
BY NoCallFields DEF Return, CallType

LEMMA LookupStep ==
  ASSUME Inv, [Next]_vars
  PROVE  HonestLookup
<1>1. TypeOK /\ BotOK /\ Seen
  BY DEF Inv
<1>2. SUFFICES ASSUME Returns("bot"), bot.op = "lookup", bot'.ret > 0
               PROVE  /\ \E r \in db.user : r.uid = bot'.ret /\ ~r.pass
                      /\ [uid |-> bot'.ret, mask |-> bot.mask] \in db.mask
  BY DEF HonestLookup, bot
<1>3. PICK p, c : p \in Procs /\ p = "bot" /\ c = call[p]
  BY DEF Procs
<1>4. c = bot /\ call'[p] = bot' /\ bot.at \notin {"off", "idle"} /\ bot'.at = "idle"
  BY <1>2, <1>3 DEF Returns, Busy, bot
<1>5. Statement(p) /\ Untouched
  BY <1>2, <1>3, <1>4, BotReturns DEF vars, bot
<1>6. FindMask(p) \/ CheckPass(p)
  <2>1. bot.at \in {"find mask", "check pass"}
    BY <1>1, <1>2, <1>4 DEF BotOK, BotCall
  <2> QED BY <1>3, <1>4, <1>5, <2>1, StatementAt
<1>7. SqlTypeOK /\ c \in CallType
  BY <1>1, <1>3 DEF TypeOK, SqlTypeOK
<1>8. CASE FindMask(p)
  <2>1. PICK u, g, nobody, found, strange, can, next :
          /\ g = Goto(p, "check pass") /\ nobody = Return(p, 0) /\ strange = {nobody, NoCall}
          /\ found = [g EXCEPT !.uid = u] /\ next = (IF u = 0 THEN nobody ELSE found)
          /\ Query(p, "find mask", can, next, nobody, strange, db)
    BY <1>8 DEF FindMask
  <2>2. Outcome(p, can, next, nobody, strange, db)
    BY <1>3, <1>5, <1>7, <2>1, QueryOutcome
  <2>3. call'[p] = nobody \/ call'[p] = NoCall \/ call'[p] = found
    BY <2>1, <2>2 DEF Outcome
  <2>4. nobody.ret = 0 /\ NoCall.ret = 0
    BY <1>3, <2>1, ReturnsZero, NoCallFields
  <2>5. found.at = "check pass"
    <3>1. g \in CallType /\ g.at = "check pass"
      <4>1. "check pass" \in Steps
        BY DEF Steps
      <4> QED BY <1>3, <1>7, <2>1, <4>1, GotoType
    <3> QED BY <2>1, <3>1 DEF CallType
  <2>6. call'[p].ret = 0
    BY <1>4, <2>3, <2>4, <2>5
  <2> QED BY <1>2, <1>4, <2>6
<1>9. CASE CheckPass(p)
  <2>1. PICK u, nobody, next, can, strange :
          /\ u = (IF \E r \in OfUser(db.user, c.uid) : ~r.pass THEN c.uid ELSE 0)
          /\ nobody = Return(p, 0) /\ strange = {nobody} /\ next = Return(p, u)
          /\ Query(p, "check pass", can, next, nobody, strange, db)
    BY <1>3, <1>9 DEF CheckPass
  <2>2. Outcome(p, can, next, nobody, strange, db) /\ c.at = "check pass"
    BY <1>3, <1>5, <1>7, <2>1, QueryOutcome
  <2>3. call'[p] = nobody \/ call'[p] = NoCall \/ call'[p] = next
    BY <2>1, <2>2 DEF Outcome
  <2>4. nobody.ret = 0 /\ NoCall.ret = 0 /\ next.ret = u
    <3>1. u \in Int
      <4>1. c.uid \in 0 .. MaxUsers
        BY <1>7 DEF CallType
      <4>2. c.uid \in Int /\ 0 \in Int
        BY <4>1, Constants
      <4> QED BY <2>1, <4>2
    <3>2. nobody.ret = 0 /\ NoCall.ret = 0
      BY <1>3, <2>1, ReturnsZero, NoCallFields
    <3>3. next.ret = u
      BY <1>3, <2>1, <3>1, ReturnFields
    <3> QED BY <3>2, <3>3
  <2>5. bot'.ret = u /\ u # 0
    BY <1>2, <1>4, <2>3, <2>4
  <2>6. u = c.uid /\ \E r \in db.user : r.uid = c.uid /\ ~r.pass
    BY <2>1, <2>5 DEF OfUser
  <2>7. MaskRow(bot) \in db.mask
    BY <1>1, <1>4, <2>2 DEF Seen
  <2> QED BY <1>4, <2>5, <2>6, <2>7 DEF MaskRow
<1> QED BY <1>6, <1>8, <1>9

\* A nick is taken for a user only with a mask of that user and without a password,
\* whatever has failed and whatever setup does meanwhile (user.c, lookup_user).
THEOREM LookupsAreHonest == Spec => LookupHonest
<1>1. Inv /\ [Next]_vars => [HonestLookup]_vars
  BY LookupStep
<1> QED BY <1>1, InvHolds, PTL DEF Spec, LookupHonest

\* Setup returns from a statement, or because it has given up.
LEMMA SetupReturns ==
  ASSUME Inv, [Next]_vars, Returns("setup")
  PROVE  (Statement("setup") /\ Untouched) \/ setup'.ret = -1
<1>1. TypeOK /\ BotOK /\ SetupOK /\ SetupSteady
  BY DEF Inv
<1>2. setup.at \notin {"off", "idle"} /\ setup'.at = "idle"
  BY DEF Returns, Busy, setup
<1>3. PICK p \in Procs : p = "setup"
  BY DEF Procs
<1>4. ASSUME NEW d, Become(p, d)
      PROVE  setup' = d
  BY <1>1, <1>3, <1>4, BecomeBecomes DEF TypeOK, Becomes, setup
<1>5. ASSUME NEW at \in BeforeUser \cup {"count var"}, Next1(at)
      PROVE  FALSE
  <2>1. at \in Steps /\ at # "idle"
    BY DEF BeforeUser, Steps
  <2>2. setup' = Goto(p, at)
    BY <1>3, <1>4, <1>5 DEF Next1
  <2>3. setup'.at = at
    BY <1>1, <2>1, <2>2, GotoType DEF TypeOK
  <2> QED BY <1>2, <2>1, <2>3
<1>6. Stop(-1) => setup'.ret = -1
  BY <1>3, <1>4, ReturnsFail DEF Stop
<1>7. call' # call
  BY <1>2 DEF setup
<1>8. \A d : ~Become("bot", d)
  BY <1>1, <1>2, BecomeBecomes DEF TypeOK, Becomes, setup, Procs
<1>9. ~BotNext /\ ~Kill("bot")
  BY ZenonT(30), <1>8 DEF BotNext, BotStart, BotExit, CallAdd, CallUser, CallVar, CallDelBan, CallDelNote,
              CallLookup, Begin, Kill
<1>10. ~(Statement("bot") /\ Untouched)
  <2>1. ~Stepped("bot")
    BY <1>2, Frames DEF Stepped, Effect, Procs
  <2> QED BY <2>1, StatementStep DEF Procs
<1>11. ~Kill("setup")
  BY <1>2, <1>3, <1>4, NoCallFields DEF Kill
<1>12. ~SetupStart
  BY <1>2 DEF SetupStart, setup
<1>13. ~MakePath
  <2>1. "config" \in BeforeUser
    BY DEF BeforeUser
  <2> QED BY <1>5, <1>7, <2>1 DEF MakePath
<1>14. ReadConfig => setup'.ret = -1
  <2>1. config \in {"none", "empty", "full"}
    BY <1>1 DEF TypeOK
  <2>2. "write config" \in BeforeUser /\ "connect" \in BeforeUser
    BY DEF BeforeUser
  <2> QED BY <1>5, <1>6, <2>1, <2>2 DEF ReadConfig
<1>15. ~WriteConfig /\ (Grant => setup'.ret = -1)
  <2>1. "connect" \in BeforeUser
    BY DEF BeforeUser
  <2> QED BY <1>5, <1>6, <2>1 DEF WriteConfig, Grant
<1>16. ~Connect /\ ~Select
  <2>1. {"grant", "select", "check", "create db"} \subseteq BeforeUser
    BY DEF BeforeUser
  <2> QED BY <1>5, <2>1 DEF Connect, Select
<1>17. ~BeginCreate
  <2>1. PICK g : g = Goto(p, "create")
    OBVIOUS
  <2>2. g \in CallType /\ g.at = "create"
    <3>1. "create" \in Steps
      BY DEF Steps
    <3> QED BY <1>1, <2>1, <3>1, GotoType DEF TypeOK
  <2>3. BeginCreate => setup' = [g EXCEPT !.ret = 1]
    BY <1>3, <1>4, <2>1 DEF BeginCreate
  <2> QED BY <1>2, <2>2, <2>3 DEF CallType
<1>18. EndCreate => setup'.ret = -1
  <2>1. PICK g : g = Goto(p, "count var")
    OBVIOUS
  <2>2. g \in CallType /\ g.at = "count var"
    <3>1. "count var" \in Steps
      BY DEF Steps
    <3> QED BY <1>1, <2>1, <3>1, GotoType DEF TypeOK
  <2>3. EndCreate => Stop(-1) \/ setup' = [g EXCEPT !.ret = 0]
    BY <1>3, <1>4, <2>1 DEF EndCreate
  <2> QED BY <1>2, <1>6, <2>2, <2>3 DEF CallType
<1>19. ASSUME CreateDb
       PROVE  setup'.ret = -1
  <2>1. PICK next, failed, can, new, strange :
          /\ next = Goto(p, "check") /\ failed = Return(p, -1)
          /\ Query(p, "create db", can, next, failed, strange, new) /\ Untouched
    BY <1>3, <1>19 DEF CreateDb
  <2>2. Outcome(p, can, next, failed, strange, new)
    BY <1>1, <2>1, QueryOutcome DEF TypeOK
  <2>3. setup' = next \/ setup' = failed \/ setup' = NoCall
    BY <1>3, <2>2 DEF Outcome, setup
  <2>4. next.at = "check"
    <3>1. "check" \in Steps
      BY DEF Steps
    <3> QED BY <1>1, <2>1, <3>1, GotoType DEF TypeOK
  <2>5. failed.ret = -1 /\ NoCall.at = "off"
    BY <2>1, ReturnsFail, NoCallFields
  <2> QED BY <1>2, <2>3, <2>4, <2>5
<1>20. ASSUME CheckTables
       PROVE  setup'.ret = -1
  <2>1. PICK known, fresh, next, failed, can, strange :
          /\ known = Return(p, -1) /\ fresh = Goto(p, "count var")
          /\ next = (IF db.user # {} THEN known ELSE fresh) /\ failed = Goto(p, "begin create")
          /\ Query(p, "check", can, next, failed, strange, db) /\ Untouched
    BY <1>3, <1>20 DEF CheckTables
  <2>2. Outcome(p, can, next, failed, strange, db)
    BY <1>1, <2>1, QueryOutcome DEF TypeOK
  <2>3. setup' = known \/ setup' = fresh \/ setup' = failed \/ setup' = NoCall
    BY <1>3, <2>1, <2>2 DEF Outcome, setup
  <2>4. fresh.at = "count var" /\ failed.at = "begin create"
    <3>1. "count var" \in Steps /\ "begin create" \in Steps
      BY DEF Steps
    <3> QED BY <1>1, <2>1, <3>1, GotoType DEF TypeOK
  <2>5. known.ret = -1 /\ NoCall.at = "off"
    BY <2>1, ReturnsFail, NoCallFields
  <2> QED BY <1>2, <2>3, <2>4, <2>5
<1>21. ~CreateTable
  <2>1. SUFFICES ASSUME CreateTable PROVE FALSE
    OBVIOUS
  <2>2. PICK c, i, next, failed, can, new, strange :
          /\ c = setup /\ next = [c EXCEPT !.ret = i]
          /\ c.at = "create" /\ Query(p, "create", can, next, next, strange, new) /\ Untouched
    BY <1>3, <2>1 DEF CreateTable, Do, Query, setup
  <2>3. Outcome(p, can, next, next, strange, new)
    BY <1>1, <2>2, QueryOutcome DEF TypeOK
  <2>4. setup' = next \/ setup' = NoCall
    BY <1>3, <2>3 DEF Outcome, setup
  <2>5. next.at = "create"
    BY <1>1, <2>2 DEF TypeOK, SqlTypeOK, CallType, setup, Procs
  <2> QED BY <1>2, <2>4, <2>5, NoCallFields
<1>22. SetupNext => setup'.ret = -1
  BY <1>12, <1>13, <1>14, <1>15, <1>16, <1>17, <1>18, <1>19, <1>20, <1>21 DEF SetupNext
<1>23. ~UNCHANGED vars
  BY <1>7 DEF vars
<1> QED BY <1>9, <1>10, <1>11, <1>22, <1>23 DEF Next, Procs

LEMMA SetupStep ==
  ASSUME Inv, [Next]_vars
  PROVE  WorkingSetup
<1>1. TypeOK /\ SetupSteady
  BY DEF Inv
<1>2. SUFFICES ASSUME Returns("setup"), setup.op = "setup", setup'.ret >= 0
               PROVE  made = 4 /\ config = "full" /\ Tables \ {"ban"} \subseteq db.tables
  BY DEF WorkingSetup, setup
<1>3. PICK p \in Procs : p = "setup"
  BY DEF Procs
<1>4. Statement(p) /\ Untouched
  <2>1. setup'.ret # -1
    BY <1>2
  <2> QED BY <1>2, <1>3, <2>1, SetupReturns
<1>5. setup.at \notin BeforeUser
  BY <1>3, <1>4, StatementAt DEF BeforeUser, setup
<1>6. setup.at # "count var"
  <2>1. SUFFICES ASSUME setup.at = "count var" PROVE FALSE
    OBVIOUS
  <2>2. CountVar(p)
    BY <1>3, <1>4, <2>1, StatementAt DEF setup
  <2>0. PICK at \in {"ins var", "upd var"} :
          \E next, can, none, strange :
            /\ next = Goto(p, at) /\ strange = {none, NoCall}
            /\ Query(p, "count var", can, next, NoCall, strange, db)
    BY <2>2 DEF CountVar, Count
  <2>3. PICK next, can, none, strange :
          /\ next = Goto(p, at) /\ strange = {none, NoCall}
          /\ Query(p, "count var", can, next, NoCall, strange, db)
    BY <2>0
  <2>4. Outcome(p, can, next, NoCall, strange, db)
    BY <1>1, <1>4, <2>3, QueryOutcome DEF TypeOK
  <2>5. setup' = next \/ setup' = NoCall
    BY <1>3, <2>4 DEF Outcome, setup
  <2>6. next.at = at
    <3>1. at \in Steps
      BY <2>3 DEF Steps
    <3> QED BY <1>1, <2>3, <3>1, GotoType DEF TypeOK
  <2> QED BY <1>2, <2>3, <2>5, <2>6, NoCallFields DEF Returns, setup
<1>7. made = 4 /\ config = "full" /\ Has("var")
  BY <1>1, <1>2, <1>5, <1>6 DEF SetupSteady, BeforeUser
<1> QED BY <1>1, <1>7 DEF SetupSteady, Has, Tables

\* When --setup says that it is complete, the bot can be started and finds its
\* tables, however often setup was killed before (setup_all).
THEOREM SetupIsComplete == Spec => SetupWorks
<1>1. Inv /\ [Next]_vars => [WorkingSetup]_vars
  BY SetupStep
<1> QED BY <1>1, InvHolds, PTL DEF Spec, SetupWorks

LEMMA NextIsNotZero == ASSUME NEW n \in Nat, NEW i \in 0 .. n PROVE i + 1 # 0
  OBVIOUS

LEMMA NextUser == ASSUME TypeOK PROVE db.last + 1 # 0
<1>1. db.last \in 0 .. MaxUsers
  BY LastType
<1>2. MaxUsers \in Nat
  BY Constants
<1> QED BY <1>1, <1>2, NextIsNotZero

LEMMA UpdPassDo ==
  ASSUME NEW p, UpdPass(p)
  PROVE  \E next, can, new :
           /\ next = Return(p, call[p].ret) /\ new = [db EXCEPT !.user = Relocked(call[p])]
           /\ Do(p, "upd pass", can, next, new)
BY DEF UpdPass, Relocked

\* Setup returns with a user only when the owner has everything.
LEMMA OwnerReturns ==
  ASSUME TypeOK, BotOK, SetupOK, NEW p \in Procs, p = "setup", Statement(p), Untouched,
         ~alarm'[p], call'[p].at = "idle", call'[p].ret # 0
  PROVE  call[p].at \in {"ins mode", "upd mode", "upd pass"}
<1>1. PICK c : c = call[p]
  OBVIOUS
<1>2. SqlTypeOK /\ c \in CallType /\ SetupCall(c)
  BY <1>1 DEF TypeOK, SqlTypeOK, SetupOK, setup
<1>3. ASSUME NEW at \in Steps
      PROVE  Goto(p, at) \in CallType /\ Goto(p, at).at = at
  BY <1>2, <1>3, GotoType
<1>4. c.at # "find name"
  <2>1. SUFFICES ASSUME c.at = "find name" PROVE FALSE
    OBVIOUS
  <2>2. FindName(p)
    BY <1>1, <2>1, StatementAt
  <2>3. c.op # "setname"
    BY <1>2 DEF SetupCall
  <2>4. PICK fresh, known, next, can, strange :
          /\ fresh = Goto(p, "ins user") /\ known = Return(p, 0)
          /\ next = (IF Called(c.name) # {} THEN known ELSE fresh)
          /\ Query(p, "find name", can, next, fresh, strange, db)
    BY <1>1, <2>2, <2>3 DEF FindName
  <2>5. call'[p] = known \/ call'[p] = fresh
    BY <1>2, <2>4, QuerySucceeds
  <2>6. fresh.at = "ins user"
    <3>1. "ins user" \in Steps
      BY DEF Steps
    <3> QED BY <1>3, <2>4, <3>1
  <2>7. known.ret = 0
    BY <2>4, ReturnsZero
  <2> QED BY <2>5, <2>6, <2>7
<1>5. c.at # "ins user"
  <2>1. SUFFICES ASSUME c.at = "ins user" PROVE FALSE
    OBVIOUS
  <2>2. InsUser(p)
    BY <1>1, <2>1, StatementAt
  <2>3. PICK u, g, next, failed, can, strange, new :
          /\ u = db.last + 1 /\ g = Goto(p, "ins mask")
          /\ next = (IF u = 0 THEN Return(p, IF Owner(c) THEN -1 ELSE 0)
                     ELSE [g EXCEPT !.uid = u, !.ret = u])
          /\ Query(p, "ins user", can, next, failed, strange, new)
    BY <1>1, <2>2 DEF InsUser
  <2>4. u # 0
    BY <2>3, NextUser
  <2>5. call'[p] = [g EXCEPT !.uid = u, !.ret = u]
    <3>1. Query(p, "ins user", can, next, failed, strange, new)
      BY <2>3
    <3>2. call'[p] = next
      BY <1>2, <3>1, QuerySucceeds
    <3> QED BY <2>3, <2>4, <3>2
  <2>6. g \in CallType /\ g.at = "ins mask"
    <3>1. "ins mask" \in Steps
      BY DEF Steps
    <3> QED BY <1>3, <2>3, <3>1
  <2> QED BY <2>5, <2>6 DEF CallType
<1>6. c.at # "ins mask"
  <2>1. SUFFICES ASSUME c.at = "ins mask" PROVE FALSE
    OBVIOUS
  <2>2. InsMask(p) /\ Owner(c)
    BY <1>1, <2>1, StatementAt, Owners DEF WithUser
  <2>3. PICK g, next, can, new :
          /\ g = Goto(p, "count mode") /\ next = [g EXCEPT !.key = "w"]
          /\ Do(p, "ins mask", can, next, new)
    BY <1>1, <2>2 DEF InsMask
  <2>4. call'[p] = next
    <3>1. Do(p, "ins mask", can, next, new)
      BY <2>3
    <3> QED BY <1>2, <3>1, DoSucceeds
  <2>5. g \in CallType /\ g.at = "count mode"
    <3>1. "count mode" \in Steps
      BY DEF Steps
    <3> QED BY <1>3, <2>3, <3>1
  <2>6. next.at = "count mode"
    BY <2>3, <2>5 DEF CallType
  <2> QED BY <2>4, <2>6
<1>7. c.at # "count mode"
  <2>1. SUFFICES ASSUME c.at = "count mode" PROVE FALSE
    OBVIOUS
  <2>2. CountMode(p) /\ Plus(c)
    BY <1>1, <2>1, StatementAt, Owners DEF WithUser, ModeSteps, Plus
  <2>0. PICK at \in {"ins mode", "upd mode"} :
          \E next, none, can :
            /\ next = Goto(p, at) /\ Count(p, "count mode", can, next, none)
    BY <1>1, <2>2 DEF CountMode
  <2>3. PICK next, none, can :
          /\ next = Goto(p, at) /\ Count(p, "count mode", can, next, none)
    BY <2>0
  <2>4. call'[p] = next
    BY <1>2, <2>3, CountSucceeds
  <2>5. at \in Steps
    BY <2>3 DEF Steps
  <2> QED BY <1>3, <2>3, <2>4, <2>5
<1>8. c.at # "count var"
  <2>1. SUFFICES ASSUME c.at = "count var" PROVE FALSE
    OBVIOUS
  <2>2. CountVar(p)
    BY <1>1, <2>1, StatementAt
  <2>0. PICK at \in {"ins var", "upd var"} :
          \E next, none, can :
            /\ next = Goto(p, at) /\ Count(p, "count var", can, next, none)
    BY <1>1, <2>2 DEF CountVar
  <2>3. PICK next, none, can :
          /\ next = Goto(p, at) /\ Count(p, "count var", can, next, none)
    BY <2>0
  <2>4. call'[p] = next
    BY <1>2, <2>3, CountSucceeds
  <2>5. at \in Steps
    BY <2>3 DEF Steps
  <2> QED BY <1>3, <2>3, <2>4, <2>5
<1>9. c.at \notin {"ins var", "upd var"}
  <2>1. SUFFICES ASSUME c.at \in {"ins var", "upd var"} PROVE FALSE
    OBVIOUS
  <2>2. c.op = "setup" /\ (InsVar(p) \/ UpdVar(p))
    BY <1>1, <2>1, StatementAt, Owners DEF VarSteps
  <2>3. PICK at, next, can, new :
          /\ next = Goto(p, "find name") /\ Do(p, at, can, next, new)
    BY <1>1, <2>2 DEF InsVar, UpdVar, VarDone
  <2>4. call'[p] = next
    BY <1>2, <2>3, DoSucceeds
  <2>5. "find name" \in Steps
    BY DEF Steps
  <2> QED BY <1>3, <2>3, <2>4, <2>5
<1>10. c.at \in VarSteps \cup {"find name", "ins user"} \cup WithUser
  <2>1. c.at \notin {"off", "idle"} \cup BeforeUser
    BY <1>1, StatementAt DEF BeforeUser
  <2> QED BY <1>2, <2>1 DEF SetupCall
<1> QED BY <1>1, <1>4, <1>5, <1>6, <1>7, <1>8, <1>9, <1>10 DEF VarSteps, WithUser, ModeSteps

LEMMA OwnerStep ==
  ASSUME Inv, [Next]_vars
  PROVE  CompleteOwner
<1>1. TypeOK /\ BotOK /\ SetupOK /\ OwnerSoFar
  BY DEF Inv
<1>2. PICK p, c, u : p \in Procs /\ p = "setup" /\ c = setup /\ c = call[p] /\ u = setup'.ret
  BY DEF Procs, setup
<1>3. SUFFICES ASSUME Returns("setup"), u > 0, ~alarm'["setup"], u \notin contested
               PROVE  /\ \E r \in db'.user : r.uid = u /\ r.name = c.name /\ r.pass = c.pass
                      /\ [uid |-> u, mask |-> c.mask] \in db'.mask
                      /\ [uid |-> u, mode |-> "w"] \in db'.mode
  BY <1>2 DEF CompleteOwner, setup
<1>4. Statement(p) /\ Untouched
  <2>1. setup'.ret # -1
    BY <1>2, <1>3
  <2> QED BY <1>2, <1>3, <2>1, SetupReturns
<1>5. setup'.at = "idle" /\ setup' = call'[p] /\ SqlTypeOK /\ c \in CallType /\ SetupCall(c)
  BY <1>1, <1>2, <1>3 DEF Returns, setup, TypeOK, SqlTypeOK, SetupOK
<1>6. c.at \in {"ins mode", "upd mode", "upd pass"}
  <2>1. u # 0
    BY <1>3
  <2> QED BY <1>1, <1>2, <1>3, <1>4, <1>5, <2>1, OwnerReturns
<1>7. c.at \in WithUser /\ Owner(c) /\ c.ret = c.uid /\ c.uid # 0 /\ c.key = "w" /\ c.ret \in Int
  <2>1. c.at \in WithUser /\ c.at # "ins mask"
    BY <1>6 DEF WithUser, ModeSteps
  <2>2. c.at \notin BeforeUser \cup VarSteps \cup {"off", "idle", "find name", "ins user"}
    BY <1>6 DEF BeforeUser, VarSteps
  <2>3. c.op \in {"setup", "owner"} /\ c.uid \in Ids /\ c.ret = c.uid /\ c.key = "w"
    BY <1>5, <2>1, <2>2 DEF SetupCall
  <2>4. c.uid # 0 /\ c.uid \in Int
    BY <2>3 DEF Ids
  <2> QED BY <2>1, <2>3, <2>4 DEF Owner
\* The statement is the last, and the owner has been worked on before.
<1>8. ASSUME NEW at, NEW can, NEW next, NEW new, Do(p, at, can, next, new),
             next = Return(p, c.ret) \/ next.at # "idle"
      PROVE  u = c.uid /\ db' = new
  <2>1. call'[p] = next /\ db' = new
    BY <1>2, <1>3, <1>4, <1>5, <1>8, DoSucceeds
  <2>2. next = Return(p, c.ret)
    BY <1>5, <1>8, <2>1
  <2>3. next.ret = c.ret
    BY <1>2, <1>7, <2>2, ReturnFields
  <2> QED BY <1>2, <1>5, <1>7, <2>1, <2>3
<1>9. ASSUME u = c.uid
      PROVE  /\ [uid |-> u, name |-> c.name, pass |-> FALSE] \in db.user
             /\ [uid |-> u, mask |-> c.mask] \in db.mask
             /\ c.at \in {"upd mode", "upd pass"} => [uid |-> u, mode |-> "w"] \in db.mode
  <2>1. ~alarm["setup"]
    <3>1. alarm[p] => alarm'[p]
      <4>1. Stepped(p)
        BY <1>2, <1>4, StatementStep
      <4> QED BY <4>1 DEF Stepped, Effect, Frame
    <3> QED BY <1>2, <1>3, <3>1
  <2> QED BY <1>1, <1>2, <1>3, <1>6, <1>7, <1>9, <2>1 DEF OwnerSoFar, MaskRow, ModeRow
<1>10. PICK row : row = [uid |-> c.uid, name |-> c.name, pass |-> FALSE]
  OBVIOUS
<1>11. ModeDone(p) = (IF c.pass THEN Goto(p, "upd pass") ELSE Return(p, c.ret))
  BY <1>2, <1>7 DEF ModeDone
<1>12. Goto(p, "upd pass").at = "upd pass" /\ c.pass \in BOOLEAN
  <2>1. "upd pass" \in Steps
    BY DEF Steps
  <2>2. PICK at : at = "upd pass"
    OBVIOUS
  <2>3. Goto(p, at) \in CallType /\ Goto(p, at).at = at
    BY <1>2, <1>5, <2>1, <2>2, GotoType
  <2>4. c.pass \in BOOLEAN
    BY <1>5 DEF CallType
  <2> QED BY <2>2, <2>3, <2>4
<1>13. CASE c.at = "ins mode"
  <2>1. InsMode(p)
    BY <1>2, <1>4, <1>13, StatementAt
  <2>2. PICK next, can, new :
          /\ next = ModeDone(p) /\ new = [db EXCEPT !.mode = db.mode \cup {ModeRow(c)}]
          /\ Do(p, "ins mode", can, next, new)
    BY <1>2, <2>1 DEF InsMode
  <2>3. u = c.uid /\ db' = new /\ call'[p] = next
    <3>1. next = Return(p, c.ret) \/ next.at # "idle"
      BY <1>11, <1>12, <2>2
    <3>2. u = c.uid /\ db' = new
      BY <1>8, <2>2, <3>1
    <3>3. call'[p] = next
      BY <1>2, <1>3, <1>4, <1>5, <2>2, DoSucceeds
    <3> QED BY <3>2, <3>3
  <2>4. c.pass = FALSE
    BY <1>5, <1>11, <1>12, <2>2, <2>3
  <2>5. db'.user = db.user /\ db'.mask = db.mask /\ db'.mode = db.mode \cup {ModeRow(c)}
    BY <1>1, <2>2, <2>3 DEF TypeOK, SqlTypeOK, DbType
  <2>6. row \in db'.user /\ row.uid = u /\ row.name = c.name /\ row.pass = c.pass
    BY <1>9, <1>10, <2>3, <2>4, <2>5
  <2>7. [uid |-> u, mask |-> c.mask] \in db'.mask
    BY <1>9, <2>3, <2>5
  <2>8. [uid |-> u, mode |-> "w"] \in db'.mode
    <3>1. ModeRow(c) = [uid |-> u, mode |-> "w"]
      BY <1>7, <2>3 DEF ModeRow
    <3> QED BY <2>5, <3>1
  <2> QED BY <2>6, <2>7, <2>8
<1>14. CASE c.at = "upd mode"
  <2>1. UpdMode(p)
    BY <1>2, <1>4, <1>14, StatementAt
  <2>2. PICK next, can : next = ModeDone(p) /\ Do(p, "upd mode", can, next, db)
    BY <2>1 DEF UpdMode
  <2>3. u = c.uid /\ db' = db /\ call'[p] = next
    <3>1. next = Return(p, c.ret) \/ next.at # "idle"
      BY <1>11, <1>12, <2>2
    <3>2. u = c.uid /\ db' = db
      BY <1>8, <2>2, <3>1
    <3>3. call'[p] = next
      BY <1>2, <1>3, <1>4, <1>5, <2>2, DoSucceeds
    <3> QED BY <3>2, <3>3
  <2>4. c.pass = FALSE
    BY <1>5, <1>11, <1>12, <2>2, <2>3
  <2>5. row \in db'.user /\ row.uid = u /\ row.name = c.name /\ row.pass = c.pass
    BY <1>9, <1>10, <2>3, <2>4
  <2>6. [uid |-> u, mask |-> c.mask] \in db'.mask /\ [uid |-> u, mode |-> "w"] \in db'.mode
    BY <1>9, <1>14, <2>3
  <2> QED BY <2>5, <2>6
<1>15. CASE c.at = "upd pass"
  <2>1. UpdPass(p)
    BY <1>2, <1>4, <1>15, StatementAt
  <2>2. PICK next, can, new :
          /\ next = Return(p, c.ret) /\ new = [db EXCEPT !.user = Relocked(c)]
          /\ Do(p, "upd pass", can, next, new)
    BY <1>2, <2>1, UpdPassDo
  <2>3. u = c.uid /\ db' = new
    BY <1>8, <2>2
  <2>4. db'.user = Relocked(c) /\ db'.mask = db.mask /\ db'.mode = db.mode
    BY <1>1, <2>2, <2>3 DEF TypeOK, SqlTypeOK, DbType
  <2>5. row \in db.user /\ row.uid = c.uid
    BY <1>9, <1>10, <2>3
  <2>6. [row EXCEPT !.pass = c.pass] \in db'.user
    BY <2>4, <2>5 DEF Relocked
  <2>7. \E r \in db'.user : r.uid = u /\ r.name = c.name /\ r.pass = c.pass
    BY <1>10, <2>3, <2>6
  <2> QED BY <1>9, <1>15, <2>3, <2>4, <2>7
<1> QED BY <1>6, <1>13, <1>14, <1>15

\* An owner whom setup says it has added has the mask, the mode w and the password, if
\* no statement of it failed and no script worked on the same user (setup_add_owner).
THEOREM OwnersAreComplete == Spec => OwnerAdded
<1>1. Inv /\ [Next]_vars => [CompleteOwner]_vars
  BY OwnerStep
<1> QED BY <1>1, InvHolds, PTL DEF Spec, OwnerAdded

\* A call of a script whose last statement succeeds, and what is known of it.
Calm(p, c) ==
  /\ p = "bot" /\ c = call[p] /\ c = bot /\ p \in Procs
  /\ TypeOK /\ SqlTypeOK /\ db \in DbType /\ c \in CallType /\ BotCall(c) /\ BotOK /\ SetupOK
  /\ Present /\ Seen /\ Deleted
  /\ Untouched /\ ~alarm'[p] /\ ~mixed' /\ c.uid \notin contested
  /\ call'[p].at = "idle" /\ c.at \notin {"off", "idle"}

LEMMA CalmDo ==
  ASSUME NEW p, NEW c, Calm(p, c), NEW at, NEW can, NEW next, NEW new, Do(p, at, can, next, new)
  PROVE  call'[p] = next /\ db' = new /\ can /\ conn[p] = "up" /\ next.at = "idle"
<1>1. p \in Procs /\ SqlTypeOK /\ Untouched /\ ~alarm'[p] /\ ~mixed' /\ call'[p].at = "idle"
  BY DEF Calm
<1>2. call'[p] = next /\ db' = new /\ can /\ conn[p] = "up"
  BY <1>1, DoSucceeds
<1> QED BY <1>1, <1>2

LEMMA CalmCount ==
  ASSUME NEW p, NEW c, Calm(p, c), NEW at, NEW can, NEW next, NEW none,
         Count(p, at, can, next, none)
  PROVE  call'[p] = next /\ db' = db /\ next.at = "idle"
<1>1. p \in Procs /\ SqlTypeOK /\ Untouched /\ ~alarm'[p] /\ ~mixed' /\ call'[p].at = "idle"
  BY DEF Calm
<1>2. call'[p] = next /\ db' = db
  BY <1>1, CountSucceeds
<1> QED BY <1>1, <1>2

LEMMA CalmQuery ==
  ASSUME NEW p, NEW c, Calm(p, c), NEW at, NEW can, NEW next, NEW failed, NEW strange, NEW new,
         Query(p, at, can, next, failed, strange, new)
  PROVE  call'[p] = next /\ db' = new /\ next.at = "idle"
<1>1. p \in Procs /\ SqlTypeOK /\ Untouched /\ ~alarm'[p] /\ ~mixed' /\ call'[p].at = "idle"
  BY DEF Calm
<1>2. call'[p] = next /\ db' = new
  BY <1>1, QuerySucceeds
<1> QED BY <1>1, <1>2

LEMMA CalmGoto ==
  ASSUME NEW p, NEW c, Calm(p, c), NEW at \in Steps
  PROVE  Goto(p, at) \in CallType /\ Goto(p, at).at = at
BY GotoType DEF Calm

\* The statements after which a call goes on.
LEMMA CallGoesOn ==
  ASSUME NEW p, NEW c, Calm(p, c), Statement(p)
  PROVE  c.at \notin {"ins user", "count var", "count uvar", "sel ban"} \cup (DelSteps \ {"del user"})
<1>1. p \in Procs /\ c = call[p] /\ c \in CallType /\ TypeOK
  BY DEF Calm
<1>2. ASSUME NEW at \in Steps, at # "idle", NEW next, next = Goto(p, at), next.at = "idle"
      PROVE  FALSE
  BY <1>2, CalmGoto
<1>3. /\ "ins mask" \in Steps /\ "ins var" \in Steps /\ "upd var" \in Steps /\ "count var" \in Steps
      /\ "ins ban" \in Steps /\ "upd ban" \in Steps /\ "del mode" \in Steps /\ "del author" \in Steps
      /\ "del target" \in Steps /\ "del var" \in Steps /\ "del mask" \in Steps /\ "del user" \in Steps
  BY DEF Steps
<1>4. c.at # "ins user"
  <2>1. SUFFICES ASSUME c.at = "ins user" PROVE FALSE
    OBVIOUS
  <2>2. InsUser(p)
    BY <1>1, <2>1, StatementAt
  <2>3. PICK at, u, g, next, failed, can, strange, new :
          /\ at = "ins mask" /\ u = db.last + 1 /\ g = Goto(p, at)
          /\ next = (IF u = 0 THEN Return(p, IF Owner(c) THEN -1 ELSE 0)
                     ELSE [g EXCEPT !.uid = u, !.ret = u])
          /\ Query(p, "ins user", can, next, failed, strange, new)
    BY <1>1, <2>2 DEF InsUser
  <2>4. u # 0
    BY <1>1, <2>3, NextUser
  <2>5. next.at = "idle"
    <3>1. Query(p, "ins user", can, next, failed, strange, new)
      BY <2>3
    <3> QED BY <3>1, CalmQuery
  <2>6. g \in CallType /\ g.at = "ins mask"
    BY <1>3, <2>3, CalmGoto
  <2> QED BY <2>3, <2>4, <2>5, <2>6 DEF CallType
<1>5. c.at # "count var"
  <2>1. SUFFICES ASSUME c.at = "count var" PROVE FALSE
    OBVIOUS
  <2>2. CountVar(p)
    BY <1>1, <2>1, StatementAt
  <2>0. PICK at \in {"ins var", "upd var"} :
          \E next, none, can :
            /\ next = Goto(p, at) /\ Count(p, "count var", can, next, none)
    BY <1>1, <2>2 DEF CountVar
  <2>3. PICK next, none, can :
          /\ next = Goto(p, at) /\ Count(p, "count var", can, next, none)
    BY <2>0
  <2>4. next.at = "idle"
    BY <2>3, CalmCount
  <2> QED BY <1>2, <1>3, <2>3, <2>4
<1>6. c.at # "count uvar"
  <2>1. SUFFICES ASSUME c.at = "count uvar" PROVE FALSE
    OBVIOUS
  <2>2. CountUvar(p)
    BY <1>1, <2>1, StatementAt
  <2>3. PICK v, d, e, next, can :
          /\ d = [c EXCEPT !.key = v] /\ e = [d EXCEPT !.at = "count var"]
          /\ next = (IF VarRows(d) = {} THEN e ELSE c)
          /\ Count(p, "count uvar", can, next, e)
    BY <1>1, <2>2 DEF CountUvar
  <2>4. next.at = "idle"
    BY <2>3, CalmCount
  <2>5. e.at = "count var"
    BY <1>1, <2>3 DEF CallType
  <2> QED BY <2>1, <2>3, <2>4, <2>5
<1>7. c.at # "sel ban"
  <2>1. SUFFICES ASSUME c.at = "sel ban" PROVE FALSE
    OBVIOUS
  <2>2. SelBan(p)
    BY <1>1, <2>1, StatementAt
  <2>0. PICK at \in {"ins ban", "upd ban"} :
          \E next, failed, can, strange :
            /\ next = Goto(p, at) /\ Query(p, "sel ban", can, next, failed, strange, db)
    BY <1>1, <2>2 DEF SelBan
  <2>3. PICK next, failed, can, strange :
          /\ next = Goto(p, at) /\ Query(p, "sel ban", can, next, failed, strange, db)
    BY <2>0
  <2>4. next.at = "idle"
    BY <2>3, CalmQuery
  <2> QED BY <1>2, <1>3, <2>3, <2>4
<1>8. c.at \notin DelSteps \ {"del user"}
  <2>1. SUFFICES ASSUME c.at \in DelSteps \ {"del user"} PROVE FALSE
    OBVIOUS
  <2>2. \/ DelBans(p) \/ DelModes(p) \/ DelAuthor(p) \/ DelTarget(p) \/ DelVars(p) \/ DelMasks(p)
    BY <1>1, <2>1, StatementAt DEF DelSteps
  <2>0. PICK at \in {"del mode", "del author", "del target", "del var", "del mask", "del user"} :
          \E was, next, can, new :
            /\ next = Goto(p, at) /\ Do(p, was, can, next, new)
    BY <2>2 DEF DelBans, DelModes, DelAuthor, DelTarget, DelVars, DelMasks
  <2>3. PICK was, next, can, new :
          /\ next = Goto(p, at) /\ Do(p, was, can, next, new)
    BY <2>0
  <2>4. next.at = "idle"
    BY <2>3, CalmDo
  <2> QED BY <1>2, <1>3, <2>3, <2>4
<1> QED BY <1>4, <1>5, <1>6, <1>7, <1>8

\* A user whom the call is about has a row, and the row is changed.
LEMMA UserChanged ==
  ASSUME NEW p, NEW c, Calm(p, c), c.op \in {"add", "setname", "setpass"}, c.uid # 0
  PROVE  /\ \E r \in Renamed(c) : r.uid = c.uid /\ r.name = c.name
         /\ \E r \in Relocked(c) : r.uid = c.uid /\ r.pass = c.pass
<1>1. c.uid \in UserIds
  BY DEF Calm, Present
<1>2. PICK r \in db.user : r.uid = c.uid
  BY <1>1 DEF UserIds
<1>3. r \in UserType
  BY DEF Calm, DbType
<1>4. [r EXCEPT !.name = c.name] \in Renamed(c) /\ [r EXCEPT !.pass = c.pass] \in Relocked(c)
  BY <1>2 DEF Renamed, Relocked
<1>5. /\ [r EXCEPT !.name = c.name].uid = c.uid /\ [r EXCEPT !.name = c.name].name = c.name
      /\ [r EXCEPT !.pass = c.pass].uid = c.uid /\ [r EXCEPT !.pass = c.pass].pass = c.pass
  BY <1>2, <1>3 DEF UserType
<1> QED BY <1>4, <1>5

\* What the call is, at each statement.
LEMMA CalmOp ==
  ASSUME NEW p, NEW c, Calm(p, c)
  PROVE  /\ c.at = "find name" => c.op \in {"add", "setname"}
         /\ c.at = "ins mask" => /\ c.op \in {"add", "addmask"}
                                 /\ c.op = "add" => c.ret = c.uid /\ c.uid \in Ids
         /\ c.at = "upd pass" => c.op = "setpass" /\ c.uid \in Ids
         /\ c.at = "upd name" => c.op = "setname" /\ c.uid \in Ids
         /\ c.at \in ModeSteps \cup {"drop mode"} => c.op = "setmode"
         /\ c.at \in {"ins var", "upd var"} => c.op \in {"setvar", "setuvar"}
         /\ c.at = "drop var" => c.op = "unset"
         /\ c.at = "count mask" => c.op = "addmask"
         /\ c.at = "drop mask" => c.op = "delmask"
         /\ c.at \in {"find mask", "check pass"} => c.op = "lookup"
         /\ c.at \in {"ins ban", "upd ban"} => c.op = "addban"
         /\ c.at = "drop ban" => c.op = "delban"
         /\ c.at = "ins note" => c.op = "addnote"
         /\ c.at = "drop note" => c.op = "delnote"
         /\ c.at = "del user" => c.op = "del"
         /\ ~Owner(c) /\ c.op # "setup"
         /\ c.ret \in Int
<1>1. BotCall(c) /\ c \in CallType /\ c.at \notin {"off", "idle"}
  BY DEF Calm
<1>2. /\ c.at = "find name" => c.op \in {"add", "setname"}
      /\ c.at = "ins mask" => /\ c.op \in {"add", "addmask"}
                              /\ c.op = "add" => c.ret = c.uid /\ c.uid \in Ids
      /\ c.at = "upd pass" => c.op = "setpass" /\ c.uid \in Ids
      /\ c.at = "upd name" => c.op = "setname" /\ c.uid \in Ids
  BY <1>1 DEF BotCall, DelSteps, ModeSteps, VarSteps
<1>3. /\ c.at \in ModeSteps \cup {"drop mode"} => c.op = "setmode"
      /\ c.at \in {"ins var", "upd var"} => c.op \in {"setvar", "setuvar"}
      /\ c.at = "drop var" => c.op = "unset"
      /\ c.at = "count mask" => c.op = "addmask"
      /\ c.at = "drop mask" => c.op = "delmask"
  BY <1>1 DEF BotCall, DelSteps, ModeSteps, VarSteps
<1>4. /\ c.at \in {"find mask", "check pass"} => c.op = "lookup"
      /\ c.at \in {"ins ban", "upd ban"} => c.op = "addban"
      /\ c.at = "drop ban" => c.op = "delban"
      /\ c.at = "ins note" => c.op = "addnote"
      /\ c.at = "drop note" => c.op = "delnote"
      /\ c.at = "del user" => c.op = "del"
  BY <1>1 DEF BotCall, DelSteps, ModeSteps, VarSteps
<1>5. ~Owner(c) /\ c.op # "setup"
  BY <1>1 DEF BotCall, Owner
<1>6. c.ret \in Int
  BY <1>1 DEF CallType
<1> QED BY <1>2, <1>3, <1>4, <1>5, <1>6

LEMMA ModeDoneReturns ==
  ASSUME NEW p, NEW c, Calm(p, c)
  PROVE  ModeDone(p) = Return(p, c.ret) /\ VarDone(p) = Return(p, 0)
BY CalmOp DEF Calm, ModeDone, VarDone

LEMMA NoIdIsZero == 0 \notin Ids
  BY DEF Ids

LEMMA ReturnsNoZero ==
  ASSUME NEW p \in Procs, NEW next, next = Return(p, -1)
  PROVE  next.ret # 0
<1>1. next.ret = -1
  BY ReturnsFail
<1> QED BY <1>1

\* The statements after which a call of a script returns.
LEMMA UserPromises ==
  ASSUME NEW p, NEW c, Calm(p, c), Statement(p),
         c.at \in {"find name", "ins mask", "upd pass", "upd name", "count mask", "drop mask", "del user"}
  PROVE  Done(db', c, call'[p].ret)
<1>1. p \in Procs /\ c = call[p] /\ c = bot /\ c \in CallType /\ TypeOK /\ db \in DbType
  BY DEF Calm
<1>2. ASSUME NEW at \in Steps, at # "idle", NEW next, next = Goto(p, at), next.at = "idle"
      PROVE  FALSE
  BY <1>2, CalmGoto
<1>3. "ins user" \in Steps /\ "upd name" \in Steps /\ "ins mask" \in Steps
  BY DEF Steps
<1>4. 0 \notin Ids
  BY NoIdIsZero
<1>5. CASE c.at = "find name"
  <2>1. FindName(p)
    BY <1>1, <1>5, StatementAt
  <2>2. PICK at, fresh, known, next, can, strange :
          /\ at = (IF c.op = "setname" THEN "upd name" ELSE "ins user") /\ fresh = Goto(p, at)
          /\ known = Return(p, IF c.op = "setname" THEN -1 ELSE 0)
          /\ next = (IF Called(c.name) # {} THEN known ELSE fresh)
          /\ Query(p, "find name", can, next, fresh, strange, db)
    BY <1>1, <2>1 DEF FindName
  <2>3. Query(p, "find name", can, next, fresh, strange, db)
    BY <2>2
  <2>4. call'[p] = next /\ next.at = "idle"
    BY <2>3, CalmQuery
  <2>5. next = known
    BY <1>2, <1>3, <2>2, <2>4
  <2>6. CASE c.op = "setname"
    <3>1. known = Return(p, -1)
      BY <2>2, <2>6
    <3>2. known.ret # 0
      BY <1>1, <3>1, ReturnsNoZero
    <3> QED BY <2>4, <2>5, <2>6, <3>2 DEF Done
  <2>7. CASE c.op = "add"
    <3>1. known = Return(p, 0)
      BY <2>2, <2>7
    <3>2. known.ret = 0
      BY <1>1, <3>1, ReturnsZero
    <3> QED BY <2>4, <2>5, <2>7, <3>2 DEF Done
  <2> QED BY <1>5, <2>6, <2>7, CalmOp
<1>6. CASE c.at = "ins mask"
  <2>1. InsMask(p)
    BY <1>1, <1>6, StatementAt
  <2>2. PICK next, can, new :
          /\ next = Return(p, c.ret) /\ new = [db EXCEPT !.mask = db.mask \cup {MaskRow(c)}]
          /\ Do(p, "ins mask", can, next, new)
    BY <1>1, <2>1, CalmOp DEF InsMask
  <2>3. call'[p] = next /\ db' = new
    BY <2>2, CalmDo
  <2>4. db'.mask = db.mask \cup {MaskRow(c)} /\ db'.user = db.user
    BY <1>1, <2>2, <2>3 DEF DbType
  <2>5. MaskRow(c) \in db'.mask
    BY <2>4
  <2>6. CASE c.op = "addmask"
    BY <2>5, <2>6 DEF Done
  <2>7. CASE c.op = "add"
    <3>1. c.ret = c.uid /\ c.ret \in Int
      BY <1>6, <2>7, CalmOp
    <3>2. next.ret = c.uid
      BY <1>1, <2>2, <3>1, ReturnFields
    <3>3. \E r \in db'.user : r.uid = c.uid /\ r.name = c.name
      BY <1>1, <1>6, <2>4, <2>7 DEF Calm, Present
    <3>4. [uid |-> c.uid, mask |-> c.mask] \in db'.mask
      BY <2>5 DEF MaskRow
    <3> QED BY <2>3, <2>7, <3>2, <3>3, <3>4 DEF Done
  <2> QED BY <1>6, <2>6, <2>7, CalmOp
<1>7. CASE c.at = "upd pass"
  <2>1. UpdPass(p)
    BY <1>1, <1>7, StatementAt
  <2>2. PICK next, can, new :
          new = [db EXCEPT !.user = Relocked(c)] /\ Do(p, "upd pass", can, next, new)
    BY <1>1, <2>1, UpdPassDo
  <2>3. db' = new
    BY <2>2, CalmDo
  <2>4. db'.user = Relocked(c)
    BY <1>1, <2>2, <2>3 DEF DbType
  <2>5. c.op = "setpass" /\ c.uid # 0
    <3>1. c.op = "setpass" /\ c.uid \in Ids
      BY <1>7, CalmOp
    <3> QED BY <1>4, <3>1
  <2>6. \E r \in db'.user : r.uid = c.uid /\ r.pass = c.pass
    BY <2>4, <2>5, UserChanged
  <2> QED BY <2>5, <2>6 DEF Done
<1>8. CASE c.at = "upd name"
  <2>1. UpdName(p)
    BY <1>1, <1>8, StatementAt
  <2>2. PICK next, can, new :
          new = [db EXCEPT !.user = Renamed(c)] /\ Do(p, "upd name", can, next, new)
    BY <1>1, <2>1 DEF UpdName, Renamed
  <2>3. db' = new
    BY <2>2, CalmDo
  <2>4. db'.user = Renamed(c)
    BY <1>1, <2>2, <2>3 DEF DbType
  <2>5. c.op = "setname" /\ c.uid # 0
    <3>1. c.op = "setname" /\ c.uid \in Ids
      BY <1>8, CalmOp
    <3> QED BY <1>4, <3>1
  <2>6. \E r \in db'.user : r.uid = c.uid /\ r.name = c.name
    BY <2>4, <2>5, UserChanged
  <2> QED BY <2>5, <2>6 DEF Done
<1>9. CASE c.at = "count mask"
  <2>1. CountMask(p)
    BY <1>1, <1>9, StatementAt
  <2>2. PICK at, g, next, none, can :
          /\ at = "ins mask" /\ g = Goto(p, at)
          /\ next = (IF MaskRow(c) \in db.mask THEN Return(p, -1) ELSE g)
          /\ Count(p, "count mask", can, next, none)
    BY <1>1, <2>1 DEF CountMask
  <2>3. Count(p, "count mask", can, next, none)
    BY <2>2
  <2>4. db' = db /\ next.at = "idle"
    BY <2>3, CalmCount
  <2>5. MaskRow(c) \in db.mask
    BY <1>2, <1>3, <2>2, <2>4
  <2>6. c.op = "addmask"
    BY <1>9, CalmOp
  <2> QED BY <2>4, <2>5, <2>6 DEF Done
<1>10. CASE c.at = "drop mask"
  <2>1. DropMask(p)
    BY <1>1, <1>10, StatementAt
  <2>2. PICK next, can, new :
          /\ new = [db EXCEPT !.mask = db.mask \ {MaskRow(c)}] /\ Do(p, "drop mask", can, next, new)
    BY <1>1, <2>1 DEF DropMask
  <2>3. db' = new
    BY <2>2, CalmDo
  <2>4. MaskRow(c) \notin db'.mask
    BY <1>1, <2>2, <2>3 DEF DbType
  <2>5. c.op = "delmask"
    BY <1>10, CalmOp
  <2> QED BY <2>4, <2>5 DEF Done
<1>11. CASE c.at = "del user"
  <2>1. DelUser(p)
    BY <1>1, <1>11, StatementAt
  <2>2. PICK next, can, new :
          /\ new = [db EXCEPT !.user = db.user \ OfUser(db.user, c.uid)]
          /\ Do(p, "del user", can, next, new)
    BY <1>1, <2>1 DEF DelUser
  <2>3. db' = new /\ conn[p] = "up"
    BY <2>2, CalmDo
  <2>4. /\ db'.user = db.user \ OfUser(db.user, c.uid) /\ db'.mask = db.mask /\ db'.ban = db.ban
        /\ db'.mode = db.mode /\ db'.var = db.var /\ db'.note = db.note
    BY <1>1, <2>2, <2>3 DEF DbType
  <2>5. c.op = "del"
    BY <1>11, CalmOp
  <2>6. /\ \A r \in db.ban : r.uid # c.uid
        /\ \A r \in db.mode : r.uid # c.uid
        /\ \A r \in db.note : r.author # c.uid
        /\ \A r \in db.note : r.target # c.uid
        /\ \A r \in db.var : r.uid # c.uid
        /\ \A r \in db.mask : r.uid # c.uid
    BY <1>1, <1>11, <2>3, <2>5 DEF Calm, Deleted
  <2>7. \A r \in db'.user : r.uid # c.uid
    BY <2>4 DEF OfUser
  <2>8. \A r \in db'.user \cup db'.mask \cup db'.ban : r.uid # c.uid
    BY <2>4, <2>6, <2>7
  <2>9. \A r \in db'.mode \cup db'.var : r.uid # c.uid
    BY <2>4, <2>6
  <2>10. \A r \in db'.note : c.uid \notin {r.author, r.target}
    BY <2>4, <2>6
  <2> QED BY <2>5, <2>8, <2>9, <2>10 DEF Done
<1> QED BY <1>5, <1>6, <1>7, <1>8, <1>9, <1>10, <1>11

Rebanned(c) == {IF r.mask = c.mask THEN [r EXCEPT !.uid = c.uid] ELSE r : r \in db.ban}
LEMMA UpdBanDo ==
  ASSUME NEW p, UpdBan(p)
  PROVE  \E next, can, new :
           /\ new = [db EXCEPT !.ban = Rebanned(call[p])] /\ Do(p, "upd ban", can, next, new)
BY DEF UpdBan, Rebanned

LEMMA OtherPromises ==
  ASSUME NEW p, NEW c, Calm(p, c), Statement(p),
         c.at \in ModeSteps \cup {"drop mode", "ins var", "upd var", "drop var", "ins ban", "upd ban",
                                  "drop ban", "ins note", "drop note", "find mask", "check pass"}
  PROVE  Done(db', c, call'[p].ret)
<1>1. /\ p \in Procs /\ c = call[p] /\ c = bot /\ c \in CallType /\ TypeOK /\ db \in DbType
      /\ p = "bot" /\ Seen
  BY DEF Calm
<1>2. ASSUME NEW at \in Steps, at # "idle", NEW next, next = Goto(p, at), next.at = "idle"
      PROVE  FALSE
  BY <1>2, CalmGoto
<1>3. CASE c.at \in ModeSteps \cup {"drop mode"}
  <2>0. c.op = "setmode" /\ ~Owner(c)
    BY <1>3, CalmOp
  <2>1. SUFFICES ModeRow(c) \in db'.mode <=> c.val = 1
    BY <2>0 DEF Done
  <2>2. CASE c.at = "count mode"
    <3>1. CountMode(p) /\ (Plus(c) <=> c.val = 1)
      BY <1>1, <2>0, <2>2, StatementAt DEF Plus
    <3>2. PICK absent, there, next, can :
            /\ absent = (IF Plus(c) THEN Goto(p, "ins mode") ELSE ModeDone(p))
            /\ there = Goto(p, IF Plus(c) THEN "upd mode" ELSE "drop mode")
            /\ next = (IF ModeRow(c) \in db.mode THEN there ELSE absent)
            /\ Count(p, "count mode", can, next, absent)
      BY <1>1, <3>1 DEF CountMode
    <3>3. Count(p, "count mode", can, next, absent)
      BY <3>2
    <3>4. db' = db /\ next.at = "idle"
      BY <3>3, CalmCount
    <3>5. there.at # "idle"
      <4>1. PICK at \in Steps : at # "idle" /\ there = Goto(p, at)
        BY <3>2 DEF Steps
      <4> QED BY <1>2, <4>1
    <3>6. Plus(c) => absent.at # "idle"
      <4>1. SUFFICES ASSUME Plus(c) PROVE absent.at # "idle"
        OBVIOUS
      <4>2. PICK at \in Steps : at # "idle" /\ absent = Goto(p, at)
        BY <3>2, <4>1 DEF Steps
      <4> QED BY <1>2, <4>2
    <3>7. ModeRow(c) \notin db.mode /\ ~Plus(c)
      BY <3>2, <3>4, <3>5, <3>6
    <3> QED BY <3>1, <3>4, <3>7
  <2>3. CASE c.at = "ins mode"
    <3>1. InsMode(p)
      BY <1>1, <2>3, StatementAt
    <3>2. PICK next, can, new :
            /\ new = [db EXCEPT !.mode = db.mode \cup {ModeRow(c)}]
            /\ Do(p, "ins mode", can, next, new)
      BY <1>1, <3>1 DEF InsMode
    <3>3. db' = new
      BY <3>2, CalmDo
    <3>4. ModeRow(c) \in db'.mode
      BY <1>1, <3>2, <3>3 DEF DbType
    <3>5. c.val = 1
      BY <1>1, <2>3 DEF Seen
    <3> QED BY <3>4, <3>5
  <2>4. CASE c.at = "upd mode"
    <3>1. UpdMode(p)
      BY <1>1, <2>4, StatementAt
    <3>2. PICK next, can : Do(p, "upd mode", can, next, db)
      BY <3>1 DEF UpdMode
    <3>3. db' = db
      BY <3>2, CalmDo
    <3>4. ModeRow(c) \in db.mode /\ c.val = 1
      BY <1>1, <2>4 DEF Seen
    <3> QED BY <3>3, <3>4
  <2>5. CASE c.at = "drop mode"
    <3>1. DropMode(p)
      BY <1>1, <2>5, StatementAt
    <3>2. PICK next, can, new :
            /\ new = [db EXCEPT !.mode = db.mode \ {ModeRow(c)}]
            /\ Do(p, "drop mode", can, next, new)
      BY <1>1, <3>1 DEF DropMode
    <3>3. db' = new
      BY <3>2, CalmDo
    <3>4. ModeRow(c) \notin db'.mode
      BY <1>1, <3>2, <3>3 DEF DbType
    <3>5. c.val # 1
      BY <1>1, <2>5 DEF Seen
    <3> QED BY <3>4, <3>5
  <2> QED BY <1>3, <2>2, <2>3, <2>4, <2>5 DEF ModeSteps
<1>4. CASE c.at \in {"ins var", "upd var", "drop var"}
  <2>1. PICK rows : rows = {r \in db'.var : r.uid = c.uid /\ r.name = c.key}
    OBVIOUS
  <2>2. VarRow(c).uid = c.uid /\ VarRow(c).name = c.key
    BY DEF VarRow
  <2>3. CASE c.at = "ins var"
    <3>1. InsVar(p) /\ c.op \in {"setvar", "setuvar"}
      BY <1>1, <2>3, StatementAt, CalmOp
    <3>2. PICK next, can, new :
            /\ can = (Has("var") /\ VarRows(c) = {}) /\ new = [db EXCEPT !.var = db.var \cup {VarRow(c)}]
            /\ Do(p, "ins var", can, next, new)
      BY <1>1, <3>1 DEF InsVar
    <3>3. Do(p, "ins var", can, next, new)
      BY <3>2
    <3>4. db' = new /\ can
      BY <3>3, CalmDo
    <3>5. db'.var = db.var \cup {VarRow(c)} /\ VarRows(c) = {}
      BY <1>1, <3>2, <3>4 DEF DbType
    <3>6. rows = {VarRow(c)}
      BY <2>1, <2>2, <3>5 DEF VarRows
    <3> QED BY <2>1, <3>1, <3>6 DEF Done
  <2>4. CASE c.at = "upd var"
    <3>1. UpdVar(p) /\ c.op \in {"setvar", "setuvar"}
      BY <1>1, <2>4, StatementAt, CalmOp
    <3>2. PICK next, can, new :
            /\ new = [db EXCEPT !.var = IF VarRows(c) = {} THEN db.var
                                        ELSE (db.var \ VarRows(c)) \cup {VarRow(c)}]
            /\ Do(p, "upd var", can, next, new)
      BY <1>1, <3>1 DEF UpdVar
    <3>3. db' = new
      BY ZenonT(30), <3>2, CalmDo
    <3>4. VarRows(c) # {}
      BY <1>1, <2>4 DEF Seen
    <3>5. db'.var = (db.var \ VarRows(c)) \cup {VarRow(c)}
      BY <1>1, <3>2, <3>3, <3>4 DEF DbType
    <3>6. rows = {VarRow(c)}
      BY <2>1, <2>2, <3>5 DEF VarRows
    <3> QED BY <2>1, <3>1, <3>6 DEF Done
  <2>5. CASE c.at = "drop var"
    <3>1. DropVar(p) /\ c.op = "unset"
      BY <1>1, <2>5, StatementAt, CalmOp
    <3>2. PICK next, can, new :
            /\ new = [db EXCEPT !.var = db.var \ VarRows(c)] /\ Do(p, "drop var", can, next, new)
      BY <1>1, <3>1 DEF DropVar
    <3>3. db' = new
      BY <3>2, CalmDo
    <3>4. db'.var = db.var \ VarRows(c)
      BY <1>1, <3>2, <3>3 DEF DbType
    <3>5. rows = {}
      BY <2>1, <3>4 DEF VarRows
    <3> QED BY <2>1, <3>1, <3>5 DEF Done
  <2> QED BY <1>4, <2>3, <2>4, <2>5
<1>5. CASE c.at \in {"ins ban", "upd ban", "drop ban"}
  <2>1. PICK bans : bans = {r \in db'.ban : r.mask = c.mask}
    OBVIOUS
  <2>2. CASE c.at = "ins ban"
    <3>1. InsBan(p) /\ c.op = "addban"
      BY <1>1, <2>2, StatementAt, CalmOp
    <3>2. PICK next, can, new :
            /\ new = [db EXCEPT !.ban = db.ban \cup {MaskRow(c)}] /\ Do(p, "ins ban", can, next, new)
      BY <1>1, <3>1 DEF InsBan
    <3>3. db' = new
      BY <3>2, CalmDo
    <3>4. MaskRow(c) \in db'.ban /\ MaskRow(c).mask = c.mask /\ MaskRow(c).uid = c.uid
      BY <1>1, <3>2, <3>3 DEF DbType, MaskRow
    <3>5. \E r \in bans : r.uid = c.uid
      BY <2>1, <3>4
    <3> QED BY <2>1, <3>1, <3>5 DEF Done
  <2>3. CASE c.at = "upd ban"
    <3>1. UpdBan(p) /\ c.op = "addban"
      BY <1>1, <2>3, StatementAt, CalmOp
    <3>2. PICK next, can, new :
            /\ new = [db EXCEPT !.ban = Rebanned(c)] /\ Do(p, "upd ban", can, next, new)
      BY <1>1, <3>1, UpdBanDo
    <3>3. db' = new
      BY <3>2, CalmDo
    <3>4. db'.ban = Rebanned(c)
      BY <1>1, <3>2, <3>3 DEF DbType
    <3>5. PICK r \in db.ban : r.mask = c.mask
      BY <1>1, <2>3 DEF Seen, BansOn
    <3>6. r \in MaskType
      BY <1>1 DEF DbType
    <3>7. PICK s : s = [r EXCEPT !.uid = c.uid]
      OBVIOUS
    <3>8. s \in Rebanned(c)
      BY <3>5, <3>7 DEF Rebanned
    <3>9. s.uid = c.uid /\ s.mask = c.mask
      BY <3>5, <3>6, <3>7 DEF MaskType
    <3>10. \E t \in bans : t.uid = c.uid
      BY <2>1, <3>4, <3>8, <3>9
    <3> QED BY <2>1, <3>1, <3>10 DEF Done
  <2>4. CASE c.at = "drop ban"
    <3>1. DropBan(p) /\ c.op = "delban"
      BY <1>1, <2>4, StatementAt, CalmOp
    <3>2. PICK next, can, new :
            /\ new = [db EXCEPT !.ban = db.ban \ BansOn(c.mask)] /\ Do(p, "drop ban", can, next, new)
      BY <1>1, <3>1 DEF DropBan
    <3>3. db' = new
      BY <3>2, CalmDo
    <3>4. db'.ban = db.ban \ BansOn(c.mask)
      BY <1>1, <3>2, <3>3 DEF DbType
    <3>5. bans = {}
      BY <2>1, <3>4 DEF BansOn
    <3> QED BY <2>1, <3>1, <3>5 DEF Done
  <2> QED BY <1>5, <2>2, <2>3, <2>4
<1>6. CASE c.at = "ins note"
  <2>1. InsNote(p) /\ c.op = "addnote"
    BY <1>1, <1>6, StatementAt, CalmOp
  <2>2. PICK next, can, new :
          /\ new = [db EXCEPT !.note = db.note \cup {NoteRow(c)}] /\ Do(p, "ins note", can, next, new)
    BY <1>1, <2>1 DEF InsNote
  <2>3. db' = new
    BY <2>2, CalmDo
  <2>4. NoteRow(c) \in db'.note
    BY <1>1, <2>2, <2>3 DEF DbType
  <2> QED BY <2>1, <2>4 DEF Done
<1>7. CASE c.at = "drop note"
  <2>1. DropNote(p) /\ c.op = "delnote"
    BY <1>1, <1>7, StatementAt, CalmOp
  <2>2. PICK next, can, new :
          /\ new = [db EXCEPT !.note = db.note \ {NoteRow(c)}] /\ Do(p, "drop note", can, next, new)
    BY <1>1, <2>1 DEF DropNote
  <2>3. db' = new
    BY <2>2, CalmDo
  <2>4. NoteRow(c) \notin db'.note
    BY <1>1, <2>2, <2>3 DEF DbType
  <2> QED BY <2>1, <2>4 DEF Done
<1>8. CASE c.at \in {"find mask", "check pass"}
  <2>1. c.op = "lookup"
    BY <1>8, CalmOp
  <2> QED BY <2>1 DEF Done
<1> QED BY <1>3, <1>4, <1>5, <1>6, <1>7, <1>8

LEMMA PromiseStep ==
  ASSUME Inv, [Next]_vars
  PROVE  KeptPromise
<1>1. TypeOK /\ SqlTypeOK /\ BotOK /\ SetupOK /\ Seen /\ (~mixed => Deleted /\ Present)
  BY DEF Inv, TypeOK
<1>2. PICK p, c : p \in Procs /\ p = "bot" /\ c = call[p]
  BY DEF Procs
<1>3. SUFFICES ASSUME Returns(p), ~alarm'[p], ~mixed', c.uid \notin contested
               PROVE  Done(db', c, call'[p].ret)
  BY <1>2 DEF KeptPromise
<1>4. c = bot /\ bot.at \notin {"off", "idle"} /\ call'[p].at = "idle"
  BY <1>2, <1>3 DEF Returns, Busy, bot
<1>5. Next
  BY <1>2, <1>4 DEF vars, bot
<1>6. Statement(p) /\ Untouched
  BY <1>2, <1>3, <1>5, BotReturns
<1>7. ~mixed
  <2>1. Stepped(p)
    BY <1>2, <1>6, StatementStep
  <2> QED BY <1>3, <2>1 DEF Stepped, Effect, Frame
<1>8. Calm(p, c)
  BY <1>1, <1>2, <1>3, <1>4, <1>6, <1>7 DEF Calm, SqlTypeOK, BotOK, BotCall
<1>9. c.at \notin {"ins user", "count var", "count uvar", "sel ban"} \cup (DelSteps \ {"del user"})
  BY <1>6, <1>8, CallGoesOn
<1>10. \/ c.at \in {"find name", "ins mask", "upd pass", "upd name", "count mask", "drop mask", "del user"}
       \/ c.at \in ModeSteps \cup {"drop mode", "ins var", "upd var", "drop var", "ins ban", "upd ban",
                                   "drop ban", "ins note", "drop note", "find mask", "check pass"}
  BY <1>1, <1>4, <1>9 DEF BotOK, BotCall, DelSteps, VarSteps
<1> QED BY <1>6, <1>8, <1>10, UserPromises, OtherPromises

\* A call of a script that returns without an error has done what it is for, whatever
\* setup does meanwhile and whatever failed before, if no reply went to another query
\* and setup did not work on the same user (db.h).
THEOREM PromisesAreKept == Spec => PromiseKept
<1>1. Inv /\ [Next]_vars => [KeptPromise]_vars
  BY PromiseStep
<1> QED BY <1>1, InvHolds, PTL DEF Spec, PromiseKept
=============================================================================
