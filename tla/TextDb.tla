-------------------------------- MODULE TextDb --------------------------------
(***************************************************************************)
(* The text database (db/text): users and their masks in one file, bans,   *)
(* modes, notes and variables in files of their own.  Each step is one     *)
(* write of a file, or a call that writes none.  The process can die       *)
(* between two writes and, since config_write truncates the file first, in *)
(* the middle of one; the file then ends after some line.                  *)
(*                                                                         *)
(* Every word is a number: handles, masks, names of variables, and modes   *)
(* and bans with their network and channel.  Scripts look users up by      *)
(* their handle, so the users they name have a row.                        *)
(***************************************************************************)
EXTENDS ConfigFile

CONSTANTS
  Idents,      \* nick!user@host of people on IRC
  Masks,       \* masks
  Match,       \* the idents each mask matches (mask_match)
  Handles,     \* names of users
  Keys,        \* modes and names of variables
  Banned,      \* masks of bans
  MaxFds,      \* descriptors the process may have open for these files
  MaxOps,      \* bound: calls
  MaxCrashes   \* bound: crashes

ASSUME DbAssumption ==
  /\ Masks \cup Handles \cup Keys \cup Banned \subseteq Nat \ {0}
  /\ Match \in [Masks -> SUBSET Idents]
  /\ MaxFds \in Nat
  /\ MaxOps \in Nat
  /\ MaxCrashes \in Nat

VARIABLES
  file,      \* contents of the five files
  leaked,    \* files opened by config_get_row and never closed
  dbpc,      \* what the call in progress does next; "dead" when the process is
  call,      \* the last call: its name, arguments and result
  dbops, crashes

dbvars == <<file, leaked, dbpc, call, dbops, crashes>>

Files == {"users", "bans", "modes", "notes", "vars"}
Line == [sect : Files \cup {"", "masks"}, id : Nat, val : Seq(Nat)]
Steps == {"idle", "dead", "addmask", "delmask", "banset", "modeadd", "delbans",
          "delmodes", "delnotes", "delvars", "delmasks", "deluser"}
Ops == {"", "add", "addmask", "delmask", "setpass", "setname", "getid", "del", "ban", "delid",
        "note", "mode+", "mode-", "set", "unset", "check"}

DbTypeOK ==
  /\ file \in [Files -> Seq(Line)]
  /\ leaked \in 0 .. MaxFds
  /\ dbpc \in Steps
  /\ call \in [op : Ops, uid : Nat, word : Nat, ident : Idents \cup {""}, val : Int]
  /\ dbops \in 0 .. MaxOps
  /\ crashes \in 0 .. MaxCrashes

NoCall == [op |-> "", uid |-> 0, word |-> 0, ident |-> "", val |-> 0]

\* text_setup_database makes files without rows.
DbInit ==
  /\ file = [f \in Files |-> IF f = "users" THEN <<Header("users"), Header("masks")>>
                             ELSE <<Header(f)>>]
  /\ leaked = 0
  /\ dbpc = "idle"
  /\ call = NoCall
  /\ dbops = 0
  /\ crashes = 0

(***************************************************************************)
(* Files                                                                   *)
(***************************************************************************)

\* fopen() fails when no descriptor is left.
Readable == leaked < MaxFds

\* The process is killed, and started again.
Crash ==
  /\ dbpc # "dead"
  /\ crashes < MaxCrashes
  /\ crashes' = crashes + 1
  /\ dbpc' = "dead"
  /\ UNCHANGED <<file, leaked, call, dbops>>
Start ==
  /\ dbpc = "dead"
  /\ leaked' = 0
  /\ dbpc' = "idle"
  /\ call' = NoCall
  /\ UNCHANGED <<file, dbops, crashes>>

\* config_write: the file is replaced and the call goes on; or the process
\* dies when some of the lines have been written.
Write(f, new, next) ==
  /\ UNCHANGED leaked
  /\ \/ /\ file' = [file EXCEPT ![f] = new]
        /\ dbpc' = next
        /\ UNCHANGED crashes
     \/ /\ crashes < MaxCrashes
        /\ crashes' = crashes + 1
        /\ \E k \in 0 .. Len(new) - 1 : file' = [file EXCEPT ![f] = SubSeq(new, 1, k)]
        /\ dbpc' = "dead"

Skip(next) == dbpc' = next /\ UNCHANGED <<file, leaked, crashes>>

\* config_set_str
Set(f, section, id, val, next) ==
  IF Readable /\ CanSetStr(file[f], section, id, val)
  THEN Write(f, SetStr(file[f], section, id, val), next)
  ELSE Skip(next)

\* config_add_row
Add(f, id, val, next) ==
  IF Readable /\ Headers(file[f], f) # {}
  THEN Write(f, AddRow(file[f], f, id, val), next)
  ELSE Skip(next)

\* Faulty form of DelAll, not used: it goes on behind the row it has deleted.
DelAllOnce(f, rows, next) ==
  IF Readable /\ rows # {}
  THEN Write(f, DelRow(file[f], Min(rows)), next)
  ELSE Skip(next)

\* Another: it deletes the row behind.
DelAllNextRow(f, rows, next) ==
  IF Readable /\ rows # {}
  THEN Write(f, IF Min(rows) < Len(file[f]) THEN DelRow(file[f], Min(rows) + 1)
                ELSE file[f], dbpc)
  ELSE Skip(next)

\* The loops that delete rows by their line: find the first, close the file,
\* remove it, start again.
DelAll(f, rows, next) ==
  IF Readable /\ rows # {}
  THEN Write(f, DelRow(file[f], Min(rows)), dbpc)
  ELSE Skip(next)

(***************************************************************************)
(* What the calls look for                                                 *)
(***************************************************************************)
Val(f, i) == file[f][i].val
Users == Rows(file["users"], "users")
MaskRows == {i \in Rows(file["users"], "masks") : Len(Val("users", i)) = 2}

\* Rows with too few words are passed over (strtok returns a null pointer).
HasUser(u) ==
  /\ RowsWith(file["users"], "users", u) # {}
  /\ Len(GetStr(file["users"], "users", u)) = 2
Uids == {u \in {file["users"][i].id : i \in Users} : HasUser(u)}
Named(name) == {i \in Users : Val("users", i)[1] = name}
MasksOf(u) == {i \in MaskRows : Val("users", i)[1] = u}
Matching(h) == {i \in MaskRows : h \in Match[Val("users", i)[2]]}
BansOf(u) == {i \in Rows(file["bans"], "bans") : Val("bans", i)[1] = u}
BansWith(k) == {i \in Rows(file["bans"], "bans") : Len(Val("bans", i)) = 2
                                                   /\ Val("bans", i)[2] = k}
NotesOf(u) == {i \in Rows(file["notes"], "notes") :
                 Len(Val("notes", i)) = 2 /\ u \in Range(Val("notes", i))}
Keyed(f, u, k) == {i \in RowsWith(file[f], f, u) : Val(f, i)[1] = k}

\* The calls of scripts, one after the other.
Idle ==
  /\ dbpc = "idle"
  /\ dbops < MaxOps
  /\ dbops' = dbops + 1
Calls(op, uid, word, val) ==
  call' = [op |-> op, uid |-> uid, word |-> word, ident |-> "", val |-> val]
Goes(step) == dbpc = step /\ UNCHANGED dbops

(***************************************************************************)
(* Users and masks (userdb.c)                                              *)
(***************************************************************************)

\* userdb_add, which scripts call when the handle is not in use, adds a user
\* without a password ("-", here 1) and then the mask.
UserAdd(name, mask) ==
  LET uid == NextId(file["users"], "users")
      set == Readable /\ CanSetStr(file["users"], "users", uid, <<name, 1>>)
  IN /\ Idle
     /\ Named(name) = {}
     /\ Calls("add", uid, mask, IF set THEN uid ELSE 0)
     /\ Set("users", "users", uid, <<name, 1>>, IF set THEN "addmask" ELSE "idle")

\* userdb_addmask
AddMask(u, mask) ==
  Set("users", "masks", NextId(file["users"], "masks"), <<u, mask>>, "idle")
UserAddSecond == Goes("addmask") /\ AddMask(call.uid, call.word) /\ UNCHANGED call
UserAddmask(u, mask) == Idle /\ Calls("addmask", u, mask, 0) /\ AddMask(u, mask)

\* userdb_delmask takes a mask and does not look at it.
UserDelmask(u, mask) == Idle /\ Calls("delmask", u, mask, 0) /\ Skip("delmask")
DelmaskStep ==
  /\ Goes("delmask")
  /\ DelAll("users", MasksOf(call.uid), "idle")
  /\ UNCHANGED call

\* userdb_set_password; 2 stands for the hash of a password.
UserSetpass(u, pass) ==
  /\ Idle
  /\ Calls("setpass", u, pass, 0)
  /\ LET name == GetStr(file["users"], "users", u)[1] IN
     Set("users", "users", u, <<name, pass>>, "idle")

\* userdb_set_name takes the handle for the number of the user and misses a
\* fourth word in a row that has three after its number: it changes nothing.
UserSetname(u, name) == Idle /\ Calls("setname", u, name, -1) /\ Skip("idle")

\* Faulty form of Found, not used: it does not ask whether the file was opened.
FoundUnopened(rows) ==
  /\ leaked' = IF rows # {} THEN leaked + 1 ELSE leaked
  /\ UNCHANGED <<file, crashes>>

\* config_get_row leaves its file open when a search ends before the last row.
Found(rows) ==
  /\ leaked' = IF Readable /\ rows # {} THEN leaked + 1 ELSE leaked
  /\ UNCHANGED <<file, crashes>>

\* userdb_find_byname
UserFindByName(name) ==
  /\ Idle
  /\ Calls("getid", 0, name,
           IF Readable /\ Named(name) # {} THEN file["users"][Min(Named(name))].id ELSE 0)
  /\ Found(Named(name))
  /\ UNCHANGED dbpc

\* userdb_find_bymask returns the owner of the first mask that matches.
FindByMask(h) ==
  IF Readable /\ Matching(h) # {} THEN Val("users", Min(Matching(h)))[1] ELSE 0
UserFindByMask(h) ==
  /\ Idle
  /\ call' = [NoCall EXCEPT !.op = "getid", !.ident = h, !.val = FindByMask(h)]
  /\ Found(Matching(h))
  /\ UNCHANGED dbpc

\* Faulty form of DelMasks, not used: the masks stay.
DelMasksForgotten == Goes("delmasks") /\ Skip("deluser") /\ UNCHANGED call

\* userdb_del: the rows of the user in the other tables, one write a step.
UserDel(u) == Idle /\ Calls("del", u, 0, -1) /\ Skip("delbans")
DelBans == Goes("delbans") /\ DelAll("bans", BansOf(call.uid), "delmodes") /\ UNCHANGED call
DelNotes == Goes("delnotes") /\ DelAll("notes", NotesOf(call.uid), "delvars") /\ UNCHANGED call
DelMasks == Goes("delmasks") /\ DelAll("users", MasksOf(call.uid), "deluser") /\ UNCHANGED call
DelUser ==
  /\ Goes("deluser")
  /\ call' = [call EXCEPT !.val = IF Readable /\ CanSetStr(file["users"], "users", call.uid, <<>>)
                                  THEN 0 ELSE -1]
  /\ Set("users", "users", call.uid, <<>>, "idle")

\* mode_deluser and var_deluser repeat config_set_str while it succeeds.
DelKeyed(f, next) ==
  Set(f, f, call.uid, <<>>,
      IF Readable /\ CanSetStr(file[f], f, call.uid, <<>>) THEN dbpc ELSE next)
DelModes == Goes("delmodes") /\ DelKeyed("modes", "delnotes") /\ UNCHANGED call
DelVars == Goes("delvars") /\ DelKeyed("vars", "delmasks") /\ UNCHANGED call

(***************************************************************************)
(* Bans, notes, modes and variables                                        *)
(***************************************************************************)

\* ban_add: the ban of a mask that is banned already gets the new owner.
BanAdd(u, k) ==
  /\ Idle
  /\ Calls("ban", u, k, IF Readable /\ BansWith(k) # {}
                        THEN file["bans"][Min(BansWith(k))].id
                        ELSE NextId(file["bans"], "bans"))
  /\ Found(BansWith(k))
  /\ dbpc' = "banset"
BanSet ==
  /\ Goes("banset")
  /\ Set("bans", "bans", call.val, <<call.uid, call.word>>, "idle")
  /\ UNCHANGED call

\* ban_del and note_del
DelById(f, id) == Idle /\ Calls("delid", 0, id, 0) /\ Set(f, f, id, <<>>, "idle")

NoteAdd(from, to) ==
  /\ Idle
  /\ Calls("note", from, to, 0)
  /\ Set("notes", "notes", NextId(file["notes"], "notes"), <<from, to>>, "idle")

\* mode_set removes the old row, then adds a new one.  The comparison of a row
\* that has no channel (strcasecmp of a null pointer) kills the process.
ModeSet(u, k, on) ==
  LET old   == Keyed("modes", u, k)
      short == {i \in Rows(file["modes"], "modes") : Val("modes", i) = <<0>>}
      next  == IF on THEN "modeadd" ELSE "idle"
  IN /\ Idle
     /\ Calls(IF on THEN "mode+" ELSE "mode-", u, k, 0)
     /\ CASE Readable /\ (\E s \in short : \A i \in old : s < i) -> Skip("dead")
          [] Readable /\ old # {} /\ (\A s \in short : Min(old) < s) ->
               Write("modes", DelRow(file["modes"], Min(old)), next)
          [] OTHER -> Skip(next)
ModeAdd == Goes("modeadd") /\ Add("modes", call.uid, <<call.word>>, "idle") /\ UNCHANGED call

\* var_set.  Without a value it deletes the row or, when there is none, adds one
\* whose value is the word "(null)".
VarSet(u, k, on) ==
  /\ Idle
  /\ Calls(IF on THEN "set" ELSE "unset", u, k, 0)
  /\ LET old == Keyed("vars", u, k)
         val == <<k, IF on THEN 1 ELSE 0>>
     IN IF ~Readable \/ old = {} THEN Add("vars", u, val, "idle")
        ELSE Write("vars", IF on THEN SetRow(file["vars"], Min(old), u, val)
                           ELSE DelRow(file["vars"], Min(old)), "idle")

\* mode_check and var_get leave the file open when they find something.
Check(f, u, k) == Idle /\ Calls("check", u, k, 0) /\ Found(Keyed(f, u, k)) /\ UNCHANGED dbpc

(***************************************************************************)
(* Behaviours.  Nothing stops a call that is in progress but a crash.      *)
(***************************************************************************)
CallStep ==
  \/ UserAddSecond \/ DelmaskStep \/ BanSet \/ ModeAdd
  \/ DelBans \/ DelModes \/ DelNotes \/ DelVars \/ DelMasks \/ DelUser

ScriptCall ==
  \/ \E name \in Handles, mask \in Masks : UserAdd(name, mask)
  \/ \E name \in Handles : UserFindByName(name)
  \/ \E h \in Idents : UserFindByMask(h)
  \/ \E f \in {"bans", "notes"} : \E i \in Rows(file[f], f) : DelById(f, file[f][i].id)
  \/ \E u \in Uids :
       \/ \E mask \in Masks : UserAddmask(u, mask) \/ UserDelmask(u, mask)
       \/ \E pass \in {1, 2} : UserSetpass(u, pass)
       \/ \E name \in Handles : UserSetname(u, name)
       \/ UserDel(u)
       \/ \E k \in Banned : BanAdd(u, k)
       \/ \E to \in Uids : NoteAdd(u, to)
       \/ \E k \in Keys, on \in BOOLEAN : ModeSet(u, k, on) \/ VarSet(u, k, on)
       \/ \E f \in {"modes", "vars"}, k \in Keys : Check(f, u, k)

DbNext == CallStep \/ ScriptCall \/ Crash \/ Start

DbSpec == DbInit /\ [][DbNext]_dbvars /\ WF_dbvars(CallStep)

(***************************************************************************)
(* Properties                                                              *)
(***************************************************************************)

\* Every mask belongs to a user that exists, through every crash: the mask is
\* added after the user, the user deleted after its masks, and a file that was
\* cut off loses its masks first.
MasksHaveUsers == \A i \in MaskRows : HasUser(Val("users", i)[1])

\* When userdb_del reports success, no ban, mask or note is left that names the
\* user, so that none can come to belong to another.
DelClears ==
  call.op = "del" /\ call.val = 0 /\ dbpc = "idle" =>
    /\ BansOf(call.uid) = {}
    /\ NotesOf(call.uid) = {}
    /\ MasksOf(call.uid) = {}

\* The users a line belongs to.
Owners(f, i) ==
  CASE f = "notes" -> Range(Val(f, i))
    [] f = "users" /\ i \notin Users -> {Val(f, i)[1]}
    [] OTHER -> {file[f][i].id}

\* A call for one user leaves the lines of every other user as they are, in all
\* files but that of the bans, as long as the process lives: no new row takes
\* the number of an old one and no row is taken for the one behind it.
OthersUntouched ==
  [][\A f \in Files \ {"bans"} : \A i \in DOMAIN file[f] :
       (/\ dbpc' # "dead"
        /\ call'.op # "delid"
        /\ file[f][i].sect = ""
        /\ call'.uid \notin Owners(f, i))
       => file[f][i] \in Range(file'[f])]_dbvars

\* Every call returns, unless the process dies or userdb_del meets a mode or a
\* variable of the user (see DelReturns).
Deleting == call.op = "del" /\ \E f \in {"modes", "vars"} : RowsWith(file[f], f, call.uid) # {}
CallReturns == dbpc \notin {"idle", "dead"} /\ ~Deleting ~> dbpc \in {"idle", "dead"} \/ Deleting

\* user del (doc/tcl-commands.txt:167): "Removes the user with id <uid> from the
\* database."  So the deletion of a user ends.
DelReturns == dbpc = "delbans" ~> dbpc = "idle"
=============================================================================
