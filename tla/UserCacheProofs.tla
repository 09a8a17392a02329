---------------------------- MODULE UserCacheProofs ----------------------------
(***************************************************************************)
(* For any number of networks, nicks, channels, entries and events: that   *)
(* whoever is in sight is kept and whoever is not is counted as lost,      *)
(* whatever the files hold; and that whoever is taken for a user is that   *)
(* user by what the files say, which uses what is proved of TextDb.        *)
(***************************************************************************)
EXTENDS UserCache, TextDbProofs

\* An entry in use.
IsEntry(e) ==
  /\ {"nick", "chans", "lost", "quit"} \subseteq DOMAIN e
  /\ e.nick # ""
  /\ e.lost \in Nat

\* In a channel it is not lost, unless its nick has quit; in none it is.
InSight(e) == e.chans # {} /\ e.quit # TRUE
Good(e) == IsEntry(e) /\ (InSight(e) => e.lost = 0) /\ (e.chans = {} => e.lost # 0)

\* What keeps the table right: every entry is free or good, and a command looks
\* up none that is free.
SightInv ==
  /\ user = [i \in Entries |-> user[i]]
  /\ \A i \in Entries : user[i] = Free \/ Good(user[i])
  /\ \A i \in todo : i \in Entries /\ user[i] # Free

\* The step of InSightKept.
KeptInSight ==
  \A i \in Entries :
    user[i].chans # {} /\ ~user[i].quit /\ user'[i] = Free =>
      \/ dbpc = "dead"
      \/ \A j \in Entries : user[j].server = user[i].server => user'[j] = Free

(***************************************************************************)
(* Entries                                                                 *)
(***************************************************************************)
LEMMA LeastEntry ==
  ASSUME NEW S \in SUBSET Entries, S # {}
  PROVE  Min(S) \in S /\ Min(S) \in Entries
<1>1. MaxEntries \in Nat
  BY CacheAssumption, Zenon
<1>2. Entries \subseteq Nat
  BY <1>1 DEF Entries
<1> QED BY <1>2, FirstOf

LEMMA FreeFields == Free.nick = "" /\ Free.chans = {} /\ Free.lost = 0
BY DEF Free

LEMMA GoodIsLive == ASSUME NEW e, Good(e) PROVE e # Free /\ IsEntry(e)
BY FreeFields DEF Good, IsEntry

\* What is assigned to a field.
LEMMA SetNick ==
  ASSUME NEW e, IsEntry(e), NEW n, n # "", NEW x, x = [e EXCEPT !.nick = n]
  PROVE  IsEntry(x) /\ x.lost = e.lost /\ x.chans = e.chans /\ x.quit = e.quit
BY DEF IsEntry

LEMMA SetChans ==
  ASSUME NEW e, IsEntry(e), NEW c, NEW x, x = [e EXCEPT !.chans = c]
  PROVE  IsEntry(x) /\ x.lost = e.lost /\ x.chans = c /\ x.quit = e.quit
BY DEF IsEntry

LEMMA SetLost ==
  ASSUME NEW e, IsEntry(e), NEW l \in Nat, NEW x, x = [e EXCEPT !.lost = l]
  PROVE  IsEntry(x) /\ x.lost = l /\ x.chans = e.chans /\ x.quit = e.quit
BY DEF IsEntry

LEMMA SetQuit ==
  ASSUME NEW e, IsEntry(e), NEW q, NEW x, x = [e EXCEPT !.quit = q]
  PROVE  IsEntry(x) /\ x.lost = e.lost /\ x.chans = e.chans /\ x.quit = q
BY DEF IsEntry

LEMMA SetId ==
  ASSUME NEW e, IsEntry(e), NEW u, NEW x, x = [e EXCEPT !.id = u]
  PROVE  IsEntry(x) /\ x.lost = e.lost /\ x.chans = e.chans /\ x.quit = e.quit
BY DEF IsEntry

LEMMA SetIdent ==
  ASSUME NEW e, IsEntry(e), NEW u, NEW x, x = [e EXCEPT !.ident = u]
  PROVE  IsEntry(x) /\ x.lost = e.lost /\ x.chans = e.chans /\ x.quit = e.quit
BY DEF IsEntry

LEMMA SetAuth ==
  ASSUME NEW e, IsEntry(e), NEW a, NEW x, x = [e EXCEPT !.auth = a]
  PROVE  IsEntry(x) /\ x.lost = e.lost /\ x.chans = e.chans /\ x.quit = e.quit
BY DEF IsEntry

\* What makes an entry good.
LEMMA SameGood ==
  ASSUME NEW e, Good(e), NEW x, IsEntry(x), x.lost = e.lost, x.chans = e.chans, x.quit = e.quit
  PROVE  Good(x)
BY Zenon DEF Good, InSight

LEMMA AwayGood ==
  ASSUME NEW x, IsEntry(x), x.chans = {}, x.lost # 0
  PROVE  Good(x)
BY Zenon DEF Good, InSight

LEMMA GoneGood ==
  ASSUME NEW x, IsEntry(x), x.quit = TRUE, x.lost # 0
  PROVE  Good(x)
BY Zenon DEF Good, InSight

LEMMA ThereGood ==
  ASSUME NEW x, IsEntry(x), x.chans # {}, x.lost = 0
  PROVE  Good(x)
BY Zenon DEF Good, InSight

LEMMA SeenGood ==
  ASSUME NEW e, Good(e)
  PROVE  Good(Seen(e))
<1>1. CASE e.id # 0 /\ e.lost # 0
  <2>1. PICK x : x = [e EXCEPT !.lost = 1]
    OBVIOUS
  <2>2. IsEntry(x) /\ x.lost = 1 /\ x.chans = e.chans /\ x.quit = e.quit
    BY <2>1, GoodIsLive, SetLost
  <2>3. ~InSight(e)
    BY <1>1, Zenon DEF Good
  <2>4. ~InSight(x)
    BY <2>2, <2>3, Zenon DEF InSight
  <2>5. x.lost # 0
    BY <2>2
  <2>6. Good(x)
    BY <2>2, <2>4, <2>5, Zenon DEF Good
  <2>7. Seen(e) = x
    BY <1>1, <2>1 DEF Seen
  <2> QED BY <2>6, <2>7
<1>2. CASE ~(e.id # 0 /\ e.lost # 0)
  BY <1>2 DEF Seen
<1> QED BY <1>1, <1>2

LEMMA CheckedGood ==
  ASSUME NEW e, Good(e), NEW c
  PROVE  Good(Checked(Without(e, c)))
<1>1. PICK rest : rest = e.chans \ {c}
  OBVIOUS
<1>2. PICK x : x = [e EXCEPT !.chans = rest]
  OBVIOUS
<1>3. IsEntry(x) /\ x.lost = e.lost /\ x.chans = rest /\ x.quit = e.quit
  BY <1>2, GoodIsLive, SetChans
<1>4. Good(Checked(x))
  <2>1. CASE rest = {}
    <3>1. PICK y : y = [x EXCEPT !.lost = 1]
      OBVIOUS
    <3>2. IsEntry(y) /\ y.lost = 1 /\ y.chans = {}
      BY <1>3, <2>1, <3>1, SetLost
    <3>3. Checked(x) = y
      BY <1>3, <2>1, <3>1 DEF Checked
    <3> QED BY <3>2, <3>3, AwayGood
  <2>2. CASE rest # {}
    <3>1. Checked(x) = x
      BY <1>3, <2>2 DEF Checked
    <3>2. e.chans # {}
      BY <1>1, <2>2
    <3>3. InSight(x) => InSight(e)
      BY <1>3, <3>2, Zenon DEF InSight
    <3>4. Good(x)
      BY <1>3, <2>2, <3>3, Zenon DEF Good
    <3> QED BY <3>1, <3>4
  <2> QED BY <2>1, <2>2
<1>5. Without(e, c) = x
  BY <1>1, <1>2 DEF Without
<1> QED BY <1>4, <1>5

LEMMA JoinedGood ==
  ASSUME NEW e, Good(e), NEW c
  PROVE  Good(Joined(e, c))
<1>1. CASE Tracked(c)
  <2>1. PICK all : all = e.chans \cup {c}
    OBVIOUS
  <2>2. PICK x : x = [e EXCEPT !.chans = all]
    OBVIOUS
  <2>3. PICK y : y = [x EXCEPT !.lost = 0]
    OBVIOUS
  <2>4. PICK z : z = [y EXCEPT !.quit = FALSE]
    OBVIOUS
  <2>5. IsEntry(x) /\ x.chans = all
    BY <2>2, GoodIsLive, SetChans
  <2>6. IsEntry(y) /\ y.chans = all /\ y.lost = 0
    BY <2>3, <2>5, SetLost
  <2>7. IsEntry(z) /\ z.chans = all /\ z.lost = 0
    BY <2>4, <2>6, SetQuit
  <2>8. all # {}
    BY <2>1
  <2>9. Joined(e, c) = z
    BY <1>1, <2>1, <2>2, <2>3, <2>4 DEF Joined
  <2> QED BY <2>7, <2>8, <2>9, ThereGood
<1>2. CASE ~Tracked(c)
  BY <1>2 DEF Joined
<1> QED BY <1>1, <1>2

LEMMA FoundGood ==
  ASSUME SightInv, NEW s, NEW n \in Nicks, Find(s, n) # {}
  PROVE  /\ Min(Find(s, n)) \in Entries
         /\ Good(user[Min(Find(s, n))])
<1>1. Min(Find(s, n)) \in Find(s, n) /\ Min(Find(s, n)) \in Entries
  BY LeastEntry DEF Find
<1>2. user[Min(Find(s, n))].nick = n
  BY <1>1 DEF Find
<1>3. n # ""
  BY CacheAssumption
<1> QED BY <1>1, <1>2, <1>3, FreeFields DEF SightInv

LEMMA AddedGood ==
  ASSUME SightInv, NEW s, NEW n \in Nicks, NEW h
  PROVE  Good(Added(s, n, h))
<1>1. CASE Find(s, n) # {}
  BY <1>1, FoundGood DEF Added
<1>2. CASE Find(s, n) = {}
  <2>1. PICK d, u : d = Ident[n][h] /\ u = Lookup(d)
    OBVIOUS
  <2>2. PICK x : x = [Free EXCEPT !.nick = n, !.host = h, !.server = s, !.id = u, !.ident = d,
                                 !.lost = 1]
    OBVIOUS
  <2>3. n # ""
    BY CacheAssumption
  <2>4. IsEntry(x) /\ x.chans = {} /\ x.lost # 0
    <3>1. DOMAIN x = {"nick", "host", "server", "chans", "id", "lost", "ident", "auth", "quit"}
      BY <2>2 DEF Free
    <3>2. x.nick = n
      BY <2>2 DEF Free
    <3>3. x.chans = {}
      BY <2>2 DEF Free
    <3>4. x.lost = 1
      BY <2>2 DEF Free
    <3>5. {"nick", "chans", "lost", "quit"} \subseteq DOMAIN x
      BY <3>1
    <3>6. x.lost \in Nat /\ x.lost # 0
      BY <3>4
    <3> QED BY <2>3, <3>2, <3>3, <3>5, <3>6, Zenon DEF IsEntry
  <2>5. Added(s, n, h) = x
    BY <1>2, <2>1, <2>2 DEF Added
  <2> QED BY <2>4, <2>5, AwayGood
<1> QED BY <1>1, <1>2

(***************************************************************************)
(* Steps that change one entry, or none                                    *)
(***************************************************************************)
LEMMA OneEntry ==
  ASSUME SightInv, NEW j \in Entries, NEW e, Good(e), user' = [user EXCEPT ![j] = e],
         \A i \in todo' : i \in todo /\ i # j
  PROVE  SightInv' /\ KeptInSight
<1>1. user' = [i \in Entries |-> IF i = j THEN e ELSE user[i]]
  BY DEF SightInv
<1>2. \A i \in Entries : user'[i] = IF i = j THEN e ELSE user[i]
  BY <1>1
<1>3. e # Free
  BY GoodIsLive
<1>4. \A i \in Entries : user'[i] = Free \/ Good(user'[i])
  BY <1>2 DEF SightInv
<1>5. user' = [i \in Entries |-> user'[i]]
  BY <1>1
<1>6. \A i \in todo' : i \in Entries /\ user'[i] # Free
  BY <1>2 DEF SightInv
<1>7. SightInv'
  BY <1>4, <1>5, <1>6 DEF SightInv
<1>8. \A i \in Entries : user[i].chans # {} => user'[i] # Free
  BY <1>2, <1>3, FreeFields
<1> QED BY <1>7, <1>8 DEF KeptInSight

LEMMA NoEntry ==
  ASSUME SightInv, user' = user, \A i \in todo' : i \in Entries /\ user[i] # Free
  PROVE  SightInv' /\ KeptInSight
<1>1. SightInv'
  BY DEF SightInv
<1>2. \A i \in Entries : user[i].chans # {} => user'[i] # Free
  BY FreeFields
<1> QED BY <1>1, <1>2 DEF KeptInSight

LEMMA EventTodo == ASSUME Event PROVE todo' = {}
BY DEF Event, Serving

LEMMA Adds ==
  ASSUME SightInv, Event, NEW s, NEW n \in Nicks, NEW h, NEW e, Good(e), Add1(s, n, h, e)
  PROVE  SightInv' /\ KeptInSight
<1>1. todo' = {}
  BY EventTodo
<1>2. CASE Find(s, n) # {}
  BY <1>1, <1>2, FoundGood, OneEntry DEF Add1
<1>3. CASE Find(s, n) = {}
  <2> DEFINE free == {i \in Entries : ~Live(i)}
  <2>1. free # {} /\ user' = [user EXCEPT ![Min(free)] = e]
    BY <1>3 DEF Add1
  <2>2. Min(free) \in Entries
    BY <2>1, LeastEntry
  <2> QED BY <1>1, <2>1, <2>2, OneEntry
<1> QED BY <1>2, <1>3

(***************************************************************************)
(* Every step                                                              *)
(***************************************************************************)
LEMMA JoinStep ==
  ASSUME SightInv, NEW s, NEW n \in Nicks, NEW c, NEW who, Join(s, n, c, who)
  PROVE  SightInv' /\ KeptInSight
<1> DEFINE h == person[s][n].host
           e == Joined(Added(s, n, h), c)
<1>1. Good(e)
  BY AddedGood, JoinedGood
<1>2. Good(Seen(e))
  BY <1>1, SeenGood
<1>3. Event /\ Add1(s, n, h, IF who THEN e ELSE Seen(e))
  BY DEF Join
<1>4. PICK hh, ee : hh = h /\ ee = (IF who THEN e ELSE Seen(e))
  OBVIOUS
<1>5. Good(ee) /\ Add1(s, n, hh, ee)
  BY <1>1, <1>2, <1>3, <1>4
<1> QED BY <1>3, <1>5, Adds

LEMMA PartStep ==
  ASSUME SightInv, NEW s, NEW n \in Nicks, NEW c, Part(s, n, c)
  PROVE  SightInv' /\ KeptInSight
<1>1. todo' = {}
  BY EventTodo DEF Part
<1>2. CASE Find(s, n) = {}
  BY <1>1, <1>2, NoEntry DEF Part
<1>3. CASE Find(s, n) # {}
  <2>1. PICK j : j = Min(Find(s, n))
    OBVIOUS
  <2>2. j \in Entries /\ Good(user[j])
    BY <1>3, <2>1, FoundGood
  <2>3. PICK e : e = user[j]
    OBVIOUS
  <2>4. PICK left : left = IF c \in channel THEN Checked(Without(e, c)) ELSE e
    OBVIOUS
  <2>5. PICK new : new = Seen(left)
    OBVIOUS
  <2>6. Good(new)
    <3>1. Good(left)
      BY <2>2, <2>3, <2>4, CheckedGood
    <3> QED BY <2>5, <3>1, SeenGood
  <2>7. user' = [user EXCEPT ![j] = new]
    <3>1. user' = [user EXCEPT ![j] =
                     Seen(IF c \in channel THEN Checked(Without(@, c)) ELSE @)]
      BY <1>3, <2>1 DEF Part
    <3>2. CASE c \in channel
      <4>1. user' = [user EXCEPT ![j] = Seen(Checked(Without(user[j], c)))]
        BY <3>1, <3>2
      <4> QED BY <2>3, <2>4, <2>5, <3>2, <4>1
    <3>3. CASE c \notin channel
      <4>1. user' = [user EXCEPT ![j] = Seen(user[j])]
        BY <3>1, <3>3
      <4> QED BY <2>3, <2>4, <2>5, <3>3, <4>1
    <3> QED BY <3>2, <3>3
  <2> QED BY <1>1, <2>2, <2>6, <2>7, OneEntry
<1> QED BY <1>2, <1>3

LEMMA NickStep ==
  ASSUME SightInv, NEW s, NEW new \in Nicks, NEW old \in Nicks, Nick(s, new, old)
  PROVE  SightInv' /\ KeptInSight
<1> DEFINE found == {i \in Entries : user[i].nick = old}
<1>1. todo' = {}
  BY EventTodo DEF Nick
<1>2. CASE ~(Visible(s, old) /\ found # {})
  BY <1>1, <1>2, NoEntry DEF Nick
<1>3. CASE Visible(s, old) /\ found # {}
  <2>1. PICK j : j = Min(found)
    OBVIOUS
  <2>2. j \in Entries /\ user[j].nick = old
    BY <1>3, <2>1, LeastEntry
  <2>3. Good(user[j])
    <3>1. old # ""
      BY CacheAssumption
    <3> QED BY <2>2, <3>1, FreeFields DEF SightInv
  <2>4. PICK e : e = user[j]
    OBVIOUS
  <2>5. PICK ren : ren = [e EXCEPT !.nick = new]
    OBVIOUS
  <2>6. Good(ren)
    <3>1. new # ""
      BY CacheAssumption
    <3>2. Good(e) /\ IsEntry(e)
      BY <2>3, <2>4, GoodIsLive
    <3>3. IsEntry(ren) /\ ren.lost = e.lost /\ ren.chans = e.chans /\ ren.quit = e.quit
      BY <2>5, <3>1, <3>2, SetNick
    <3> QED BY <3>2, <3>3, SameGood
  <2>7. user' = [user EXCEPT ![j] = ren]
    <3>1. user' = [user EXCEPT ![j].nick = new]
      BY <1>3, <2>1 DEF Nick
    <3> QED BY <2>2, <2>4, <2>5, <3>1 DEF SightInv
  <2> QED BY <1>1, <2>2, <2>6, <2>7, OneEntry
<1> QED BY <1>2, <1>3

LEMMA QuitStep ==
  ASSUME SightInv, NEW s, NEW n \in Nicks, Quit(s, n)
  PROVE  SightInv' /\ KeptInSight
<1>1. todo' = {}
  BY EventTodo DEF Quit
<1>2. CASE ~(Visible(s, n) /\ Find(s, n) # {})
  BY <1>1, <1>2, NoEntry DEF Quit
<1>3. CASE Visible(s, n) /\ Find(s, n) # {}
  <2>1. PICK j : j = Min(Find(s, n))
    OBVIOUS
  <2>2. j \in Entries /\ Good(user[j])
    BY <1>3, <2>1, FoundGood
  <2>3. PICK e : e = user[j]
    OBVIOUS
  <2>4. PICK x : x = [e EXCEPT !.lost = Old]
    OBVIOUS
  <2>5. PICK y : y = [x EXCEPT !.quit = TRUE]
    OBVIOUS
  <2>6. Good(y)
    <3>1. Old \in Nat /\ Old # 0
      <4>1. Delay \in Nat
        BY CacheAssumption, Zenon
      <4> QED BY <4>1 DEF Old
    <3>2. IsEntry(x) /\ x.lost = Old
      BY <2>2, <2>3, <2>4, <3>1, GoodIsLive, SetLost
    <3>3. IsEntry(y) /\ y.lost = Old /\ y.quit = TRUE
      BY <2>5, <3>2, SetQuit
    <3> QED BY <3>1, <3>3, GoneGood
  <2>7. user' = [user EXCEPT ![j] = y]
    <3>1. user' = [user EXCEPT ![j].lost = Old, ![j].quit = TRUE]
      BY <1>3, <2>1 DEF Quit
    <3> QED BY <2>2, <2>3, <2>4, <2>5, <3>1 DEF SightInv
  <2> QED BY <1>1, <2>2, <2>6, <2>7, OneEntry
<1> QED BY <1>2, <1>3

LEMMA MsgStep ==
  ASSUME SightInv, NEW s, NEW n \in Nicks, Msg(s, n)
  PROVE  SightInv' /\ KeptInSight
<1>1. PICK h : h = person[s][n].host
  OBVIOUS
<1>2. PICK e : e = Seen(Added(s, n, h))
  OBVIOUS
<1>3. Good(e)
  BY <1>2, AddedGood, SeenGood
<1>4. Event /\ Add1(s, n, h, e)
  BY <1>1, <1>2 DEF Msg
<1> QED BY <1>3, <1>4, Adds

LEMMA SetauthStep ==
  ASSUME SightInv, NEW s, NEW n \in Nicks, NEW u, Setauth(s, n, u)
  PROVE  SightInv' /\ KeptInSight
<1>1. todo' = {}
  BY EventTodo DEF Setauth
<1>2. Find(s, n) # {}
  BY DEF Setauth
<1>3. PICK j : j = Min(Find(s, n))
  OBVIOUS
<1>4. j \in Entries /\ Good(user[j])
  BY <1>2, <1>3, FoundGood
<1>5. PICK e : e = user[j]
  OBVIOUS
<1>6. PICK x : x = [e EXCEPT !.id = u]
  OBVIOUS
<1>7. PICK y : y = [x EXCEPT !.auth = TRUE]
  OBVIOUS
<1>8. Good(y)
  <2>1. Good(e) /\ IsEntry(e)
    BY <1>4, <1>5, GoodIsLive
  <2>2. IsEntry(x) /\ Good(x)
    BY <1>6, <2>1, SetId, SameGood
  <2> QED BY <1>7, <2>2, SetAuth, SameGood
<1>9. user' = [user EXCEPT ![j] = y]
  <2>1. user' = [user EXCEPT ![j].id = u, ![j].auth = TRUE]
    BY <1>3 DEF Setauth
  <2> QED BY <1>4, <1>5, <1>6, <1>7, <2>1 DEF SightInv
<1> QED BY <1>1, <1>4, <1>8, <1>9, OneEntry

LEMMA LookupStepKeeps ==
  ASSUME SightInv, LookupStep
  PROVE  SightInv' /\ KeptInSight
<1>1. PICK j : j = Min(todo)
  OBVIOUS
<1>2. j \in todo /\ j \in Entries
  BY <1>1, LeastEntry DEF LookupStep, SightInv
<1>3. Good(user[j])
  BY <1>2 DEF SightInv
<1>4. PICK e : e = user[j]
  OBVIOUS
<1>5. PICK d, u : d = Ident[e.nick][e.host] /\ u = Lookup(d)
  OBVIOUS
<1>6. PICK x : x = [e EXCEPT !.id = u]
  OBVIOUS
<1>a. PICK z : z = [x EXCEPT !.ident = d]
  OBVIOUS
<1>7. PICK y : y = [z EXCEPT !.auth = FALSE]
  OBVIOUS
<1>8. Good(y)
  <2>1. Good(e) /\ IsEntry(e)
    BY <1>3, <1>4, GoodIsLive
  <2>2. IsEntry(x) /\ Good(x)
    BY <1>6, <2>1, SetId, SameGood
  <2>3. IsEntry(z) /\ Good(z)
    BY <1>a, <2>2, SetIdent, SameGood
  <2> QED BY <1>7, <2>3, SetAuth, SameGood
<1>9. user' = [user EXCEPT ![j] = y]
  <2>1. user' = [user EXCEPT ![j].id = u, ![j].ident = d, ![j].auth = FALSE]
    BY <1>1, <1>4, <1>5 DEF LookupStep
  <2> QED BY <1>2, <1>4, <1>6, <1>a, <1>7, <2>1 DEF SightInv
<1>10. todo' = todo \ {j}
  BY <1>1 DEF LookupStep
<1> QED BY <1>2, <1>8, <1>9, <1>10, OneEntry

LEMMA ConnectStep ==
  ASSUME SightInv, NEW s, Connect(s)
  PROVE  SightInv' /\ KeptInSight
<1>1. todo' = {}
  BY EventTodo DEF Connect
<1>2. user' = [i \in Entries |-> IF user[i].server = s THEN Free ELSE user[i]]
  BY DEF Connect
<1>3. \A i \in Entries : user'[i] = IF user[i].server = s THEN Free ELSE user[i]
  BY <1>2
<1>4. SightInv'
  <2>1. user' = [i \in Entries |-> user'[i]]
    BY <1>2
  <2>2. \A i \in Entries : user'[i] = Free \/ Good(user'[i])
    BY <1>3 DEF SightInv
  <2> QED BY <1>1, <2>1, <2>2 DEF SightInv
<1>5. ASSUME NEW i \in Entries, user[i].chans # {}, user'[i] = Free
      PROVE  \A j \in Entries : user[j].server = user[i].server => user'[j] = Free
  <2>1. user[i] # Free
    BY <1>5, FreeFields
  <2>2. user[i].server = s
    BY <1>3, <1>5, <2>1
  <2> QED BY <1>3, <2>2
<1> QED BY <1>4, <1>5 DEF KeptInSight

LEMMA TickStep ==
  ASSUME SightInv, Tick
  PROVE  SightInv' /\ KeptInSight
<1>1. todo' = {}
  BY DEF Tick, Serving
<1>2. user' = [i \in Entries |->
        IF user[i].lost \in 1 .. Old - 1 THEN [user[i] EXCEPT !.lost = @ + 1] ELSE user[i]]
  BY DEF Tick
<1>3. ASSUME NEW i \in Entries, user[i].lost \in 1 .. Old - 1
      PROVE  Good(user'[i])
  <2>1. PICK e : e = user[i]
    OBVIOUS
  <2>2. e.lost \in Nat /\ e.lost # 0 /\ e.lost + 1 \in Nat /\ e.lost + 1 # 0
    BY <1>3, <2>1
  <2>3. Good(e)
    BY <2>1, <2>2, FreeFields DEF SightInv
  <2>4. PICK l : l = e.lost + 1
    OBVIOUS
  <2>5. PICK x : x = [e EXCEPT !.lost = l]
    OBVIOUS
  <2>6. ~InSight(e)
    BY <2>2, <2>3, Zenon DEF Good
  <2>7. Good(x)
    <3>1. IsEntry(x) /\ x.lost = l /\ x.chans = e.chans /\ x.quit = e.quit
      BY <2>2, <2>3, <2>4, <2>5, GoodIsLive, SetLost
    <3>2. ~InSight(x)
      BY <2>6, <3>1, Zenon DEF InSight
    <3>3. x.lost # 0
      BY <2>2, <2>4, <3>1
    <3> QED BY <3>1, <3>2, <3>3, Zenon DEF Good
  <2>8. user'[i] = x
    BY <1>2, <1>3, <2>1, <2>4, <2>5
  <2> QED BY <2>7, <2>8
<1>4. ASSUME NEW i \in Entries, user[i].lost \notin 1 .. Old - 1
      PROVE  user'[i] = user[i]
  BY <1>2, <1>4
<1>5. \A i \in Entries : user'[i] = user[i] \/ Good(user'[i])
  BY <1>3, <1>4
<1>6. \A i \in Entries : user'[i] = Free \/ Good(user'[i])
  BY <1>5 DEF SightInv
<1>7. SightInv'
  BY <1>1, <1>2, <1>6 DEF SightInv
<1>8. \A i \in Entries : user[i].chans # {} => user'[i] # Free
  BY <1>5, GoodIsLive, FreeFields
<1> QED BY <1>7, <1>8 DEF KeptInSight

LEMMA UpdateStep ==
  ASSUME SightInv, Update
  PROVE  SightInv' /\ KeptInSight
<1>1. todo' = {}
  BY DEF Update, Serving
<1>2. user' = [i \in Entries |-> IF user[i].lost > Delay + 1 THEN Free ELSE user[i]]
  BY DEF Update
<1>3. \A i \in Entries : user'[i] = IF user[i].lost > Delay + 1 THEN Free ELSE user[i]
  BY <1>2
<1>4. SightInv'
  <2>1. user' = [i \in Entries |-> user'[i]]
    BY <1>2
  <2>2. \A i \in Entries : user'[i] = Free \/ Good(user'[i])
    BY <1>3 DEF SightInv
  <2> QED BY <1>1, <2>1, <2>2 DEF SightInv
<1>5. ASSUME NEW i \in Entries, user[i].chans # {}, ~user[i].quit
      PROVE  user'[i] # Free
  <2>1. user[i] # Free
    BY <1>5, FreeFields
  <2>2. user[i].lost = 0
    BY <1>5, <2>1 DEF SightInv, Good, InSight
  <2>3. ~(0 > Delay + 1)
    <3>1. Delay \in Nat
      BY CacheAssumption, Zenon
    <3> QED BY <3>1
  <2> QED BY <1>3, <2>1, <2>2, <2>3
<1> QED BY <1>4, <1>5 DEF KeptInSight

LEMMA CommandStep ==
  ASSUME SightInv, Command
  PROVE  SightInv' /\ KeptInSight
<1>1. user' = user
  BY DEF Command
<1>2. \A i \in todo' : i \in Entries /\ user[i] # Free
  BY DEF Command, Stale, Live
<1> QED BY <1>1, <1>2, NoEntry

LEMMA DieStep ==
  ASSUME SightInv, Die
  PROVE  SightInv' /\ KeptInSight
<1>1. user' = user /\ todo' = todo
  BY DEF Die
<1> QED BY <1>1, NoEntry DEF SightInv

LEMMA RestartStep ==
  ASSUME SightInv, Restart
  PROVE  SightInv' /\ KeptInSight
<1>1. user' = NoUsers /\ todo' = {} /\ dbpc = "dead"
  BY DEF Restart, Start
<1> QED BY <1>1 DEF SightInv, KeptInSight, NoUsers

LEMMA NextKeepsSight ==
  ASSUME SightInv, [CacheNext]_vars
  PROVE  SightInv' /\ [KeptInSight]_vars
<1>1. CASE CacheNext
  <2>1. ASSUME NEW s \in Servers, NEW n \in Nicks, NEW h \in Hosts, Arrive(s, n, h)
        PROVE  SightInv' /\ KeptInSight
    BY <2>1, EventTodo, NoEntry DEF Arrive, NotReported
  <2>2. ASSUME NEW s \in Servers, NEW n \in Nicks, NEW c \in Chans, Kick(s, n, c)
        PROVE  SightInv' /\ KeptInSight
    BY <2>2, EventTodo, NoEntry DEF Kick, NotReported
  <2> QED
    BY <1>1, <2>1, <2>2, JoinStep, PartStep, NickStep, QuitStep, MsgStep, SetauthStep,
       LookupStepKeeps, ConnectStep, TickStep, UpdateStep, CommandStep, DieStep, RestartStep
    DEF CacheNext
<1>2. CASE UNCHANGED vars
  <2>1. user' = user /\ todo' = todo
    BY <1>2 DEF vars
  <2> QED BY <1>2, <2>1, NoEntry DEF SightInv
<1> QED BY <1>1, <1>2

(***************************************************************************)
(* Theorems                                                                *)
(***************************************************************************)

\* The table of users is right at all times.
THEOREM SightInvariance == CacheSpec => []SightInv
<1>1. CacheInit => SightInv
  BY DEF CacheInit, NoUsers, SightInv
<1>2. SightInv /\ [CacheNext]_vars => SightInv'
  BY NextKeepsSight
<1> QED BY <1>1, <1>2, PTL DEF CacheSpec

\* Whoever has left the last channel counts as lost, in every reachable state.
THEOREM AwayIsLost == CacheSpec => []LostWhenAway
<1>1. SightInv => LostWhenAway
  BY DEF SightInv, Good, LostWhenAway, Live
<1> QED BY <1>1, SightInvariance, PTL

\* Whoever is in a channel is forgotten only by a quit, a new connection or the
\* death of the parent.
THEOREM SightKept == CacheSpec => InSightKept
<1>1. SightInv /\ [CacheNext]_vars => [KeptInSight]_vars
  BY NextKeepsSight
<1>2. CacheSpec => [][KeptInSight]_vars
  BY <1>1, SightInvariance, PTL DEF CacheSpec
<1> QED BY <1>2 DEF InSightKept, KeptInSight
(***************************************************************************)
(* Whom an entry is taken for                                              *)
(***************************************************************************)

\* File f says that whoever was looked up as h is user u, who has given the password
\* or has none and a mask that matches.
BackedBy(f, u, h, auth) ==
  \E j \in Rows(f, "users") :
    /\ f[j].id = u /\ Len(f[j].val) = 2
    /\ \/ auth
       \/ /\ f[j].val[2] = 1
          /\ \E m \in Rows(f, "masks") :
               Len(f[m].val) = 2 /\ f[m].val[1] = u /\ h \in Match[f[m].val[2]]
Trusted(f, e) == e.id # 0 => BackedBy(f, e.id, e.ident, e.auth)

\* The rows and masks in f of users who are not in S are in g.
KeptBut(f, g, S) ==
  /\ \A i \in Rows(f, "users") : f[i].id \notin S => \E j \in Rows(g, "users") : g[j] = f[i]
  /\ \A i \in Rows(f, "masks") :
       f[i].val[1] \notin S => \E j \in Rows(g, "masks") : g[j] = f[i]

LEMMA KeptTrust ==
  ASSUME NEW f, NEW g, NEW S, KeptBut(f, g, S), NEW e, Trusted(f, e), e.id \notin S
  PROVE  Trusted(g, e)
<1> SUFFICES ASSUME e.id # 0 PROVE BackedBy(g, e.id, e.ident, e.auth)
  BY DEF Trusted
<1>1. PICK j \in Rows(f, "users") :
        /\ f[j].id = e.id /\ Len(f[j].val) = 2
        /\ \/ e.auth
           \/ /\ f[j].val[2] = 1
              /\ \E m \in Rows(f, "masks") :
                   Len(f[m].val) = 2 /\ f[m].val[1] = e.id /\ e.ident \in Match[f[m].val[2]]
  BY Zenon DEF Trusted, BackedBy
<1>2. PICK k \in Rows(g, "users") : g[k] = f[j]
  BY <1>1 DEF KeptBut
<1>3. CASE e.auth
  BY <1>1, <1>2, <1>3, Zenon DEF BackedBy
<1>4. CASE f[j].val[2] = 1 /\ \E m \in Rows(f, "masks") :
             Len(f[m].val) = 2 /\ f[m].val[1] = e.id /\ e.ident \in Match[f[m].val[2]]
  <2>1. PICK m \in Rows(f, "masks") :
          Len(f[m].val) = 2 /\ f[m].val[1] = e.id /\ e.ident \in Match[f[m].val[2]]
    BY <1>4
  <2>2. PICK n \in Rows(g, "masks") : g[n] = f[m]
    BY <2>1 DEF KeptBut
  <2> QED BY <1>1, <1>2, <1>4, <2>1, <2>2, Zenon DEF BackedBy
<1> QED BY <1>1, <1>3, <1>4

LEMMA KeptSame == ASSUME NEW f, NEW S PROVE KeptBut(f, f, S)
BY DEF KeptBut

LEMMA KeptMore == ASSUME NEW f, NEW g, KeptBut(f, g, {}), NEW S PROVE KeptBut(f, g, S)
BY DEF KeptBut

LEMMA AddedKept ==
  ASSUME NEW f \in Seq(Line), NEW g, NEW s, NEW e, LineAdded(f, g, s, e), e.sect = ""
  PROVE  KeptBut(f, g, {})
<1>1. PICK n : Gap(f, g, n) /\ g[n] = e
  BY DEF LineAdded
<1>2. g \in Seq(Line) /\ Plain(g, n)
  BY <1>1 DEF LineAdded, Plain
<1>3. Moves(f, g, n, "users") /\ Moves(f, g, n, "masks")
  BY <1>1, <1>2, BothMove
<1> QED BY <1>3 DEF Moves, KeptBut

LEMMA RemovedKept ==
  ASSUME NEW f \in Seq(Line), UsersOK(f), NEW n \in Rows(f, "masks"), NEW g, Removed(f, g, n),
         NEW u, f[n].val[1] = u
  PROVE  KeptBut(f, g, {u})
<1>1. g \in Seq(Line) /\ Gap(g, f, n) /\ Plain(f, n)
  BY RowAt DEF Removed
<1>2. Moves(g, f, n, "users") /\ Moves(g, f, n, "masks")
  BY <1>1, BothMove
<1>3. n \notin Rows(f, "users")
  BY UsersBeforeMasks DEF UsersOK
<1>4. \A i \in Rows(f, "users") : \E j \in Rows(g, "users") : g[j] = f[i]
  BY <1>2, <1>3 DEF Moves
<1>5. \A i \in Rows(f, "masks") : i # n => \E j \in Rows(g, "masks") : g[j] = f[i]
  BY <1>2 DEF Moves
<1> QED BY <1>4, <1>5 DEF KeptBut

LEMMA ReplacedKept ==
  ASSUME NEW f \in Seq(Line), UsersOK(f), NEW n \in Rows(f, "users"), NEW g, NEW e,
         Replaced(f, g, n, e), e.sect = "", NEW u, f[n].id = u
  PROVE  KeptBut(f, g, {u})
<1>1. SameRows(f, g, n, e)
  BY ReplacedRows
<1>2. n \notin Rows(f, "masks")
  BY UsersBeforeMasks DEF UsersOK
<1>3. \A i \in Rows(f, "users") : f[i].id # u => i \in Rows(g, "users") /\ g[i] = f[i]
  BY <1>1 DEF SameRows
<1>4. \A i \in Rows(f, "masks") : i \in Rows(g, "masks") /\ g[i] = f[i]
  BY <1>1, <1>2 DEF SameRows
<1> QED BY <1>3, <1>4 DEF KeptBut

(***************************************************************************)
(* What a command leaves of the rows and masks of other users              *)
(***************************************************************************)
LEMMA WriteKept ==
  ASSUME FilesOK, NEW f \in Files, NEW g, NEW next, Write(f, g, next)
  PROVE  dbpc' = "dead" \/ (dbpc' = next /\ file'[f] = g)
BY DEF Write, FilesOK

LEMMA SetKept ==
  ASSUME FilesOK, NEW s, NEW id \in Nat, NEW val \in Seq(Nat), NEW next,
         Set("users", s, id, val, next)
  PROVE  \/ dbpc' = "dead"
         \/ /\ dbpc' = next
            /\ \/ KeptBut(file["users"], file'["users"], {})
               \/ RowsWith(file["users"], s, id) # {}
            /\ s = "users" => KeptBut(file["users"], file'["users"], {id})
<1>0. PICK a \in Files : a = "users"
  BY UsersFile
<1>1. PICK f \in Seq(Line) : f = file[a] /\ UsersOK(f)
  BY <1>0, FileIsLines DEF FilesOK
<1>2. CASE Readable /\ CanSetStr(f, s, id, val)
  <2>1. PICK g, e : g = SetStr(f, s, id, val) /\ e = Written(id, val)
    OBVIOUS
  <2>2. Write(a, g, next)
    BY <1>0, <1>1, <1>2, <2>1 DEF Set
  <2>3. dbpc' = "dead" \/ (dbpc' = next /\ file'[a] = g)
    BY <2>2, WriteKept
  <2>4. e.sect = ""
    BY <2>1, WrittenIs
  <2>5. CASE LineAdded(f, g, s, e)
    <3>1. KeptBut(f, g, {}) /\ KeptBut(f, g, {id})
      BY <2>4, <2>5, AddedKept, KeptMore
    <3> QED BY <1>0, <1>1, <2>3, <3>1
  <2>6. CASE \E n \in RowsWith(f, s, id) : Replaced(f, g, n, e)
    <3>1. PICK n \in RowsWith(f, s, id) : Replaced(f, g, n, e)
      BY <2>6
    <3>2. n \in Rows(f, s) /\ f[n].id = id
      BY DEF RowsWith
    <3>3. s = "users" => KeptBut(f, g, {id})
      <4> SUFFICES ASSUME s = "users" PROVE KeptBut(f, g, {id})
        OBVIOUS
      <4>1. n \in Rows(f, "users")
        BY <3>2
      <4> QED BY <1>1, <2>4, <3>1, <3>2, <4>1, ReplacedKept
    <3>4. RowsWith(f, s, id) # {}
      BY <2>6
    <3> QED BY <1>0, <1>1, <2>3, <3>3, <3>4
  <2> QED BY <1>2, <2>1, <2>5, <2>6, StrSet
<1>3. CASE ~(Readable /\ CanSetStr(f, s, id, val))
  <2>1. dbpc' = next /\ file' = file
    BY <1>0, <1>1, <1>3 DEF Set, Skip
  <2> QED BY <2>1, KeptSame
<1> QED BY <1>2, <1>3

LEMMA DelAllKept ==
  ASSUME FilesOK, NEW u, NEW next, DelAll("users", MasksOf(u), next)
  PROVE  \/ dbpc' = "dead"
         \/ dbpc' \in {dbpc, next} /\ KeptBut(file["users"], file'["users"], {u})
<1>0. PICK a \in Files : a = "users"
  BY UsersFile
<1>1. PICK f \in Seq(Line) : f = file[a] /\ UsersOK(f)
  BY <1>0, FileIsLines DEF FilesOK
<1>2. CASE Readable /\ MasksOf(u) # {}
  <2>1. MasksOf(u) \subseteq Rows(f, "masks") /\ MasksOf(u) \in SUBSET Nat
    BY <1>0, <1>1, MaskRowsAre, RowsAreLines
  <2>2. PICK n \in MasksOf(u) : n = Min(MasksOf(u))
    BY <1>2, <2>1, FirstOf
  <2>3. n \in Rows(f, "masks") /\ f[n].val[1] = u
    BY <1>0, <1>1, <2>1 DEF MasksOf, Val
  <2>4. PICK g : g = DelRow(f, n)
    OBVIOUS
  <2>5. Write(a, g, dbpc)
    BY <1>0, <1>1, <1>2, <2>2, <2>4 DEF DelAll
  <2>6. Removed(f, g, n)
    BY <2>3, <2>4, RowRemoved DEF DelRow
  <2>7. KeptBut(f, g, {u})
    BY <1>1, <2>3, <2>6, RemovedKept
  <2>8. dbpc' = "dead" \/ (dbpc' = dbpc /\ file'[a] = g)
    BY <2>5, WriteKept
  <2> QED BY <1>0, <1>1, <2>7, <2>8
<1>3. CASE ~(Readable /\ MasksOf(u) # {})
  <2>1. dbpc' = next /\ file' = file
    BY <1>3 DEF DelAll, Skip
  <2> QED BY <2>1, KeptSame
<1> QED BY <1>2, <1>3

\* Between the steps of these calls the rows of their user are not to be trusted.
Busy == DelSteps \cup {"delmask"}

CallNamed ==
  /\ dbpc \in DelSteps => call.op = "del"
  /\ dbpc = "delmask" => call.op = "delmask"

\* A step takes nothing from anybody, or from the call's own user only, and then
\* the call goes on or the entries of the user are looked up.
StepKept ==
  \/ dbpc' = "dead"
  \/ dbpc \notin Busy /\ KeptBut(file["users"], file'["users"], {})
  \/ /\ KeptBut(file["users"], file'["users"], {call'.uid})
     /\ dbpc \in Busy => call'.uid = call.uid
     /\ dbpc' \in Busy \/ (dbpc' = "idle" /\ call'.op \in {"del", "delmask", "setpass"})

LEMMA NotBusy ==
  ASSUME NEW pc \in {"idle", "dead", "addmask", "banset", "modeadd"}
  PROVE  pc \notin Busy /\ pc \notin DelSteps /\ pc # "delmask"
BY DEF Busy, DelSteps

LEMMA AddMaskKept ==
  ASSUME FilesOK, NEW u \in Nat, NEW mask \in Nat, AddMask(u, mask)
  PROVE  \/ dbpc' = "dead"
         \/ dbpc' = "idle" /\ KeptBut(file["users"], file'["users"], {})
<1>1. PICK a, s : a = "users" /\ a \in Files /\ s = "masks"
  BY UsersFile
<1>2. PICK f \in Seq(Line) : f = file[a]
  BY <1>1, FileIsLines
<1>3. PICK id \in Nat : id = NextId(f, s) /\ RowsWith(f, s, id) = {}
  BY FreshId
<1>4. PICK val \in Seq(Nat) : val = <<u, mask>>
  BY Words
<1>5. PICK next : next = "idle"
  OBVIOUS
<1>6. Set("users", s, id, val, next)
  BY <1>1, <1>2, <1>3, <1>4, <1>5 DEF AddMask
<1>7. \/ dbpc' = "dead"
      \/ /\ dbpc' = next
         /\ \/ KeptBut(file["users"], file'["users"], {})
            \/ RowsWith(file["users"], s, id) # {}
  BY <1>6, SetKept
<1> QED BY <1>1, <1>2, <1>3, <1>5, <1>7

LEMMA UserAddKept ==
  ASSUME FilesOK, NEW name \in Handles, NEW mask \in Masks, UserAdd(name, mask)
  PROVE  StepKept /\ CallNamed'
<1>1. PICK a \in Files : a = "users"
  BY UsersFile
<1>2. PICK f \in Seq(Line) : f = file[a]
  BY FileIsLines
<1>3. PICK id \in Nat : id = NextId(f, a) /\ RowsWith(f, a, id) = {}
  BY FreshId
<1>4. PICK val \in Seq(Nat) : val = <<name, 1>>
  BY Words
<1>5. PICK next \in {"addmask", "idle"} : Set(a, a, id, val, next)
  <2>1. Set(a, a, id, val, IF Readable /\ CanSetStr(f, a, id, val) THEN "addmask" ELSE "idle")
    BY <1>1, <1>2, <1>3, <1>4 DEF UserAdd
  <2> QED BY <2>1
<1>6. \/ dbpc' = "dead"
      \/ /\ dbpc' = next
         /\ KeptBut(file["users"], file'["users"], {})
  <2>1. RowsWith(file["users"], a, id) = {} /\ Set("users", a, id, val, next)
    BY <1>1, <1>2, <1>3, <1>5
  <2> QED BY <2>1, SetKept
<1>7. dbpc = "idle"
  BY DEF UserAdd, Idle
<1>8. dbpc' \in {"dead", "addmask", "idle"}
  BY <1>5, <1>6
<1>9. CallNamed'
  BY <1>8, NotBusy DEF CallNamed
<1> QED BY <1>6, <1>7, <1>9, NotBusy DEF StepKept

LEMMA UserCallKept ==
  ASSUME FilesOK, UserCall
  PROVE  StepKept /\ CallNamed'
<1>1. CASE \E name \in Handles, mask \in Masks : UserAdd(name, mask)
  BY <1>1, UserAddKept
<1>2. CASE \E u \in Uids, mask \in Masks : UserAddmask(u, mask)
  <2>1. PICK u \in Uids, mask \in Masks : UserAddmask(u, mask)
    BY <1>2
  <2>2. dbpc = "idle" /\ AddMask(u, mask) /\ u \in Nat /\ mask \in Nat
    BY <2>1, KnownUser, Words DEF UserAddmask, Idle
  <2>3. dbpc' = "dead" \/ (dbpc' = "idle" /\ KeptBut(file["users"], file'["users"], {}))
    BY <2>2, AddMaskKept
  <2> QED BY <2>2, <2>3, NotBusy DEF StepKept, CallNamed
<1>3. CASE \E u \in Uids, mask \in Masks : UserDelmask(u, mask)
  <2>1. PICK u \in Uids, mask \in Masks : UserDelmask(u, mask)
    BY <1>3
  <2>2. dbpc = "idle" /\ dbpc' = "delmask" /\ file' = file /\ call'.op = "delmask"
    BY <2>1 DEF UserDelmask, Idle, Skip, Calls
  <2>3. "delmask" \notin DelSteps
    BY DEF DelSteps
  <2> QED BY <2>2, <2>3, KeptSame, NotBusy DEF StepKept, CallNamed
<1>4. CASE \E u \in Uids, pass \in {1, 2} : UserSetpass(u, pass)
  <2>1. PICK u \in Uids, pass \in {1, 2} : UserSetpass(u, pass)
    BY <1>4
  <2>2. u \in Nat /\ GetStr(file["users"], "users", u)[1] \in Nat /\ pass \in Nat
    BY KnownUser
  <2>3. PICK val \in Seq(Nat) : val = <<GetStr(file["users"], "users", u)[1], pass>>
    BY <2>2, Words
  <2>4. PICK a, next : a = "users" /\ next = "idle"
    OBVIOUS
  <2>5. Set("users", a, u, val, next)
    BY <2>1, <2>3, <2>4 DEF UserSetpass
  <2>6. \/ dbpc' = "dead"
        \/ dbpc' = next /\ KeptBut(file["users"], file'["users"], {u})
    BY <2>2, <2>4, <2>5, SetKept
  <2>7. dbpc = "idle" /\ call'.op = "setpass" /\ call'.uid = u
    BY <2>1 DEF UserSetpass, Idle, Calls
  <2> QED BY <2>4, <2>6, <2>7, NotBusy DEF StepKept, CallNamed
<1>5. CASE \E u \in Uids : UserDel(u)
  <2>1. PICK u \in Uids : UserDel(u)
    BY <1>5
  <2>2. dbpc = "idle" /\ dbpc' = "delbans" /\ file' = file /\ call'.op = "del"
    BY <2>1 DEF UserDel, Idle, Skip, Calls
  <2> QED BY <2>2, KeptSame, NotBusy DEF StepKept, CallNamed
<1> QED BY <1>1, <1>2, <1>3, <1>4, <1>5 DEF UserCall

\* A step of a deletion in another file.
LEMMA OtherFileKept ==
  ASSUME FilesOK, NEW f \in Files, f # "users", NEW g, NEW next,
         Write(f, g, next) \/ Skip(next)
  PROVE  \/ dbpc' = "dead"
         \/ dbpc' = next /\ KeptBut(file["users"], file'["users"], {call.uid})
                         /\ KeptBut(file["users"], file'["users"], {})
<1>1. dbpc' = "dead" \/ (dbpc' = next /\ file'["users"] = file["users"])
  BY UsersFile DEF Write, Skip, FilesOK
<1> QED BY <1>1, KeptSame

LEMMA DelSetKept ==
  ASSUME FilesOK, NEW f \in Files, f # "users", NEW id, NEW val, NEW next, Set(f, f, id, val, next)
  PROVE  \/ dbpc' = "dead"
         \/ dbpc' = next /\ KeptBut(file["users"], file'["users"], {call.uid})
                         /\ KeptBut(file["users"], file'["users"], {})
BY OtherFileKept DEF Set

LEMMA DelRowsKept ==
  ASSUME FilesOK, NEW f \in Files, f # "users", NEW rows, NEW next, DelAll(f, rows, next)
  PROVE  \/ dbpc' = "dead"
         \/ dbpc' \in {dbpc, next} /\ KeptBut(file["users"], file'["users"], {call.uid})
<1>1. (\E g : Write(f, g, dbpc)) \/ Skip(next)
  BY DEF DelAll
<1> QED BY <1>1, OtherFileKept

LEMMA DeletionKept ==
  ASSUME CallNamed, dbpc \in Busy, call'.uid = call.uid, call'.op = call.op,
         \/ dbpc' = "dead"
         \/ /\ KeptBut(file["users"], file'["users"], {call.uid})
            /\ \/ dbpc = "delmask" /\ dbpc' \in {"delmask", "idle"}
               \/ dbpc \in DelSteps /\ dbpc' \in DelSteps \cup {"idle"}
  PROVE  StepKept /\ CallNamed'
<1>1. CASE dbpc' = "dead"
  BY <1>1, NotBusy DEF StepKept, CallNamed
<1>2. CASE dbpc = "delmask" /\ dbpc' \in {"delmask", "idle"}
           /\ KeptBut(file["users"], file'["users"], {call.uid})
  <2>1. call.op = "delmask" /\ "delmask" \notin DelSteps
    BY <1>2 DEF CallNamed, DelSteps
  <2> QED BY <1>2, <2>1, NotBusy DEF StepKept, CallNamed, Busy
<1>3. CASE dbpc \in DelSteps /\ dbpc' \in DelSteps \cup {"idle"}
           /\ KeptBut(file["users"], file'["users"], {call.uid})
  <2>1. call.op = "del" /\ "delmask" \notin DelSteps
    BY <1>3 DEF CallNamed, DelSteps
  <2> QED BY <1>3, <2>1, NotBusy DEF StepKept, CallNamed, Busy
<1> QED BY <1>1, <1>2, <1>3

LEMMA CallStepKept ==
  ASSUME FilesOK, CallOK, CallNamed, CallStep
  PROVE  StepKept /\ CallNamed'
<1>0. call.uid \in Nat /\ call.word \in Nat
  BY CallIs
<1>1. CASE UserAddSecond
  <2>1. dbpc = "addmask" /\ AddMask(call.uid, call.word)
    BY <1>1 DEF UserAddSecond, Goes
  <2>2. dbpc' = "dead" \/ (dbpc' = "idle" /\ KeptBut(file["users"], file'["users"], {}))
    BY <1>0, <2>1, AddMaskKept
  <2> QED BY <2>1, <2>2, NotBusy DEF StepKept, CallNamed
<1>2. CASE BanSet
  <2>1. dbpc = "banset" /\ Set("bans", "bans", call.val, <<call.uid, call.word>>, "idle")
    BY <1>2 DEF BanSet, Goes
  <2>2. dbpc' = "dead" \/ (dbpc' = "idle" /\ KeptBut(file["users"], file'["users"], {}))
    BY <2>1, UsersFile, DelSetKept
  <2> QED BY <2>1, <2>2, NotBusy DEF StepKept, CallNamed
<1>3. CASE ModeAdd
  <2>1. dbpc = "modeadd" /\ Add("modes", call.uid, <<call.word>>, "idle")
    BY <1>3 DEF ModeAdd, Goes
  <2>2. dbpc' = "dead" \/ (dbpc' = "idle" /\ KeptBut(file["users"], file'["users"], {}))
    BY <2>1, UsersFile, OtherFileKept DEF Add
  <2> QED BY <2>1, <2>2, NotBusy DEF StepKept, CallNamed
<1>4. CASE DelmaskStep
  <2>1. dbpc = "delmask" /\ DelAll("users", MasksOf(call.uid), "idle") /\ call' = call
    BY <1>4 DEF DelmaskStep, Goes
  <2>2. \/ dbpc' = "dead"
        \/ dbpc' \in {dbpc, "idle"} /\ KeptBut(file["users"], file'["users"], {call.uid})
    BY <2>1, DelAllKept
  <2>3. dbpc \in Busy
    BY <2>1 DEF Busy
  <2> QED BY <2>1, <2>2, <2>3, DeletionKept
<1>5. CASE DelBans
  <2>1. dbpc = "delbans" /\ DelAll("bans", BansOf(call.uid), "delmodes") /\ call' = call
    BY <1>5 DEF DelBans, Goes
  <2>2. \/ dbpc' = "dead"
        \/ dbpc' \in {dbpc, "delmodes"} /\ KeptBut(file["users"], file'["users"], {call.uid})
    BY <2>1, UsersFile, DelRowsKept
  <2>3. dbpc \in Busy /\ dbpc \in DelSteps /\ "delmodes" \in DelSteps
    BY <2>1 DEF Busy, DelSteps
  <2> QED BY <2>1, <2>2, <2>3, DeletionKept
<1>6. CASE DelNotes
  <2>1. dbpc = "delnotes" /\ DelAll("notes", NotesOf(call.uid), "delvars") /\ call' = call
    BY <1>6 DEF DelNotes, Goes
  <2>2. \/ dbpc' = "dead"
        \/ dbpc' \in {dbpc, "delvars"} /\ KeptBut(file["users"], file'["users"], {call.uid})
    BY <2>1, UsersFile, DelRowsKept
  <2>3. dbpc \in Busy /\ dbpc \in DelSteps /\ "delvars" \in DelSteps
    BY <2>1 DEF Busy, DelSteps
  <2> QED BY <2>1, <2>2, <2>3, DeletionKept
<1>7. CASE DelMasks
  <2>1. dbpc = "delmasks" /\ DelAll("users", MasksOf(call.uid), "deluser") /\ call' = call
    BY <1>7 DEF DelMasks, Goes
  <2>2. \/ dbpc' = "dead"
        \/ dbpc' \in {dbpc, "deluser"} /\ KeptBut(file["users"], file'["users"], {call.uid})
    BY <2>1, DelAllKept
  <2>3. dbpc \in Busy /\ dbpc \in DelSteps /\ "deluser" \in DelSteps
    BY <2>1 DEF Busy, DelSteps
  <2> QED BY <2>1, <2>2, <2>3, DeletionKept
<1>8. CASE DelModes \/ DelVars
  <2>1. PICK f, now, next : /\ f \in {"modes", "vars"} /\ dbpc = now /\ DelKeyed(f, next)
                            /\ call' = call /\ now \in DelSteps /\ next \in DelSteps
    BY <1>8 DEF DelModes, DelVars, DelSteps, Goes
  <2>2. PICK nx : nx \in {dbpc, next} /\ Set(f, f, call.uid, <<>>, nx)
    BY <2>1 DEF DelKeyed
  <2>3. f \in Files /\ f # "users"
    BY <2>1 DEF Files
  <2>4. \/ dbpc' = "dead"
        \/ dbpc' = nx /\ KeptBut(file["users"], file'["users"], {call.uid})
    BY <2>2, <2>3, DelSetKept
  <2>5. dbpc \in Busy /\ dbpc \in DelSteps /\ nx \in DelSteps
    BY <2>1, <2>2 DEF Busy
  <2> QED BY <2>1, <2>4, <2>5, DeletionKept
<1>9. CASE DelUser
  <2>1. dbpc = "deluser" /\ Set("users", "users", call.uid, <<>>, "idle")
    BY <1>9 DEF DelUser, Goes
  <2>2. call'.uid = call.uid /\ call'.op = call.op
    BY <1>9 DEF DelUser, CallOK, CallType
  <2>3. PICK a, next : a = "users" /\ next = "idle"
    OBVIOUS
  <2>v. PICK val \in Seq(Nat) : val = <<>>
    <3>1. <<>> \in Seq(Nat)
      OBVIOUS
    <3> QED BY <3>1, Zenon
  <2>4. Set("users", a, call.uid, val, next)
    BY <2>1, <2>3, <2>v
  <2>5. \/ dbpc' = "dead"
        \/ dbpc' = next /\ KeptBut(file["users"], file'["users"], {call.uid})
    BY <1>0, <2>3, <2>4, SetKept
  <2>6. dbpc \in Busy /\ dbpc \in DelSteps
    BY <2>1 DEF Busy, DelSteps
  <2> QED BY <2>2, <2>3, <2>5, <2>6, DeletionKept
<1> QED BY <1>1, <1>2, <1>3, <1>4, <1>5, <1>6, <1>7, <1>8, <1>9 DEF CallStep

(***************************************************************************)
(* The tables of users, channels and persons                               *)
(***************************************************************************)
NickNames == Nicks \cup {""}
HostNames == Hosts \cup {""}
Networks == Servers \cup {0}
IdentNames == Idents \cup {""}
EntryType == [nick : NickNames, host : HostNames, server : Networks, chans : SUBSET Chans,
              id : Nat, lost : Ages, ident : IdentNames, auth : BOOLEAN, quit : BOOLEAN]
PersonType == [host : HostNames, chans : SUBSET Chans]

\* An entry in use has a nick and a host, so there is an ident to look up.
HasIdent(e) == e.nick \in Nicks /\ e.host \in Hosts
Identified(t) == \A i \in Entries : t[i] = Free \/ HasIdent(t[i])

TableOK(f, t) ==
  t \in [Entries -> EntryType] /\ (\A i \in Entries : Trusted(f, t[i])) /\ Identified(t)
ChannelsOK(c) == c \in SUBSET Chans /\ IsFiniteSet(c) /\ Cardinality(c) <= MaxChans
PersonsOK(p) == p \in [Servers -> [Nicks -> PersonType]]

\* The entry is taken for the same user for the same reasons.
Same(e, x) ==
  /\ x \in EntryType /\ x.id = e.id /\ x.ident = e.ident /\ x.auth = e.auth
  /\ HasIdent(e) => HasIdent(x)

LEMMA SameTrust ==
  ASSUME NEW f, NEW e, Trusted(f, e), NEW x, Same(e, x)
  PROVE  x \in EntryType /\ Trusted(f, x) /\ (HasIdent(e) => HasIdent(x))
BY DEF Same, Trusted

LEMMA SameSame == ASSUME NEW e, NEW x, NEW y, Same(e, x), Same(x, y) PROVE Same(e, y)
BY DEF Same

LEMMA SameSelf == ASSUME NEW e \in EntryType PROVE Same(e, e)
BY DEF Same

LEMMA AgesAre ==
  /\ 0 \in Ages /\ 1 \in Ages /\ Old \in Ages
  /\ \A l \in 1 .. Old - 1 : l + 1 \in Ages
<1>1. Delay \in Nat
  BY CacheAssumption, Zenon
<1> QED BY <1>1 DEF Ages, Old

LEMMA WithNick ==
  ASSUME NEW e \in EntryType, NEW n \in Nicks, NEW x, x = [e EXCEPT !.nick = n]
  PROVE  Same(e, x)
BY DEF EntryType, Same, NickNames, HasIdent

LEMMA WithChans ==
  ASSUME NEW e \in EntryType, NEW c \in SUBSET Chans, NEW x, x = [e EXCEPT !.chans = c]
  PROVE  Same(e, x) /\ x.chans = c
BY DEF EntryType, Same, HasIdent

LEMMA WithLost ==
  ASSUME NEW e \in EntryType, NEW l \in Ages, NEW x, x = [e EXCEPT !.lost = l]
  PROVE  Same(e, x)
BY DEF EntryType, Same, HasIdent

LEMMA WithQuit ==
  ASSUME NEW e \in EntryType, NEW q \in BOOLEAN, NEW x, x = [e EXCEPT !.quit = q]
  PROVE  Same(e, x)
BY DEF EntryType, Same, HasIdent

LEMMA WithId ==
  ASSUME NEW e \in EntryType, NEW u \in Nat, NEW x, x = [e EXCEPT !.id = u]
  PROVE  /\ x \in EntryType /\ x.id = u /\ x.ident = e.ident /\ x.auth = e.auth
         /\ HasIdent(e) => HasIdent(x)
BY DEF EntryType, HasIdent

LEMMA WithIdent ==
  ASSUME NEW e \in EntryType, NEW d \in Idents, NEW x, x = [e EXCEPT !.ident = d]
  PROVE  /\ x \in EntryType /\ x.id = e.id /\ x.ident = d /\ x.auth = e.auth
         /\ HasIdent(e) => HasIdent(x)
BY DEF EntryType, IdentNames, HasIdent

LEMMA WithAuth ==
  ASSUME NEW e \in EntryType, NEW a \in BOOLEAN, NEW x, x = [e EXCEPT !.auth = a]
  PROVE  /\ x \in EntryType /\ x.id = e.id /\ x.ident = e.ident /\ x.auth = a
         /\ HasIdent(e) => HasIdent(x)
BY DEF EntryType, HasIdent

LEMMA FreeTrusted ==
  /\ Free \in EntryType
  /\ \A f : Trusted(f, Free)
<1>1. PICK n \in NickNames : n = ""
  BY DEF NickNames
<1>2. PICK h \in HostNames : h = ""
  BY DEF HostNames
<1>3. PICK s \in Networks : s = 0
  BY DEF Networks
<1>4. PICK z \in Nat : z = 0 /\ z \in Ages
  BY AgesAre
<1>a. PICK d \in IdentNames : d = ""
  BY DEF IdentNames
<1>5. Free = [nick |-> n, host |-> h, server |-> s, chans |-> {}, id |-> z, lost |-> z,
              ident |-> d, auth |-> FALSE, quit |-> FALSE]
  BY <1>1, <1>2, <1>3, <1>4, <1>a DEF Free
<1>6. Free \in EntryType /\ Free.id = 0
  BY <1>4, <1>5 DEF EntryType
<1> QED BY <1>6 DEF Trusted

LEMMA SeenSame ==
  ASSUME NEW e \in EntryType
  PROVE  Same(e, Seen(e))
<1>1. PICK l \in Ages : l = 1
  BY AgesAre
<1>2. PICK x : x = [e EXCEPT !.lost = l]
  OBVIOUS
<1>3. Same(e, x) /\ Same(e, e)
  BY <1>2, WithLost, SameSelf
<1>4. Seen(e) = x \/ Seen(e) = e
  BY <1>1, <1>2, Zenon DEF Seen
<1> QED BY <1>3, <1>4

LEMMA CheckedSame ==
  ASSUME NEW e \in EntryType
  PROVE  Same(e, Checked(e))
<1>1. PICK l \in Ages : l = 1
  BY AgesAre
<1>2. PICK x : x = [e EXCEPT !.lost = l]
  OBVIOUS
<1>3. Same(e, x) /\ Same(e, e)
  BY <1>2, WithLost, SameSelf
<1>4. Checked(e) = x \/ Checked(e) = e
  BY <1>1, <1>2, Zenon DEF Checked
<1> QED BY <1>3, <1>4

LEMMA WithoutSame ==
  ASSUME NEW e \in EntryType, NEW c
  PROVE  Same(e, Without(e, c))
<1>1. PICK d \in SUBSET Chans : d = e.chans \ {c}
  BY DEF EntryType
<1> QED BY <1>1, WithChans DEF Without

LEMMA JoinedSame ==
  ASSUME NEW e \in EntryType, NEW c \in Chans
  PROVE  Same(e, Joined(e, c))
<1>1. PICK d \in SUBSET Chans : d = e.chans \cup {c}
  BY DEF EntryType
<1>2. PICK l \in Ages : l = 0
  BY AgesAre
<1>3. PICK x : x = [e EXCEPT !.chans = d]
  OBVIOUS
<1>4. PICK y : y = [x EXCEPT !.lost = l]
  OBVIOUS
<1>5. PICK z : z = [y EXCEPT !.quit = FALSE]
  OBVIOUS
<1>6. Same(e, x) /\ x \in EntryType
  BY <1>3, WithChans DEF Same
<1>7. Same(e, y) /\ y \in EntryType
  BY <1>4, <1>6, WithLost, SameSame DEF Same
<1>8. Same(e, z)
  BY <1>5, <1>7, WithQuit, SameSame
<1>9. Joined(e, c) = z \/ Joined(e, c) = e
  <2>1. z = [e EXCEPT !.chans = d, !.lost = l, !.quit = FALSE]
    BY <1>3, <1>4, <1>5
  <2> QED BY <1>1, <1>2, <2>1 DEF Joined
<1> QED BY <1>8, <1>9, SameSelf

\* Changes of the table.
LEMMA OneChanged ==
  ASSUME NEW f, NEW t, TableOK(f, t), NEW j \in Entries, NEW e \in EntryType, Trusted(f, e),
         HasIdent(e), NEW t2, t2 = [t EXCEPT ![j] = e]
  PROVE  TableOK(f, t2)
BY DEF TableOK, Identified

LEMMA EachChanged ==
  ASSUME NEW f, NEW t, TableOK(f, t), NEW t2, t2 = [i \in Entries |-> t2[i]],
         \A i \in Entries : t2[i] = Free \/ t2[i] = t[i] \/ (t[i] # Free /\ Same(t[i], t2[i]))
  PROVE  TableOK(f, t2)
<1>1. \A i \in Entries : t2[i] \in EntryType /\ Trusted(f, t2[i])
  BY FreeTrusted, SameTrust DEF TableOK
<1>2. Identified(t2)
  BY DEF TableOK, Identified, Same
<1> QED BY <1>1, <1>2 DEF TableOK

(***************************************************************************)
(* Who is looked up                                                        *)
(***************************************************************************)
LEMMA LookupBacked ==
  ASSUME FilesOK, NEW h
  PROVE  Lookup(h) \in Nat /\ (Lookup(h) # 0 => BackedBy(file["users"], Lookup(h), h, FALSE))
<1>0. PICK f \in Seq(Line) : f = file["users"] /\ UsersOK(f)
  BY FileIsLines, UsersFile DEF FilesOK
<1>1. CASE Lookup(h) = 0
  BY <1>1
<1>2. CASE Lookup(h) # 0
  <2>1. Matching(h) # {} /\ NoPassword(FindByMask(h)) /\ Lookup(h) = FindByMask(h)
    BY <1>2 DEF Lookup
  <2>2. PICK u : u = Lookup(h)
    OBVIOUS
  <2>3. Matching(h) \subseteq Rows(f, "masks") /\ Matching(h) \in SUBSET Nat
    BY <1>0, RowsAreLines DEF Matching, MaskRows
  <2>4. PICK m \in Matching(h) : m = Min(Matching(h))
    BY <2>1, <2>3, FirstOf
  <2>5. u = f[m].val[1]
    BY <1>0, <1>2, <2>1, <2>2, <2>4 DEF FindByMask, Val
  <2>6. m \in Rows(f, "masks") /\ Len(f[m].val) = 2 /\ h \in Match[f[m].val[2]]
    BY <1>0 DEF Matching, MaskRows, Val
  <2>7. PICK j \in Rows(f, "users") : f[j].id = u /\ Len(f[j].val) = 2
    BY <1>0, <2>5, <2>6 DEF UsersOK, Owned, IsUser
  <2>8. f[j].val[2] = 1 /\ u \in Nat
    <3>1. j \in RowsWith(f, "users", u)
      BY <2>7 DEF RowsWith
    <3>2. RowsWith(f, "users", u) \in SUBSET Nat
      BY RowsAreLines DEF RowsWith
    <3>3. PICK k \in RowsWith(f, "users", u) : k = Min(RowsWith(f, "users", u))
      BY <3>1, <3>2, FirstOf
    <3>4. k = j
      BY <1>0, <2>7 DEF RowsWith, UsersOK, UniqueIds
    <3>5. Len(f[k].val) = 1 \/ f[k].val[2] = 1
      BY <1>0, <2>1, <2>2, <3>3 DEF NoPassword, Val
    <3>6. u \in Nat
      BY <2>7, RowsAreLines, LineType
    <3> QED BY <2>7, <3>4, <3>5, <3>6
  <2>9. BackedBy(f, u, h, FALSE)
    BY <2>5, <2>6, <2>7, <2>8, Zenon DEF BackedBy
  <2> QED BY <1>0, <2>2, <2>8, <2>9
<1> QED BY <1>1, <1>2

\* What the entries say is what the properties ask of them.
LEMMA BackedIs ==
  ASSUME FilesOK, NEW u, NEW h, NEW auth, BackedBy(file["users"], u, h, auth)
  PROVE  /\ HasUser(u)
         /\ \/ auth
            \/ NoPassword(u) /\ \E m \in MasksOf(u) : m \in Matching(h)
<1>0. PICK f \in Seq(Line) : f = file["users"] /\ UsersOK(f)
  BY FileIsLines, UsersFile DEF FilesOK
<1>1. PICK j \in Rows(f, "users") :
        /\ f[j].id = u /\ Len(f[j].val) = 2
        /\ \/ auth
           \/ /\ f[j].val[2] = 1
              /\ \E m \in Rows(f, "masks") :
                   Len(f[m].val) = 2 /\ f[m].val[1] = u /\ h \in Match[f[m].val[2]]
  BY <1>0, Zenon DEF BackedBy
<1>2. HasUser(u)
  BY <1>0, <1>1, UserFound DEF IsUser
<1>3. ASSUME f[j].val[2] = 1, NEW m \in Rows(f, "masks"), Len(f[m].val) = 2, f[m].val[1] = u,
             h \in Match[f[m].val[2]]
      PROVE  NoPassword(u) /\ \E n \in MasksOf(u) : n \in Matching(h)
  <2>1. j \in RowsWith(f, "users", u)
    BY <1>1 DEF RowsWith
  <2>2. RowsWith(f, "users", u) \in SUBSET Nat
    BY RowsAreLines DEF RowsWith
  <2>3. PICK k \in RowsWith(f, "users", u) : k = Min(RowsWith(f, "users", u))
    BY <2>1, <2>2, FirstOf
  <2>4. k = j
    BY <1>0, <1>1 DEF RowsWith, UsersOK, UniqueIds
  <2>5. NoPassword(u)
    BY <1>0, <1>3, <2>1, <2>3, <2>4 DEF NoPassword, Val
  <2>6. m \in MasksOf(u) /\ m \in Matching(h)
    BY <1>0, <1>3 DEF MasksOf, Matching, MaskRows, Val
  <2> QED BY <2>5, <2>6
<1> QED BY <1>1, <1>2, <1>3

LEMMA LeaksCount ==
  ASSUME CountsOK, NEW h
  PROVE  Leaks(h) \in 0 .. MaxFds
<1>1. MaxFds \in Nat /\ leaked \in 0 .. MaxFds
  BY DbAssumption DEF CountsOK
<1>2. Leaks(h) = leaked \/ (leaked < MaxFds /\ Leaks(h) = leaked + 1)
  BY DEF Leaks, Readable
<1> QED BY <1>1, <1>2

(***************************************************************************)
(* The invariant of the identities                                         *)
(***************************************************************************)
TablesOK ==
  /\ user \in [Entries -> EntryType]
  /\ Identified(user)
  /\ ChannelsOK(channel)
  /\ todo \subseteq {i \in Entries : user[i] # Free}
  /\ PersonsOK(person)
  /\ events \in 0 .. MaxEvents

\* Whoever is taken for a user is that user, unless the entry is still to be looked up
\* or a call is in progress that takes something from the user.
Identities ==
  dbpc # "dead" =>
    \A i \in Entries \ todo :
      Trusted(file["users"], user[i]) \/ (dbpc \in Busy /\ user[i].id = call.uid)

IdInv == DbInv /\ TablesOK /\ Identities /\ CallNamed

\* When nothing is in progress everybody is.
LEMMA AllTrusted ==
  ASSUME IdInv, dbpc = "idle", todo = {}
  PROVE  TableOK(file["users"], user)
BY NotBusy DEF IdInv, Identities, TablesOK, TableOK

LEMMA QuietDb ==
  ASSUME DbInv, dbpc = "idle", UNCHANGED <<file, dbpc, call, dbops, crashes>>, leaked' \in 0 .. MaxFds
  PROVE  DbInv'
<1>1. FilesOK' /\ CountsOK' /\ CallOK'
  BY DEF DbInv, FilesOK, CountsOK, CallOK
<1>2. Stages'
  BY DEF Stages
<1>3. DelClears'
  BY DEF DbInv, DelClears, BansOf, NotesOf, MasksOf, MaskRows, Val
<1> QED BY <1>1, <1>2, <1>3 DEF DbInv

LEMMA QuietStep ==
  ASSUME IdInv, dbpc = "idle", UNCHANGED <<file, dbpc, call, dbops, crashes>>,
         leaked' \in 0 .. MaxFds, todo' = {}, TableOK(file["users"], user'),
         ChannelsOK(channel'), PersonsOK(person'), events' \in 0 .. MaxEvents
  PROVE  IdInv'
<1>1. DbInv'
  BY QuietDb DEF IdInv
<1>2. TablesOK'
  BY DEF TablesOK, TableOK, ChannelsOK, PersonsOK
<1>3. Identities' /\ CallNamed'
  BY NotBusy DEF Identities, CallNamed, TableOK
<1> QED BY <1>1, <1>2, <1>3 DEF IdInv

LEMMA EventStep ==
  ASSUME IdInv, Event, leaked' \in 0 .. MaxFds, TableOK(file["users"], user'),
         ChannelsOK(channel'), PersonsOK(person')
  PROVE  IdInv'
<1>1. events' \in 0 .. MaxEvents
  <2>1. events \in 0 .. MaxEvents
    BY DEF IdInv, TablesOK
  <2>2. MaxEvents \in Nat
    BY CacheAssumption, Zenon
  <2>3. events' = events + 1 /\ events < MaxEvents
    BY DEF Event
  <2> QED BY <2>1, <2>2, <2>3
<1>2. dbpc = "idle" /\ todo' = {} /\ UNCHANGED <<file, dbpc, call, dbops, crashes>>
  BY DEF Event, Serving
<1> QED BY <1>1, <1>2, QuietStep

\* What is so before an event.
LEMMA BeforeEvent ==
  ASSUME IdInv, Event
  PROVE  /\ TableOK(file["users"], user) /\ FilesOK /\ CountsOK /\ leaked \in 0 .. MaxFds
         /\ ChannelsOK(channel) /\ PersonsOK(person)
BY AllTrusted DEF IdInv, DbInv, TablesOK, CountsOK, Event, Serving

LEMMA PersonOf ==
  ASSUME NEW p, PersonsOK(p), NEW s \in Servers, NEW n \in Nicks
  PROVE  p[s][n] \in PersonType /\ p[s][n].host \in HostNames /\ p[s][n].chans \in SUBSET Chans
BY DEF PersonsOK, PersonType

LEMMA PersonChanged ==
  ASSUME NEW p, PersonsOK(p), NEW s \in Servers, NEW r, r \in [Nicks -> PersonType],
         NEW p2, p2 = [p EXCEPT ![s] = r]
  PROVE  PersonsOK(p2)
BY DEF PersonsOK

(***************************************************************************)
(* What is reported                                                        *)
(***************************************************************************)
LEMMA FoundEntry ==
  ASSUME NEW s, NEW n, Find(s, n) # {}
  PROVE  Min(Find(s, n)) \in Entries
BY LeastEntry DEF Find

LEMMA FoundNamed ==
  ASSUME Identified(user), NEW n \in Nicks, NEW j \in Entries, user[j].nick = n
  PROVE  HasIdent(user[j])
<1>1. Free.nick = "" /\ n # ""
  BY FreeFields, CacheAssumption
<1> QED BY <1>1 DEF Identified

LEMMA FoundNick ==
  ASSUME Identified(user), NEW s, NEW n \in Nicks, Find(s, n) # {}
  PROVE  Min(Find(s, n)) \in Entries /\ HasIdent(user[Min(Find(s, n))])
<1>1. Min(Find(s, n)) \in Find(s, n) /\ Min(Find(s, n)) \in Entries
  BY LeastEntry DEF Find
<1>2. user[Min(Find(s, n))].nick = n
  BY <1>1 DEF Find
<1> QED BY <1>1, <1>2, FoundNamed

\* An entry that is not free has an ident to look up.
LEMMA IdentOf ==
  ASSUME NEW n \in Nicks, NEW h \in Hosts
  PROVE  Ident[n][h] \in Idents
<1>1. Ident \in [Nicks -> [Hosts -> Idents]]
  BY CacheAssumption
<1> QED BY <1>1

LEMMA AddedTrusted ==
  ASSUME FilesOK, TableOK(file["users"], user), NEW s \in Servers, NEW n \in Nicks, NEW h \in Hosts
  PROVE  /\ Added(s, n, h) \in EntryType /\ Trusted(file["users"], Added(s, n, h))
         /\ HasIdent(Added(s, n, h))
<1>1. CASE Find(s, n) # {}
  <2>1. PICK j \in Entries : j = Min(Find(s, n)) /\ HasIdent(user[j])
    BY <1>1, FoundNick DEF TableOK
  <2> QED BY <1>1, <2>1 DEF Added, TableOK
<1>2. CASE Find(s, n) = {}
  <2>0. PICK d \in Idents : d = Ident[n][h]
    BY IdentOf
  <2>1. PICK u \in Nat : u = Lookup(d) /\ (u # 0 => BackedBy(file["users"], u, d, FALSE))
    BY LookupBacked
  <2>2. PICK l \in Ages : l = 1
    BY AgesAre
  <2>3. PICK e : e = [Free EXCEPT !.nick = n, !.host = h, !.server = s, !.id = u, !.ident = d,
                                 !.lost = l]
    OBVIOUS
  <2>4. Added(s, n, h) = e
    BY <1>2, <2>0, <2>1, <2>2, <2>3 DEF Added
  <2>5. n \in NickNames /\ h \in HostNames /\ s \in Networks /\ d \in IdentNames
    BY DEF NickNames, HostNames, Networks, IdentNames
  <2>6. e \in EntryType /\ e.id = u /\ e.ident = d /\ e.auth = Free.auth
    BY <2>3, <2>5, FreeTrusted DEF EntryType
  <2>7. Free.auth = FALSE
    BY DEF Free
  <2>8. Trusted(file["users"], e)
    BY <2>1, <2>6, <2>7 DEF Trusted
  <2>9. HasIdent(e)
    BY <2>3, FreeTrusted DEF EntryType, HasIdent
  <2> QED BY <2>4, <2>6, <2>8, <2>9
<1> QED BY <1>1, <1>2

LEMMA Add1Trusted ==
  ASSUME CountsOK, TableOK(file["users"], user), NEW s, NEW n, NEW h, NEW e \in EntryType,
         Trusted(file["users"], e), HasIdent(e), Add1(s, n, h, e)
  PROVE  TableOK(file["users"], user') /\ leaked' \in 0 .. MaxFds
<1>1. CASE Find(s, n) # {}
  <2>1. PICK j \in Entries : j = Min(Find(s, n))
    BY <1>1, FoundEntry
  <2>2. user' = [user EXCEPT ![j] = e] /\ leaked' = leaked
    BY <1>1, <2>1 DEF Add1
  <2> QED BY <2>1, <2>2, OneChanged DEF CountsOK
<1>2. CASE Find(s, n) = {}
  <2>1. PICK free : free = {i \in Entries : ~Live(i)}
    OBVIOUS
  <2>2. free # {} /\ user' = [user EXCEPT ![Min(free)] = e] /\ leaked' = Leaks(Ident[n][h])
    BY <1>2, <2>1 DEF Add1
  <2>3. PICK j \in Entries : j = Min(free)
    BY <2>1, <2>2, LeastEntry
  <2> QED BY <2>2, <2>3, OneChanged, LeaksCount
<1> QED BY <1>1, <1>2

LEMMA ArriveId ==
  ASSUME IdInv, NEW s \in Servers, NEW n \in Nicks, NEW h \in Hosts, Arrive(s, n, h)
  PROVE  IdInv'
<1>1. Event /\ UNCHANGED <<user, channel, leaked>> /\ person' = [person EXCEPT ![s][n].host = h]
  BY DEF Arrive, NotReported
<1>2. PersonsOK(person) /\ person[s][n] \in PersonType /\ h \in HostNames
  BY <1>1, BeforeEvent, PersonOf DEF HostNames
<1>3. PICK q : q = [person[s][n] EXCEPT !.host = h]
  OBVIOUS
<1>4. q \in PersonType
  BY <1>2, <1>3 DEF PersonType
<1>5. PersonsOK(person')
  BY <1>1, <1>2, <1>3, <1>4 DEF PersonsOK
<1> QED BY <1>1, <1>5, BeforeEvent, EventStep

LEMMA JoinId ==
  ASSUME IdInv, NEW s \in Servers, NEW n \in Nicks, NEW c \in Chans, NEW who \in BOOLEAN, Join(s, n, c, who)
  PROVE  IdInv'
<1>1. /\ Event /\ person' = [person EXCEPT ![s][n].chans = @ \cup {c}]
      /\ channel' = IF Tracked(c) THEN channel \cup {c} ELSE channel
  BY DEF Join
<1>2. /\ PersonsOK(person) /\ person[s][n] \in PersonType /\ person[s][n].chans \in SUBSET Chans
      /\ person[s][n].host \in HostNames
  BY <1>1, BeforeEvent, PersonOf
<1>3. PersonsOK(person')
  <2>1. PICK q : q = [person[s][n] EXCEPT !.chans = @ \cup {c}]
    OBVIOUS
  <2>2. q \in PersonType
    BY <1>2, <2>1 DEF PersonType
  <2> QED BY <1>1, <1>2, <2>1, <2>2 DEF PersonsOK
<1>4. ChannelsOK(channel')
  <2>1. ChannelsOK(channel)
    BY <1>1, BeforeEvent
  <2>2. CASE c \in channel \/ ~Tracked(c)
    <3>1. channel' = channel
      BY <1>1, <2>2
    <3> QED BY <2>1, <3>1
  <2>3. CASE c \notin channel /\ Tracked(c)
    <3>1. channel' = channel \cup {c} /\ Cardinality(channel) < MaxChans
      BY <1>1, <2>3 DEF Tracked
    <3>2. IsFiniteSet(channel') /\ Cardinality(channel') = Cardinality(channel) + 1
      BY <2>1, <2>3, <3>1, FS_AddElement DEF ChannelsOK
    <3>3. Cardinality(channel) \in Nat
      BY <2>1, FS_CardinalityType DEF ChannelsOK
    <3>4. MaxChans \in Nat
      BY CacheAssumption, Zenon
    <3>5. Cardinality(channel') <= MaxChans
      BY <3>1, <3>2, <3>3, <3>4
    <3>6. channel' \in SUBSET Chans
      BY <2>1, <3>1 DEF ChannelsOK
    <3> QED BY <3>2, <3>5, <3>6 DEF ChannelsOK
  <2> QED BY <2>2, <2>3
<1>5. PICK h \in Hosts : h = person[s][n].host
  BY <1>2 DEF Join, Online, HostNames
<1>6. PICK e : e = Joined(Added(s, n, h), c)
  OBVIOUS
<1>7. Add1(s, n, h, IF who THEN e ELSE Seen(e))
  BY <1>5, <1>6 DEF Join
<1>8. e \in EntryType /\ Trusted(file["users"], e) /\ HasIdent(e)
  BY <1>1, <1>6, AddedTrusted, BeforeEvent, JoinedSame, SameTrust
<1>9. Seen(e) \in EntryType /\ Trusted(file["users"], Seen(e)) /\ HasIdent(Seen(e))
  BY <1>8, SeenSame, SameTrust
<1>10. PICK x : x = IF who THEN e ELSE Seen(e)
  OBVIOUS
<1>11. x \in EntryType /\ Trusted(file["users"], x) /\ HasIdent(x)
  BY <1>8, <1>9, <1>10
<1>12. TableOK(file["users"], user') /\ leaked' \in 0 .. MaxFds
  BY <1>1, <1>7, <1>10, <1>11, Add1Trusted, BeforeEvent
<1> QED BY <1>1, <1>3, <1>4, <1>12, EventStep

LEMMA MsgId ==
  ASSUME IdInv, NEW s \in Servers, NEW n \in Nicks, Msg(s, n)
  PROVE  IdInv'
<1>1. Event /\ UNCHANGED <<person, channel>>
  BY DEF Msg
<1>2. PICK h \in Hosts : h = person[s][n].host
  <2>1. person[s][n].host \in HostNames
    BY <1>1, BeforeEvent, PersonOf
  <2> QED BY <2>1 DEF Msg, Online, HostNames
<1>3. PICK e : e = Seen(Added(s, n, h))
  OBVIOUS
<1>4. Add1(s, n, h, e)
  BY <1>2, <1>3 DEF Msg
<1>5. e \in EntryType /\ Trusted(file["users"], e) /\ HasIdent(e)
  BY <1>1, <1>3, AddedTrusted, BeforeEvent, SeenSame, SameTrust
<1>6. TableOK(file["users"], user') /\ leaked' \in 0 .. MaxFds
  BY <1>1, <1>4, <1>5, Add1Trusted, BeforeEvent
<1> QED BY <1>1, <1>6, BeforeEvent, EventStep

LEMMA LeftOK ==
  ASSUME PersonsOK(person), NEW s \in Servers, NEW n \in Nicks, NEW c
  PROVE  PersonsOK(Left(s, n, c))
<1>1. PICK p \in [Nicks -> PersonType] : p = person[s]
  BY DEF PersonsOK
<1>2. \A m \in Nicks : Without(p[m], c) \in PersonType
  BY DEF PersonType, Without
<1>3. PICK r : r = [m \in Nicks |-> IF m = n \/ n = Bot THEN Without(p[m], c) ELSE p[m]]
  OBVIOUS
<1>4. r \in [Nicks -> PersonType]
  BY <1>2, <1>3
<1>5. Left(s, n, c) = [person EXCEPT ![s] = r]
  BY <1>1, <1>3 DEF Left, PersonsOK
<1> QED BY <1>4, <1>5, PersonChanged

LEMMA PartId ==
  ASSUME IdInv, NEW s \in Servers, NEW n \in Nicks, NEW c \in Chans, Part(s, n, c)
  PROVE  IdInv'
<1>1. Event /\ UNCHANGED <<channel, leaked>> /\ person' = Left(s, n, c)
  BY DEF Part
<1>2. PersonsOK(person')
  BY <1>1, BeforeEvent, LeftOK
<1>3. TableOK(file["users"], user')
  <2>0. TableOK(file["users"], user)
    BY <1>1, BeforeEvent
  <2>1. CASE Find(s, n) = {}
    BY <2>0, <2>1 DEF Part
  <2>2. CASE Find(s, n) # {}
    <3>1. PICK j \in Entries : j = Min(Find(s, n)) /\ HasIdent(user[j])
      BY <2>0, <2>2, FoundNick DEF TableOK
    <3>2. PICK e \in EntryType : e = user[j] /\ Trusted(file["users"], e) /\ HasIdent(e)
      BY <2>0, <3>1 DEF TableOK
    <3>3. PICK x : x = IF c \in channel THEN Checked(Without(e, c)) ELSE e
      OBVIOUS
    <3>4. x \in EntryType /\ Trusted(file["users"], x) /\ HasIdent(x)
      BY <3>2, <3>3, WithoutSame, CheckedSame, SameTrust
    <3>5. Seen(x) \in EntryType /\ Trusted(file["users"], Seen(x)) /\ HasIdent(Seen(x))
      BY <3>4, SeenSame, SameTrust
    <3>6. user' = [user EXCEPT ![j] = Seen(x)]
      BY <2>2, <3>1, <3>2, <3>3 DEF Part
    <3> QED BY <2>0, <3>5, <3>6, OneChanged
  <2> QED BY <2>1, <2>2
<1> QED BY <1>1, <1>2, <1>3, BeforeEvent, EventStep

LEMMA KickId ==
  ASSUME IdInv, NEW s \in Servers, NEW n \in Nicks, NEW c \in Chans, Kick(s, n, c)
  PROVE  IdInv'
<1>1. Event /\ UNCHANGED <<user, channel, leaked>> /\ person' = Left(s, n, c)
  BY DEF Kick, NotReported
<1>2. PersonsOK(person')
  BY <1>1, BeforeEvent, LeftOK
<1> QED BY <1>1, <1>2, BeforeEvent, EventStep

LEMMA NobodyIs == Nobody \in PersonType
<1>1. PICK h \in HostNames : h = ""
  BY DEF HostNames
<1> QED BY <1>1 DEF Nobody, PersonType

LEMMA NickId ==
  ASSUME IdInv, NEW s \in Servers, NEW new \in Nicks, NEW old \in Nicks, Nick(s, new, old)
  PROVE  IdInv'
<1>1. /\ Event /\ UNCHANGED <<channel, leaked>>
      /\ person' = [person EXCEPT ![s][new] = person[s][old], ![s][old] = Nobody]
  BY DEF Nick
<1>2. PersonsOK(person')
  <2>1. PersonsOK(person) /\ person[s][old] \in PersonType
    BY <1>1, BeforeEvent, PersonOf
  <2> QED BY <1>1, <2>1, NobodyIs DEF PersonsOK
<1>3. TableOK(file["users"], user')
  <2>0. TableOK(file["users"], user)
    BY <1>1, BeforeEvent
  <2>1. CASE user' = user
    BY <2>0, <2>1
  <2>2. CASE user' # user
    <3>1. PICK found : found = {i \in Entries : user[i].nick = old}
      OBVIOUS
    <3>2. found # {} /\ user' = [user EXCEPT ![Min(found)].nick = new]
      BY <2>2, <3>1 DEF Nick
    <3>3. PICK j \in Entries : j = Min(found) /\ j \in found
      BY <3>1, <3>2, LeastEntry
    <3>4. PICK e \in EntryType : e = user[j] /\ Trusted(file["users"], e) /\ HasIdent(e)
      BY <2>0, <3>1, <3>3, FoundNamed DEF TableOK
    <3>5. PICK x : x = [e EXCEPT !.nick = new]
      OBVIOUS
    <3>7. x \in EntryType /\ Trusted(file["users"], x) /\ HasIdent(x)
      BY <3>4, <3>5, WithNick, SameTrust
    <3>8. user' = [user EXCEPT ![j] = x]
      BY <3>2, <3>3, <3>4, <3>5
    <3> QED BY <2>0, <3>7, <3>8, OneChanged
  <2> QED BY <2>1, <2>2
<1> QED BY <1>1, <1>2, <1>3, BeforeEvent, EventStep

LEMMA QuitId ==
  ASSUME IdInv, NEW s \in Servers, NEW n \in Nicks, Quit(s, n)
  PROVE  IdInv'
<1>1. /\ Event /\ UNCHANGED <<channel, leaked>>
      /\ person' = [person EXCEPT ![s][n] = Nobody]
  BY DEF Quit
<1>2. PersonsOK(person')
  BY <1>1, BeforeEvent, NobodyIs DEF PersonsOK
<1>3. TableOK(file["users"], user')
  <2>0. TableOK(file["users"], user)
    BY <1>1, BeforeEvent
  <2>1. CASE user' = user
    BY <2>0, <2>1
  <2>2. CASE user' # user
    <3>1. /\ Find(s, n) # {}
          /\ user' = [user EXCEPT ![Min(Find(s, n))].lost = Old, ![Min(Find(s, n))].quit = TRUE]
      BY <2>2 DEF Quit
    <3>2. PICK j \in Entries : j = Min(Find(s, n)) /\ HasIdent(user[j])
      BY <2>0, <3>1, FoundNick DEF TableOK
    <3>3. PICK e \in EntryType : e = user[j] /\ Trusted(file["users"], e) /\ HasIdent(e)
      BY <2>0, <3>2 DEF TableOK
    <3>4. PICK x : x = [e EXCEPT !.lost = Old]
      OBVIOUS
    <3>5. PICK y : y = [x EXCEPT !.quit = TRUE]
      OBVIOUS
    <3>6. x \in EntryType /\ Trusted(file["users"], x) /\ HasIdent(x)
      BY <3>3, <3>4, AgesAre, WithLost, SameTrust
    <3>7. y \in EntryType /\ Trusted(file["users"], y) /\ HasIdent(y)
      BY <3>5, <3>6, WithQuit, SameTrust
    <3>8. user' = [user EXCEPT ![j] = y]
      BY <2>0, <3>1, <3>2, <3>3, <3>4, <3>5 DEF TableOK
    <3> QED BY <2>0, <3>7, <3>8, OneChanged
  <2> QED BY <2>1, <2>2
<1> QED BY <1>1, <1>2, <1>3, BeforeEvent, EventStep

LEMMA ConnectId ==
  ASSUME IdInv, NEW s \in Servers, Connect(s)
  PROVE  IdInv'
<1>1. /\ Event /\ UNCHANGED <<channel, leaked>>
      /\ user' = [i \in Entries |-> IF user[i].server = s THEN Free ELSE user[i]]
      /\ person' = [person EXCEPT ![s] = [n \in Nicks |-> [@[n] EXCEPT !.chans = {}]]]
  BY DEF Connect
<1>2. PersonsOK(person')
  <2>0. PersonsOK(person)
    BY <1>1, BeforeEvent
  <2>1. PICK p \in [Nicks -> PersonType] : p = person[s]
    BY <2>0 DEF PersonsOK
  <2>2. PICK r : r = [n \in Nicks |-> [p[n] EXCEPT !.chans = {}]]
    OBVIOUS
  <2>3. r \in [Nicks -> PersonType]
    BY <2>2 DEF PersonType
  <2>4. person' = [person EXCEPT ![s] = r]
    BY <1>1, <2>0, <2>1, <2>2 DEF PersonsOK
  <2> QED BY <2>0, <2>3, <2>4, PersonChanged
<1>3. TableOK(file["users"], user')
  <2>0. TableOK(file["users"], user)
    BY <1>1, BeforeEvent
  <2>1. \A i \in Entries : user'[i] = Free \/ user'[i] = user[i]
    BY <1>1
  <2>2. user' = [i \in Entries |-> user'[i]]
    BY <1>1
  <2> QED BY <2>0, <2>1, <2>2, EachChanged
<1> QED BY <1>1, <1>2, <1>3, BeforeEvent, EventStep

LEMMA ZeroIsLess == \A k : 0 \notin 1 .. k
OBVIOUS

LEMMA TickUpdateId ==
  ASSUME IdInv, Tick \/ Update
  PROVE  IdInv'
<1>1. /\ dbpc = "idle" /\ todo = {} /\ todo' = {}
      /\ UNCHANGED <<file, dbpc, call, dbops, crashes, leaked, channel, person, events>>
  BY DEF Tick, Update, Serving, dbvars
<1>2. TableOK(file["users"], user)
  BY <1>1, AllTrusted
<1>3. /\ user' = [i \in Entries |-> user'[i]]
      /\ \A i \in Entries :
           user'[i] = Free \/ user'[i] = user[i] \/ (user[i] # Free /\ Same(user[i], user'[i]))
  <2>1. CASE Tick
    <3>1. user' = [i \in Entries |->
            IF user[i].lost \in 1 .. Old - 1 THEN [user[i] EXCEPT !.lost = @ + 1] ELSE user[i]]
      BY <2>1 DEF Tick
    <3>2. ASSUME NEW i \in Entries
          PROVE  user'[i] = user[i] \/ (user[i] # Free /\ Same(user[i], user'[i]))
      <4>1. PICK e \in EntryType : e = user[i]
        BY <1>2 DEF TableOK
      <4>2. CASE e.lost \in 1 .. Old - 1
        <5>1. PICK l \in Ages : l = e.lost + 1
          BY <4>2, AgesAre
        <5>2. PICK x : x = [e EXCEPT !.lost = l]
          OBVIOUS
        <5>3. user'[i] = x
          BY <3>1, <4>1, <4>2, <5>1, <5>2
        <5>4. e # Free
          BY <4>2, ZeroIsLess, FreeFields
        <5> QED BY <4>1, <5>2, <5>3, <5>4, WithLost
      <4>3. CASE e.lost \notin 1 .. Old - 1
        BY <3>1, <4>1, <4>3
      <4> QED BY <4>2, <4>3
    <3> QED BY <3>1, <3>2
  <2>2. CASE Update
    <3>1. user' = [i \in Entries |-> IF user[i].lost > Delay + 1 THEN Free ELSE user[i]]
      BY <2>2 DEF Update
    <3>2. \A i \in Entries : user'[i] = Free \/ user'[i] = user[i]
      BY <3>1
    <3> QED BY <3>1, <3>2
  <2> QED BY <2>1, <2>2
<1>4. TableOK(file["users"], user')
  BY <1>2, <1>3, EachChanged
<1>5. leaked \in 0 .. MaxFds /\ ChannelsOK(channel) /\ PersonsOK(person) /\ events \in 0 .. MaxEvents
  BY DEF IdInv, DbInv, CountsOK, TablesOK
<1> QED BY <1>1, <1>4, <1>5, QuietStep

(***************************************************************************)
(* Who is looked up again                                                  *)
(***************************************************************************)
LEMMA SetauthId ==
  ASSUME IdInv, NEW s \in Servers, NEW n \in Nicks, NEW u \in Uids, Setauth(s, n, u)
  PROVE  IdInv'
<1>1. /\ Event /\ UNCHANGED <<person, channel, leaked>> /\ Find(s, n) # {}
      /\ user' = [user EXCEPT ![Min(Find(s, n))].id = u, ![Min(Find(s, n))].auth = TRUE]
  BY DEF Setauth
<1>2. TableOK(file["users"], user) /\ FilesOK
  BY <1>1, BeforeEvent
<1>3. PICK j \in Entries : j = Min(Find(s, n)) /\ HasIdent(user[j])
  BY <1>1, <1>2, FoundNick DEF TableOK
<1>4. PICK e \in EntryType : e = user[j] /\ HasIdent(e)
  BY <1>2, <1>3 DEF TableOK
<1>a. PICK a \in BOOLEAN : a = TRUE
  OBVIOUS
<1>b. PICK y : y = [e EXCEPT !.id = u]
  OBVIOUS
<1>5. PICK x : x = [y EXCEPT !.auth = a]
  OBVIOUS
<1>6. user' = [user EXCEPT ![j] = x]
  BY <1>1, <1>2, <1>3, <1>4, <1>a, <1>b, <1>5 DEF TableOK
<1>7. u \in Nat /\ IsUser(file["users"], u)
  BY <1>2, KnownUser
<1>c. y \in EntryType /\ y.id = u /\ HasIdent(y)
  BY <1>4, <1>b, <1>7, WithId
<1>8. x \in EntryType /\ x.id = u /\ x.auth = a /\ HasIdent(x)
  BY <1>5, <1>c, WithAuth
<1>9. Trusted(file["users"], x)
  BY <1>7, <1>a, <1>8, Zenon DEF Trusted, BackedBy, IsUser
<1>10. TableOK(file["users"], user')
  BY <1>2, <1>6, <1>8, <1>9, OneChanged
<1> QED BY <1>1, <1>10, BeforeEvent, EventStep

LEMMA LookupId ==
  ASSUME IdInv, LookupStep
  PROVE  IdInv'
<1>1. /\ dbpc = "idle" /\ dbpc' = "idle" /\ todo # {}
      /\ UNCHANGED <<file, dbpc, call, dbops, crashes, channel, person, events>>
  BY DEF LookupStep
<1>2. /\ FilesOK /\ CountsOK /\ user \in [Entries -> EntryType] /\ Identified(user)
      /\ todo \subseteq {i \in Entries : user[i] # Free}
  BY DEF IdInv, DbInv, TablesOK
<1>3. PICK j \in Entries : j = Min(todo) /\ j \in todo
  BY <1>1, <1>2, LeastEntry
<1>4. PICK e \in EntryType : e = user[j] /\ HasIdent(e)
  BY <1>2, <1>3 DEF Identified
<1>5. PICK d \in Idents : d = Ident[e.nick][e.host]
  BY <1>4, IdentOf DEF HasIdent
<1>d. PICK u \in Nat : u = Lookup(d) /\ (u # 0 => BackedBy(file["users"], u, d, FALSE))
  BY <1>2, LookupBacked
<1>a. PICK a \in BOOLEAN : a = FALSE
  OBVIOUS
<1>b. PICK y : y = [e EXCEPT !.id = u]
  OBVIOUS
<1>e. PICK z : z = [y EXCEPT !.ident = d]
  OBVIOUS
<1>6. PICK x : x = [z EXCEPT !.auth = a]
  OBVIOUS
<1>7. user' = [user EXCEPT ![j] = x] /\ todo' = todo \ {j} /\ leaked' = Leaks(d)
  BY <1>2, <1>3, <1>4, <1>5, <1>d, <1>a, <1>b, <1>e, <1>6 DEF LookupStep
<1>c. y \in EntryType /\ y.id = u /\ HasIdent(y)
  BY <1>4, <1>b, WithId
<1>f. z \in EntryType /\ z.id = u /\ z.ident = d /\ HasIdent(z)
  BY <1>c, <1>e, WithIdent
<1>8. x \in EntryType /\ x.id = u /\ x.ident = d /\ x.auth = a /\ HasIdent(x)
  BY <1>6, <1>f, WithAuth
<1>9. Trusted(file["users"], x)
  BY <1>d, <1>a, <1>8 DEF Trusted
<1>10. DbInv'
  BY <1>1, <1>2, <1>7, LeaksCount, QuietDb DEF IdInv
<1>11. TablesOK'
  <2>1. user' \in [Entries -> EntryType] /\ \A i \in Entries : user'[i] = IF i = j THEN x ELSE user[i]
    BY <1>2, <1>7, <1>8
  <2>2. Identified(user')
    BY <1>2, <1>8, <2>1 DEF Identified
  <2>3. todo' \subseteq {i \in Entries : user'[i] # Free}
    BY <1>2, <1>7, <2>1
  <2> QED BY <1>1, <2>1, <2>2, <2>3 DEF IdInv, TablesOK, Identified
<1>12. Identities'
  <2> SUFFICES ASSUME NEW i \in Entries, i \notin todo' PROVE Trusted(file["users"], user'[i])
    BY <1>1 DEF Identities
  <2>1. CASE i = j
    BY <1>2, <1>7, <1>9, <2>1
  <2>2. CASE i # j
    <3>1. i \in Entries \ todo /\ user'[i] = user[i]
      BY <1>2, <1>7, <2>2
    <3> QED BY <1>1, <3>1, NotBusy DEF IdInv, Identities
  <2> QED BY <2>1, <2>2
<1>13. CallNamed'
  BY <1>1, NotBusy DEF CallNamed
<1> QED BY <1>10, <1>11, <1>12, <1>13 DEF IdInv

LEMMA InCall ==
  ASSUME UserCall \/ CallStep
  PROVE  dbpc # "dead"
<1>1. CASE UserCall
  BY <1>1 DEF UserCall, UserAdd, UserAddmask, UserDelmask, UserSetpass, UserDel, Idle
<1>2. CASE CallStep
  BY <1>2 DEF CallStep, UserAddSecond, DelmaskStep, BanSet, ModeAdd, DelBans, DelModes, DelNotes,
              DelVars, DelMasks, DelUser, Goes
<1> QED BY <1>1, <1>2

LEMMA CommandId ==
  ASSUME IdInv, Command
  PROVE  IdInv'
<1>1. /\ todo = {} /\ (UserCall \/ CallStep)
      /\ todo' = IF dbpc' = "idle" THEN Stale(call'.op, call'.uid, call'.val) ELSE {}
      /\ UNCHANGED <<user, channel, person, events>>
  BY DEF Command
<1>2. DbInv'
  <2>1. DbNext
    BY <1>1 DEF UserCall, DbNext, ScriptCall
  <2> QED BY <2>1, DbSteps DEF IdInv
<1>3. StepKept /\ CallNamed'
  BY <1>1, UserCallKept, CallStepKept DEF IdInv, DbInv
<1>4. TablesOK'
  <2>1. todo' \subseteq {i \in Entries : user'[i] # Free}
    BY <1>1 DEF Stale, Live
  <2> QED BY <1>1, <2>1 DEF IdInv, TablesOK, Identified
<1>5. Identities'
  <2> SUFFICES ASSUME dbpc' # "dead", NEW i \in Entries, i \notin todo'
               PROVE  Trusted(file'["users"], user[i]) \/ (dbpc' \in Busy /\ user[i].id = call'.uid)
    BY <1>1 DEF Identities
  <2>1. PICK e \in EntryType : e = user[i]
    BY DEF IdInv, TablesOK
  <2>2. PICK f, g : f = file["users"] /\ g = file'["users"]
    OBVIOUS
  <2>3. Trusted(f, e) \/ (dbpc \in Busy /\ e.id = call.uid)
    BY <1>1, <2>1, <2>2, InCall DEF IdInv, Identities
  <2>4. CASE dbpc \notin Busy /\ KeptBut(f, g, {})
    <3>1. Trusted(g, e)
      BY <2>3, <2>4, KeptTrust
    <3> QED BY <2>1, <2>2, <3>1
  <2>5. CASE /\ KeptBut(f, g, {call'.uid})
             /\ dbpc \in Busy => call'.uid = call.uid
             /\ dbpc' \in Busy \/ (dbpc' = "idle" /\ call'.op \in {"del", "delmask", "setpass"})
    <3>1. CASE e.id # call'.uid
      <4>1. Trusted(f, e)
        BY <2>3, <2>5, <3>1
      <4>2. Trusted(g, e)
        BY <2>5, <3>1, <4>1, KeptTrust
      <4> QED BY <2>1, <2>2, <4>2
    <3>2. CASE e.id = call'.uid /\ dbpc' \in Busy
      BY <2>1, <3>2
    <3>3. CASE e.id = call'.uid /\ dbpc' = "idle" /\ call'.op \in {"del", "delmask", "setpass"}
      <4>1. e.id # 0 => e # Free
        <5>1. Free.id = 0
          BY DEF Free
        <5> QED BY <5>1
      <4>2. e.id # 0 => i \in Stale(call'.op, call'.uid, call'.val)
        BY <2>1, <3>3, <4>1 DEF Stale, Live
      <4>3. e.id = 0
        BY <1>1, <3>3, <4>2
      <4> QED BY <2>1, <4>3 DEF Trusted
    <3> QED BY <2>5, <3>1, <3>2, <3>3
  <2> QED BY <1>3, <2>2, <2>4, <2>5 DEF StepKept
<1> QED BY <1>2, <1>3, <1>4, <1>5 DEF IdInv

LEMMA DieId ==
  ASSUME IdInv, Die
  PROVE  IdInv'
<1>1. Crash /\ UNCHANGED <<user, channel, todo, person, events>> /\ dbpc' = "dead"
  BY DEF Die, Crash
<1>2. DbInv'
  BY <1>1, DbSteps DEF IdInv, DbNext
<1>3. TablesOK'
  BY <1>1 DEF IdInv, TablesOK
<1> QED BY <1>1, <1>2, <1>3, NotBusy DEF IdInv, Identities, CallNamed

LEMMA NewTables ==
  ASSUME FilesOK
  PROVE  TableOK(file["users"], NoUsers) /\ ChannelsOK({}) /\ PersonsOK(NoPersons)
<1>1. TableOK(file["users"], NoUsers)
  BY FreeTrusted DEF TableOK, Identified, NoUsers
<1>2. ChannelsOK({})
  <2>1. MaxChans \in Nat
    BY CacheAssumption, Zenon
  <2>2. IsFiniteSet({}) /\ Cardinality({}) = 0
    BY FS_EmptySet
  <2> QED BY <2>1, <2>2 DEF ChannelsOK
<1>3. PersonsOK(NoPersons)
  BY NobodyIs DEF PersonsOK, NoPersons
<1> QED BY <1>1, <1>2, <1>3

LEMMA RestartId ==
  ASSUME IdInv, Restart
  PROVE  IdInv'
<1>1. /\ Start /\ user' = NoUsers /\ channel' = {} /\ todo' = {} /\ person' = NoPersons /\ events' = events
      /\ dbpc' = "idle" /\ file' = file
  BY DEF Restart, Start
<1>2. DbInv'
  BY <1>1, DbSteps DEF IdInv, DbNext
<1>3. TableOK(file["users"], NoUsers) /\ ChannelsOK({}) /\ PersonsOK(NoPersons)
  BY NewTables DEF IdInv, DbInv
<1>4. TablesOK'
  BY <1>1, <1>3 DEF IdInv, TablesOK, TableOK
<1>5. Identities' /\ CallNamed'
  BY <1>1, <1>3, NotBusy DEF Identities, CallNamed, TableOK
<1> QED BY <1>2, <1>4, <1>5 DEF IdInv

LEMMA NextKeepsId ==
  ASSUME IdInv, [CacheNext]_vars
  PROVE  IdInv'
<1>1. CASE CacheNext
  BY <1>1, ArriveId, PartId, KickId, JoinId, NickId, QuitId, MsgId, SetauthId, ConnectId,
     TickUpdateId, CommandId, LookupId, DieId, RestartId DEF CacheNext
<1>2. CASE UNCHANGED vars
  <2>1. DbInv'
    BY <1>2, DbStutters DEF IdInv, vars
  <2>2. TablesOK' /\ Identities' /\ CallNamed'
    BY <1>2 DEF IdInv, TablesOK, Identities, CallNamed, vars, dbvars
  <2> QED BY <2>1, <2>2 DEF IdInv
<1> QED BY <1>1, <1>2

\* Nobody is taken for a user but by what the files say, or an entry that is to be
\* looked up again, or one of the user whose call is in progress.
THEOREM IdInvariance == CacheSpec => []IdInv
<1>1. CacheInit => IdInv
  <2> SUFFICES ASSUME CacheInit PROVE IdInv
    OBVIOUS
  <2>1. /\ DbInit /\ user = NoUsers /\ channel = {} /\ todo = {} /\ person = NoPersons /\ events = 0
        /\ dbpc = "idle"
    BY DEF CacheInit, DbInit
  <2>2. DbInv
    BY <2>1, DbStart
  <2>3. TableOK(file["users"], NoUsers) /\ ChannelsOK({}) /\ PersonsOK(NoPersons)
    BY <2>2, NewTables DEF DbInv
  <2>4. events \in 0 .. MaxEvents
    <3>1. MaxEvents \in Nat
      BY CacheAssumption, Zenon
    <3> QED BY <2>1, <3>1
  <2>5. TablesOK
    BY <2>1, <2>3, <2>4 DEF TablesOK, TableOK
  <2>6. Identities /\ CallNamed
    BY <2>1, <2>3, NotBusy DEF Identities, CallNamed, TableOK
  <2> QED BY <2>2, <2>5, <2>6 DEF IdInv
<1>2. IdInv /\ [CacheNext]_vars => IdInv'
  BY NextKeepsId
<1> QED BY <1>1, <1>2, PTL DEF CacheSpec

\* Between two commands whoever is taken for a user is that user by what the files
\* say now, and the tables are well formed.
THEOREM IdentitiesAreBacked == CacheSpec => []CacheInv
<1>1. IdInv => CacheInv
  <2> SUFFICES ASSUME IdInv PROVE CacheTypeOK /\ IdentityBacked
    BY DEF CacheInv
  <2>1. DbTypeOK
    BY DEF IdInv, DbInv, FilesOK, CountsOK, CallOK, CallType, DbTypeOK
  <2>2. CacheTypeOK
    BY <2>1 DEF IdInv, TablesOK, ChannelsOK, PersonsOK, PersonType, EntryType, NickNames, HostNames,
                IdentNames, Networks, CacheTypeOK
  <2>3. IdentityBacked
    <3> SUFFICES ASSUME dbpc = "idle", todo = {}, NEW i \in Entries, user[i].id # 0
                 PROVE  /\ HasUser(user[i].id)
                        /\ \/ user[i].auth
                           \/ /\ NoPassword(user[i].id)
                              /\ \E m \in MasksOf(user[i].id) : m \in Matching(user[i].ident)
      BY DEF IdentityBacked, Serving
    <3>1. TableOK(file["users"], user)
      BY AllTrusted
    <3>2. BackedBy(file["users"], user[i].id, user[i].ident, user[i].auth)
      BY <3>1 DEF TableOK, Trusted
    <3> QED BY <3>2, BackedIs DEF IdInv, DbInv
  <2> QED BY <2>2, <2>3
<1> QED BY <1>1, IdInvariance, PTL

================================================================================
