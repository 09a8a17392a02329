------------------------------- MODULE MaskMatch -------------------------------
(***************************************************************************)
(* Masks (misc.c): mask_match, loop by loop, and mask_create.  Whoever the *)
(* masks of a user match is that user, and a ban is a mask.                *)
(*                                                                         *)
(* A text is a sequence of characters and ends before NUL.  Texts are      *)
(* shorter than the buffers.  Regular expressions, which a mask that       *)
(* starts with $ is, are matched by the library.                           *)
(***************************************************************************)
EXTENDS Integers, Sequences

CONSTANTS
  Chars,      \* what texts consist of
  Lower,      \* tolower()
  Digits,     \* isdigit()
  Masks,      \* masks of scripts
  Values,     \* and what is matched with them
  Idents      \* whom a mask is made for: nick, user and host

NUL == "NUL"
Symbols == Chars \cup {NUL}

ASSUME MaskAssumption ==
  /\ NUL \notin Chars
  /\ Lower \in [Symbols -> Symbols] /\ \A c \in Symbols : Lower[c] = NUL <=> c = NUL
  /\ Masks \subseteq Seq(Chars) /\ Values \subseteq Seq(Chars)
  /\ Idents \subseteq [nick : Seq(Chars), user : Seq(Chars), host : Seq(Chars) \ {<<>>}]
  /\ {"*", "$", "!", "@", ".", "~"} \subseteq Chars

VARIABLES
  mask, val,  \* the arguments
  ident,      \* history: whom the mask was made for, or NoIdent
  pc,
  m, v,       \* the next character of each
  m2, v2,     \* end of the segment that is searched, and where it may be
  result

vars == <<mask, val, ident, pc, m, v, m2, v2, result>>
args == <<mask, val, ident>>

NoIdent == [nick |-> <<>>, user |-> <<>>, host |-> <<>>]
At(s, i) == IF i \in 1 .. Len(s) THEN s[i] ELSE NUL

(***************************************************************************)
(* mask_create and mask_create2                                            *)
(***************************************************************************)
DotsOf(s) == {i \in 1 .. Len(s) : s[i] = "."}
Greatest(S) == CHOOSE x \in S : \A y \in S : y <= x
Least(S) == CHOOSE x \in S : \A y \in S : x <= y

UserPart(user) == IF At(user, 1) = "~" THEN Tail(user) ELSE user

\* 192.168.0.*: all up to the last dot; without one, nothing is left of the host.
NumericMask(user, host) ==
  LET p == IF DotsOf(host) = {} THEN 1 ELSE Greatest(DotsOf(host))
  IN <<"*", "!", "*">> \o UserPart(user) \o <<"@">> \o SubSeq(host, 1, p - 1) \o <<".", "*">>

\* Faulty form of DomainMask, not used: short domains lose their dot.
DomainMaskShort(user, host) ==
  LET p == IF DotsOf(host) = {} THEN Len(host) + 1 ELSE Least(DotsOf(host))
      domain == SubSeq(host, p + 1, Len(host))
  IN <<"*", "!", "*">> \o UserPart(user) \o <<"@">>
       \o (IF Len(domain) <= 4 THEN SubSeq(host, 1, p - 1) \o domain ELSE <<"*">> \o domain)

\* *.domain.org, or the whole host when the domain is short.
DomainMask(user, host) ==
  LET p == IF DotsOf(host) = {} THEN Len(host) + 1 ELSE Least(DotsOf(host))
      domain == SubSeq(host, p, Len(host))
  IN <<"*", "!", "*">> \o UserPart(user) \o <<"@">>
       \o (IF Len(domain) <= 4 THEN host ELSE <<"*">> \o domain)

MaskCreate(id) ==
  IF id.host[Len(id.host)] \in Digits THEN NumericMask(id.user, id.host)
  ELSE DomainMask(id.user, id.host)
Text(id) == id.nick \o <<"!">> \o id.user \o <<"@">> \o id.host

(***************************************************************************)
(* mask_match                                                              *)
(***************************************************************************)
Init ==
  /\ \/ mask \in Masks /\ val \in Values /\ ident = NoIdent
     \/ ident \in Idents /\ mask = MaskCreate(ident) /\ val = Text(ident)
  /\ pc = "start" /\ m = 1 /\ v = 1 /\ m2 = 1 /\ v2 = 1 /\ result = 0

Finish(r) == pc' = "done" /\ result' = r /\ UNCHANGED <<m, v, m2, v2, args>>
Goto(p) == pc' = p /\ UNCHANGED <<result, args>>
EndsSegment(c) == c \in {NUL, "*"}

Regex ==
  /\ pc = "start" /\ At(mask, 1) = "$"
  /\ \E r \in {0, 1} : Finish(r)

Start ==
  /\ pc = "start" /\ At(mask, 1) # "$"
  /\ Goto("top") /\ UNCHANGED <<m, v, m2, v2>>

\* while(*m)
Top ==
  /\ pc = "top"
  /\ \/ At(mask, m) = NUL /\ Finish(IF At(val, v) = NUL THEN 1 ELSE 0)
     \/ At(mask, m) # NUL /\ At(val, v) = NUL /\ Finish(0)
     \/ /\ At(mask, m) # NUL /\ At(val, v) # NUL
        /\ Goto("literal") /\ UNCHANGED <<m, v, m2, v2>>

\* Faulty form of Literal, not used: only a star ends the comparison.
LiteralPastEnd ==
  /\ pc = "literal" /\ At(mask, m) # "*"
  /\ IF Lower[At(mask, m)] = Lower[At(val, v)]
     THEN m' = m + 1 /\ v' = v + 1 /\ UNCHANGED <<m2, v2>> /\ Goto("literal")
     ELSE Finish(0)

\* Basic string compare.
Literal ==
  /\ pc = "literal" /\ ~EndsSegment(At(mask, m))
  /\ IF Lower[At(mask, m)] = Lower[At(val, v)]
     THEN m' = m + 1 /\ v' = v + 1 /\ UNCHANGED <<m2, v2>> /\ Goto("literal")
     ELSE Finish(0)
LiteralEnd ==
  /\ pc = "literal" /\ EndsSegment(At(mask, m))
  /\ Goto(IF At(mask, m) = NUL THEN "top" ELSE "stars") /\ UNCHANGED <<m, v, m2, v2>>

\* Faulty form of Stars, not used: a mask that ends with a star matches here only
\* when the value ends too.
StarsNotLast ==
  /\ pc = "stars"
  /\ \/ /\ At(mask, m) = "*"
        /\ m' = m + 1 /\ UNCHANGED <<v, m2, v2>> /\ Goto("stars")
     \/ At(mask, m) = NUL /\ Finish(IF At(val, v) = NUL THEN 1 ELSE 0)
     \/ /\ ~EndsSegment(At(mask, m))
        /\ m2' = Least({i \in m .. Len(mask) + 1 : EndsSegment(At(mask, i))})
        /\ v2' = Len(val) + 1 /\ UNCHANGED <<m, v>> /\ Goto("search")

\* Past the stars, to the end of the segment after them; a star at the end matches
\* the rest.
Stars ==
  /\ pc = "stars"
  /\ \/ /\ At(mask, m) = "*"
        /\ m' = m + 1 /\ UNCHANGED <<v, m2, v2>> /\ Goto("stars")
     \/ At(mask, m) = NUL /\ Finish(1)
     \/ /\ ~EndsSegment(At(mask, m))
        /\ m2' = Least({i \in m .. Len(mask) + 1 : EndsSegment(At(mask, i))})
        /\ v2' = Len(val) + 1 /\ UNCHANGED <<m, v>> /\ Goto("search")

Before(last) == {i \in v .. last : At(val, i) = At(mask, m)}
SegmentAt(k) == \A i \in 0 .. m2 - m - 1 : At(mask, m + i) = At(val, k + i)

\* Faulty form of Search, not used: it does not step back before it looks again.
SearchStays ==
  /\ pc = "search"
  /\ \/ Before(v2) = {} /\ Finish(0)
     \/ /\ Before(v2) # {}
        /\ v2' = Greatest(Before(v2))
        /\ v' = IF SegmentAt(v2') THEN v2' ELSE v
        /\ UNCHANGED <<m, m2>> /\ Goto(IF SegmentAt(v2') THEN "top" ELSE "search")

\* Faulty form of Search, not used: it may go back before what is matched.
SearchFromStart ==
  /\ pc = "search"
  /\ LET from == {i \in 1 .. v2 - 1 : At(val, i) = At(mask, m)} IN
     \/ from = {} /\ Finish(0)
     \/ /\ from # {}
        /\ v2' = Greatest(from)
        /\ v' = IF SegmentAt(v2') THEN v2' ELSE v
        /\ UNCHANGED <<m, m2>> /\ Goto(IF SegmentAt(v2') THEN "top" ELSE "search")

\* The last place before v2 where the segment starts; here letters are not folded.
Search ==
  /\ pc = "search"
  /\ \/ Before(v2 - 1) = {} /\ Finish(0)
     \/ /\ Before(v2 - 1) # {}
        /\ v2' = Greatest(Before(v2 - 1))
        /\ v' = IF SegmentAt(v2') THEN v2' ELSE v
        /\ UNCHANGED <<m, m2>> /\ Goto(IF SegmentAt(v2') THEN "top" ELSE "search")

Next == Regex \/ Start \/ Top \/ Literal \/ LiteralEnd \/ Stars \/ Search
Spec == Init /\ [][Next]_vars /\ WF_vars(Next)

(***************************************************************************)
(* What a mask promises (tcl-commands.txt, match and createmask)           *)
(***************************************************************************)
TypeOK ==
  /\ mask \in Seq(Chars) /\ val \in Seq(Chars)
  /\ pc \in {"start", "top", "literal", "stars", "search", "done"}
  /\ m \in 1 .. Len(mask) + 1 /\ m2 \in 1 .. Len(mask) + 1
  /\ v \in 1 .. Len(val) + 1 /\ v2 \in 1 .. Len(val) + 1
  /\ result \in {0, 1}

\* f says how far the value has come after each character of the mask: a star takes
\* any number of characters, anything else one that is equal but for its case.
Aligned(f, i, k) ==
  /\ f \in [0 .. i -> 0 .. k] /\ f[0] = 0 /\ f[i] = k
  /\ \A j \in 1 .. i :
       IF mask[j] = "*" THEN f[j - 1] <= f[j]
       ELSE f[j] = f[j - 1] + 1 /\ Lower[mask[j]] = Lower[val[f[j]]]
Matches == \E f \in [0 .. Len(mask) -> 0 .. Len(val)] : Aligned(f, Len(mask), Len(val))

Fits == pc = "done" /\ result = 1 /\ At(mask, 1) # "$" => Matches

\* Nobody is taken for a user, or banned, whom the mask does not fit: Fits, for the
\* masks of scripts.  (Those that are made are too long to try all alignments.)
Sound == ident = NoIdent => Fits

\* Whom a mask fits is found, if the mask has stars in one place only, no letters
\* differ in case and the value is not empty.  (With more stars the last occurrence
\* of a segment may be the wrong one: *a*b* and aba.)
Simple ==
  /\ \A i, j \in 1 .. Len(mask) : mask[i] = "*" /\ mask[j] = "*" =>
       \A k \in i .. j : mask[k] = "*"
  /\ \A c, d \in {mask[i] : i \in 1 .. Len(mask)} \cup {val[i] : i \in 1 .. Len(val)} :
       Lower[c] = Lower[d] => c = d
  /\ val # <<>> /\ At(mask, 1) # "$" /\ ident = NoIdent
Complete == pc = "done" /\ Simple /\ Matches => result = 1

\* The mask that is made for someone (addme.tcl: createmask) matches him, unless his
\* host ends with a digit and has no dot, like an address of IPv6.
CreatedMatches ==
  pc = "done" /\ ident # NoIdent
    /\ (ident.host[Len(ident.host)] \in Digits => DotsOf(ident.host) # {}) => result = 1

\* The search comes to an end (the scripts' parent serves nobody meanwhile).
Terminates == <>(pc = "done")
=============================================================================
