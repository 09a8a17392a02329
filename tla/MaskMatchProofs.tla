---------------------------- MODULE MaskMatchProofs ----------------------------
(***************************************************************************)
(* mask_match stays within its texts and is sound, for all characters,     *)
(* masks and values: where it stands, what is behind it in the mask fits   *)
(* what is behind it in the value.                                         *)
(***************************************************************************)
EXTENDS MaskMatch, SequenceTheorems, FiniteSetTheorems, TLAPS

Standing == {"start", "top", "literal", "stars", "search"}

\* Behind m and v all fits.
Fitted == pc \in Standing => \E f \in [0 .. m - 1 -> 0 .. v - 1] : Aligned(f, m - 1, v - 1)

\* A star was passed before stars and search.
StarBehind ==
  /\ pc = "stars" => At(mask, m) = "*" \/ (m > 1 /\ mask[m - 1] = "*")
  /\ pc = "search" => m > 1 /\ m <= Len(mask) /\ mask[m - 1] = "*"
  /\ pc = "start" => m = 1 /\ v = 1

MaskInv == TypeOK /\ Fitted /\ StarBehind /\ Fits

(***************************************************************************)
(* Positions                                                               *)
(***************************************************************************)
LEMMA LeastNat ==
  ASSUME NEW S \in SUBSET Nat, S # {}
  PROVE  Least(S) \in S /\ \A x \in S : Least(S) <= x
<1> DEFINE T == {0 .. n : n \in S}
<1>1. T \subseteq FiniteSubsetsOf(Nat) /\ T # {}
  <2>1. \A n \in S : IsFiniteSet(0 .. n)
    BY FS_Interval
  <2>2. \A n \in S : 0 .. n \in FiniteSubsetsOf(Nat)
    BY <2>1 DEF FiniteSubsetsOf
  <2> QED BY <2>2
<1>2. PICK x \in T : \A y \in T : <<y, x>> \notin StrictSubsetOrdering(Nat)
  <2> HIDE DEF T
  <2> QED BY <1>1, FS_StrictSubsetOrderingWellFounded, WFMin
<1>3. PICK n \in S : x = 0 .. n
  OBVIOUS
<1>4. ASSUME NEW k \in S PROVE n <= k
  <2>1. SUFFICES ASSUME k < n PROVE FALSE
    OBVIOUS
  <2>2. 0 .. k \subseteq 0 .. n /\ n \in 0 .. n /\ n \notin 0 .. k
    BY <2>1
  <2>3. <<0 .. k, x>> \in StrictSubsetOrdering(Nat)
    BY <1>3, <2>2 DEF StrictSubsetOrdering
  <2> QED BY <1>2, <2>3
<1> QED BY <1>4 DEF Least

LEMMA GreatestUpTo ==
  ASSUME NEW n \in Nat, NEW S \in SUBSET (0 .. n), S # {}
  PROVE  Greatest(S) \in S /\ \A x \in S : x <= Greatest(S)
<1> DEFINE T == {n - x : x \in S}
<1>1. T \in SUBSET Nat /\ T # {}
  <2>1. \A x \in S : n - x \in Nat
    OBVIOUS
  <2> QED BY <2>1
<1>2. PICK y \in T : \A z \in T : y <= z
  <2> HIDE DEF T
  <2> QED BY <1>1, LeastNat
<1>3. PICK x \in S : y = n - x
  OBVIOUS
<1>4. ASSUME NEW z \in S PROVE z <= x
  <2>1. n - x <= n - z
    BY <1>2, <1>3
  <2> QED BY <2>1
<1> QED BY <1>4 DEF Greatest

LEMMA AtText ==
  ASSUME NEW s \in Seq(Chars), NEW i \in Nat
  PROVE  /\ At(s, i) = NUL <=> i \notin 1 .. Len(s)
         /\ i \in 1 .. Len(s) => At(s, i) = s[i] /\ s[i] \in Chars
BY MaskAssumption DEF At

(***************************************************************************)
(* The initial states                                                      *)
(***************************************************************************)
LEMMA CreateType == ASSUME NEW id \in Idents PROVE MaskCreate(id) \in Seq(Chars) /\ Text(id) \in Seq(Chars)
<1>1. id.nick \in Seq(Chars) /\ id.user \in Seq(Chars) /\ id.host \in Seq(Chars)
  BY MaskAssumption
<1>2. /\ <<"*", "!", "*">> \in Seq(Chars) /\ <<"@">> \in Seq(Chars) /\ <<".", "*">> \in Seq(Chars)
      /\ <<"*">> \in Seq(Chars) /\ <<"!">> \in Seq(Chars)
  BY MaskAssumption
<1>3. UserPart(id.user) \in Seq(Chars)
  <2>1. At(id.user, 1) = "~" => id.user # <<>>
    BY <1>1, MaskAssumption DEF At, NUL
  <2> QED BY <1>1, <2>1 DEF UserPart
<1>4. DotsOf(id.host) \in SUBSET (1 .. Len(id.host)) /\ Len(id.host) \in Nat
  BY <1>1 DEF DotsOf
<1>5. NumericMask(id.user, id.host) \in Seq(Chars)
  <2>1. PICK p : p = IF DotsOf(id.host) = {} THEN 1 ELSE Greatest(DotsOf(id.host))
    OBVIOUS
  <2>2. p = 1 \/ p \in 1 .. Len(id.host)
    <3>1. CASE DotsOf(id.host) = {}
      BY <2>1, <3>1
    <3>2. CASE DotsOf(id.host) # {}
      <4>1. DotsOf(id.host) \in SUBSET (0 .. Len(id.host))
        BY <1>4
      <4> QED BY <1>4, <2>1, <3>2, <4>1, GreatestUpTo
    <3> QED BY <3>1, <3>2
  <2>3. SubSeq(id.host, 1, p - 1) \in Seq(Chars)
    BY <1>1, <2>2, SubSeqProperties
  <2> QED BY <1>1, <1>2, <1>3, <2>1, <2>3 DEF NumericMask
<1>6. DomainMask(id.user, id.host) \in Seq(Chars)
  <2>1. PICK p : p = IF DotsOf(id.host) = {} THEN Len(id.host) + 1 ELSE Least(DotsOf(id.host))
    OBVIOUS
  <2>2. p \in 1 .. Len(id.host) + 1
    BY <1>4, <2>1, LeastNat
  <2>3. SubSeq(id.host, p, Len(id.host)) \in Seq(Chars)
    BY <1>1, <1>4, <2>2, SubSeqProperties
  <2> QED BY <1>1, <1>2, <1>3, <2>1, <2>3 DEF DomainMask
<1>7. Text(id) \in Seq(Chars)
  BY <1>1, <1>2 DEF Text
<1> QED BY <1>5, <1>6, <1>7 DEF MaskCreate

LEMMA InitMask == Init => MaskInv
<1> SUFFICES ASSUME Init PROVE MaskInv
  OBVIOUS
<1>1. mask \in Seq(Chars) /\ val \in Seq(Chars)
  BY CreateType, MaskAssumption DEF Init
<1>2. TypeOK
  BY <1>1 DEF Init, TypeOK
<1>3. Fitted
  <2>1. m = 1 /\ v = 1
    BY DEF Init
  <2>2. [i \in 0 .. 0 |-> 0] \in [0 .. m - 1 -> 0 .. v - 1]
    BY <2>1
  <2>3. Aligned([i \in 0 .. 0 |-> 0], m - 1, v - 1)
    BY <2>1 DEF Aligned
  <2> QED BY <2>2, <2>3 DEF Fitted
<1>4. StarBehind /\ Fits
  BY DEF Init, StarBehind, Fits
<1> QED BY <1>2, <1>3, <1>4 DEF MaskInv

(***************************************************************************)
(* Alignments                                                              *)
(***************************************************************************)

\* One more character of each.
LEMMA AlignCharacter ==
  ASSUME mask \in Seq(Chars), val \in Seq(Chars), NEW i \in 1 .. Len(mask), NEW k \in 1 .. Len(val),
         NEW f \in [0 .. i - 1 -> 0 .. k - 1], Aligned(f, i - 1, k - 1),
         mask[i] # "*", Lower[mask[i]] = Lower[val[k]]
  PROVE  \E g \in [0 .. i -> 0 .. k] : Aligned(g, i, k)
<1> DEFINE g == [j \in 0 .. i |-> IF j = i THEN k ELSE f[j]]
<1>1. g \in [0 .. i -> 0 .. k]
  OBVIOUS
<1>2. g[0] = 0 /\ g[i] = k
  BY DEF Aligned
<1>3. ASSUME NEW j \in 1 .. i
      PROVE  IF mask[j] = "*" THEN g[j - 1] <= g[j]
             ELSE g[j] = g[j - 1] + 1 /\ Lower[mask[j]] = Lower[val[g[j]]]
  <2>1. CASE j = i
    <3>1. g[j] = k /\ g[j - 1] = k - 1
      BY <2>1 DEF Aligned
    <3> QED BY <2>1, <3>1
  <2>2. CASE j # i
    <3>1. g[j] = f[j] /\ g[j - 1] = f[j - 1] /\ j \in 1 .. i - 1
      BY <2>2
    <3> QED BY <3>1 DEF Aligned
  <2> QED BY <2>1, <2>2
<1> QED
  <2> HIDE DEF g
  <2> QED BY <1>1, <1>2, <1>3 DEF Aligned

\* One more star, that takes nothing yet.
LEMMA AlignStar ==
  ASSUME mask \in Seq(Chars), val \in Seq(Chars), NEW i \in 1 .. Len(mask), NEW k \in 0 .. Len(val),
         NEW f \in [0 .. i - 1 -> 0 .. k], Aligned(f, i - 1, k), mask[i] = "*"
  PROVE  \E g \in [0 .. i -> 0 .. k] : Aligned(g, i, k)
<1> DEFINE g == [j \in 0 .. i |-> IF j = i THEN k ELSE f[j]]
<1>1. g \in [0 .. i -> 0 .. k]
  OBVIOUS
<1>2. g[0] = 0 /\ g[i] = k
  BY DEF Aligned
<1>3. ASSUME NEW j \in 1 .. i
      PROVE  IF mask[j] = "*" THEN g[j - 1] <= g[j]
             ELSE g[j] = g[j - 1] + 1 /\ Lower[mask[j]] = Lower[val[g[j]]]
  <2>1. CASE j = i
    <3>1. g[j] = k /\ g[j - 1] = k
      BY <2>1 DEF Aligned
    <3> QED BY <2>1, <3>1
  <2>2. CASE j # i
    <3>1. g[j] = f[j] /\ g[j - 1] = f[j - 1] /\ j \in 1 .. i - 1
      BY <2>2
    <3> QED BY <3>1 DEF Aligned
  <2> QED BY <2>1, <2>2
<1> QED
  <2> HIDE DEF g
  <2> QED BY <1>1, <1>2, <1>3 DEF Aligned

\* The last star takes more.
LEMMA StretchStar ==
  ASSUME mask \in Seq(Chars), val \in Seq(Chars), NEW i \in 1 .. Len(mask), NEW k \in 0 .. Len(val),
         NEW f \in [0 .. i -> 0 .. k], Aligned(f, i, k), mask[i] = "*", NEW l \in k .. Len(val)
  PROVE  \E g \in [0 .. i -> 0 .. l] : Aligned(g, i, l)
<1> DEFINE g == [j \in 0 .. i |-> IF j = i THEN l ELSE f[j]]
<1>1. g \in [0 .. i -> 0 .. l]
  OBVIOUS
<1>2. g[0] = 0 /\ g[i] = l
  BY DEF Aligned
<1>3. ASSUME NEW j \in 1 .. i
      PROVE  IF mask[j] = "*" THEN g[j - 1] <= g[j]
             ELSE g[j] = g[j - 1] + 1 /\ Lower[mask[j]] = Lower[val[g[j]]]
  <2>1. CASE j = i
    <3>1. g[j] = l /\ g[j - 1] = f[i - 1] /\ f[i - 1] \in 0 .. k
      BY <2>1
    <3> QED BY <2>1, <3>1
  <2>2. CASE j # i
    <3>1. g[j] = f[j] /\ g[j - 1] = f[j - 1] /\ j \in 1 .. i
      BY <2>2
    <3> QED BY <3>1 DEF Aligned
  <2> QED BY <2>1, <2>2
<1> QED
  <2> HIDE DEF g
  <2> QED BY <1>1, <1>2, <1>3 DEF Aligned

\* What is aligned to both ends matches.
LEMMA AlignedMatches ==
  ASSUME m = Len(mask) + 1, Len(mask) \in Nat, Len(val) \in Nat,
         NEW f \in [0 .. m - 1 -> 0 .. Len(val)], Aligned(f, m - 1, Len(val))
  PROVE  Matches
BY DEF Matches

(***************************************************************************)
(* Steps                                                                   *)
(***************************************************************************)

\* Where it stands in the texts.
LEMMA Places ==
  ASSUME TypeOK
  PROVE  /\ Len(mask) \in Nat /\ Len(val) \in Nat
         /\ At(mask, m) = NUL => m = Len(mask) + 1
         /\ At(mask, m) # NUL => m \in 1 .. Len(mask) /\ At(mask, m) = mask[m]
         /\ At(val, v) = NUL => v = Len(val) + 1
         /\ At(val, v) # NUL => v \in 1 .. Len(val) /\ At(val, v) = val[v]
<1>1. mask \in Seq(Chars) /\ val \in Seq(Chars) /\ m \in 1 .. Len(mask) + 1 /\ v \in 1 .. Len(val) + 1
  BY DEF TypeOK
<1>2. Len(mask) \in Nat /\ Len(val) \in Nat
  BY <1>1
<1>3. m \in Nat /\ v \in Nat
  BY <1>1, <1>2
<1>4. At(mask, m) = NUL <=> m \notin 1 .. Len(mask)
  BY <1>1, <1>3, AtText
<1>5. At(val, v) = NUL <=> v \notin 1 .. Len(val)
  BY <1>1, <1>3, AtText
<1>6. (m \in 1 .. Len(mask) => At(mask, m) = mask[m]) /\ (v \in 1 .. Len(val) => At(val, v) = val[v])
  BY DEF At
<1> QED BY <1>1, <1>2, <1>4, <1>5, <1>6

\* An end without a match, or that of a regular expression.
LEMMA FinishMask ==
  ASSUME MaskInv, NEW r \in {0, 1}, Finish(r), r = 1 /\ At(mask, 1) # "$" => Matches
  PROVE  MaskInv'
<1>1. TypeOK'
  BY DEF MaskInv, TypeOK, Finish, args
<1>2. Fitted' /\ StarBehind'
  BY DEF Finish, Fitted, StarBehind, Standing
<1>3. Fits'
  <2>1. UNCHANGED <<mask, val>> /\ result' = r
    BY DEF Finish, args
  <2> QED BY <2>1 DEF Fits, Matches, Aligned, At
<1> QED BY <1>1, <1>2, <1>3 DEF MaskInv

\* A step that moves nothing.
LEMMA StayMask ==
  ASSUME MaskInv, NEW p \in {"top", "literal", "stars"}, Goto(p), UNCHANGED <<m, v, m2, v2>>,
         pc \in Standing, p = "stars" => At(mask, m) = "*"
  PROVE  MaskInv'
<1>1. UNCHANGED <<mask, val, m, v, m2, v2, result>> /\ pc' = p
  BY DEF Goto, args
<1>2. TypeOK'
  BY <1>1 DEF MaskInv, TypeOK
<1>3. Fitted'
  BY <1>1 DEF MaskInv, Fitted, Standing, Aligned
<1>4. StarBehind' /\ Fits'
  BY <1>1 DEF StarBehind, Fits, At
<1> QED BY <1>2, <1>3, <1>4 DEF MaskInv

\* What fits up to where it stands next.
LEMMA FittedNext ==
  ASSUME UNCHANGED <<mask, val>>, NEW CONSTANT i, NEW CONSTANT k, NEW CONSTANT g \in [0 .. i -> 0 .. k],
         Aligned(g, i, k), m' - 1 = i, v' - 1 = k
  PROVE  Fitted'
<1>1. Aligned(g, i, k)'
  BY DEF Aligned
<1>2. \E f \in [0 .. m' - 1 -> 0 .. v' - 1] : Aligned(f, i, k)'
  BY <1>1
<1> QED BY <1>2 DEF Fitted

LEMMA TopMask == ASSUME MaskInv, Top PROVE MaskInv'
<1> USE DEF Standing
<1>1. CASE At(mask, m) = NUL /\ Finish(IF At(val, v) = NUL THEN 1 ELSE 0)
  <2>1. CASE At(val, v) = NUL
    <3>1. m = Len(mask) + 1 /\ v = Len(val) + 1 /\ Len(mask) \in Nat /\ Len(val) \in Nat
      BY <1>1, <2>1, Places DEF MaskInv
    <3>2. PICK f \in [0 .. m - 1 -> 0 .. v - 1] : Aligned(f, m - 1, v - 1)
      BY DEF Top, MaskInv, Fitted
    <3>3. v - 1 = Len(val)
      BY <3>1
    <3>4. Matches
      BY <3>1, <3>2, <3>3, AlignedMatches
    <3> QED BY <1>1, <2>1, <3>4, FinishMask
  <2>2. CASE At(val, v) # NUL
    BY <1>1, <2>2, FinishMask
  <2> QED BY <2>1, <2>2
<1>2. CASE At(mask, m) # NUL /\ At(val, v) = NUL /\ Finish(0)
  BY <1>2, FinishMask
<1>3. CASE Goto("literal") /\ UNCHANGED <<m, v, m2, v2>>
  BY <1>3, StayMask DEF Top
<1> QED BY <1>1, <1>2, <1>3 DEF Top

LEMMA LiteralMask == ASSUME MaskInv, Literal PROVE MaskInv'
<1> USE DEF Standing
<1>1. CASE Lower[At(mask, m)] = Lower[At(val, v)]
  <2>1. /\ m' = m + 1 /\ v' = v + 1 /\ UNCHANGED <<m2, v2, mask, val, result>> /\ pc' = "literal"
        /\ pc = "literal" /\ At(mask, m) # NUL /\ At(mask, m) # "*"
    BY <1>1 DEF Literal, Goto, args, EndsSegment
  <2>2. TypeOK /\ mask \in Seq(Chars) /\ val \in Seq(Chars)
    BY DEF MaskInv, TypeOK
  <2>3. m \in 1 .. Len(mask) /\ At(mask, m) = mask[m] /\ mask[m] \in Chars
    BY <2>1, <2>2, Places
  <2>4. At(val, v) # NUL
    <3>1. Lower[At(mask, m)] # NUL
      BY <2>3, MaskAssumption DEF Symbols
    <3>2. NUL \in Symbols /\ Lower[NUL] = NUL
      BY MaskAssumption DEF Symbols
    <3> QED BY <1>1, <3>1, <3>2
  <2>5. v \in 1 .. Len(val) /\ At(val, v) = val[v]
    BY <2>2, <2>4, Places
  <2>6. TypeOK'
    BY <2>1, <2>2, <2>3, <2>5 DEF TypeOK
  <2>7. Fitted'
    <3>1. PICK f \in [0 .. m - 1 -> 0 .. v - 1] : Aligned(f, m - 1, v - 1)
      BY <2>1 DEF MaskInv, Fitted
    <3>2. PICK g \in [0 .. m -> 0 .. v] : Aligned(g, m, v)
      BY <1>1, <2>1, <2>2, <2>3, <2>5, <3>1, AlignCharacter
    <3>3. m' - 1 = m /\ v' - 1 = v
      BY <2>1, <2>3, <2>5
    <3> QED BY <2>1, <3>2, <3>3, FittedNext
  <2>8. StarBehind' /\ Fits'
    BY <2>1 DEF StarBehind, Fits
  <2> QED BY <2>6, <2>7, <2>8 DEF MaskInv
<1>2. CASE Lower[At(mask, m)] # Lower[At(val, v)]
  BY <1>2, FinishMask DEF Literal
<1> QED BY <1>1, <1>2

LEMMA LiteralEndMask == ASSUME MaskInv, LiteralEnd PROVE MaskInv'
<1>1. CASE At(mask, m) = NUL
  BY <1>1, StayMask DEF LiteralEnd, Standing
<1>2. CASE At(mask, m) # NUL
  BY <1>2, StayMask DEF LiteralEnd, Standing, EndsSegment
<1> QED BY <1>1, <1>2

LEMMA StarsMask == ASSUME MaskInv, Stars PROVE MaskInv'
<1> USE DEF Standing
<1>0. TypeOK /\ mask \in Seq(Chars) /\ val \in Seq(Chars) /\ pc = "stars" /\ v \in 1 .. Len(val) + 1
  BY DEF MaskInv, TypeOK, Stars
<1>1. PICK f \in [0 .. m - 1 -> 0 .. v - 1] : Aligned(f, m - 1, v - 1)
  BY <1>0 DEF MaskInv, Fitted
<1>2. Len(mask) \in Nat /\ Len(val) \in Nat
  BY <1>0
<1>3. CASE At(mask, m) = "*" /\ m' = m + 1 /\ UNCHANGED <<v, m2, v2>> /\ Goto("stars")
  <2>1. UNCHANGED <<mask, val, v, m2, v2, result>> /\ pc' = "stars" /\ m' = m + 1
    BY <1>3 DEF Goto, args
  <2>2. m \in 1 .. Len(mask) /\ mask[m] = "*"
    <3>1. At(mask, m) # NUL
      BY <1>3, MaskAssumption
    <3> QED BY <1>0, <1>3, <3>1, Places
  <2>3. TypeOK'
    BY <1>0, <2>1, <2>2 DEF TypeOK
  <2>4. Fitted'
    <3>1. v - 1 \in 0 .. Len(val)
      BY <1>0, <1>2
    <3>2. PICK g \in [0 .. m -> 0 .. v - 1] : Aligned(g, m, v - 1)
      BY <1>0, <1>1, <2>2, <3>1, AlignStar
    <3>3. m' - 1 = m
      BY <2>1, <2>2
    <3> QED BY <2>1, <3>2, <3>3, FittedNext
  <2>5. StarBehind' /\ Fits'
    BY <2>1, <2>2 DEF StarBehind, Fits
  <2> QED BY <2>3, <2>4, <2>5 DEF MaskInv
<1>4. CASE At(mask, m) = NUL /\ Finish(1)
  <2>1. m = Len(mask) + 1
    BY <1>0, <1>4, Places
  <2>2. m > 1 /\ mask[m - 1] = "*"
    BY <1>0, <1>4, MaskAssumption DEF MaskInv, StarBehind
  <2>3. m - 1 \in 1 .. Len(mask) /\ v - 1 \in 0 .. Len(val) /\ Len(val) \in v - 1 .. Len(val)
    BY <1>0, <1>2, <2>1, <2>2
  <2>4. PICK g \in [0 .. m - 1 -> 0 .. Len(val)] : Aligned(g, m - 1, Len(val))
    BY <1>0, <1>1, <2>2, <2>3, StretchStar
  <2>5. Matches
    BY <1>2, <2>1, <2>4, AlignedMatches
  <2> QED BY <1>4, <2>5, FinishMask
<1>5. CASE /\ ~EndsSegment(At(mask, m))
           /\ m2' = Least({i \in m .. Len(mask) + 1 : EndsSegment(At(mask, i))})
           /\ v2' = Len(val) + 1 /\ UNCHANGED <<m, v>> /\ Goto("search")
  <2>1. UNCHANGED <<mask, val, m, v, result>> /\ pc' = "search" /\ v2' = Len(val) + 1
    BY <1>5 DEF Goto, args
  <2>2. m2' \in 1 .. Len(mask) + 1
    <3>1. PICK S : S = {i \in m .. Len(mask) + 1 : EndsSegment(At(mask, i))}
      OBVIOUS
    <3>2. m \in 1 .. Len(mask) + 1
      BY <1>0 DEF TypeOK
    <3>3. Len(mask) + 1 \in S
      BY <1>2, <3>1, <3>2 DEF EndsSegment, At
    <3>4. S \in SUBSET Nat /\ S \subseteq 1 .. Len(mask) + 1
      BY <1>2, <3>1, <3>2
    <3> QED BY <1>5, <3>1, <3>3, <3>4, LeastNat
  <2>3. TypeOK'
    BY <1>0, <1>2, <2>1, <2>2 DEF TypeOK
  <2>4. Fitted'
    BY <1>0, <2>1 DEF MaskInv, Fitted, Aligned
  <2>5. StarBehind'
    <3>1. At(mask, m) # NUL /\ At(mask, m) # "*"
      BY <1>5 DEF EndsSegment
    <3>2. m \in 1 .. Len(mask)
      BY <1>0, <3>1, Places
    <3> QED BY <1>0, <2>1, <3>1, <3>2 DEF MaskInv, StarBehind
  <2>6. Fits'
    BY <2>1 DEF Fits
  <2> QED BY <2>3, <2>4, <2>5, <2>6 DEF MaskInv
<1> QED BY <1>3, <1>4, <1>5 DEF Stars

LEMMA SearchMask == ASSUME MaskInv, Search PROVE MaskInv'
<1> USE DEF Standing
<1>0. /\ TypeOK /\ mask \in Seq(Chars) /\ val \in Seq(Chars) /\ pc = "search"
      /\ v \in 1 .. Len(val) + 1 /\ v2 \in 1 .. Len(val) + 1 /\ m \in 1 .. Len(mask) + 1
  BY DEF MaskInv, TypeOK, Search
<1>1. CASE Before(v2 - 1) = {} /\ Finish(0)
  BY <1>1, FinishMask
<1>2. CASE Before(v2 - 1) # {} /\ ~(Before(v2 - 1) = {} /\ Finish(0))
  <2>1. PICK k : k = Greatest(Before(v2 - 1))
    OBVIOUS
  <2>2. k \in v .. v2 - 1
    <3>1. Before(v2 - 1) \in SUBSET (v .. v2 - 1) /\ v2 \in Nat /\ v \in Nat
      BY <1>0 DEF Before
    <3>2. Before(v2 - 1) \in SUBSET (0 .. v2) /\ Before(v2 - 1) # {}
      BY <1>2, <3>1
    <3>3. k \in Before(v2 - 1)
      BY <2>1, <3>1, <3>2, GreatestUpTo
    <3> QED BY <3>1, <3>3
  <2>3. PICK at \in BOOLEAN : at = SegmentAt(v2')
    BY DEF SegmentAt
  <2>4. /\ UNCHANGED <<mask, val, m, m2, result>> /\ v2' = k /\ v' = (IF at THEN k ELSE v)
        /\ pc' = (IF at THEN "top" ELSE "search")
    BY <1>2, <2>1, <2>3 DEF Search, Goto, args
  <2>5. v' \in v .. Len(val) + 1 /\ v' \in 1 .. Len(val) + 1 /\ v2' \in 1 .. Len(val) + 1
    BY <1>0, <2>2, <2>4
  <2>6. TypeOK'
    BY <1>0, <2>4, <2>5 DEF TypeOK
  <2>7. m > 1 /\ m <= Len(mask) /\ mask[m - 1] = "*"
    BY <1>0 DEF MaskInv, StarBehind
  <2>8. Fitted'
    <3>1. PICK f \in [0 .. m - 1 -> 0 .. v - 1] : Aligned(f, m - 1, v - 1)
      BY <1>0 DEF MaskInv, Fitted
    <3>2. m - 1 \in 1 .. Len(mask) /\ v - 1 \in 0 .. Len(val) /\ v' - 1 \in v - 1 .. Len(val)
      <4>1. Len(mask) \in Nat /\ Len(val) \in Nat
        BY <1>0
      <4>2. m \in Nat /\ v \in Nat /\ v' \in Nat
        BY <1>0, <2>5, <4>1
      <4>3. m - 1 \in 1 .. Len(mask)
        BY <2>7, <4>1, <4>2
      <4>4. v - 1 \in 0 .. Len(val)
        BY <1>0, <4>1, <4>2
      <4>5. v' - 1 \in v - 1 .. Len(val)
        <5>1. PICK w : w = v'
          OBVIOUS
        <5>2. w \in v .. Len(val) + 1
          BY <2>5, <5>1
        <5>3. w - 1 \in v - 1 .. Len(val)
          BY <4>1, <4>2, <5>2
        <5> QED BY <5>1, <5>3
      <4> QED BY <4>3, <4>4, <4>5
    <3>3. PICK g \in [0 .. m - 1 -> 0 .. v' - 1] : Aligned(g, m - 1, v' - 1)
      BY <1>0, <2>7, <3>1, <3>2, StretchStar
    <3>4. m' - 1 = m - 1
      BY <2>4
    <3>5. PICK i, e : i = m - 1 /\ e = v' - 1
      OBVIOUS
    <3>6. g \in [0 .. i -> 0 .. e] /\ Aligned(g, i, e)
      BY <3>3, <3>5
    <3> QED BY <2>4, <3>4, <3>5, <3>6, FittedNext
  <2>9. StarBehind' /\ Fits'
    BY <2>4, <2>7 DEF StarBehind, Fits
  <2> QED BY <2>6, <2>8, <2>9 DEF MaskInv
<1> QED BY <1>1, <1>2 DEF Search

LEMMA NextMask == MaskInv /\ [Next]_vars => MaskInv'
<1> SUFFICES ASSUME MaskInv, [Next]_vars PROVE MaskInv'
  OBVIOUS
<1>1. CASE Regex
  BY <1>1, FinishMask DEF Regex
<1>2. CASE Start
  BY <1>2, StayMask DEF Start, Standing
<1>3. CASE Top
  BY <1>3, TopMask
<1>4. CASE Literal
  BY <1>4, LiteralMask
<1>5. CASE LiteralEnd
  BY <1>5, LiteralEndMask
<1>6. CASE Stars
  BY <1>6, StarsMask
<1>7. CASE Search
  BY <1>7, SearchMask
<1>8. CASE UNCHANGED vars
  <2>1. UNCHANGED <<mask, val, pc, m, v, m2, v2, result>>
    BY <1>8 DEF vars
  <2>2. TypeOK'
    BY <2>1 DEF MaskInv, TypeOK
  <2>3. Fitted'
    BY <2>1 DEF MaskInv, Fitted, Aligned
  <2>4. StarBehind'
    BY <2>1 DEF MaskInv, StarBehind, At
  <2>5. Fits'
    BY <2>1 DEF MaskInv, Fits, Matches, Aligned, At
  <2> QED BY <2>2, <2>3, <2>4, <2>5 DEF MaskInv
<1> QED BY <1>1, <1>2, <1>3, <1>4, <1>5, <1>6, <1>7, <1>8 DEF Next

(***************************************************************************)
(* Whom a mask fits is found, if the search from the back of the value     *)
(* finds each segment of the mask where it belongs.  An alignment f of the *)
(* whole mask with the whole value is followed: up to the stars it is      *)
(* where mask_match is, and behind them it is still ahead, before the      *)
(* place where the search goes on.                                         *)
(***************************************************************************)

\* A segment of the mask, from n up to e, behind a star.
Segment(n, e) ==
  /\ n \in 2 .. Len(mask) /\ e \in n + 1 .. Len(mask) + 1
  /\ mask[n - 1] = "*" /\ \A j \in n .. e - 1 : mask[j] # "*"
  /\ EndsSegment(At(mask, e))
SegmentIs(n, e, l) == \A i \in 0 .. e - n - 1 : At(mask, n + i) = At(val, l + i)

Alignment(f) == f \in [0 .. Len(mask) -> 0 .. Len(val)] /\ Aligned(f, Len(mask), Len(val))

\* No letters differ in case, and no segment is found behind its place.
Rightmost(f) ==
  /\ \A j \in 1 .. Len(mask) : mask[j] # "*" => mask[j] = val[f[j]]
  /\ \A n, e \in Nat : Segment(n, e) => \A l \in Nat : l > f[n - 1] + 1 => ~SegmentIs(n, e, l)

Ahead(f) == f[m - 1] >= v - 1 /\ f[m - 1] + 1 < v2 /\ Segment(m, m2)

Follows(f) ==
  /\ pc \in {"top", "literal"} => f[m - 1] = v - 1
  /\ pc = "top" /\ At(mask, m) # NUL => At(val, v) # NUL
  /\ pc = "stars" => f[m - 1] >= v - 1
  /\ pc = "search" => Ahead(f)
  /\ pc = "done" => result = 1

Searched(f) == Alignment(f) /\ Rightmost(f)
Plain == val # <<>> /\ At(mask, 1) # "$"
Finds == Plain => \A f : Searched(f) => Follows(f)

LEMMA AlignedAt ==
  ASSUME TypeOK, NEW f, Alignment(f), NEW j \in 1 .. Len(mask)
  PROVE  /\ f[j - 1] \in 0 .. Len(val) /\ f[j] \in 0 .. Len(val)
         /\ mask[j] = "*" => f[j - 1] <= f[j]
         /\ mask[j] # "*" => /\ f[j] = f[j - 1] + 1 /\ f[j] \in 1 .. Len(val)
                             /\ Lower[mask[j]] = Lower[val[f[j]]]
<1>1. Len(mask) \in Nat /\ Len(val) \in Nat
  BY Places
<1>2. j - 1 \in 0 .. Len(mask) /\ j \in 0 .. Len(mask)
  BY <1>1
<1>3. f[j - 1] \in 0 .. Len(val) /\ f[j] \in 0 .. Len(val)
  BY <1>2 DEF Alignment
<1>4. IF mask[j] = "*" THEN f[j - 1] <= f[j]
      ELSE f[j] = f[j - 1] + 1 /\ Lower[mask[j]] = Lower[val[f[j]]]
  BY DEF Alignment, Aligned
<1> QED BY <1>1, <1>3, <1>4

LEMMA AlignedEnds ==
  ASSUME NEW f, Alignment(f)
  PROVE  f[0] = 0 /\ f[Len(mask)] = Len(val)
BY DEF Alignment, Aligned

\* A segment without stars takes a character each.
LEMMA SegmentAligned ==
  ASSUME TypeOK, NEW f, Alignment(f), NEW n \in 1 .. Len(mask) + 1, NEW e \in n .. Len(mask) + 1,
         \A j \in n .. e - 1 : mask[j] # "*"
  PROVE  \A j \in n - 1 .. e - 1 : f[j] = f[n - 1] + (j - (n - 1))
<1>0. Len(mask) \in Nat /\ Len(val) \in Nat /\ n \in Nat /\ e \in Nat
  <2>1. Len(mask) \in Nat /\ Len(val) \in Nat
    BY Places
  <2> QED BY <2>1
<1> DEFINE W == {j \in n - 1 .. e - 1 : f[j] # f[n - 1] + (j - (n - 1))}
<1> SUFFICES ASSUME W # {} PROVE FALSE
  OBVIOUS
<1>1. W \in SUBSET Nat
  BY <1>0
<1>2. PICK j : j = Least(W)
  OBVIOUS
<1>3. j \in W /\ \A x \in W : j <= x
  <2> HIDE DEF W
  <2> QED BY <1>1, <1>2, LeastNat
<1>4. f[n - 1] \in Int
  <2>1. n - 1 \in 0 .. Len(mask)
    BY <1>0
  <2>2. f[n - 1] \in 0 .. Len(val)
    BY <2>1 DEF Alignment
  <2> QED BY <1>0, <2>2
<1>5. j # n - 1
  <2> SUFFICES ASSUME j = n - 1 PROVE FALSE
    OBVIOUS
  <2>1. PICK d \in Int : d = f[n - 1]
    BY <1>4
  <2>2. d # d + (n - 1 - (n - 1))
    BY <1>3, <2>1
  <2> QED BY <1>0, <2>2
<1>6. j \in n .. e - 1 /\ j - 1 \in n - 1 .. e - 1 /\ j \in 1 .. Len(mask)
  BY <1>0, <1>3, <1>5
<1>7. j - 1 \notin W
  BY <1>0, <1>3, <1>6
<1>8. f[j - 1] = f[n - 1] + (j - 1 - (n - 1))
  BY <1>6, <1>7
<1>9. f[j] = f[j - 1] + 1
  BY <1>6, AlignedAt
<1> QED BY <1>0, <1>3, <1>4, <1>6, <1>8, <1>9

Place(f) == f[m - 1] + 1

\* The place of the segment in the value: there it is, and it is found nowhere behind.
LEMMA SegmentPlace ==
  ASSUME MaskInv, pc = "search", NEW f, Searched(f), Ahead(f), NEW k, k = Place(f)
  PROVE  /\ k \in Before(v2 - 1) /\ SegmentAt(k)
         /\ \A l \in Nat : l > k => ~SegmentAt(l)
<1>0. /\ TypeOK /\ mask \in Seq(Chars) /\ val \in Seq(Chars)
      /\ v \in 1 .. Len(val) + 1 /\ v2 \in 1 .. Len(val) + 1 /\ m \in 1 .. Len(mask)
      /\ m2 \in 1 .. Len(mask) + 1 /\ m2 \in m .. Len(mask) + 1
      /\ Len(mask) \in Nat /\ Len(val) \in Nat /\ Alignment(f) /\ Rightmost(f)
  <2>1. m <= Len(mask)
    BY DEF MaskInv, StarBehind
  <2>2. m2 \in m .. Len(mask) + 1
    <3>1. m \in Nat /\ Len(mask) \in Nat
      BY <2>1, Places DEF MaskInv, TypeOK
    <3> QED BY <3>1 DEF Ahead, Segment
  <2> QED BY <2>1, <2>2, Places DEF MaskInv, TypeOK, Searched
<1>1. \A j \in m .. m2 - 1 : mask[j] # "*"
  BY DEF Ahead, Segment
<1>2. \A j \in m - 1 .. m2 - 1 : f[j] = f[m - 1] + (j - (m - 1))
  <2>1. m \in 1 .. Len(mask) + 1
    BY <1>0
  <2> QED BY <1>0, <1>1, <2>1, SegmentAligned
<1>3. k \in Nat /\ k <= Len(val) + 1 /\ \A d \in Int : f[m - 1] + d = k - 1 + d
  <2>1. PICK e : e = f[m - 1]
    OBVIOUS
  <2>2. e \in 0 .. Len(val)
    BY <1>0, <2>1, AlignedAt
  <2>3. k = e + 1
    BY <2>1 DEF Place
  <2>4. k \in Nat /\ k <= Len(val) + 1 /\ \A d \in Int : e + d = k - 1 + d
    BY <1>0, <2>2, <2>3
  <2> QED BY <2>1, <2>4
<1>4. ASSUME NEW j \in m .. m2 - 1
      PROVE  k + (j - m) \in 1 .. Len(val) /\ mask[j] = val[k + (j - m)]
  <2>1. f[j] = k - 1 + (j - (m - 1))
    <3>1. j \in m - 1 .. m2 - 1 /\ j - (m - 1) \in Int
      BY <1>0
    <3> QED BY <1>2, <1>3, <3>1
  <2>2. f[j] = k + (j - m)
    <3>1. k - 1 + (j - (m - 1)) = k + (j - m)
      BY <1>0, <1>3
    <3> QED BY <2>1, <3>1
  <2>3. j \in 1 .. Len(mask)
    BY <1>0
  <2>4. f[j] \in 1 .. Len(val)
    BY <1>0, <1>1, <2>3, AlignedAt
  <2>5. mask[j] = val[f[j]]
    BY <1>0, <1>1, <2>3 DEF Rightmost
  <2> QED BY <2>2, <2>4, <2>5
<1>5. m2 > m
  BY <1>0 DEF Ahead, Segment
<1>6. k \in 1 .. Len(val) /\ mask[m] = val[k]
  <2>1. m \in m .. m2 - 1 /\ k + (m - m) = k
    BY <1>0, <1>3, <1>5
  <2> QED BY <1>4, <2>1
<1>7. k \in Before(v2 - 1)
  <2>1. k \in v .. v2 - 1
    <3>1. PICK e : e = f[m - 1]
      OBVIOUS
    <3>2. e >= v - 1 /\ e + 1 < v2 /\ e \in 0 .. Len(val)
      BY <1>0, <3>1, AlignedAt DEF Ahead
    <3>3. k = e + 1
      BY <3>1 DEF Place
    <3> QED BY <1>0, <3>2, <3>3
  <2>2. At(val, k) = At(mask, m)
    BY <1>0, <1>6 DEF At
  <2> QED BY <2>1, <2>2 DEF Before
<1>8. SegmentAt(k)
  <2> SUFFICES ASSUME NEW i \in 0 .. m2 - m - 1 PROVE At(mask, m + i) = At(val, k + i)
    BY DEF SegmentAt
  <2>1. m + i \in m .. m2 - 1 /\ m + i \in 1 .. Len(mask)
    BY <1>0
  <2>2. k + i \in 1 .. Len(val) /\ mask[m + i] = val[k + i]
    <3>1. PICK j : j = m + i
      OBVIOUS
    <3>2. k + (j - m) \in 1 .. Len(val) /\ mask[j] = val[k + (j - m)]
      BY <1>4, <2>1, <3>1
    <3>3. k + (j - m) = k + i
      <4>1. m \in Int /\ i \in Int /\ k \in Int
        BY <1>0, <1>3
      <4> QED BY <3>1, <4>1
    <3> QED BY <3>1, <3>2, <3>3
  <2> QED BY <2>1, <2>2 DEF At
<1>9. ASSUME NEW l \in Nat, l > k PROVE ~SegmentAt(l)
  <2>1. Segment(m, m2) /\ m \in Nat /\ m2 \in Nat
    BY <1>0 DEF Ahead
  <2>2. l > f[m - 1] + 1
    BY <1>9 DEF Place
  <2>3. ~SegmentIs(m, m2, l)
    BY <1>0, <2>1, <2>2 DEF Rightmost
  <2> QED BY <2>3 DEF SegmentIs, SegmentAt
<1> QED BY <1>7, <1>8, <1>9

\* No step changes what is to be matched.
LEMMA SameArgs ==
  ASSUME Next
  PROVE  UNCHANGED <<mask, val, ident>>
BY DEF Next, Regex, Start, Top, Literal, LiteralEnd, Stars, Search, Finish, Goto, args

LEMMA SameTask ==
  ASSUME UNCHANGED <<mask, val, ident>>
  PROVE  (Plain' => Plain) /\ \A f : Searched(f)' => Searched(f)
<1>1. Plain' => Plain
  BY DEF Plain, At
<1>2. ASSUME NEW f PROVE Alignment(f)' => Alignment(f)
  BY DEF Alignment, Aligned
<1>3. ASSUME NEW f PROVE Rightmost(f)' => Rightmost(f)
  <2>1. \A n, e \in Nat : Segment(n, e)' <=> Segment(n, e)
    BY DEF Segment, EndsSegment, At
  <2>2. \A n, e, l \in Nat : SegmentIs(n, e, l)' <=> SegmentIs(n, e, l)
    BY DEF SegmentIs, At
  <2> QED BY <2>1, <2>2 DEF Rightmost
<1> QED BY <1>1, <1>2, <1>3 DEF Searched

LEMMA FollowStart ==
  ASSUME MaskInv, Plain, NEW f, Searched(f), Follows(f), Regex \/ Start
  PROVE  Follows(f)'
<1>1. At(mask, 1) # "$" /\ val # <<>>
  BY DEF Plain
<1>2. Start
  BY <1>1 DEF Regex
<1>3. m = 1 /\ v = 1 /\ val \in Seq(Chars)
  BY <1>2 DEF Start, MaskInv, StarBehind, TypeOK
<1>4. UNCHANGED <<mask, val, m, v>> /\ pc' = "top"
  BY <1>2 DEF Start, Goto, args
<1>5. f[m' - 1] = v' - 1
  <2>1. m' - 1 = 0 /\ v' - 1 = 0
    BY <1>3, <1>4
  <2> QED BY <2>1, AlignedEnds DEF Searched
<1>6. At(val, v)' # NUL
  <2>1. 1 \in 1 .. Len(val)
    BY <1>1, <1>3
  <2> QED BY <1>3, <1>4, <2>1, AtText DEF At
<1> QED BY <1>4, <1>5, <1>6 DEF Follows

LEMMA FollowTop ==
  ASSUME MaskInv, Plain, NEW f, Searched(f), Follows(f), Top
  PROVE  Follows(f)'
<1>1. pc = "top" /\ f[m - 1] = v - 1 /\ (At(mask, m) # NUL => At(val, v) # NUL) /\ TypeOK
  BY DEF Top, Follows, MaskInv
<1>2. CASE At(mask, m) = NUL
  <2>1. m = Len(mask) + 1 /\ Len(mask) \in Nat /\ Len(val) \in Nat
    BY <1>1, <1>2, Places
  <2>2. m - 1 = Len(mask)
    BY <2>1
  <2>3. v - 1 = Len(val)
    BY <1>1, <2>2, AlignedEnds DEF Searched
  <2>4. v \in 1 .. Len(val) + 1
    BY <1>1 DEF TypeOK
  <2>5. At(val, v) = NUL
    <3>1. v \notin 1 .. Len(val)
      BY <2>1, <2>3, <2>4
    <3> QED BY <3>1 DEF At
  <2>6. Finish(1)
    BY <1>2, <2>5 DEF Top
  <2> QED BY <2>6 DEF Finish, Follows
<1>3. CASE At(mask, m) # NUL
  <2>1. Goto("literal") /\ UNCHANGED <<m, v>>
    BY <1>1, <1>3 DEF Top
  <2> QED BY <1>1, <2>1 DEF Goto, Follows
<1> QED BY <1>2, <1>3

LEMMA FollowLiteral ==
  ASSUME MaskInv, Plain, NEW f, Searched(f), Follows(f), Literal
  PROVE  Follows(f)'
<1>1. /\ pc = "literal" /\ f[m - 1] = v - 1 /\ At(mask, m) # NUL /\ At(mask, m) # "*"
      /\ TypeOK /\ mask \in Seq(Chars) /\ val \in Seq(Chars) /\ v \in 1 .. Len(val) + 1
  BY DEF Literal, Follows, MaskInv, EndsSegment, TypeOK
<1>2. m \in 1 .. Len(mask) /\ At(mask, m) = mask[m] /\ Len(mask) \in Nat /\ Len(val) \in Nat
  BY <1>1, Places
<1>3. f[m] = f[m - 1] + 1 /\ f[m] \in 1 .. Len(val) /\ Lower[mask[m]] = Lower[val[f[m]]]
  BY <1>1, <1>2, AlignedAt DEF Searched
<1>4. f[m] = v
  <2>1. f[m] = v - 1 + 1
    BY <1>1, <1>3
  <2> QED BY <1>1, <1>2, <2>1
<1>5. At(val, v) = val[v]
  BY <1>3, <1>4 DEF At
<1>6. m' = m + 1 /\ v' = v + 1 /\ Goto("literal")
  BY <1>2, <1>3, <1>4, <1>5 DEF Literal
<1>7. m' - 1 = m /\ v' - 1 = v
  BY <1>1, <1>2, <1>6
<1> QED BY <1>4, <1>6, <1>7 DEF Goto, Follows

LEMMA FollowLiteralEnd ==
  ASSUME MaskInv, Plain, NEW f, Searched(f), Follows(f), LiteralEnd
  PROVE  Follows(f)'
<1>1. /\ f[m - 1] = v - 1 /\ UNCHANGED <<mask, val, m, v>>
      /\ pc' = IF At(mask, m) = NUL THEN "top" ELSE "stars"
  BY DEF LiteralEnd, Follows, Goto, args
<1>2. f[m - 1] >= v - 1
  <2>1. Len(val) \in Nat /\ v \in Nat
    BY Places DEF MaskInv, TypeOK
  <2> QED BY <1>1, <2>1
<1>3. CASE At(mask, m) = NUL
  BY <1>1, <1>3 DEF Follows, At
<1>4. CASE At(mask, m) # NUL
  BY <1>1, <1>2, <1>4 DEF Follows
<1> QED BY <1>3, <1>4

LEMMA FollowStars ==
  ASSUME MaskInv, Plain, NEW f, Searched(f), Follows(f), Stars
  PROVE  Follows(f)'
<1>1. /\ pc = "stars" /\ f[m - 1] >= v - 1
      /\ TypeOK /\ mask \in Seq(Chars) /\ val \in Seq(Chars) /\ v \in 1 .. Len(val) + 1
      /\ m \in 1 .. Len(mask) + 1 /\ Len(mask) \in Nat /\ Len(val) \in Nat
  BY Places DEF Stars, Follows, MaskInv, TypeOK
<1>2. CASE At(mask, m) = "*" /\ m' = m + 1 /\ UNCHANGED <<v, m2, v2>> /\ Goto("stars")
  <2>1. At(mask, m) # NUL
    BY <1>2, MaskAssumption
  <2>2. m \in 1 .. Len(mask) /\ mask[m] = "*"
    BY <1>1, <1>2, <2>1, Places
  <2>3. f[m - 1] <= f[m] /\ f[m - 1] \in 0 .. Len(val) /\ f[m] \in 0 .. Len(val)
    BY <1>1, <2>2, AlignedAt DEF Searched
  <2>4. f[m] >= v - 1
    BY <1>1, <2>3
  <2>5. m' - 1 = m /\ v' = v /\ pc' = "stars"
    BY <1>2, <2>2 DEF Goto
  <2> QED BY <2>4, <2>5 DEF Follows
<1>3. CASE At(mask, m) = NUL /\ Finish(1)
  BY <1>3 DEF Finish, Follows
<1>4. CASE /\ ~EndsSegment(At(mask, m))
           /\ m2' = Least({i \in m .. Len(mask) + 1 : EndsSegment(At(mask, i))})
           /\ v2' = Len(val) + 1 /\ UNCHANGED <<m, v>> /\ Goto("search")
  <2>1. /\ UNCHANGED <<mask, val, m, v>> /\ pc' = "search" /\ v2' = Len(val) + 1
        /\ At(mask, m) # NUL /\ At(mask, m) # "*"
    BY <1>4 DEF Goto, args, EndsSegment
  <2>2. m \in 1 .. Len(mask) /\ mask[m] # "*"
    BY <1>1, <2>1, Places
  <2>3. m > 1 /\ mask[m - 1] = "*"
    BY <1>1, <2>1 DEF MaskInv, StarBehind
  <2>4. Segment(m, m2')
    <3>1. PICK S : S = {i \in m .. Len(mask) + 1 : EndsSegment(At(mask, i))}
      OBVIOUS
    <3>2. Len(mask) + 1 \in S
      BY <1>1, <3>1 DEF EndsSegment, At
    <3>3. S \in SUBSET Nat
      BY <1>1, <3>1
    <3>4. PICK e : e = m2' /\ e \in S /\ \A i \in S : e <= i
      BY <1>4, <3>1, <3>2, <3>3, LeastNat
    <3>5. e \in m .. Len(mask) + 1 /\ EndsSegment(At(mask, e)) /\ e # m
      BY <1>4, <3>1, <3>4
    <3>6. ASSUME NEW j \in m .. e - 1 PROVE mask[j] # "*"
      <4>1. j \in m .. Len(mask) + 1 /\ j \in 1 .. Len(mask) /\ ~(e <= j)
        BY <1>1, <3>5
      <4>2. ~EndsSegment(At(mask, j))
        BY <3>1, <3>4, <4>1
      <4> QED BY <4>1, <4>2 DEF EndsSegment, At
    <3>7. m \in 2 .. Len(mask) /\ e \in m + 1 .. Len(mask) + 1
      BY <1>1, <2>2, <2>3, <3>5
    <3> QED BY <2>3, <3>4, <3>5, <3>6, <3>7 DEF Segment
  <2>6. f[m - 1] + 1 < v2'
    <3>1. f[m] = f[m - 1] + 1 /\ f[m] \in 1 .. Len(val)
      BY <1>1, <2>2, AlignedAt DEF Searched
    <3>2. f[m] < Len(val) + 1
      BY <1>1, <3>1
    <3> QED BY <2>1, <3>1, <3>2
  <2>7. Ahead(f)'
    BY <1>1, <2>1, <2>4, <2>6 DEF Ahead, Segment, At
  <2> QED BY <2>1, <2>7 DEF Follows
<1> QED BY <1>2, <1>3, <1>4 DEF Stars

\* The search finds the place: what it finds before is too far on, and does not fit.
LEMMA FollowSearch ==
  ASSUME MaskInv, Plain, NEW f, Searched(f), Follows(f), Search
  PROVE  Follows(f)'
<1>1. /\ pc = "search" /\ Ahead(f) /\ TypeOK /\ mask \in Seq(Chars) /\ val \in Seq(Chars)
      /\ v \in 1 .. Len(val) + 1 /\ v2 \in 1 .. Len(val) + 1 /\ Len(val) \in Nat
  BY Places DEF Search, Follows, MaskInv, TypeOK
<1>2. PICK k : k = Place(f)
  OBVIOUS
<1>3. /\ k \in Before(v2 - 1) /\ SegmentAt(k)
      /\ \A l \in Nat : l > k => ~SegmentAt(l)
  BY <1>1, <1>2, SegmentPlace
<1>4. PICK l : l = Greatest(Before(v2 - 1))
  OBVIOUS
<1>5. l \in v .. v2 - 1 /\ l \in Nat /\ k \in v .. v2 - 1 /\ k \in Nat /\ k <= l /\ At(val, k) # NUL
  <2>1. Before(v2 - 1) \in SUBSET (v .. v2 - 1) /\ v2 \in Nat /\ v \in Nat
    BY <1>1 DEF Before
  <2>2. Before(v2 - 1) \in SUBSET (0 .. v2) /\ Before(v2 - 1) # {}
    BY <1>3, <2>1
  <2>3. l \in Before(v2 - 1) /\ k <= l
    BY <1>3, <1>4, <2>1, <2>2, GreatestUpTo
  <2>4. k \in 1 .. Len(val)
    BY <1>1, <1>3, <2>1
  <2>5. At(val, k) # NUL
    <3>1. k \in Nat
      BY <2>4
    <3> QED BY <1>1, <2>4, <3>1, AtText
  <2> QED BY <1>3, <2>1, <2>3, <2>5
<1>6. PICK at \in BOOLEAN : at = SegmentAt(l)
  BY DEF SegmentAt
<1>7. /\ UNCHANGED <<mask, val, m, m2>> /\ v2' = l /\ v' = (IF at THEN l ELSE v)
      /\ pc' = (IF at THEN "top" ELSE "search")
  <2>1. v2' = Greatest(Before(v2 - 1)) /\ v2' = l
    BY <1>3, <1>4 DEF Search
  <2>2. SegmentAt(v2') = at
    BY <1>6, <2>1
  <2> QED BY <1>3, <2>1, <2>2 DEF Search, Goto, args
<1>8. PICK e : e = f[m - 1]
  OBVIOUS
<1>9. k = e + 1 /\ e \in Int /\ e >= v - 1
  <2>1. m \in 1 .. Len(mask)
    <3>1. m > 1 /\ m <= Len(mask) /\ m \in 1 .. Len(mask) + 1 /\ Len(mask) \in Nat
      BY <1>1, Places DEF MaskInv, StarBehind, TypeOK
    <3> QED BY <3>1
  <2>2. e \in 0 .. Len(val)
    BY <1>1, <1>8, <2>1, AlignedAt DEF Searched
  <2>3. k = e + 1 /\ e >= v - 1
    BY <1>1, <1>2, <1>8 DEF Place, Ahead
  <2> QED BY <1>1, <2>2, <2>3
<1>10. CASE at
  <2>1. l = k
    <3>1. SegmentAt(l)
      BY <1>6, <1>10
    <3>2. ~(l > k)
      BY <1>3, <1>5, <3>1
    <3>3. k <= l /\ k \in Nat /\ l \in Nat
      BY <1>5
    <3> QED BY <3>2, <3>3
  <2>2. pc' = "top" /\ v' = k /\ m' = m /\ At(val, v)' # NUL
    BY <1>5, <1>7, <1>10, <2>1 DEF At
  <2>3. e = k - 1
    BY <1>9
  <2> QED BY <1>8, <2>2, <2>3 DEF Follows
<1>11. CASE ~at
  <2>1. k < l
    <3>1. k # l
      BY <1>3, <1>6, <1>11
    <3>2. k <= l /\ k \in Nat /\ l \in Nat
      BY <1>5
    <3> QED BY <3>1, <3>2
  <2>2. pc' = "search" /\ v' = v /\ v2' = l
    BY <1>7, <1>11
  <2>3. e + 1 < v2' /\ e >= v' - 1
    BY <1>9, <2>1, <2>2
  <2>4. Ahead(f)'
    BY <1>1, <1>7, <1>8, <2>3 DEF Ahead, Segment, At
  <2> QED BY <2>2, <2>4 DEF Follows
<1> QED BY <1>10, <1>11

LEMMA InitFinds == Init => Finds
BY DEF Init, Finds, Follows

LEMMA NextFinds == MaskInv /\ Finds /\ [Next]_vars => Finds'
<1> SUFFICES ASSUME MaskInv, Finds, [Next]_vars PROVE Finds'
  OBVIOUS
<1>1. CASE Next
  <2> SUFFICES ASSUME Plain', NEW f, Searched(f)' PROVE Follows(f)'
    BY DEF Finds
  <2>1. Plain /\ Searched(f)
    BY <1>1, SameArgs, SameTask
  <2>2. Follows(f)
    BY <2>1 DEF Finds
  <2> QED BY <1>1, <2>1, <2>2, FollowStart, FollowTop, FollowLiteral, FollowLiteralEnd, FollowStars,
             FollowSearch DEF Next
<1>2. CASE UNCHANGED vars
  <2>1. UNCHANGED <<mask, val, ident, pc, m, v, m2, v2, result>>
    BY <1>2 DEF vars
  <2> SUFFICES ASSUME Plain', NEW f, Searched(f)' PROVE Follows(f)'
    BY DEF Finds
  <2>2. Plain /\ Searched(f)
    BY <2>1, SameTask
  <2>3. Follows(f)
    BY <2>2 DEF Finds
  <2>4. Segment(m, m2)' <=> Segment(m, m2)
    BY <2>1 DEF Segment, EndsSegment, At
  <2>5. Ahead(f)' <=> Ahead(f)
    BY <2>1, <2>4 DEF Ahead
  <2> QED BY <2>1, <2>3, <2>5 DEF Follows, At
<1> QED BY <1>1, <1>2

(***************************************************************************)
(* Masks with stars in one place                                           *)
(***************************************************************************)

\* They have one segment behind stars, which ends where the mask ends: further on the
\* value is too short for it.
LEMMA SimpleSearched ==
  ASSUME TypeOK, Simple, NEW f, Alignment(f)
  PROVE  Plain /\ Searched(f)
<1>0. mask \in Seq(Chars) /\ val \in Seq(Chars) /\ Len(mask) \in Nat /\ Len(val) \in Nat
  BY Places DEF TypeOK
<1>1. ASSUME NEW j \in 1 .. Len(mask), mask[j] # "*" PROVE mask[j] = val[f[j]]
  <2>1. f[j] \in 1 .. Len(val) /\ Lower[mask[j]] = Lower[val[f[j]]]
    BY <1>1, AlignedAt
  <2> QED BY <2>1 DEF Simple
<1>2. ASSUME NEW n \in Nat, NEW e \in Nat, Segment(n, e), NEW l \in Nat, l > f[n - 1] + 1
      PROVE  ~SegmentIs(n, e, l)
  <2>1. /\ n \in 2 .. Len(mask) /\ e \in n + 1 .. Len(mask) + 1 /\ mask[n - 1] = "*"
        /\ \A j \in n .. e - 1 : mask[j] # "*"
    BY <1>2 DEF Segment
  <2>2. e = Len(mask) + 1
    <3> SUFFICES ASSUME e # Len(mask) + 1 PROVE FALSE
      OBVIOUS
    <3>1. e \in 1 .. Len(mask) /\ n - 1 \in 1 .. Len(mask) /\ n \in n - 1 .. e /\ n \in n .. e - 1
      BY <1>0, <2>1
    <3>2. mask[e] = "*"
      <4>1. At(mask, e) = mask[e] /\ mask[e] \in Chars
        BY <1>0, <3>1, AtText
      <4> QED BY <1>2, <4>1, MaskAssumption DEF Segment, EndsSegment
    <3> QED BY <2>1, <3>1, <3>2 DEF Simple
  <2>3. PICK b : b = f[n - 1]
    OBVIOUS
  <2>4. b \in 0 .. Len(val) /\ Len(val) = b + (Len(mask) - (n - 1))
    <3>1. n \in 1 .. Len(mask) + 1 /\ e \in n .. Len(mask) + 1 /\ Len(mask) \in n - 1 .. e - 1
          /\ n - 1 \in 0 .. Len(mask)
      BY <1>0, <2>1, <2>2
    <3>2. b \in 0 .. Len(val)
      BY <2>3, <3>1 DEF Alignment
    <3>3. f[Len(mask)] = f[n - 1] + (Len(mask) - (n - 1))
      BY <2>1, <3>1, SegmentAligned
    <3> QED BY <2>3, <3>2, <3>3, AlignedEnds
  <2>5. PICK i : i = Len(mask) - n
    OBVIOUS
  <2>6. i \in 0 .. e - n - 1 /\ n + i = Len(mask) /\ l + i > Len(val) /\ l + i \in Nat
    <3>1. n + i = Len(mask) /\ i \in Nat
      BY <1>0, <2>1, <2>2, <2>5
    <3>2. i \in 0 .. e - n - 1
      BY <1>0, <2>1, <2>2, <2>5
    <3>3. b \in Nat /\ l > b + 1 /\ l \in Nat
      BY <1>0, <1>2, <2>3, <2>4
    <3>4. Len(val) = b + i + 1
      BY <1>0, <2>1, <2>4, <2>5
    <3> QED BY <3>1, <3>2, <3>3, <3>4
  <2>7. At(val, l + i) = NUL
    BY <1>0, <2>6 DEF At
  <2>8. At(mask, n + i) # NUL
    <3>1. Len(mask) \in 1 .. Len(mask)
      BY <1>0, <2>1
    <3> QED BY <1>0, <2>6, <3>1, AtText
  <2> QED BY <2>6, <2>7, <2>8 DEF SegmentIs
<1>3. Plain
  BY DEF Simple, Plain
<1> QED BY <1>1, <1>2, <1>3 DEF Searched, Rightmost

(***************************************************************************)
(* Masks that are made for someone                                         *)
(***************************************************************************)

\* *!*user@, which is found c behind its place in the mask, and goes on up to q; a star
\* behind q, and what is behind it is the end of the value.
MadeOf(star, bang, mark, nick, c, at, q) ==
  /\ nick \in Nat /\ c \in Int /\ nick - 2 <= c
  /\ q \in Nat /\ q <= Len(mask) /\ at \in 4 .. q
  /\ mask[1] = star /\ mask[2] = bang /\ mask[3] = star /\ mask[at] = mark
  /\ nick + 1 \in 1 .. Len(val) /\ val[nick + 1] = bang
  /\ \A j \in 4 .. q : j + c \in 1 .. Len(val) /\ mask[j] # star /\ mask[j] = val[j + c]
  /\ \A i \in 1 .. Len(val) : (i > nick + 1 => val[i] # bang) /\ (i > at + c => val[i] # mark)
  /\ q = Len(mask) => Len(val) = q + c
  /\ q < Len(mask) => mask[q + 1] = star /\ q + c <= q + 1 + (Len(val) - Len(mask))
  /\ \A j \in q + 2 .. Len(mask) : mask[j] # star /\ mask[j] = val[j + (Len(val) - Len(mask))]
Made(nick, c, at, q) == MadeOf("*", "!", "@", nick, c, at, q)

LEMMA UpToEnd ==
  ASSUME NEW M \in Nat, NEW n \in Nat, n >= 2, n <= M, NEW i, i = M - n
  PROVE  i \in 0 .. M + 1 - n - 1 /\ n + i = M /\ M \in 1 .. M
OBVIOUS

LEMMA BehindEnd ==
  ASSUME NEW M \in Nat, NEW V \in Nat, NEW q \in Nat, NEW l \in Nat, NEW n \in Nat,
         NEW d \in Int, d = V - M, n = q + 2, l > q + 1 + d + 1, NEW i, i = M - n
  PROVE  l + i > V
OBVIOUS

LEMMA MadeSearched ==
  ASSUME TypeOK, NEW nick, NEW c, NEW at, NEW q, Made(nick, c, at, q)
  PROVE  Plain /\ \E f : Searched(f)
<1>0. mask \in Seq(Chars) /\ val \in Seq(Chars) /\ Len(mask) \in Nat /\ Len(val) \in Nat
  BY Places DEF TypeOK
<1>1. PICK d \in Int : d = Len(val) - Len(mask)
  BY <1>0
<1>2. /\ nick \in Nat /\ c \in Int /\ nick - 2 <= c /\ at \in 4 .. q /\ q <= Len(mask)
      /\ nick + 1 \in 1 .. Len(val) /\ q \in Nat /\ at \in Nat
      /\ \A j \in 4 .. q : j + c \in 1 .. Len(val)
      /\ q = Len(mask) => Len(val) = q + c
      /\ q < Len(mask) => q + c <= q + 1 + d
  BY <1>0, <1>1 DEF Made, MadeOf
<1>3. \A j \in q + 2 .. Len(mask) : j + d \in 1 .. Len(val)
  <2>1. q \in 4 .. q
    BY <1>2
  <2>2. q + c \in 1 .. Len(val)
    BY <1>2, <2>1
  <2> QED BY <1>0, <1>1, <1>2, <2>2
<1>4. PICK f : f = [j \in 0 .. Len(mask) |->
                      IF j = 0 THEN 0 ELSE IF j = 1 THEN nick ELSE IF j = 2 THEN nick + 1
                      ELSE IF j <= q THEN j + c ELSE j + d]
  OBVIOUS
<1>5. /\ f[0] = 0 /\ f[1] = nick /\ f[2] = nick + 1 /\ f[3] = 3 + c
      /\ \A j \in 3 .. q : f[j] = j + c
      /\ \A j \in q + 1 .. Len(mask) : f[j] = j + d
  <2>1. f[0] = 0
    BY <1>0, <1>4
  <2>2. f[1] = nick
    BY <1>0, <1>2, <1>4
  <2>3. f[2] = nick + 1
    BY <1>0, <1>2, <1>4
  <2>4. \A j \in 3 .. q : f[j] = j + c
    BY <1>0, <1>2, <1>4
  <2>5. \A j \in q + 1 .. Len(mask) : f[j] = j + d
    BY <1>0, <1>2, <1>4
  <2>6. 3 \in 3 .. q
    BY <1>2
  <2> QED BY <2>1, <2>2, <2>3, <2>4, <2>5, <2>6
<1>6. f[3] \in 0 .. Len(val)
  <2>1. 4 \in 4 .. q
    BY <1>2
  <2>2. 4 + c \in 1 .. Len(val)
    BY <1>2, <2>1
  <2> QED BY <1>0, <1>2, <1>5, <2>2
<1>7. f \in [0 .. Len(mask) -> 0 .. Len(val)]
  <2>1. ASSUME NEW j \in 0 .. Len(mask) PROVE f[j] \in 0 .. Len(val)
    <3>1. CASE j \in {0, 1, 2, 3}
      BY <1>0, <1>2, <1>5, <1>6, <3>1
    <3>2. CASE j \in 4 .. q
      BY <1>0, <1>2, <1>5, <3>2
    <3>3. CASE j = q + 1
      <4>1. q \in 4 .. q /\ q < Len(mask) /\ j \in q + 1 .. Len(mask)
        BY <1>0, <1>2, <3>3
      <4>2. q + c \in 1 .. Len(val) /\ q + c <= q + 1 + d /\ q + 1 + d <= Len(val)
        BY <1>0, <1>1, <1>2, <4>1
      <4> QED BY <1>0, <1>5, <3>3, <4>1, <4>2
    <3>4. CASE j \in q + 2 .. Len(mask)
      <4>1. j \in q + 1 .. Len(mask) /\ j + d \in 1 .. Len(val)
        BY <1>0, <1>2, <1>3, <3>4
      <4> QED BY <1>0, <1>5, <4>1
    <3> QED BY <1>0, <1>2, <3>1, <3>2, <3>3, <3>4
  <2> QED BY <1>4, <2>1
<1>8. f[Len(mask)] = Len(val)
  <2>1. CASE q = Len(mask)
    <3>1. q \in 3 .. q
      BY <1>2
    <3> QED BY <1>2, <1>5, <2>1, <3>1
  <2>2. CASE q < Len(mask)
    <3>1. Len(mask) \in q + 1 .. Len(mask) /\ Len(mask) + d = Len(val)
      BY <1>0, <1>1, <1>2, <2>2
    <3> QED BY <1>5, <3>1
  <2> QED BY <1>0, <1>2, <2>1, <2>2
<1>9. ASSUME NEW j \in 1 .. Len(mask)
      PROVE  /\ mask[j] = "*" => f[j - 1] <= f[j]
             /\ mask[j] # "*" => f[j] = f[j - 1] + 1 /\ mask[j] = val[f[j]]
  <2>1. CASE j = 1
    <3>1. mask[j] = "*" /\ f[j - 1] = 0 /\ f[j] = nick
      BY <1>5, <2>1 DEF Made, MadeOf
    <3> QED BY <1>2, <3>1
  <2>2. CASE j = 2
    <3>1. mask[j] = "!" /\ f[j - 1] = nick /\ f[j] = nick + 1 /\ val[nick + 1] = "!"
      BY <1>5, <2>2 DEF Made, MadeOf
    <3> QED BY <3>1
  <2>3. CASE j = 3
    <3>1. mask[j] = "*" /\ f[j - 1] = nick + 1 /\ f[j] = 3 + c
      BY <1>5, <2>3 DEF Made, MadeOf
    <3> QED BY <1>2, <3>1
  <2>4. CASE j \in 4 .. q
    <3>1. j - 1 \in 3 .. q /\ j \in 3 .. q
      BY <1>2, <2>4
    <3>2. f[j] = j + c /\ f[j - 1] = j - 1 + c
      BY <1>5, <3>1
    <3>3. f[j] = f[j - 1] + 1
      BY <1>2, <2>4, <3>2
    <3>4. mask[j] # "*" /\ mask[j] = val[j + c]
      BY <2>4 DEF Made, MadeOf
    <3> QED BY <3>2, <3>3, <3>4
  <2>5. CASE j = q + 1
    <3>1. q < Len(mask) /\ q \in 3 .. q /\ j \in q + 1 .. Len(mask) /\ j - 1 = q
      BY <1>0, <1>2, <2>5
    <3>2. f[j] = q + 1 + d /\ f[j - 1] = q + c /\ q + c <= q + 1 + d
      BY <1>2, <1>5, <2>5, <3>1
    <3>3. mask[j] = "*"
      BY <2>5, <3>1 DEF Made, MadeOf
    <3> QED BY <3>2, <3>3
  <2>6. CASE j \in q + 2 .. Len(mask)
    <3>1. j - 1 \in q + 1 .. Len(mask) /\ j \in q + 1 .. Len(mask)
      BY <1>0, <1>2, <2>6
    <3>2. f[j] = j + d /\ f[j - 1] = j - 1 + d
      BY <1>5, <3>1
    <3>3. f[j] = f[j - 1] + 1
      BY <1>0, <1>1, <3>2
    <3>4. mask[j] # "*" /\ mask[j] = val[j + d]
      BY <1>1, <2>6 DEF Made, MadeOf
    <3> QED BY <3>2, <3>3, <3>4
  <2> QED BY <1>0, <1>2, <2>1, <2>2, <2>3, <2>4, <2>5, <2>6
<1>10. Alignment(f)
  <2>1. \A j \in 1 .. Len(mask) : IF mask[j] = "*" THEN f[j - 1] <= f[j]
                                  ELSE f[j] = f[j - 1] + 1 /\ Lower[mask[j]] = Lower[val[f[j]]]
    BY <1>9
  <2> QED BY <1>5, <1>7, <1>8, <2>1 DEF Alignment, Aligned
<1>11. ASSUME NEW n \in Nat, NEW e \in Nat, Segment(n, e), NEW l \in Nat, l > f[n - 1] + 1
       PROVE  ~SegmentIs(n, e, l)
  <2>1. /\ n \in 2 .. Len(mask) /\ e \in n + 1 .. Len(mask) + 1 /\ mask[n - 1] = "*"
        /\ \A j \in n .. e - 1 : mask[j] # "*"
    BY <1>11 DEF Segment
  <2>2. n \in {2, 4, q + 2}
    <3> SUFFICES ASSUME n \notin {2, 4, q + 2} PROVE FALSE
      OBVIOUS
    <3>1. PICK j : j = n - 1
      OBVIOUS
    <3>2. j = 2 \/ j \in 4 .. q \/ j \in q + 2 .. Len(mask)
      BY <1>0, <1>2, <2>1, <3>1
    <3>3. mask[2] # "*"
      BY DEF Made, MadeOf
    <3> QED BY <2>1, <3>1, <3>2, <3>3 DEF Made, MadeOf
  <2>3. ASSUME NEW i \in 0 .. e - n - 1, At(val, l + i) # At(mask, n + i) PROVE ~SegmentIs(n, e, l)
    BY <2>3 DEF SegmentIs
  <2>4. CASE n = 2
    <3>1. 0 \in 0 .. e - n - 1 /\ l + 0 = l /\ n + 0 = 2
      BY <2>1, <2>4
    <3>2. At(mask, n + 0) = "!"
      <4>1. 2 \in 1 .. Len(mask)
        BY <1>0, <1>2
      <4> QED BY <3>1, <4>1 DEF Made, MadeOf, At
    <3>3. l > nick + 1
      BY <1>11, <1>2, <1>5, <2>4
    <3>4. At(val, l + 0) # "!"
      <4>1. "!" # NUL
        BY MaskAssumption
      <4> QED BY <3>1, <3>3, <4>1 DEF Made, MadeOf, At
    <3> QED BY <2>3, <3>1, <3>2, <3>4
  <2>5. CASE n = 4
    <3>1. PICK i : i = at - 4
      OBVIOUS
    <3>2. e > at
      <4> SUFFICES ASSUME e <= at PROVE FALSE
        BY <1>2
      <4>1. e \in 4 .. q /\ e \in 1 .. Len(mask)
        BY <1>0, <1>2, <2>1, <2>5
      <4>2. mask[e] # "*" /\ mask[e] \in Chars /\ At(mask, e) = mask[e]
        <5>1. mask[e] # "*"
          BY <4>1 DEF Made, MadeOf
        <5> QED BY <1>0, <4>1, <5>1 DEF At
      <4> QED BY <1>11, <4>2, MaskAssumption DEF Segment, EndsSegment
    <3>3. i \in 0 .. e - n - 1 /\ n + i = at /\ at \in 1 .. Len(mask)
      BY <1>0, <1>2, <2>1, <2>5, <3>1, <3>2
    <3>4. At(mask, n + i) = "@"
      BY <3>3 DEF Made, MadeOf, At
    <3>5. l + i > at + c
      <4>1. l > 3 + c + 1
        BY <1>11, <1>5, <2>5
      <4> QED BY <1>2, <3>1, <4>1
    <3>6. At(val, l + i) # "@"
      <4>1. "@" # NUL
        BY MaskAssumption
      <4> QED BY <3>5, <4>1 DEF Made, MadeOf, At
    <3> QED BY <2>3, <3>3, <3>4, <3>6
  <2>6. CASE n = q + 2
    <3>1. e = Len(mask) + 1
      <4> SUFFICES ASSUME e # Len(mask) + 1 PROVE FALSE
        OBVIOUS
      <4>1. e \in q + 2 .. Len(mask) /\ e \in 1 .. Len(mask)
        BY <1>0, <1>2, <2>1, <2>6
      <4>2. mask[e] # "*" /\ mask[e] \in Chars /\ At(mask, e) = mask[e]
        <5>1. mask[e] # "*"
          BY <4>1 DEF Made, MadeOf
        <5> QED BY <1>0, <4>1, <5>1 DEF At
      <4> QED BY <1>11, <4>2, MaskAssumption DEF Segment, EndsSegment
    <3>2. PICK i : i = Len(mask) - n
      OBVIOUS
    <3>3. f[n - 1] = q + 1 + d
      <4>1. n - 1 = q + 1 /\ q + 1 \in q + 1 .. Len(mask)
        BY <1>0, <1>2, <2>1, <2>6
      <4> QED BY <1>5, <4>1
    <3>4. i \in 0 .. e - n - 1 /\ n + i = Len(mask) /\ l + i > Len(val) /\ Len(mask) \in 1 .. Len(mask)
      <4>1. n \in Nat /\ n >= 2 /\ n <= Len(mask) /\ n = q + 2
        BY <1>0, <2>1, <2>6
      <4>2. i \in 0 .. Len(mask) + 1 - n - 1 /\ n + i = Len(mask) /\ Len(mask) \in 1 .. Len(mask)
        BY <1>0, <3>2, <4>1, UpToEnd
      <4>3. l > q + 1 + d + 1
        BY <1>11, <3>3
      <4>4. l + i > Len(val)
        BY <1>0, <1>1, <1>2, <1>11, <3>2, <4>1, <4>3, BehindEnd
      <4> QED BY <3>1, <4>2, <4>4
    <3>5. At(val, l + i) = NUL
      BY <1>0, <3>4 DEF At
    <3>6. At(mask, n + i) # NUL
      BY <1>0, <3>4, AtText
    <3> QED BY <2>3, <3>4, <3>5, <3>6
  <2> QED BY <2>2, <2>4, <2>5, <2>6
<1>12. Rightmost(f)
  BY <1>9, <1>11 DEF Rightmost
<1>13. Plain
  <2>1. val # <<>>
    BY <1>0, <1>2
  <2>2. At(mask, 1) # "$"
    <3>1. At(mask, 1) = "*"
      BY <1>0, <1>2 DEF Made, MadeOf, At
    <3> QED BY <3>1
  <2> QED BY <2>1, <2>2 DEF Plain
<1> QED BY <1>10, <1>12, <1>13 DEF Searched

\* What servers let be the user and the host of someone, whatever the nick is: no
\* character that separates them (RFC 2812), and no star.
PlainIdent(id) ==
  \A c \in {"!", "@", "*"} :
    /\ \A i \in 1 .. Len(id.user) : id.user[i] # c
    /\ \A i \in 1 .. Len(id.host) : id.host[i] # c

\* The user part, and what is before it in the user.
LEMMA UserPartIs ==
  ASSUME NEW user \in Seq(Chars)
  PROVE  /\ UserPart(user) \in Seq(Chars)
         /\ \E p \in {0, 1} : /\ Len(user) = p + Len(UserPart(user))
                              /\ \A i \in 1 .. Len(UserPart(user)) : UserPart(user)[i] = user[p + i]
<1>1. CASE At(user, 1) = "~"
  <2>1. user # <<>>
    <3>1. "~" # NUL
      BY MaskAssumption
    <3> QED BY <1>1, <3>1 DEF At
  <2>2. PICK t : t = Tail(user)
    OBVIOUS
  <2>3. t \in Seq(Chars) /\ Len(user) = 1 + Len(t) /\ \A i \in 1 .. Len(t) : t[i] = user[1 + i]
    BY <2>1, <2>2
  <2>4. UserPart(user) = t
    BY <1>1, <2>2 DEF UserPart
  <2> QED BY <2>3, <2>4
<1>2. CASE At(user, 1) # "~"
  <2>1. UserPart(user) = user
    BY <1>2 DEF UserPart
  <2>2. Len(user) = 0 + Len(user) /\ \A i \in 1 .. Len(user) : user[i] = user[0 + i]
    OBVIOUS
  <2> QED BY <2>1, <2>2
<1> QED BY <1>1, <1>2

Marks(star, bang, at) == star = "*" /\ bang = "!" /\ at = "@"

\* The places of two texts, and of one character between two.
LEMMA Joined ==
  ASSUME NEW a \in Seq(Chars), NEW b \in Seq(Chars), NEW s, s = a \o b
  PROVE  /\ s \in Seq(Chars) /\ Len(a) \in Nat /\ Len(b) \in Nat /\ Len(s) = Len(a) + Len(b)
         /\ \A i \in 1 .. Len(a) : s[i] = a[i]
         /\ \A i \in 1 .. Len(b) : s[Len(a) + i] = b[i]
OBVIOUS

JoinedAs(a, b, s) ==
  /\ s \in Seq(Chars) /\ Len(s) = Len(a) + Len(b)
  /\ \A i \in 1 .. Len(a) : s[i] = a[i]
  /\ \A i \in 1 .. Len(b) : s[Len(a) + i] = b[i]

LEMMA JoinedParts ==
  ASSUME NEW a \in Seq(Chars), NEW b \in Seq(Chars)
  PROVE  JoinedAs(a, b, a \o b)
BY Joined DEF JoinedAs

LEMMA Around ==
  ASSUME NEW a \in Seq(Chars), NEW x \in Chars, NEW b \in Seq(Chars), NEW s, s = a \o <<x>> \o b
  PROVE  /\ s \in Seq(Chars) /\ Len(a) \in Nat /\ Len(b) \in Nat
         /\ Len(s) = Len(a) + 1 + Len(b)
         /\ \A i \in 1 .. Len(a) : s[i] = a[i]
         /\ s[Len(a) + 1] = x
         /\ \A i \in 1 .. Len(b) : s[Len(a) + 1 + i] = b[i]
<1>1. PICK y : y = <<x>>
  OBVIOUS
<1>2. y \in Seq(Chars) /\ Len(y) = 1 /\ y[1] = x
  BY <1>1
<1>3. PICK t : t = a \o y
  OBVIOUS
<1>4. /\ t \in Seq(Chars) /\ Len(t) = Len(a) + 1 /\ Len(a) \in Nat
      /\ \A i \in 1 .. Len(a) : t[i] = a[i]
      /\ \A i \in 1 .. 1 : t[Len(a) + i] = y[i]
  <2>0. y \in Seq(Chars)
    BY <1>2
  <2>1. /\ t \in Seq(Chars) /\ Len(t) = Len(a) + Len(y) /\ Len(a) \in Nat
        /\ \A i \in 1 .. Len(a) : t[i] = a[i]
        /\ \A i \in 1 .. Len(y) : t[Len(a) + i] = y[i]
    BY <2>0, <1>3, Joined
  <2>2. Len(y) = 1
    BY <1>2
  <2> QED BY <2>1, <2>2
<1>5. t[Len(a) + 1] = x
  BY <1>2, <1>4
<1>6. s = t \o b
  BY <1>1, <1>3
<1>7. /\ s \in Seq(Chars) /\ Len(s) = Len(t) + Len(b) /\ Len(b) \in Nat
      /\ \A i \in 1 .. Len(t) : s[i] = t[i]
      /\ \A i \in 1 .. Len(b) : s[Len(t) + i] = b[i]
  BY <1>4, <1>6, Joined
<1>8. \A i \in 1 .. Len(a) : i \in 1 .. Len(t)
  BY <1>4
<1>9. Len(a) + 1 \in 1 .. Len(t)
  BY <1>4
<1> QED BY <1>4, <1>5, <1>7, <1>8, <1>9

\* *!*u@tail, where u has U characters and tail T, and nick!user@host, where they have N,
\* P and H.
MaskPlaces(star, bang, at, u, U, tail, T) ==
  /\ Len(mask) = U + 4 + T /\ mask[1] = star /\ mask[2] = bang /\ mask[3] = star /\ mask[U + 4] = at
  /\ \A i \in 1 .. U : mask[i + 3] = u[i]
  /\ \A i \in 1 .. T : mask[U + 4 + i] = tail[i]
ValPlaces(bang, at, N, user, P, host, H) ==
  /\ Len(val) = N + P + 2 + H /\ val[N + 1] = bang /\ val[N + P + 2] = at
  /\ \A i \in 1 .. P : val[N + 1 + i] = user[i]
  /\ \A i \in 1 .. H : val[N + P + 2 + i] = host[i]

LEMMA MaskIs ==
  ASSUME NEW star \in Chars, NEW bang \in Chars, NEW at \in Chars,
         NEW u \in Seq(Chars), NEW tail \in Seq(Chars),
         mask = <<star, bang, star>> \o u \o <<at>> \o tail
  PROVE  MaskPlaces(star, bang, at, u, Len(u), tail, Len(tail))
<1>1. PICK s : s = <<star, bang, star>>
  OBVIOUS
<1>2. s \in Seq(Chars) /\ Len(s) = 3 /\ s[1] = star /\ s[2] = bang /\ s[3] = star
  BY <1>1
<1>3. PICK t : t = s \o u
  OBVIOUS
<1>4. /\ t \in Seq(Chars) /\ Len(t) = 3 + Len(u) /\ Len(u) \in Nat
      /\ \A i \in 1 .. 3 : t[i] = s[i]
      /\ \A i \in 1 .. Len(u) : t[3 + i] = u[i]
  <2>0. s \in Seq(Chars)
    BY <1>2
  <2>1. /\ t \in Seq(Chars) /\ Len(t) = Len(s) + Len(u) /\ Len(u) \in Nat
        /\ \A i \in 1 .. Len(s) : t[i] = s[i]
        /\ \A i \in 1 .. Len(u) : t[Len(s) + i] = u[i]
    BY <2>0, <1>3, Joined
  <2>2. Len(s) = 3
    BY <1>2
  <2> QED BY <2>1, <2>2
<1>5. PICK y : y = <<at>>
  OBVIOUS
<1>6. mask = t \o <<at>> \o tail
  BY <1>1, <1>3
<1>7. /\ Len(tail) \in Nat /\ Len(mask) = Len(t) + 1 + Len(tail)
      /\ \A i \in 1 .. Len(t) : mask[i] = t[i]
      /\ mask[Len(t) + 1] = at
      /\ \A i \in 1 .. Len(tail) : mask[Len(t) + 1 + i] = tail[i]
  BY <1>4, <1>6, Around
<1>8. mask[1] = star /\ mask[2] = bang /\ mask[3] = star
  <2>1. 1 \in 1 .. Len(t) /\ 2 \in 1 .. Len(t) /\ 3 \in 1 .. Len(t)
        /\ 1 \in 1 .. 3 /\ 2 \in 1 .. 3 /\ 3 \in 1 .. 3
    BY <1>4
  <2>2. t[1] = s[1] /\ t[2] = s[2] /\ t[3] = s[3]
    BY <1>4, <2>1
  <2> QED BY <1>2, <1>7, <2>1, <2>2
<1>9. ASSUME NEW i \in 1 .. Len(u) PROVE mask[i + 3] = u[i]
  <2>1. 3 + i \in 1 .. Len(t) /\ i + 3 = 3 + i
    BY <1>4
  <2> QED BY <1>4, <1>7, <2>1
<1>10. Len(t) + 1 = Len(u) + 4 /\ Len(mask) = Len(u) + 4 + Len(tail)
  BY <1>4, <1>7
<1> QED BY <1>7, <1>8, <1>9, <1>10 DEF MaskPlaces

LEMMA ValIs ==
  ASSUME NEW bang \in Chars, NEW at \in Chars, NEW nick \in Seq(Chars), NEW user \in Seq(Chars),
         NEW host \in Seq(Chars), val = nick \o <<bang>> \o user \o <<at>> \o host
  PROVE  ValPlaces(bang, at, Len(nick), user, Len(user), host, Len(host))
<1>1. PICK t : t = nick \o <<bang>> \o user
  OBVIOUS
<1>2. /\ t \in Seq(Chars) /\ Len(t) \in Nat /\ Len(nick) \in Nat /\ Len(user) \in Nat
      /\ Len(t) = Len(nick) + 1 + Len(user)
      /\ t[Len(nick) + 1] = bang
      /\ \A i \in 1 .. Len(user) : t[Len(nick) + 1 + i] = user[i]
  BY <1>1, Around
<1>3. val = t \o <<at>> \o host
  BY <1>1
<1>4. /\ Len(host) \in Nat /\ Len(val) = Len(t) + 1 + Len(host)
      /\ \A i \in 1 .. Len(t) : val[i] = t[i]
      /\ val[Len(t) + 1] = at
      /\ \A i \in 1 .. Len(host) : val[Len(t) + 1 + i] = host[i]
  <2>1. t \in Seq(Chars)
    BY <1>2
  <2>2. PICK s : s = val
    OBVIOUS
  <2>3. s = t \o <<at>> \o host
    BY <1>3, <2>2
  <2>4. /\ Len(host) \in Nat /\ Len(s) = Len(t) + 1 + Len(host)
        /\ \A i \in 1 .. Len(t) : s[i] = t[i]
        /\ s[Len(t) + 1] = at
        /\ \A i \in 1 .. Len(host) : s[Len(t) + 1 + i] = host[i]
    BY <2>1, <2>3, Around
  <2> QED BY <2>2, <2>4
<1>5. Len(nick) + 1 \in 1 .. Len(t) /\ \A i \in 1 .. Len(user) : Len(nick) + 1 + i \in 1 .. Len(t)
  BY <1>2
<1>6. /\ Len(val) = Len(nick) + Len(user) + 2 + Len(host)
      /\ Len(t) + 1 = Len(nick) + Len(user) + 2
  BY <1>2, <1>4
<1> QED BY <1>2, <1>4, <1>5, <1>6 DEF ValPlaces

Without(s, n, star, bang, at) == \A i \in 1 .. n : s[i] # star /\ s[i] # bang /\ s[i] # at

\* Of the tail, the first k characters are those of the host; all, or a star is next and
\* the rest is the end of the host.
TailIs(tail, T, host, H, k, star) ==
  /\ \A i \in 1 .. k : tail[i] = host[i]
  /\ k = T => k = H
  /\ k < T => tail[k + 1] = star /\ T <= H + 1
  /\ \A i \in k + 2 .. T : tail[i] = host[i + (H - T)]

\* All of these: u is the user without what is before it, of length p.
PartsOf(star, bang, at, u, U, p, user, P, host, H, tail, T, k, N, c) ==
  /\ star # bang /\ star # at /\ bang # at
  /\ N \in Nat /\ U \in Nat /\ H \in Nat /\ T \in Nat /\ P \in Nat /\ p \in Nat /\ k \in Nat /\ c \in Int
  /\ (p = 0 \/ p = 1) /\ P = p + U /\ k <= T /\ k <= H /\ c = N + p - 2
  /\ MaskPlaces(star, bang, at, u, U, tail, T) /\ ValPlaces(bang, at, N, user, P, host, H)
  /\ \A i \in 1 .. U : u[i] = user[p + i]
  /\ Without(user, P, star, bang, at) /\ Without(host, H, star, bang, at)
  /\ TailIs(tail, T, host, H, k, star)

LEMMA Onward ==
  ASSUME NEW x \in Int, NEW n \in Nat, NEW i \in Int, x < i, i <= x + n
  PROVE  \E j \in 1 .. n : i = x + j
<1>1. i - x \in 1 .. n /\ i = x + (i - x)
  OBVIOUS
<1> QED BY <1>1

\* The value has no marks in the user and in the host.
Unmarked(star, bang, at, N, user, P, host, H) ==
  /\ bang # at /\ N \in Nat /\ P \in Nat /\ H \in Nat
  /\ ValPlaces(bang, at, N, user, P, host, H)
  /\ Without(user, P, star, bang, at) /\ Without(host, H, star, bang, at)

LEMMA NoMarkBehind ==
  ASSUME NEW star, NEW bang, NEW at, NEW N, NEW user, NEW P, NEW host, NEW H,
         Unmarked(star, bang, at, N, user, P, host, H)
  PROVE  \A i \in N + 2 .. Len(val) : val[i] # bang /\ (i > N + P + 2 => val[i] # at)
<1> SUFFICES ASSUME NEW i \in N + 2 .. Len(val)
             PROVE  val[i] # bang /\ (i > N + P + 2 => val[i] # at)
  OBVIOUS
<1>0. /\ bang # at /\ N \in Nat /\ P \in Nat /\ H \in Nat /\ Len(val) = N + P + 2 + H
      /\ ValPlaces(bang, at, N, user, P, host, H)
      /\ Without(user, P, star, bang, at) /\ Without(host, H, star, bang, at)
  BY DEF Unmarked, ValPlaces
<1>1. i \in Int /\ N + 1 < i /\ i <= N + P + 2 + H
  BY <1>0
<1>2. CASE i <= N + 1 + P
  <2>1. PICK j \in 1 .. P : i = N + 1 + j
    BY <1>0, <1>1, <1>2, Onward
  <2>2. val[i] = user[j]
    BY <1>0, <2>1 DEF ValPlaces
  <2>3. ~(i > N + P + 2)
    BY <1>0, <1>1, <1>2
  <2> QED BY <1>0, <2>1, <2>2, <2>3 DEF Without
<1>3. CASE i = N + P + 2
  <2>1. val[i] = at
    BY <1>0, <1>3 DEF ValPlaces
  <2>2. ~(i > N + P + 2)
    BY <1>0, <1>1, <1>3
  <2> QED BY <1>0, <2>1, <2>2
<1>4. CASE i > N + P + 2
  <2>1. PICK j \in 1 .. H : i = N + P + 2 + j
    BY <1>0, <1>1, <1>4, Onward
  <2>2. val[i] = host[j]
    BY <1>0, <2>1 DEF ValPlaces
  <2> QED BY <1>0, <2>1, <2>2 DEF Without
<1> QED BY <1>0, <1>1, <1>2, <1>3, <1>4

LEMMA MadeFor ==
  ASSUME NEW star, NEW bang, NEW at, NEW u, NEW U, NEW p, NEW user, NEW P, NEW host, NEW H,
         NEW tail, NEW T, NEW k, NEW N, NEW c,
         PartsOf(star, bang, at, u, U, p, user, P, host, H, tail, T, k, N, c)
  PROVE  MadeOf(star, bang, at, N, c, U + 4, U + 4 + k)
<1> SUFFICES ASSUME star # bang, star # at, bang # at,
                    N \in Nat, U \in Nat, H \in Nat, T \in Nat, P \in Nat, p \in Nat, k \in Nat,
                    c \in Int, p = 0 \/ p = 1, P = p + U, k <= T, k <= H, c = N + p - 2,
                    MaskPlaces(star, bang, at, u, U, tail, T), ValPlaces(bang, at, N, user, P, host, H),
                    \A i \in 1 .. U : u[i] = user[p + i],
                    Without(user, P, star, bang, at), Without(host, H, star, bang, at),
                    TailIs(tail, T, host, H, k, star)
             PROVE  MadeOf(star, bang, at, N, c, U + 4, U + 4 + k)
  BY DEF PartsOf
<1>1. Len(mask) = U + 4 + T /\ Len(val) = N + P + 2 + H
  BY DEF MaskPlaces, ValPlaces
<1>0. U + 4 + c = N + P + 2
  <2>1. U + c = N + (p + U) - 2
    OBVIOUS
  <2> QED BY <2>1
<1>2. ASSUME NEW j \in 4 .. U + 4 + k
      PROVE  j + c \in 1 .. Len(val) /\ mask[j] # star /\ mask[j] = val[j + c]
  <2>1. CASE j < U + 4
    <3>1. PICK i \in 1 .. U : j = i + 3
      <4>1. j - 3 \in 1 .. U /\ j = (j - 3) + 3
        BY <2>1
      <4> QED BY <4>1
    <3>2. p + i \in 1 .. P /\ j + c = N + 1 + (p + i) /\ j + c \in 1 .. Len(val)
      BY <1>1, <3>1
    <3>3. mask[j] = u[i]
      BY <3>1 DEF MaskPlaces
    <3>4. val[j + c] = user[p + i]
      BY <3>2 DEF ValPlaces
    <3>5. user[p + i] # star
      BY <3>2 DEF Without
    <3> QED BY <3>2, <3>3, <3>4, <3>5
  <2>2. CASE j = U + 4
    <3>1. j + c = N + P + 2 /\ j + c \in 1 .. Len(val)
      BY <1>1, <2>2
    <3>2. val[j + c] = at /\ mask[j] = at
      BY <2>2, <3>1 DEF ValPlaces, MaskPlaces
    <3> QED BY <3>1, <3>2
  <2>3. CASE j > U + 4
    <3>1. PICK i \in 1 .. k : j = U + 4 + i
      <4>1. j - (U + 4) \in 1 .. k /\ j = U + 4 + (j - (U + 4))
        BY <2>3
      <4> QED BY <4>1
    <3>2. i \in 1 .. T /\ i \in 1 .. H /\ j + c = N + P + 2 + i /\ j + c \in 1 .. Len(val)
      BY <1>1, <3>1
    <3>3. mask[j] = tail[i]
      BY <3>1, <3>2 DEF MaskPlaces
    <3>4. val[j + c] = host[i]
      BY <3>2 DEF ValPlaces
    <3>5. tail[i] = host[i]
      BY DEF TailIs
    <3>6. host[i] # star
      BY <3>2 DEF Without
    <3> QED BY <3>2, <3>3, <3>4, <3>5, <3>6
  <2> QED BY <2>1, <2>2, <2>3
<1>3. ASSUME NEW i \in N + 2 .. Len(val) PROVE val[i] # bang /\ (i > U + 4 + c => val[i] # at)
  <2>1. Unmarked(star, bang, at, N, user, P, host, H)
    BY DEF Unmarked
  <2>2. \A j \in N + 2 .. Len(val) : val[j] # bang /\ (j > N + P + 2 => val[j] # at)
    BY <2>1, NoMarkBehind
  <2> QED BY <1>0, <2>2
<1>4. ASSUME NEW j \in U + 4 + k + 2 .. Len(mask)
      PROVE  mask[j] # star /\ mask[j] = val[j + (Len(val) - Len(mask))]
  <2>1. PICK i \in k + 2 .. T : j = U + 4 + i
    <3>1. j - (U + 4) \in k + 2 .. T /\ j = U + 4 + (j - (U + 4))
      BY <1>1
    <3> QED BY <3>1
  <2>2. T <= H + 1
    <3>1. k < T
      BY <2>1
    <3> QED BY <3>1 DEF TailIs
  <2>3. PICK h \in 1 .. H : h = i + (H - T)
    <3>1. i \in Int /\ k + 2 <= i /\ i <= T
      BY <2>1
    <3>2. i + (H - T) \in Int /\ 1 <= i + (H - T) /\ i + (H - T) <= H
      BY <2>2, <3>1
    <3> QED BY <3>2
  <2>4. i \in 1 .. T /\ j + (Len(val) - Len(mask)) = N + P + 2 + h
    BY <1>1, <2>1, <2>3
  <2>5. mask[j] = tail[i]
    BY <2>1, <2>4 DEF MaskPlaces
  <2>6. val[j + (Len(val) - Len(mask))] = host[h]
    BY <2>3, <2>4 DEF ValPlaces
  <2>7. tail[i] = host[h]
    BY <2>1, <2>3 DEF TailIs
  <2>8. host[h] # star
    BY DEF Without
  <2> QED BY <2>5, <2>6, <2>7, <2>8
<1>5. /\ mask[1] = star /\ mask[2] = bang /\ mask[3] = star /\ mask[U + 4] = at
      /\ val[N + 1] = bang
  BY DEF MaskPlaces, ValPlaces
<1>6. /\ N - 2 <= c /\ U + 4 + k \in Nat /\ U + 4 + k <= Len(mask) /\ U + 4 \in 4 .. U + 4 + k
      /\ N + 1 \in 1 .. Len(val)
  <2>1. N - 2 <= c
    OBVIOUS
  <2>2. U + 4 + k \in Nat /\ U + 4 + k <= Len(mask) /\ U + 4 \in 4 .. U + 4 + k
    BY <1>1
  <2>3. N + 1 \in 1 .. Len(val)
    BY <1>1
  <2> QED BY <2>1, <2>2, <2>3
<1>7. U + 4 + k = Len(mask) => Len(val) = U + 4 + k + c
  <2>1. SUFFICES ASSUME U + 4 + k = Len(mask) PROVE Len(val) = U + 4 + k + c
    OBVIOUS
  <2>2. k = T
    BY <1>1, <2>1
  <2>3. H = k
    BY <2>2 DEF TailIs
  <2>4. Len(val) = (U + 4 + c) + k
    BY <1>0, <1>1, <2>3
  <2> QED BY <2>4
<1>8. ASSUME U + 4 + k < Len(mask)
      PROVE  /\ mask[U + 4 + k + 1] = star
             /\ U + 4 + k + c <= U + 4 + k + 1 + (Len(val) - Len(mask))
  <2>1. k < T
    BY <1>1, <1>8
  <2>2. tail[k + 1] = star /\ T <= H + 1
    BY <2>1 DEF TailIs
  <2>3. mask[U + 4 + (k + 1)] = tail[k + 1]
    <3>1. k + 1 \in 1 .. T
      BY <2>1
    <3> QED BY <3>1 DEF MaskPlaces
  <2>4. U + 4 + k + 1 = U + 4 + (k + 1)
    OBVIOUS
  <2> QED BY <1>1, <2>2, <2>3, <2>4
<1>9. ASSUME NEW i \in 1 .. Len(val)
      PROVE  (i > N + 1 => val[i] # bang) /\ (i > U + 4 + c => val[i] # at)
  <2>0. i \in Int /\ i <= Len(val) /\ Len(val) \in Nat
    BY <1>1
  <2>1. i > N + 1 => i \in N + 2 .. Len(val)
    BY <2>0
  <2>2. i > U + 4 + c => i > N + 1
    BY <1>0
  <2> QED BY <1>3, <2>1, <2>2
<1> QED BY <1>2, <1>3, <1>4, <1>5, <1>6, <1>7, <1>8, <1>9 DEF MadeOf


(***************************************************************************)
(* What mask_create takes of the host                                      *)
(***************************************************************************)
LEMMA WholeHost ==
  ASSUME NEW host \in Seq(Chars), NEW star \in Chars
  PROVE  TailIs(host, Len(host), host, Len(host), Len(host), star)
BY DEF TailIs

LEMMA DomainOfHost ==
  ASSUME NEW host \in Seq(Chars), NEW star \in Chars, NEW p \in 1 .. Len(host),
         NEW d \in Seq(Chars), d = SubSeq(host, p, Len(host)), NEW y \in Seq(Chars), y = <<star>>,
         NEW tail, tail = y \o d
  PROVE  tail \in Seq(Chars) /\ TailIs(tail, Len(tail), host, Len(host), 0, star)
<1>2. /\ Len(d) = Len(host) - p + 1
      /\ \A i \in 1 .. Len(host) - p + 1 : d[i] = host[p - 1 + i]
  OBVIOUS
<1>4. Len(y) = 1 /\ y[1] = star
  OBVIOUS
<1>5. /\ tail \in Seq(Chars) /\ Len(tail) = Len(y) + Len(d)
      /\ \A i \in 1 .. Len(y) : tail[i] = y[i]
      /\ \A i \in 1 .. Len(d) : tail[Len(y) + i] = d[i]
  BY Joined
<1>6. PICK H \in Nat : H = Len(host)
  OBVIOUS
<1>7. PICK T : T = Len(tail)
  OBVIOUS
<1>8. Len(y) = 1 /\ Len(d) = H - p + 1 /\ p \in 1 .. H
  BY <1>2, <1>4, <1>6
<1>9. T = H - p + 2 /\ tail[1] = star /\ T \in Nat
  BY <1>4, <1>5, <1>7, <1>8
<1>10. ASSUME NEW i \in 2 .. T PROVE tail[i] = host[i + (H - T)]
  <2>1. PICK j \in 1 .. H - p + 1 : i = 1 + j
    <3>1. i - 1 \in 1 .. H - p + 1 /\ i = 1 + (i - 1)
      BY <1>8, <1>9
    <3> QED BY <3>1
  <2>2. tail[i] = d[j] /\ d[j] = host[p - 1 + j]
    BY <1>2, <1>5, <1>6, <1>8, <2>1
  <2>3. p - 1 + j = i + (H - T)
    BY <1>8, <1>9, <2>1
  <2> QED BY <2>2, <2>3
<1> QED BY <1>5, <1>6, <1>7, <1>8, <1>9, <1>10 DEF TailIs

LEMMA NetOfHost ==
  ASSUME NEW host \in Seq(Chars), NEW star \in Chars, NEW dot \in Chars, NEW p \in 1 .. Len(host),
         host[p] = dot, NEW tail, tail = SubSeq(host, 1, p - 1) \o <<dot, star>>
  PROVE  tail \in Seq(Chars) /\ TailIs(tail, Len(tail), host, Len(host), p, star) /\ p <= Len(tail)
<1>1. PICK d : d = SubSeq(host, 1, p - 1)
  OBVIOUS
<1>2. d \in Seq(Chars) /\ Len(d) = p - 1 /\ \A i \in 1 .. p - 1 : d[i] = host[i]
  BY <1>1
<1>3. PICK y : y = <<dot, star>>
  OBVIOUS
<1>4. y \in Seq(Chars) /\ Len(y) = 2 /\ y[1] = dot /\ y[2] = star
  BY <1>3
<1>5. /\ tail \in Seq(Chars) /\ Len(tail) = Len(d) + Len(y)
      /\ \A i \in 1 .. Len(d) : tail[i] = d[i]
      /\ \A i \in 1 .. Len(y) : tail[Len(d) + i] = y[i]
  <2>1. y \in Seq(Chars)
    BY <1>4
  <2>2. d \in Seq(Chars)
    BY <1>2
  <2>3. tail = d \o y
    BY <1>1, <1>3
  <2>4. JoinedAs(d, y, d \o y)
    BY <2>1, <2>2, JoinedParts, Zenon
  <2> QED BY <2>3, <2>4, Zenon DEF JoinedAs
<1>6. PICK H \in Nat : H = Len(host)
  OBVIOUS
<1>7. PICK T : T = Len(tail)
  OBVIOUS
<1>8. Len(y) = 2 /\ Len(d) = p - 1 /\ p \in 1 .. H
  BY <1>2, <1>4, <1>6
<1>9. /\ T = p + 1 /\ \A i \in 1 .. p - 1 : tail[i] = d[i]
      /\ \A i \in 1 .. 2 : tail[p - 1 + i] = y[i]
  BY <1>5, <1>7, <1>8
<1>10. tail[p] = dot /\ tail[p + 1] = star
  <2>1. p - 1 + 1 = p /\ p - 1 + 2 = p + 1
    BY <1>8
  <2>2. tail[p - 1 + 1] = y[1] /\ tail[p - 1 + 2] = y[2]
    BY <1>9
  <2> QED BY <1>4, <2>1, <2>2
<1>11. ASSUME NEW i \in 1 .. p PROVE tail[i] = host[i]
  <2>1. i = p \/ i \in 1 .. p - 1
    BY <1>8
  <2> QED BY <1>2, <1>9, <1>10, <2>1
<1> QED BY <1>5, <1>6, <1>7, <1>8, <1>9, <1>10, <1>11 DEF TailIs

(***************************************************************************)
(* Whom a mask is made for                                                 *)
(***************************************************************************)
IsMade == \E nick, c, at, q : Made(nick, c, at, q)

LEMMA PlainText ==
  ASSUME NEW id \in Idents, PlainIdent(id), NEW star, NEW bang, NEW at, Marks(star, bang, at)
  PROVE  /\ Without(id.user, Len(id.user), star, bang, at)
         /\ Without(id.host, Len(id.host), star, bang, at)
         /\ star # bang /\ star # at /\ bang # at
BY DEF PlainIdent, Marks, Without

LEMMA MadeByTail ==
  ASSUME NEW id \in Idents, PlainIdent(id), NEW star \in Chars, NEW bang \in Chars, NEW at \in Chars,
         Marks(star, bang, at), NEW tail \in Seq(Chars),
         mask = <<star, bang, star>> \o UserPart(id.user) \o <<at>> \o tail,
         val = id.nick \o <<bang>> \o id.user \o <<at>> \o id.host,
         NEW k \in Nat, k <= Len(tail), k <= Len(id.host),
         TailIs(tail, Len(tail), id.host, Len(id.host), k, star)
  PROVE  IsMade
<1>1. id.nick \in Seq(Chars) /\ id.user \in Seq(Chars) /\ id.host \in Seq(Chars)
  BY MaskAssumption
<1>2. PICK u : u = UserPart(id.user)
  OBVIOUS
<1>3. u \in Seq(Chars)
  BY <1>1, <1>2, UserPartIs
<1>4. PICK p \in {0, 1} : /\ Len(id.user) = p + Len(u)
                          /\ \A i \in 1 .. Len(u) : u[i] = id.user[p + i]
  BY <1>1, <1>2, UserPartIs
<1>5. MaskPlaces(star, bang, at, u, Len(u), tail, Len(tail))
  BY <1>2, <1>3, MaskIs
<1>6. ValPlaces(bang, at, Len(id.nick), id.user, Len(id.user), id.host, Len(id.host))
  BY <1>1, ValIs
<1>7. /\ Without(id.user, Len(id.user), star, bang, at)
      /\ Without(id.host, Len(id.host), star, bang, at)
      /\ star # bang /\ star # at /\ bang # at
  BY PlainText
<1>8. /\ Len(id.nick) \in Nat /\ Len(u) \in Nat /\ Len(id.host) \in Nat /\ Len(tail) \in Nat
      /\ Len(id.user) \in Nat
  BY <1>1, <1>3
<1>9. PICK c \in Int : c = Len(id.nick) + p - 2
  <2>1. Len(id.nick) + p - 2 \in Int
    BY <1>8
  <2> QED BY <2>1
<1>10. PartsOf(star, bang, at, u, Len(u), p, id.user, Len(id.user), id.host, Len(id.host),
               tail, Len(tail), k, Len(id.nick), c)
  BY <1>4, <1>5, <1>6, <1>7, <1>8, <1>9 DEF PartsOf
<1>11. MadeOf(star, bang, at, Len(id.nick), c, Len(u) + 4, Len(u) + 4 + k)
  BY <1>10, MadeFor
<1>12. Made(Len(id.nick), c, Len(u) + 4, Len(u) + 4 + k)
  BY <1>11 DEF Made, Marks
<1> QED BY <1>12 DEF IsMade

\* a \o b \o c is what a is joined with.
LEMMA Rejoined ==
  ASSUME NEW a \in Seq(Chars), NEW b \in Seq(Chars), NEW c \in Seq(Chars)
  PROVE  (a \o b) \o c = a \o (b \o c)
OBVIOUS

LEMMA MadeWithDomain ==
  ASSUME NEW id \in Idents, PlainIdent(id),
         mask = DomainMask(id.user, id.host), val = Text(id)
  PROVE  IsMade
<1>1. PICK star \in Chars, bang \in Chars, at \in Chars : Marks(star, bang, at)
  BY MaskAssumption DEF Marks
<1>2. val = id.nick \o <<bang>> \o id.user \o <<at>> \o id.host
  BY <1>1 DEF Text, Marks
<1>3. PICK host \in Seq(Chars) : host = id.host
  BY MaskAssumption
<1>4. PICK p : p = IF DotsOf(host) = {} THEN Len(host) + 1 ELSE Least(DotsOf(host))
  OBVIOUS
<1>5. p \in 1 .. Len(host) + 1
  <2>1. CASE DotsOf(host) = {}
    BY <1>4, <2>1
  <2>2. CASE DotsOf(host) # {}
    <3>1. DotsOf(host) \in SUBSET Nat /\ DotsOf(host) \subseteq 1 .. Len(host)
      BY DEF DotsOf
    <3>2. Least(DotsOf(host)) \in DotsOf(host)
      BY <2>2, <3>1, LeastNat
    <3> QED BY <1>4, <2>2, <3>1, <3>2
  <2> QED BY <2>1, <2>2
<1>6. PICK d : d = SubSeq(host, p, Len(host))
  OBVIOUS
<1>7. PICK tail : tail = IF Len(d) <= 4 THEN host ELSE <<"*">> \o d
  OBVIOUS
<1>8. mask = <<star, bang, star>> \o UserPart(id.user) \o <<at>> \o tail
  BY <1>1, <1>3, <1>4, <1>6, <1>7 DEF DomainMask, Marks
<1>9. CASE Len(d) <= 4
  <2>1. tail = host
    BY <1>7, <1>9
  <2>2. TailIs(tail, Len(tail), id.host, Len(id.host), Len(host), star)
    BY <1>3, <2>1, WholeHost
  <2>3. Len(host) \in Nat /\ Len(host) <= Len(tail) /\ Len(host) <= Len(id.host) /\ tail \in Seq(Chars)
    BY <1>3, <2>1
  <2> QED BY <1>1, <1>2, <1>8, <2>2, <2>3, MadeByTail
<1>10. CASE ~(Len(d) <= 4)
  <2>1. p \in 1 .. Len(host) /\ d \in Seq(Chars)
    <3>1. d \in Seq(Chars)
      BY <1>5, <1>6
    <3>2. p = Len(host) + 1 => Len(d) = 0
      BY <1>6
    <3> QED BY <1>5, <1>10, <3>1, <3>2
  <2>2. PICK y \in Seq(Chars) : y = <<star>>
    <3>1. <<star>> \in Seq(Chars)
      OBVIOUS
    <3> QED BY <3>1
  <2>3. tail = y \o d
    BY <1>1, <1>7, <1>10, <2>2 DEF Marks
  <2>4. tail \in Seq(Chars) /\ TailIs(tail, Len(tail), host, Len(host), 0, star)
    BY <1>6, <2>1, <2>2, <2>3, DomainOfHost
  <2>5. 0 <= Len(tail) /\ 0 <= Len(id.host)
    BY <1>3, <2>4
  <2> QED BY <1>1, <1>2, <1>3, <1>8, <2>4, <2>5, MadeByTail
<1> QED BY <1>9, <1>10

LEMMA MadeWithNet ==
  ASSUME NEW id \in Idents, PlainIdent(id), DotsOf(id.host) # {},
         mask = NumericMask(id.user, id.host), val = Text(id)
  PROVE  IsMade
<1>1. PICK star \in Chars, bang \in Chars, at \in Chars : Marks(star, bang, at)
  BY MaskAssumption DEF Marks
<1>2. val = id.nick \o <<bang>> \o id.user \o <<at>> \o id.host
  BY <1>1 DEF Text, Marks
<1>3. PICK host \in Seq(Chars) : host = id.host
  BY MaskAssumption
<1>4. PICK dot \in Chars : dot = "."
  BY MaskAssumption
<1>5. PICK p : p = Greatest(DotsOf(host))
  OBVIOUS
<1>6. p \in 1 .. Len(host) /\ host[p] = dot
  <2>1. Len(host) \in Nat /\ DotsOf(host) \in SUBSET (0 .. Len(host)) /\ DotsOf(host) # {}
    BY <1>3 DEF DotsOf
  <2>2. p \in DotsOf(host)
    BY <1>5, <2>1, GreatestUpTo
  <2> QED BY <1>4, <2>2 DEF DotsOf
<1>7. PICK tail : tail = SubSeq(host, 1, p - 1) \o <<dot, star>>
  OBVIOUS
<1>8. tail \in Seq(Chars) /\ TailIs(tail, Len(tail), host, Len(host), p, star) /\ p <= Len(tail)
  BY <1>6, <1>7, NetOfHost
<1>9. mask = <<star, bang, star>> \o UserPart(id.user) \o <<at>> \o tail
  <2>1. PICK a : a = <<star, bang, star>> \o UserPart(id.user) \o <<at>>
    OBVIOUS
  <2>2. PICK b : b = SubSeq(host, 1, p - 1)
    OBVIOUS
  <2>3. PICK c : c = <<dot, star>>
    OBVIOUS
  <2>4. mask = (a \o b) \o c
    BY <1>1, <1>3, <1>4, <1>5, <2>1, <2>2, <2>3 DEF NumericMask, Marks
  <2>5. a \in Seq(Chars)
    <3>1. UserPart(id.user) \in Seq(Chars)
      BY MaskAssumption, UserPartIs
    <3>2. <<star, bang, star>> \in Seq(Chars) /\ <<at>> \in Seq(Chars)
      OBVIOUS
    <3> QED BY <2>1, <3>1, <3>2
  <2>6. b \in Seq(Chars)
    BY <1>6, <2>2
  <2>7. c \in Seq(Chars)
    BY <2>3
  <2>8. mask = a \o (b \o c)
    BY <2>4, <2>5, <2>6, <2>7, Rejoined
  <2> QED BY <1>7, <2>1, <2>2, <2>3, <2>8
<1>10. p \in Nat /\ p <= Len(id.host)
  BY <1>3, <1>6
<1> QED BY <1>1, <1>2, <1>3, <1>8, <1>9, <1>10, MadeByTail

LEMMA CreatedIsMade ==
  ASSUME NEW id \in Idents, PlainIdent(id), mask = MaskCreate(id), val = Text(id),
         id.host[Len(id.host)] \in Digits => DotsOf(id.host) # {}
  PROVE  IsMade
BY MadeWithDomain, MadeWithNet DEF MaskCreate

\* The arguments of a mask that is made.
MadeInv == ident # NoIdent => ident \in Idents /\ mask = MaskCreate(ident) /\ val = Text(ident)

LEMMA InitMade == Init => MadeInv
BY DEF Init, MadeInv

LEMMA NextMade == MadeInv /\ [Next]_vars => MadeInv'
<1> SUFFICES ASSUME MadeInv, [Next]_vars PROVE MadeInv'
  OBVIOUS
<1>1. UNCHANGED args
  BY DEF Next, Regex, Start, Top, Literal, LiteralEnd, Stars, Search, Finish, Goto, vars, args
<1>2. ident' = ident /\ mask' = mask /\ val' = val
  BY <1>1 DEF args
<1> QED BY <1>2 DEF MadeInv

LEMMA MadeFound ==
  ASSUME TypeOK, MadeInv, Finds, \A id \in Idents : PlainIdent(id), pc = "done", ident # NoIdent,
         ident.host[Len(ident.host)] \in Digits => DotsOf(ident.host) # {}
  PROVE  result = 1
<1>1. ident \in Idents /\ mask = MaskCreate(ident) /\ val = Text(ident)
  BY DEF MadeInv
<1>2. IsMade
  BY <1>1, CreatedIsMade
<1>3. Plain /\ \E f : Searched(f)
  BY <1>2, MadeSearched DEF IsMade
<1> QED BY <1>3 DEF Finds, Follows

(***************************************************************************)
(* The theorems                                                            *)
(***************************************************************************)

\* The invariant of mask_match (misc.c): within the texts, and all behind it fits.
THEOREM MaskInvariance == Spec => []MaskInv
<1>1. Init => MaskInv
  BY InitMask
<1>2. MaskInv /\ [Next]_vars => MaskInv'
  BY NextMask
<1> QED BY <1>1, <1>2, PTL DEF Spec

\* mask_match reads no character outside of its texts and ends with 0 or 1.
THEOREM WithinTexts == Spec => []TypeOK
<1>1. MaskInv => TypeOK
  BY DEF MaskInv
<1> QED BY <1>1, MaskInvariance, PTL

\* What mask_match takes for a match is one, for any mask but a regular expression,
\* be it of a script or made by mask_create.
THEOREM MatchesFit == Spec => [](Fits /\ Sound)
<1>1. MaskInv => Fits /\ Sound
  BY DEF MaskInv, Sound
<1> QED BY <1>1, MaskInvariance, PTL

\* The alignments that mask_match (misc.c) follows: wherever the whole mask fits the whole
\* value, and every segment where it is last found, the loops are on their way to say so.
THEOREM AlignmentsAreFollowed == Spec => []Finds
<1>1. Init => Finds
  BY InitFinds
<1>2. MaskInv /\ Finds /\ [Next]_vars => Finds'
  BY NextFinds
<1> QED BY <1>1, <1>2, MaskInvariance, PTL DEF Spec

\* Whom a mask with stars in one place fits is found by mask_match (misc.c), for all masks
\* and values in which no two letters differ only in their case.
THEOREM SimpleMasksMatch == Spec => []Complete
<1>1. TypeOK /\ Finds => Complete
  <2> SUFFICES ASSUME TypeOK, Finds, pc = "done", Simple, Matches PROVE result = 1
    BY DEF Complete
  <2>1. PICK f \in [0 .. Len(mask) -> 0 .. Len(val)] : Aligned(f, Len(mask), Len(val))
    BY DEF Matches
  <2>2. Alignment(f)
    BY <2>1 DEF Alignment
  <2>3. Plain /\ Searched(f)
    BY <2>2, SimpleSearched
  <2> QED BY <2>3 DEF Finds, Follows
<1> QED BY <1>1, WithinTexts, AlignmentsAreFollowed, PTL

\* The mask that mask_create (misc.c) makes for someone is found to fit him by mask_match,
\* whatever the nick is, for users and hosts as servers let them be.
THEOREM CreatedMasksMatch ==
  ASSUME \A id \in Idents : PlainIdent(id)
  PROVE  Spec => []CreatedMatches
<1>1. Init => MadeInv
  BY InitMade
<1>2. MadeInv /\ [Next]_vars => MadeInv'
  BY NextMade
<1>3. TypeOK /\ MadeInv /\ Finds => CreatedMatches
  BY MadeFound DEF CreatedMatches
<1> QED BY <1>1, <1>2, <1>3, WithinTexts, AlignmentsAreFollowed, PTL DEF Spec

=============================================================================
