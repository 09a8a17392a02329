----------------------------- MODULE TextDbProofs -----------------------------
(***************************************************************************)
(* The files of the text database stay well formed through every call and  *)
(* every crash, for any number of users, masks, calls and crashes: each    *)
(* file is its header and rows (or the beginning of that), every mask      *)
(* belongs to a user, a deletion that is reported leaves nothing behind,   *)
(* and a call for one user leaves the rows of the others as they are.      *)
(***************************************************************************)
EXTENDS TextDb, FiniteSetTheorems, SequenceTheorems, WellFoundedInduction, TLAPS

(***************************************************************************)
(* Numbers                                                                 *)
(***************************************************************************)
LEMMA FirstOf ==
  ASSUME NEW S \in SUBSET Nat, S # {}
  PROVE  Min(S) \in S /\ \A x \in S : Min(S) <= x
<1> DEFINE T == {0 .. n : n \in S}
<1>1. T \subseteq FiniteSubsetsOf(Nat) /\ T # {}
  <2>1. \A n \in S : IsFiniteSet(0 .. n)
    BY FS_Interval
  <2>2. \A n \in S : 0 .. n \in FiniteSubsetsOf(Nat)
    BY <2>1 DEF FiniteSubsetsOf
  <2> QED BY <2>2
<1>2. PICK x \in T : \A y \in T : <<y, x>> \notin StrictSubsetOrdering(Nat)
  <2> HIDE DEF T
  <2> QED BY <1>1, FS_StrictSubsetOrderingWellFounded, WFMin
<1>3. PICK n \in S : x = 0 .. n
  OBVIOUS
<1>4. ASSUME NEW k \in S PROVE n <= k
  <2>1. SUFFICES ASSUME k < n PROVE FALSE
    OBVIOUS
  <2>2. 0 .. k \subseteq 0 .. n /\ n \in 0 .. n /\ n \notin 0 .. k
    BY <2>1
  <2>3. <<0 .. k, x>> \in StrictSubsetOrdering(Nat)
    BY <1>3, <2>2 DEF StrictSubsetOrdering
  <2> QED BY <1>2, <2>3
<1> QED BY <1>4 DEF Min

LEMMA LastOf ==
  ASSUME NEW S \in SUBSET Nat, S # {}, IsFiniteSet(S)
  PROVE  Max(S) \in S /\ \A x \in S : x <= Max(S)
<1> DEFINE From(n) == {x \in S : x >= n}
           T == {From(n) : n \in S}
<1>1. T \subseteq FiniteSubsetsOf(Nat) /\ T # {}
  <2>1. \A n \in S : IsFiniteSet(From(n)) /\ From(n) \subseteq Nat
    BY FS_Subset
  <2>2. \A n \in S : From(n) \in FiniteSubsetsOf(Nat)
    BY <2>1 DEF FiniteSubsetsOf
  <2> QED BY <2>2
<1>2. PICK x \in T : \A y \in T : <<y, x>> \notin StrictSubsetOrdering(Nat)
  <2> HIDE DEF T
  <2> QED BY <1>1, FS_StrictSubsetOrderingWellFounded, WFMin
<1>3. PICK n \in S : x = From(n)
  OBVIOUS
<1>4. ASSUME NEW k \in S PROVE n >= k
  <2>1. SUFFICES ASSUME n < k PROVE FALSE
    OBVIOUS
  <2>2. From(k) \subseteq From(n) /\ n \in From(n) /\ n \notin From(k)
    <3>1. \A m \in S : m \in Nat /\ (m >= k => m >= n)
      BY <2>1
    <3>2. n >= n /\ ~(n >= k)
      BY <2>1
    <3> QED BY <3>1, <3>2
  <2>3. From(k) \subseteq Nat /\ From(n) \subseteq Nat /\ From(k) # From(n)
    BY <2>2
  <2>4. <<From(k), From(n)>> \in StrictSubsetOrdering(Nat)
    BY <2>2, <2>3 DEF StrictSubsetOrdering
  <2> QED BY <1>2, <1>3, <2>4
<1>5. n \in S /\ \A k \in S : n >= k
  BY <1>4
<1>6. \A k \in S : k \in Nat
  OBVIOUS
<1> QED
  <2> HIDE DEF T, From
  <2> QED BY <1>5, <1>6 DEF Max

(***************************************************************************)
(* Lines                                                                   *)
(***************************************************************************)
LEMMA LineType ==
  ASSUME NEW l \in Line
  PROVE  l.sect \in Files \cup {"", "masks"} /\ l.id \in Nat /\ l.val \in Seq(Nat)
BY DEF Line

LEMMA RowType ==
  ASSUME NEW id \in Nat, NEW val \in Seq(Nat)
  PROVE  /\ Row(id, val) \in Line /\ Row(id, val).sect = "" /\ Row(id, val).id = id
         /\ Row(id, val).val = val
BY DEF Line, Row

LEMMA HeaderType ==
  ASSUME NEW s \in Files \cup {"masks"}
  PROVE  Header(s) \in Line /\ Header(s).sect = s
<1>1. <<>> \in Seq(Nat) /\ 0 \in Nat
  OBVIOUS
<1>2. s \in Files \cup {"", "masks"}
  OBVIOUS
<1> QED BY <1>1, <1>2 DEF Line, Header

\* Where line i of a file is when a line has been inserted as line n.
Shift(n, i) == IF i < n THEN i ELSE i + 1

\* File g has one line more than f: line n.
Gap(f, g, n) ==
  /\ n \in 1 .. Len(g) /\ Len(g) = Len(f) + 1
  /\ \A i \in 1 .. Len(f) : g[Shift(n, i)] = f[i]

LEMMA Shifted ==
  ASSUME NEW k \in Nat, NEW n \in 1 .. k + 1
  PROVE  /\ \A i \in 1 .. k : Shift(n, i) \in 1 .. k + 1 /\ Shift(n, i) # n /\ i <= Shift(n, i)
         /\ \A i, j \in 1 .. k : (Shift(n, i) < Shift(n, j) <=> i < j) /\ (Shift(n, i) = Shift(n, j) => i = j)
         /\ \A j \in 1 .. k + 1 : j = n \/ \E i \in 1 .. k : j = Shift(n, i)
         /\ \A i \in 1 .. k : i = n - 1 => Shift(n, i) = i
<1>1. ASSUME NEW j \in 1 .. k + 1, j # n PROVE \E i \in 1 .. k : j = Shift(n, i)
  <2>1. CASE j < n
    <3>1. j \in 1 .. k /\ j = Shift(n, j)
      BY <2>1 DEF Shift
    <3> QED BY <3>1
  <2>2. CASE j > n
    <3>1. j - 1 \in 1 .. k /\ j = Shift(n, j - 1)
      BY <2>2 DEF Shift
    <3> QED BY <3>1
  <2> QED BY <1>1, <2>1, <2>2
<1> QED BY <1>1 DEF Shift

LEMMA FirstOfTwo == ASSUME NEW v \in Seq(Nat), Len(v) = 2 PROVE v[1] \in Nat
<1>1. 1 \in 1 .. Len(v)
  OBVIOUS
<1> QED BY <1>1, ElementOfSeq

LEMMA SomeLines ==
  ASSUME NEW f \in Seq(Line), NEW a \in 1 .. Len(f) + 1, NEW b \in 0 .. Len(f), a <= b + 1
  PROVE  /\ SubSeq(f, a, b) \in Seq(Line) /\ Len(SubSeq(f, a, b)) = b - a + 1
         /\ \A i \in 1 .. b - a + 1 : SubSeq(f, a, b)[i] = f[a + i - 1]
<1>1. Len(f) \in Nat /\ a \in Int /\ b \in Int
  OBVIOUS
<1>2. \A i \in a .. b : f[i] \in Line
  <2> SUFFICES ASSUME NEW i \in a .. b PROVE f[i] \in Line
    OBVIOUS
  <2>1. i \in 1 .. Len(f)
    BY <1>1
  <2> QED BY <2>1, ElementOfSeq
<1>3. PICK g : g = SubSeq(f, a, b)
  OBVIOUS
<1>4. /\ g \in Seq(Line) /\ Len(g) = IF a <= b THEN b - a + 1 ELSE 0
      /\ \A i \in 1 .. b - a + 1 : g[i] = f[a + i - 1]
  BY <1>1, <1>2, <1>3, SubSeqProperties
<1>5. (IF a <= b THEN b - a + 1 ELSE 0) = b - a + 1
  BY <1>1
<1> QED BY <1>3, <1>4, <1>5

LEMMA InsertedLine ==
  ASSUME NEW f \in Seq(Line), NEW e \in Line, NEW n \in 1 .. Len(f) + 1
  PROVE  InsertAt(f, n, e) \in Seq(Line) /\ Gap(f, InsertAt(f, n, e), n) /\ InsertAt(f, n, e)[n] = e
<1>0. Len(f) \in Nat /\ n \in Nat /\ n - 1 \in 0 .. Len(f) /\ 1 \in 1 .. Len(f) + 1
  OBVIOUS
<1>1. PICK a : a = SubSeq(f, 1, n - 1)
  OBVIOUS
<1>2. PICK b : b = SubSeq(f, n, Len(f))
  OBVIOUS
<1>3. a \in Seq(Line) /\ Len(a) = n - 1 /\ \A i \in 1 .. n - 1 : a[i] = f[i]
  <2>1. n - 1 - 1 + 1 = n - 1 /\ 1 <= n - 1 + 1
    BY <1>0
  <2>2. \A i \in 1 .. n - 1 : 1 + i - 1 = i
    BY <1>0
  <2> QED BY <1>0, <1>1, <2>1, <2>2, SomeLines
<1>4. b \in Seq(Line) /\ Len(b) = Len(f) - n + 1 /\ \A i \in 1 .. Len(f) - n + 1 : b[i] = f[n + i - 1]
  <2>1. Len(f) \in 0 .. Len(f) /\ n <= Len(f) + 1
    BY <1>0
  <2> QED BY <1>2, <2>1, SomeLines
<1>5. PICK c : c = a \o <<e>>
  OBVIOUS
<1>6. c \in Seq(Line) /\ Len(c) = n /\ c[n] = e /\ \A i \in 1 .. n - 1 : c[i] = f[i]
  <2>1. <<e>> \in Seq(Line) /\ Len(<<e>>) = 1 /\ <<e>>[1] = e
    OBVIOUS
  <2>2. /\ c \in Seq(Line) /\ Len(c) = n - 1 + 1
        /\ \A i \in 1 .. n - 1 + 1 : c[i] = IF i <= n - 1 THEN a[i] ELSE <<e>>[i - (n - 1)]
    BY <1>3, <1>5, <2>1, ConcatProperties
  <2>3. n \in 1 .. n - 1 + 1 /\ ~(n <= n - 1) /\ n - (n - 1) = 1 /\ n - 1 + 1 = n
    BY <1>0
  <2>4. \A i \in 1 .. n - 1 : i \in 1 .. n - 1 + 1 /\ i <= n - 1
    BY <1>0
  <2> QED BY <1>3, <2>1, <2>2, <2>3, <2>4
<1>7. PICK g : g = c \o b
  OBVIOUS
<1>8. g = InsertAt(f, n, e)
  BY <1>1, <1>2, <1>5, <1>7 DEF InsertAt
<1>9. /\ g \in Seq(Line) /\ Len(g) = Len(f) + 1
      /\ \A i \in 1 .. Len(f) + 1 : g[i] = IF i <= n THEN c[i] ELSE b[i - n]
  <2>1. /\ g \in Seq(Line) /\ Len(g) = n + (Len(f) - n + 1)
        /\ \A i \in 1 .. n + (Len(f) - n + 1) : g[i] = IF i <= n THEN c[i] ELSE b[i - n]
    <3>1. /\ g \in Seq(Line) /\ Len(g) = Len(c) + Len(b)
          /\ \A i \in 1 .. Len(c) + Len(b) : g[i] = IF i <= Len(c) THEN c[i] ELSE b[i - Len(c)]
      BY <1>4, <1>6, <1>7, ConcatProperties
    <3> QED BY <1>4, <1>6, <3>1
  <2>2. n + (Len(f) - n + 1) = Len(f) + 1
    BY <1>0
  <2> QED BY <2>1, <2>2
<1>10. g[n] = e
  <2>1. n \in 1 .. Len(f) + 1 /\ n <= n
    BY <1>0
  <2> QED BY <1>6, <1>9, <2>1
<1>11. ASSUME NEW i \in 1 .. Len(f), i < n PROVE g[i] = f[i]
  <2>1. i \in 1 .. Len(f) + 1 /\ i <= n /\ i \in 1 .. n - 1
    BY <1>0, <1>11
  <2> QED BY <1>6, <1>9, <2>1
<1>12. ASSUME NEW i \in 1 .. Len(f), i >= n PROVE g[i + 1] = f[i]
  <2>1. i + 1 \in 1 .. Len(f) + 1 /\ ~(i + 1 <= n) /\ i + 1 - n \in 1 .. Len(f) - n + 1
        /\ n + (i + 1 - n) - 1 = i
    BY <1>0, <1>12
  <2>2. g[i + 1] = b[i + 1 - n]
    BY <1>9, <2>1
  <2>3. b[i + 1 - n] = f[n + (i + 1 - n) - 1]
    BY <1>4, <2>1
  <2> QED BY <2>1, <2>2, <2>3
<1>13. n \in 1 .. Len(f) + 1
  OBVIOUS
<1>14. \A i \in 1 .. Len(f) : g[Shift(n, i)] = f[i]
  <2>1. ASSUME NEW i \in 1 .. Len(f) PROVE i < n \/ i >= n
    BY <1>0
  <2> QED BY <2>1, <1>0, <1>11, <1>12 DEF Shift
<1> QED BY <1>8, <1>9, <1>10, <1>13, <1>14 DEF Gap

LEMMA RemovedLine ==
  ASSUME NEW f \in Seq(Line), NEW n \in 1 .. Len(f)
  PROVE  RemoveAt(f, n) \in Seq(Line) /\ Gap(RemoveAt(f, n), f, n)
<1>0. Len(f) \in Nat /\ n \in Nat /\ n - 1 \in 0 .. Len(f) /\ 1 \in 1 .. Len(f) + 1
  OBVIOUS
<1>1. PICK a : a = SubSeq(f, 1, n - 1)
  OBVIOUS
<1>2. PICK b : b = SubSeq(f, n + 1, Len(f))
  OBVIOUS
<1>3. a \in Seq(Line) /\ Len(a) = n - 1 /\ \A i \in 1 .. n - 1 : a[i] = f[i]
  <2>1. n - 1 - 1 + 1 = n - 1 /\ 1 <= n - 1 + 1
    BY <1>0
  <2>2. \A i \in 1 .. n - 1 : 1 + i - 1 = i
    BY <1>0
  <2> QED BY <1>0, <1>1, <2>1, <2>2, SomeLines
<1>4. b \in Seq(Line) /\ Len(b) = Len(f) - n /\ \A i \in 1 .. Len(f) - n : b[i] = f[n + i]
  <2>1. Len(f) \in 0 .. Len(f) /\ n + 1 <= Len(f) + 1 /\ n + 1 \in 1 .. Len(f) + 1
    BY <1>0
  <2>2. Len(f) - (n + 1) + 1 = Len(f) - n
    BY <1>0
  <2>3. \A i \in 1 .. Len(f) - n : n + 1 + i - 1 = n + i
    BY <1>0
  <2>4. PICK c : c = n + 1
    OBVIOUS
  <2>5. PICK e : e = Len(f)
    OBVIOUS
  <2>6. c \in 1 .. Len(f) + 1 /\ e \in 0 .. Len(f) /\ c <= e + 1
    BY <2>1, <2>4, <2>5
  <2>7. /\ SubSeq(f, c, e) \in Seq(Line) /\ Len(SubSeq(f, c, e)) = e - c + 1
        /\ \A i \in 1 .. e - c + 1 : SubSeq(f, c, e)[i] = f[c + i - 1]
    BY <2>6, SomeLines
  <2>8. e - c + 1 = Len(f) - n
    BY <2>2, <2>4, <2>5
  <2>9. \A i \in 1 .. Len(f) - n : c + i - 1 = n + i
    BY <2>3, <2>4
  <2> QED BY <1>2, <2>4, <2>5, <2>7, <2>8, <2>9
<1>5. PICK g : g = a \o b
  OBVIOUS
<1>6. g = RemoveAt(f, n)
  BY <1>1, <1>2, <1>5 DEF RemoveAt
<1>7. /\ g \in Seq(Line) /\ Len(g) = Len(f) - 1
      /\ \A i \in 1 .. Len(f) - 1 : g[i] = IF i <= n - 1 THEN a[i] ELSE b[i - (n - 1)]
  <2>1. /\ g \in Seq(Line) /\ Len(g) = n - 1 + (Len(f) - n)
        /\ \A i \in 1 .. n - 1 + (Len(f) - n) : g[i] = IF i <= n - 1 THEN a[i] ELSE b[i - (n - 1)]
    <3>1. /\ g \in Seq(Line) /\ Len(g) = Len(a) + Len(b)
          /\ \A i \in 1 .. Len(a) + Len(b) : g[i] = IF i <= Len(a) THEN a[i] ELSE b[i - Len(a)]
      BY <1>3, <1>4, <1>5, ConcatProperties
    <3> QED BY <1>3, <1>4, <3>1
  <2>2. n - 1 + (Len(f) - n) = Len(f) - 1
    BY <1>0
  <2> QED BY <2>1, <2>2
<1>8. ASSUME NEW i \in 1 .. Len(g), i < n PROVE f[i] = g[i]
  <2>1. i \in 1 .. Len(f) - 1 /\ i <= n - 1 /\ i \in 1 .. n - 1
    BY <1>0, <1>7, <1>8
  <2> QED BY <1>3, <1>7, <2>1
<1>9. ASSUME NEW i \in 1 .. Len(g), i >= n PROVE f[i + 1] = g[i]
  <2>1. i \in 1 .. Len(f) - 1 /\ ~(i <= n - 1) /\ i - (n - 1) \in 1 .. Len(f) - n
        /\ n + (i - (n - 1)) = i + 1
    BY <1>0, <1>7, <1>9
  <2>2. g[i] = b[i - (n - 1)]
    BY <1>7, <2>1
  <2>3. b[i - (n - 1)] = f[n + (i - (n - 1))]
    BY <1>4, <2>1
  <2> QED BY <2>1, <2>2, <2>3
<1>10. Len(f) = Len(g) + 1
  BY <1>0, <1>7
<1>11. \A i \in 1 .. Len(g) : f[Shift(n, i)] = g[i]
  <2>1. ASSUME NEW i \in 1 .. Len(g) PROVE i < n \/ i >= n
    BY <1>0, <1>7
  <2> QED BY <2>1, <1>0, <1>7, <1>8, <1>9 DEF Shift
<1>12. n \in 1 .. Len(f)
  OBVIOUS
<1> QED BY <1>6, <1>7, <1>10, <1>11, <1>12 DEF Gap

LEMMA ReplacedLine ==
  ASSUME NEW f \in Seq(Line), NEW e \in Line, NEW n \in 1 .. Len(f)
  PROVE  /\ ReplaceAt(f, n, e) \in Seq(Line) /\ Len(ReplaceAt(f, n, e)) = Len(f)
         /\ \A i \in 1 .. Len(f) : ReplaceAt(f, n, e)[i] = IF i = n THEN e ELSE f[i]
BY DEF ReplaceAt

LEMMA CutLines ==
  ASSUME NEW f \in Seq(Line), NEW k \in 0 .. Len(f)
  PROVE  /\ SubSeq(f, 1, k) \in Seq(Line) /\ Len(SubSeq(f, 1, k)) = k
         /\ \A i \in 1 .. k : SubSeq(f, 1, k)[i] = f[i]
<1>1. k - 1 + 1 = k /\ (\A i \in 1 .. k : 1 + i - 1 = i) /\ 1 \in 1 .. Len(f) + 1 /\ 1 <= k + 1
  OBVIOUS
<1> QED BY <1>1, SomeLines

(***************************************************************************)
(* Rows                                                                    *)
(***************************************************************************)
Plain(f, i) == f[i].sect = ""
Titled(f, s, i) == f[i].sect = s

LEMMA RowAt ==
  ASSUME NEW f \in Seq(Line), NEW s, NEW i
  PROVE  i \in Rows(f, s) <=>
           /\ i \in 1 .. Len(f) /\ Plain(f, i)
           /\ \E h \in 1 .. Len(f) : Titled(f, s, h) /\ h < i /\ \A j \in h + 1 .. i : Plain(f, j)
<1>1. DOMAIN f = 1 .. Len(f)
  OBVIOUS
<1> QED BY <1>1 DEF Rows, Headers, Plain, Titled

LEMMA HeaderAt ==
  ASSUME NEW f \in Seq(Line), NEW s, NEW i
  PROVE  i \in Headers(f, s) <=> i \in 1 .. Len(f) /\ Titled(f, s, i)
<1>1. DOMAIN f = 1 .. Len(f)
  OBVIOUS
<1> QED BY <1>1 DEF Headers, Titled

LEMMA RowsAreLines ==
  ASSUME NEW f \in Seq(Line), NEW s
  PROVE  /\ Rows(f, s) \subseteq 1 .. Len(f) /\ IsFiniteSet(Rows(f, s)) /\ Rows(f, s) \in SUBSET Nat
         /\ \A i \in Rows(f, s) : f[i] \in Line
<1>1. Rows(f, s) \subseteq 1 .. Len(f)
  BY RowAt
<1>2. IsFiniteSet(1 .. Len(f))
  BY FS_Interval
<1>3. \A i \in 1 .. Len(f) : f[i] \in Line /\ i \in Nat
  BY ElementOfSeq
<1> QED BY <1>1, <1>2, <1>3, FS_Subset

LEMMA GapSections ==
  ASSUME NEW f \in Seq(Line), NEW g \in Seq(Line), NEW n, Gap(f, g, n), NEW s,
         Plain(g, n), ~Titled(g, s, n), NEW i \in 1 .. Len(f)
  PROVE  i \in Rows(f, s) <=> Shift(n, i) \in Rows(g, s)
<1>0. Len(f) \in Nat /\ n \in 1 .. Len(f) + 1 /\ Len(g) = Len(f) + 1
  BY DEF Gap
<1>1. \A k \in 1 .. Len(f) : (Plain(f, k) <=> Plain(g, Shift(n, k))) /\ (Titled(f, s, k) <=> Titled(g, s, Shift(n, k)))
  BY DEF Gap, Plain, Titled
<1>3. /\ \A k \in 1 .. Len(f) : Shift(n, k) \in 1 .. Len(g)
      /\ \A k, j \in 1 .. Len(f) : Shift(n, k) < Shift(n, j) <=> k < j
      /\ \A j \in 1 .. Len(g) : j = n \/ \E k \in 1 .. Len(f) : j = Shift(n, k)
  <2>1. PICK l \in Nat : l = Len(f)
    BY <1>0
  <2>2. /\ \A k \in 1 .. l : Shift(n, k) \in 1 .. l + 1
        /\ \A k, j \in 1 .. l : Shift(n, k) < Shift(n, j) <=> k < j
        /\ \A j \in 1 .. l + 1 : j = n \/ \E k \in 1 .. l : j = Shift(n, k)
    <3>1. n \in 1 .. l + 1
      BY <1>0, <2>1
    <3>2. \A k \in 1 .. l : Shift(n, k) \in 1 .. l + 1
      BY <3>1, Shifted
    <3>3. \A k, j \in 1 .. l : Shift(n, k) < Shift(n, j) <=> k < j
      BY <3>1, Shifted
    <3>4. \A j \in 1 .. l + 1 : j = n \/ \E k \in 1 .. l : j = Shift(n, k)
      BY <3>1, Shifted
    <3> QED BY <3>2, <3>3, <3>4
  <2> QED BY <1>0, <2>1, <2>2
<1>4. ASSUME i \in Rows(f, s) PROVE Shift(n, i) \in Rows(g, s)
  <2>1. PICK h \in 1 .. Len(f) : Titled(f, s, h) /\ h < i /\ \A j \in h + 1 .. i : Plain(f, j)
    BY <1>4, RowAt
  <2>2. ASSUME NEW j \in Shift(n, h) + 1 .. Shift(n, i) PROVE Plain(g, j)
    <3>1. j \in 1 .. Len(g) /\ Shift(n, h) < j /\ j <= Shift(n, i)
      BY <1>3
    <3>2. CASE j = n
      BY <3>2
    <3>3. CASE j # n
      <4>1. PICK k \in 1 .. Len(f) : j = Shift(n, k)
        BY <1>3, <3>1, <3>3
      <4>2. h < k /\ ~(i < k)
        <5>1. ~(Shift(n, i) < j)
          BY <1>3, <3>1
        <5> QED BY <1>3, <3>1, <4>1, <5>1
      <4>3. k \in h + 1 .. i
        BY <4>2
      <4> QED BY <1>1, <2>1, <4>1, <4>3
    <3> QED BY <3>2, <3>3
  <2>3. Plain(f, i)
    BY <1>4, RowAt
  <2>4. Titled(g, s, Shift(n, h)) /\ Plain(g, Shift(n, i)) /\ Shift(n, h) < Shift(n, i)
    BY <1>1, <1>3, <2>1, <2>3
  <2>5. PICK a \in 1 .. Len(g) : a = Shift(n, i)
    BY <1>3
  <2> QED BY <1>3, <2>2, <2>4, <2>5, RowAt
<1>5. ASSUME Shift(n, i) \in Rows(g, s) PROVE i \in Rows(f, s)
  <2>0. PICK a \in 1 .. Len(g) : a = Shift(n, i)
    BY <1>3
  <2>1. PICK b \in 1 .. Len(g) : Titled(g, s, b) /\ b < a /\ \A j \in b + 1 .. a : Plain(g, j)
    BY <1>5, <2>0, RowAt
  <2>2. PICK h \in 1 .. Len(f) : b = Shift(n, h)
    BY <1>3, <2>1
  <2>3. ASSUME NEW j \in h + 1 .. i PROVE Plain(f, j)
    <3>1. j \in 1 .. Len(f) /\ h < j /\ ~(i < j)
      OBVIOUS
    <3>2. PICK k \in 1 .. Len(g) : k = Shift(n, j)
      BY <1>3, <3>1
    <3>3. b < k /\ ~(a < k)
      BY <1>3, <2>0, <2>2, <3>1, <3>2
    <3>4. k \in b + 1 .. a
      BY <3>3
    <3> QED BY <1>1, <2>1, <3>1, <3>2, <3>4
  <2>4. Plain(f, i)
    BY <1>1, <1>5, <2>0, RowAt
  <2>5. Titled(f, s, h) /\ h < i
    BY <1>1, <1>3, <2>0, <2>1, <2>2
  <2> QED BY <2>3, <2>4, <2>5, RowAt
<1> QED BY <1>4, <1>5

\* A row that is inserted or removed leaves the others where they belong.
LEMMA GapRows ==
  ASSUME NEW f \in Seq(Line), NEW g \in Seq(Line), NEW n, Gap(f, g, n), Plain(g, n), NEW s, s # ""
  PROVE  \A i \in 1 .. Len(f) : i \in Rows(f, s) <=> Shift(n, i) \in Rows(g, s)
<1>1. ~Titled(g, s, n)
  BY DEF Plain, Titled
<1> QED BY <1>1, GapSections

LEMMA NewRow ==
  ASSUME NEW f \in Seq(Line), NEW g \in Seq(Line), NEW n, Gap(f, g, n), Plain(g, n), NEW s,
         NEW h \in Headers(f, s), n = h + 1
  PROVE  n \in Rows(g, s) /\ n > 1
<1>1. h \in 1 .. Len(f) /\ Titled(f, s, h)
  BY HeaderAt
<1>2. Len(f) \in Nat /\ n \in 1 .. Len(f) + 1 /\ Len(g) = Len(f) + 1
  BY DEF Gap
<1>3. h = n - 1
  BY <1>1
<1>4. Shift(n, h) = h
  BY <1>1, <1>2, <1>3, Shifted
<1>5. Titled(g, s, h)
  BY <1>1, <1>4 DEF Gap, Titled
<1>6. h \in 1 .. Len(g) /\ h < n /\ n \in 1 .. Len(g) /\ n > 1 /\ \A j \in h + 1 .. n : j = n
  BY <1>1, <1>2, <1>3
<1> QED BY <1>5, <1>6, RowAt

LEMMA GapMembers ==
  ASSUME NEW f \in Seq(Line), NEW g \in Seq(Line), NEW n, Gap(f, g, n)
  PROVE  /\ \A i \in 1 .. Len(f) : Shift(n, i) \in 1 .. Len(g) /\ Shift(n, i) # n /\ g[Shift(n, i)] = f[i]
         /\ \A i \in 1 .. Len(f) : Shift(n, i) = 1 => i = 1
         /\ n > 1 => \A i \in 1 .. Len(f) : i = 1 => Shift(n, i) = 1
         /\ \A i, j \in 1 .. Len(f) : Shift(n, i) = Shift(n, j) => i = j
         /\ \A j \in 1 .. Len(g) : j = n \/ \E i \in 1 .. Len(f) : j = Shift(n, i)
<1>0. Len(f) \in Nat /\ n \in 1 .. Len(f) + 1 /\ Len(g) = Len(f) + 1
  BY DEF Gap
<1>1. \A i \in 1 .. Len(f) : Shift(n, i) = 1 => i = 1
  BY <1>0 DEF Shift
<1>2. n > 1 => \A i \in 1 .. Len(f) : i = 1 => Shift(n, i) = 1
  BY <1>0 DEF Shift
<1>3. /\ \A i \in 1 .. Len(f) : Shift(n, i) \in 1 .. Len(f) + 1 /\ Shift(n, i) # n
      /\ \A i, j \in 1 .. Len(f) : Shift(n, i) = Shift(n, j) => i = j
      /\ \A j \in 1 .. Len(f) + 1 : j = n \/ \E i \in 1 .. Len(f) : j = Shift(n, i)
  BY <1>0, Shifted
<1> QED BY <1>0, <1>1, <1>2, <1>3 DEF Gap

\* Nothing changes with a row that is replaced by a row.
LEMMA SameSections ==
  ASSUME NEW f \in Seq(Line), NEW g \in Seq(Line), NEW s, Len(g) = Len(f),
         \A i \in 1 .. Len(f) : f[i].sect = g[i].sect
  PROVE  Rows(g, s) = Rows(f, s)
<1>1. \A i \in 1 .. Len(f) : (Plain(f, i) <=> Plain(g, i)) /\ (Titled(f, s, i) <=> Titled(g, s, i))
  BY DEF Plain, Titled
<1>2. ASSUME NEW i PROVE i \in Rows(g, s) <=> i \in Rows(f, s)
  <2>1. ASSUME NEW h \in 1 .. Len(f), NEW k \in 1 .. Len(f)
        PROVE  (\A j \in h + 1 .. k : Plain(f, j)) <=> (\A j \in h + 1 .. k : Plain(g, j))
    <3>1. \A j \in h + 1 .. k : j \in 1 .. Len(f)
      OBVIOUS
    <3> QED BY <1>1, <3>1
  <2> QED BY <1>1, <2>1, RowAt
<1> QED BY <1>2

\* The rows of the beginning of a file.
LEMMA CutRows ==
  ASSUME NEW g \in Seq(Line), NEW f \in Seq(Line), NEW s, Len(f) <= Len(g),
         \A i \in 1 .. Len(f) : f[i] = g[i]
  PROVE  \A i : i \in Rows(f, s) <=> i \in 1 .. Len(f) /\ i \in Rows(g, s)
<1>0. Len(f) \in Nat /\ Len(g) \in Nat
  OBVIOUS
<1>1. \A i \in 1 .. Len(f) : (Plain(f, i) <=> Plain(g, i)) /\ (Titled(f, s, i) <=> Titled(g, s, i))
  BY DEF Plain, Titled
<1>2. ASSUME NEW h \in 1 .. Len(f), NEW i \in 1 .. Len(f)
      PROVE  (\A j \in h + 1 .. i : Plain(f, j)) <=> (\A j \in h + 1 .. i : Plain(g, j))
  <2>1. \A j \in h + 1 .. i : j \in 1 .. Len(f)
    OBVIOUS
  <2> QED BY <1>1, <2>1
<1>3. \A i \in 1 .. Len(f) : i \in 1 .. Len(g)
  BY <1>0
<1>4. ASSUME NEW i \in 1 .. Len(f), NEW h \in 1 .. Len(g), h < i PROVE h \in 1 .. Len(f)
  BY <1>0, <1>4
<1> QED BY <1>1, <1>2, <1>3, <1>4, RowAt

LEMMA SectionsInOrder ==
  ASSUME NEW f \in Seq(Line), NEW s, NEW r,
         \A k \in 1 .. Len(f) : (Titled(f, s, k) => k = 1 /\ ~Titled(f, r, k)) /\ (Plain(f, k) => ~Titled(f, r, k)),
         NEW i \in Rows(f, s), NEW j \in Rows(f, r)
  PROVE  i < j
<1>1. PICK a \in 1 .. Len(f) : Titled(f, s, a) /\ a < i /\ \A k \in a + 1 .. i : Plain(f, k)
  BY RowAt
<1>2. PICK h \in 1 .. Len(f) : Titled(f, r, h) /\ h < j
  BY RowAt
<1>3. i \in 1 .. Len(f) /\ j \in 1 .. Len(f)
  BY RowAt
<1>4. a = 1 /\ h # 1
  BY <1>1, <1>2
<1>5. h \notin 2 .. i
  <2>1. a + 1 = 2
    BY <1>4
  <2> QED BY <1>1, <1>2, <2>1
<1> QED BY <1>2, <1>3, <1>4, <1>5

\* A line is a row of one section at most, and rows of the first section come first.
LEMMA FirstSection ==
  ASSUME NEW f \in Seq(Line), NEW s, NEW r, r # s, r # "", Headers(f, s) \subseteq {1}
  PROVE  \A i \in Rows(f, s), j \in Rows(f, r) : i < j
<1>1. \A k \in 1 .. Len(f) : Titled(f, s, k) => k = 1
  BY HeaderAt
<1>2. \A k \in 1 .. Len(f) : (Titled(f, s, k) => k = 1 /\ ~Titled(f, r, k)) /\ (Plain(f, k) => ~Titled(f, r, k))
  BY <1>1 DEF Titled, Plain
<1> QED BY <1>2, SectionsInOrder

(***************************************************************************)
(* What the functions of config.c make of a file                           *)
(***************************************************************************)
LineAdded(f, g, s, e) ==
  /\ g \in Seq(Line)
  /\ \E n : Gap(f, g, n) /\ g[n] = e /\ n \in Rows(g, s) /\ n > 1
Replaced(f, g, n, e) ==
  /\ g \in Seq(Line) /\ Len(g) = Len(f)
  /\ \A i \in 1 .. Len(f) : g[i] = IF i = n THEN e ELSE f[i]
Removed(f, g, n) == g \in Seq(Line) /\ Gap(g, f, n)
Cut(f, g) ==
  /\ f \in Seq(Line) /\ Len(f) <= Len(g)
  /\ \A i \in 1 .. Len(f) : f[i] = g[i]

LEMMA FreshId ==
  ASSUME NEW f \in Seq(Line), NEW s
  PROVE  /\ NextId(f, s) \in Nat
         /\ \A i \in Rows(f, s) : f[i].id # NextId(f, s)
         /\ RowsWith(f, s, NextId(f, s)) = {}
<1> DEFINE R == Rows(f, s)
           I == {f[i].id : i \in R}
           S == I \cup {0}
           F == [i \in R |-> f[i].id]
<1>1. IsFiniteSet(R) /\ \A i \in R : f[i].id \in Nat
  BY RowsAreLines, LineType
<1>2. F \in Surjection(R, I)
  BY DEF Surjection
<1>3. IsFiniteSet(I)
  <2> HIDE DEF F, I, R
  <2> QED BY <1>1, <1>2, FS_Surjection
<1>4. S \in SUBSET Nat /\ S # {} /\ IsFiniteSet(S)
  <2>1. I \in SUBSET Nat
    BY <1>1
  <2> HIDE DEF I
  <2>2. S \in SUBSET Nat /\ S # {}
    BY <2>1
  <2>3. IsFiniteSet(S)
    BY <1>3, FS_AddElement
  <2> QED BY <2>2, <2>3
<1>5. Max(S) \in S /\ \A x \in S : x <= Max(S)
  <2> HIDE DEF S
  <2> QED BY <1>4, LastOf
<1>6. PICK k \in Nat : k = Max(S)
  BY <1>4, <1>5
<1>7. NextId(f, s) = k + 1
  BY <1>6 DEF NextId
<1>8. \A i \in R : f[i].id \in Nat /\ f[i].id <= k
  BY <1>1, <1>5, <1>6
<1>9. \A i \in R : f[i].id # k + 1
  <2> HIDE DEF R
  <2>1. ASSUME NEW i \in R PROVE f[i].id # k + 1
    <3>1. PICK x \in Nat : x = f[i].id /\ x <= k
      BY <1>8
    <3> QED BY <3>1
  <2> QED BY <2>1
<1> QED BY <1>7, <1>9 DEF RowsWith

LEMMA Inserted ==
  ASSUME NEW f \in Seq(Line), NEW s, NEW id \in Nat, NEW val \in Seq(Nat), Headers(f, s) # {}
  PROVE  LineAdded(f, InsertAt(f, Min(Headers(f, s)) + 1, Row(id, val)), s, Row(id, val))
<1>1. Headers(f, s) \in SUBSET Nat /\ Headers(f, s) \subseteq 1 .. Len(f)
  BY HeaderAt
<1>2. PICK h \in Headers(f, s) : h = Min(Headers(f, s))
  BY <1>1, FirstOf
<1>3. PICK e \in Line : e = Row(id, val)
  BY RowType
<1>4. PICK n \in 1 .. Len(f) + 1 : n = h + 1
  BY <1>1
<1>5. PICK g \in Seq(Line) : g = InsertAt(f, n, e) /\ Gap(f, g, n) /\ g[n] = e
  <2>1. /\ InsertAt(f, n, e) \in Seq(Line) /\ Gap(f, InsertAt(f, n, e), n)
        /\ InsertAt(f, n, e)[n] = e
    BY InsertedLine
  <2> QED BY <2>1
<1>6. Plain(g, n)
  <2>1. Row(id, val).sect = ""
    BY RowType
  <2> QED BY <1>3, <1>5, <2>1 DEF Plain
<1>7. n \in Rows(g, s) /\ n > 1
  BY <1>4, <1>5, <1>6, NewRow
<1> QED BY <1>2, <1>3, <1>4, <1>5, <1>7 DEF LineAdded

LEMMA RowReplaced ==
  ASSUME NEW f \in Seq(Line), NEW s, NEW n \in Rows(f, s), NEW id \in Nat, NEW val \in Seq(Nat)
  PROVE  Replaced(f, ReplaceAt(f, n, Row(id, val)), n, Row(id, val))
<1>1. n \in 1 .. Len(f)
  BY RowsAreLines
<1>2. PICK e \in Line : e = Row(id, val)
  BY RowType
<1> QED BY <1>1, <1>2, ReplacedLine DEF Replaced

LEMMA RowRemoved ==
  ASSUME NEW f \in Seq(Line), NEW s, NEW n \in Rows(f, s)
  PROVE  Removed(f, RemoveAt(f, n), n)
<1>1. n \in 1 .. Len(f)
  BY RowsAreLines
<1> QED BY <1>1, RemovedLine DEF Removed

Written(id, val) == Row(id, IF val = <<>> THEN <<0>> ELSE val)

\* config_set_str
LEMMA StrSet ==
  ASSUME NEW f \in Seq(Line), NEW s, NEW id \in Nat, NEW val \in Seq(Nat), CanSetStr(f, s, id, val)
  PROVE  \/ \E n \in RowsWith(f, s, id) : Replaced(f, SetStr(f, s, id, val), n, Written(id, val))
         \/ /\ RowsWith(f, s, id) = {} /\ val # <<>>
            /\ LineAdded(f, SetStr(f, s, id, val), s, Written(id, val))
<1>1. PICK v \in Seq(Nat) : v = IF val = <<>> THEN <<0>> ELSE val
  <2>1. <<0>> \in Seq(Nat)
    OBVIOUS
  <2> QED BY <2>1
<1>2. Written(id, val) = Row(id, v)
  BY <1>1 DEF Written
<1>3. CASE RowsWith(f, s, id) # {}
  <2>1. RowsWith(f, s, id) \subseteq Rows(f, s)
    BY DEF RowsWith
  <2>2. IsFiniteSet(RowsWith(f, s, id)) /\ RowsWith(f, s, id) \in SUBSET Nat
    BY <2>1, RowsAreLines, FS_Subset
  <2>3. PICK n \in RowsWith(f, s, id) : n = Max(RowsWith(f, s, id))
    BY <1>3, <2>2, LastOf
  <2>4. n \in Rows(f, s)
    BY <2>1
  <2>5. SetStr(f, s, id, val) = ReplaceAt(f, n, Row(id, v))
    BY <1>1, <1>3, <2>3 DEF SetStr
  <2>6. Replaced(f, ReplaceAt(f, n, Row(id, v)), n, Row(id, v))
    BY <2>4, RowReplaced
  <2> QED BY <1>2, <2>5, <2>6
<1>4. CASE RowsWith(f, s, id) = {}
  <2>1. val # <<>> /\ Headers(f, s) # {}
    BY <1>4 DEF CanSetStr
  <2>2. SetStr(f, s, id, val) = InsertAt(f, Min(Headers(f, s)) + 1, Row(id, v))
    BY <1>1, <1>4 DEF SetStr
  <2>3. LineAdded(f, InsertAt(f, Min(Headers(f, s)) + 1, Row(id, v)), s, Row(id, v))
    BY <2>1, Inserted
  <2> QED BY <1>2, <1>4, <2>1, <2>2, <2>3
<1> QED BY <1>3, <1>4

\* The lines of the old file are still there.
LEMMA AddedKeeps ==
  ASSUME NEW f \in Seq(Line), NEW g, NEW s, NEW e, LineAdded(f, g, s, e), NEW i \in 1 .. Len(f)
  PROVE  f[i] \in Range(g)
<1>1. PICK n : Gap(f, g, n)
  BY DEF LineAdded
<1>2. g \in Seq(Line)
  BY DEF LineAdded
<1>3. DOMAIN g = 1 .. Len(g)
  BY <1>2
<1>4. Shift(n, i) \in DOMAIN g /\ g[Shift(n, i)] = f[i]
  BY <1>1, <1>2, <1>3, GapMembers
<1> QED BY <1>4 DEF Range

LEMMA ReplacedKeeps ==
  ASSUME NEW f \in Seq(Line), NEW g, NEW n, NEW e, Replaced(f, g, n, e), NEW i \in 1 .. Len(f), i # n
  PROVE  f[i] \in Range(g)
<1>1. g \in Seq(Line) /\ Len(g) = Len(f) /\ g[i] = f[i]
  BY DEF Replaced
<1>2. DOMAIN g = 1 .. Len(g)
  BY <1>1
<1> QED BY <1>1, <1>2 DEF Range

LEMMA RemovedKeeps ==
  ASSUME NEW f \in Seq(Line), NEW g, NEW n, Removed(f, g, n), NEW i \in 1 .. Len(f), i # n
  PROVE  f[i] \in Range(g)
<1>1. g \in Seq(Line) /\ Gap(g, f, n)
  BY DEF Removed
<1>2. DOMAIN g = 1 .. Len(g)
  BY <1>1
<1>3. PICK k \in 1 .. Len(g) : i = Shift(n, k)
  BY <1>1, GapMembers
<1>4. g[k] = f[i]
  BY <1>1, <1>3, GapMembers
<1> QED BY <1>2, <1>4 DEF Range

(***************************************************************************)
(* The file of users                                                       *)
(***************************************************************************)

\* It is one section of users and, behind it, sections of masks.
UsersFirst(f) == Headers(f, "users") \subseteq {1}

\* No two users have one number.
UniqueIds(f) == \A i, j \in Rows(f, "users") : f[i].id = f[j].id => i = j

\* Every mask belongs to a user with a name and a password.
IsUser(f, u) == \E j \in Rows(f, "users") : f[j].id = u /\ Len(f[j].val) = 2
Owned(f) == \A i \in Rows(f, "masks") : Len(f[i].val) = 2 => IsUser(f, f[i].val[1])

UsersOK(f) == UsersFirst(f) /\ UniqueIds(f) /\ Owned(f)

LEMMA UsersBeforeMasks ==
  ASSUME NEW f \in Seq(Line), UsersFirst(f)
  PROVE  /\ \A i \in Rows(f, "users"), j \in Rows(f, "masks") : i < j
         /\ \A i \in Rows(f, "users") : i \notin Rows(f, "masks")
<1>1. \A i \in Rows(f, "users"), j \in Rows(f, "masks") : i < j
  <2>1. PICK s : s = "users"
    OBVIOUS
  <2>2. PICK r : r = "masks"
    OBVIOUS
  <2>3. r # s /\ r # ""
    BY <2>1, <2>2
  <2>4. Headers(f, s) \subseteq {1}
    BY <2>1 DEF UsersFirst
  <2>5. \A i \in Rows(f, s), j \in Rows(f, r) : i < j
    BY <2>3, <2>4, FirstSection
  <2> QED BY <2>1, <2>2, <2>5
<1>2. \A i \in Rows(f, "users") : i \in Nat
  BY RowsAreLines
<1>3. \A i : i \in Nat => ~(i < i)
  OBVIOUS
<1> QED BY <1>1, <1>2, <1>3

\* The rows of a section in files that differ in one line.
Moves(f, g, n, s) ==
  /\ \A i \in Rows(f, s) : \E j \in Rows(g, s) : j = Shift(n, i) /\ j # n /\ g[j] = f[i]
  /\ \A j \in Rows(g, s) : j # n => \E i \in Rows(f, s) : j = Shift(n, i) /\ g[j] = f[i]
  /\ \A i, j \in Rows(f, s) : Shift(n, i) = Shift(n, j) => i = j

LEMMA RowsMove ==
  ASSUME NEW f \in Seq(Line), NEW g \in Seq(Line), NEW n, Gap(f, g, n), NEW s,
         \A i \in 1 .. Len(f) : i \in Rows(f, s) <=> Shift(n, i) \in Rows(g, s)
  PROVE  Moves(f, g, n, s)
<1>2. Rows(f, s) \subseteq 1 .. Len(f) /\ Rows(g, s) \subseteq 1 .. Len(g)
  BY RowsAreLines
<1>3. \A i \in 1 .. Len(f) : Shift(n, i) # n /\ g[Shift(n, i)] = f[i]
  BY GapMembers
<1>4. \A i, j \in 1 .. Len(f) : Shift(n, i) = Shift(n, j) => i = j
  BY GapMembers
<1>5. \A j \in 1 .. Len(g) : j = n \/ \E i \in 1 .. Len(f) : j = Shift(n, i)
  BY GapMembers
<1> QED BY <1>2, <1>3, <1>4, <1>5 DEF Moves

LEMMA BothMove ==
  ASSUME NEW f \in Seq(Line), NEW g \in Seq(Line), NEW n, Gap(f, g, n), Plain(g, n)
  PROVE  Moves(f, g, n, "users") /\ Moves(f, g, n, "masks")
<1>1. PICK s : s = "users"
  OBVIOUS
<1>2. PICK r : r = "masks"
  OBVIOUS
<1>3. s # "" /\ r # ""
  BY <1>1, <1>2
<1>4. Moves(f, g, n, s) /\ Moves(f, g, n, r)
  <2>1. \A i \in 1 .. Len(f) : i \in Rows(f, s) <=> Shift(n, i) \in Rows(g, s)
    BY <1>3, GapRows
  <2>2. \A i \in 1 .. Len(f) : i \in Rows(f, r) <=> Shift(n, i) \in Rows(g, r)
    BY <1>3, GapRows
  <2> QED BY <2>1, <2>2, RowsMove
<1> QED BY <1>1, <1>2, <1>4

LEMMA HeadMoves ==
  ASSUME NEW f \in Seq(Line), NEW g \in Seq(Line), NEW n, Gap(f, g, n), Plain(g, n)
  PROVE  /\ UsersFirst(g) => UsersFirst(f)
         /\ n > 1 /\ UsersFirst(f) => UsersFirst(g)
<1>1. PICK s : s = "users"
  OBVIOUS
<1>2. /\ \A i \in 1 .. Len(f) : Shift(n, i) \in 1 .. Len(g) /\ g[Shift(n, i)] = f[i]
      /\ \A i \in 1 .. Len(f) : Shift(n, i) = 1 => i = 1
      /\ n > 1 => \A i \in 1 .. Len(f) : i = 1 => Shift(n, i) = 1
  <2>1. \A i \in 1 .. Len(f) : Shift(n, i) \in 1 .. Len(g) /\ g[Shift(n, i)] = f[i]
    BY GapMembers
  <2>2. \A i \in 1 .. Len(f) : Shift(n, i) = 1 => i = 1
    BY GapMembers
  <2>3. n > 1 => \A i \in 1 .. Len(f) : i = 1 => Shift(n, i) = 1
    BY GapMembers
  <2> QED BY <2>1, <2>2, <2>3
<1>3. \A j \in 1 .. Len(g) : j = n \/ \E i \in 1 .. Len(f) : j = Shift(n, i)
  BY GapMembers
<1>4. s # ""
  BY <1>1
<1>5. ~Titled(g, s, n)
  BY <1>4 DEF Plain, Titled
<1>6. \A i \in 1 .. Len(f) : Titled(f, s, i) <=> Titled(g, s, Shift(n, i))
  BY <1>2 DEF Titled
<1>7. \A i : i \in Headers(f, s) <=> i \in 1 .. Len(f) /\ Titled(f, s, i)
  BY HeaderAt
<1>8. \A i : i \in Headers(g, s) <=> i \in 1 .. Len(g) /\ Titled(g, s, i)
  BY HeaderAt
<1>9. ASSUME Headers(g, s) \subseteq {1}, NEW i \in Headers(f, s) PROVE i \in {1}
  <2>1. i \in 1 .. Len(f) /\ Shift(n, i) \in Headers(g, s)
    BY <1>2, <1>6, <1>7, <1>8, <1>9
  <2>2. Shift(n, i) = 1
    BY <1>9, <2>1
  <2> QED BY <1>2, <2>1, <2>2
<1>10. ASSUME n > 1, Headers(f, s) \subseteq {1}, NEW j \in Headers(g, s) PROVE j \in {1}
  <2>1. j \in 1 .. Len(g) /\ j # n
    BY <1>5, <1>8, <1>10
  <2>2. PICK i \in 1 .. Len(f) : j = Shift(n, i)
    BY <1>3, <2>1
  <2>3. i \in Headers(f, s)
    BY <1>6, <1>7, <1>8, <1>10, <2>2
  <2> QED BY <1>2, <1>10, <2>2, <2>3
<1> QED BY <1>1, <1>9, <1>10 DEF UsersFirst

LEMMA UserAdded ==
  ASSUME NEW f \in Seq(Line), UsersOK(f), NEW g, NEW e, LineAdded(f, g, "users", e), e.sect = "",
         \A i \in Rows(f, "users") : f[i].id # e.id
  PROVE  UsersOK(g) /\ (Len(e.val) = 2 => IsUser(g, e.id))
<1>1. PICK n : Gap(f, g, n) /\ g[n] = e /\ n \in Rows(g, "users") /\ n > 1
  BY DEF LineAdded
<1>2. g \in Seq(Line) /\ Plain(g, n)
  BY <1>1 DEF LineAdded, Plain
<1>3. UsersFirst(g)
  BY <1>1, <1>2, HeadMoves DEF UsersOK
<1>4. Moves(f, g, n, "users") /\ Moves(f, g, n, "masks")
  BY <1>1, <1>2, BothMove
<1>5. UniqueIds(g)
  <2> SUFFICES ASSUME NEW i \in Rows(g, "users"), NEW j \in Rows(g, "users"), g[i].id = g[j].id
               PROVE  i = j
    BY DEF UniqueIds
  <2>1. CASE i = n
    <3>1. ASSUME j # n PROVE FALSE
      <4>1. PICK l \in Rows(f, "users") : g[j] = f[l]
        BY <1>4, <3>1 DEF Moves
      <4> QED BY <1>1, <2>1, <4>1
    <3> QED BY <2>1, <3>1
  <2>2. CASE i # n
    <3>1. PICK k \in Rows(f, "users") : i = Shift(n, k) /\ g[i] = f[k]
      BY <1>4, <2>2 DEF Moves
    <3>2. j # n
      BY <1>1, <3>1
    <3>3. PICK l \in Rows(f, "users") : j = Shift(n, l) /\ g[j] = f[l]
      BY <1>4, <3>2 DEF Moves
    <3> QED BY <3>1, <3>3 DEF UsersOK, UniqueIds
  <2> QED BY <2>1, <2>2
<1>6. ASSUME NEW u, IsUser(f, u) PROVE IsUser(g, u)
  <2>1. PICK i \in Rows(f, "users") : f[i].id = u /\ Len(f[i].val) = 2
    BY <1>6 DEF IsUser
  <2>2. PICK j \in Rows(g, "users") : g[j] = f[i]
    BY <1>4, <2>1 DEF Moves
  <2> QED BY <2>1, <2>2 DEF IsUser
<1>7. n \notin Rows(g, "masks")
  BY <1>1, <1>2, <1>3, UsersBeforeMasks
<1>8. Owned(g)
  <2> SUFFICES ASSUME NEW i \in Rows(g, "masks"), Len(g[i].val) = 2 PROVE IsUser(g, g[i].val[1])
    BY DEF Owned
  <2>0. i # n
    BY <1>7
  <2>1. PICK k \in Rows(f, "masks") : g[i] = f[k]
    BY <1>4, <2>0 DEF Moves
  <2> QED BY <1>6, <2>1 DEF UsersOK, Owned
<1>9. Len(e.val) = 2 => IsUser(g, e.id)
  BY <1>1 DEF IsUser
<1> QED BY <1>3, <1>5, <1>8, <1>9 DEF UsersOK

LEMMA MaskAdded ==
  ASSUME NEW f \in Seq(Line), UsersOK(f), NEW g, NEW e, LineAdded(f, g, "masks", e), e.sect = "",
         Len(e.val) = 2 => IsUser(f, e.val[1])
  PROVE  UsersOK(g)
<1>1. PICK n : Gap(f, g, n) /\ g[n] = e /\ n \in Rows(g, "masks") /\ n > 1
  BY DEF LineAdded
<1>2. g \in Seq(Line) /\ Plain(g, n)
  BY <1>1 DEF LineAdded, Plain
<1>3. UsersFirst(g)
  BY <1>1, <1>2, HeadMoves DEF UsersOK
<1>4. Moves(f, g, n, "users") /\ Moves(f, g, n, "masks")
  BY <1>1, <1>2, BothMove
<1>5. n \notin Rows(g, "users")
  BY <1>1, <1>2, <1>3, UsersBeforeMasks
<1>6. UniqueIds(g)
  <2> SUFFICES ASSUME NEW i \in Rows(g, "users"), NEW j \in Rows(g, "users"), g[i].id = g[j].id
               PROVE  i = j
    BY DEF UniqueIds
  <2>0. i # n /\ j # n
    BY <1>5
  <2>1. PICK k \in Rows(f, "users") : i = Shift(n, k) /\ g[i] = f[k]
    BY <1>4, <2>0 DEF Moves
  <2>2. PICK l \in Rows(f, "users") : j = Shift(n, l) /\ g[j] = f[l]
    BY <1>4, <2>0 DEF Moves
  <2> QED BY <2>1, <2>2 DEF UsersOK, UniqueIds
<1>7. ASSUME NEW u, IsUser(f, u) PROVE IsUser(g, u)
  <2>1. PICK i \in Rows(f, "users") : f[i].id = u /\ Len(f[i].val) = 2
    BY <1>7 DEF IsUser
  <2>2. PICK j \in Rows(g, "users") : g[j] = f[i]
    BY <1>4, <2>1 DEF Moves
  <2> QED BY <2>1, <2>2 DEF IsUser
<1>8. Owned(g)
  <2> SUFFICES ASSUME NEW i \in Rows(g, "masks"), Len(g[i].val) = 2 PROVE IsUser(g, g[i].val[1])
    BY DEF Owned
  <2>1. CASE i = n
    BY <1>1, <1>7, <2>1
  <2>2. CASE i # n
    <3>1. PICK k \in Rows(f, "masks") : g[i] = f[k]
      BY <1>4, <2>2 DEF Moves
    <3> QED BY <1>7, <3>1 DEF UsersOK, Owned
  <2> QED BY <2>1, <2>2
<1> QED BY <1>3, <1>6, <1>8 DEF UsersOK

LEMMA MaskRemoved ==
  ASSUME NEW g \in Seq(Line), UsersOK(g), NEW n \in Rows(g, "masks"), NEW f, Removed(g, f, n)
  PROVE  UsersOK(f)
<1>1. f \in Seq(Line) /\ Gap(f, g, n) /\ Plain(g, n)
  BY RowAt DEF Removed
<1>2. UsersFirst(f)
  BY <1>1, HeadMoves DEF UsersOK
<1>3. Moves(f, g, n, "users") /\ Moves(f, g, n, "masks")
  BY <1>1, BothMove
<1>4. n \notin Rows(g, "users")
  <2>1. UsersFirst(g)
    BY DEF UsersOK
  <2> QED BY <2>1, UsersBeforeMasks
<1>5. UniqueIds(f)
  <2> SUFFICES ASSUME NEW i \in Rows(f, "users"), NEW j \in Rows(f, "users"), f[i].id = f[j].id
               PROVE  i = j
    BY DEF UniqueIds
  <2>1. Shift(n, i) \in Rows(g, "users") /\ g[Shift(n, i)] = f[i]
    BY <1>3 DEF Moves
  <2>2. Shift(n, j) \in Rows(g, "users") /\ g[Shift(n, j)] = f[j]
    BY <1>3 DEF Moves
  <2>3. Shift(n, i) = Shift(n, j)
    BY <2>1, <2>2 DEF UsersOK, UniqueIds
  <2> QED BY <1>3, <2>3 DEF Moves
<1>6. \A u : IsUser(g, u) => IsUser(f, u)
  <2> SUFFICES ASSUME NEW u, IsUser(g, u) PROVE IsUser(f, u)
    OBVIOUS
  <2>1. PICK j \in Rows(g, "users") : g[j].id = u /\ Len(g[j].val) = 2
    BY DEF IsUser
  <2>2. j # n
    BY <1>4, <2>1
  <2>3. PICK i \in Rows(f, "users") : g[j] = f[i]
    BY <1>3, <2>1, <2>2 DEF Moves
  <2> QED BY <2>1, <2>3 DEF IsUser
<1>7. Owned(f)
  <2> SUFFICES ASSUME NEW i \in Rows(f, "masks"), Len(f[i].val) = 2 PROVE IsUser(f, f[i].val[1])
    BY DEF Owned
  <2>1. Shift(n, i) \in Rows(g, "masks") /\ g[Shift(n, i)] = f[i]
    BY <1>3 DEF Moves
  <2> QED BY <1>6, <2>1 DEF UsersOK, Owned
<1> QED BY <1>2, <1>5, <1>7 DEF UsersOK

\* A row in place of a row.
SameRows(f, g, n, e) ==
  /\ \A r : Rows(g, r) = Rows(f, r)
  /\ \A r : Headers(g, r) = Headers(f, r)
  /\ \A r : \A i \in Rows(f, r) : g[i] = IF i = n THEN e ELSE f[i]

LEMMA ReplacedRows ==
  ASSUME NEW f \in Seq(Line), NEW s, NEW n \in Rows(f, s), NEW g, NEW e, Replaced(f, g, n, e), e.sect = ""
  PROVE  g \in Seq(Line) /\ SameRows(f, g, n, e)
<1>1. g \in Seq(Line) /\ Len(g) = Len(f) /\ \A i \in 1 .. Len(f) : g[i] = IF i = n THEN e ELSE f[i]
  BY DEF Replaced
<1>2. f[n].sect = ""
  BY DEF Rows
<1>3. \A i \in 1 .. Len(f) : f[i].sect = g[i].sect
  BY <1>1, <1>2
<1>4. \A r : Rows(g, r) = Rows(f, r)
  BY <1>1, <1>3, SameSections
<1>5. \A r : Rows(f, r) \subseteq 1 .. Len(f)
  BY RowsAreLines
<1>6. ASSUME NEW r PROVE Headers(g, r) = Headers(f, r)
  <2>1. \A i \in 1 .. Len(f) : Titled(f, r, i) <=> Titled(g, r, i)
    BY <1>3 DEF Titled
  <2>2. \A i : i \in Headers(f, r) <=> i \in 1 .. Len(f) /\ Titled(f, r, i)
    BY HeaderAt
  <2>3. \A i : i \in Headers(g, r) <=> i \in 1 .. Len(g) /\ Titled(g, r, i)
    BY <1>1, HeaderAt
  <2>4. \A i : i \in Headers(f, r) <=> i \in Headers(g, r)
    BY <1>1, <2>1, <2>2, <2>3
  <2> QED
    <3>1. \A i \in Headers(f, r) : i \in Headers(g, r)
      BY <2>4
    <3>2. \A i \in Headers(g, r) : i \in Headers(f, r)
      BY <2>4
    <3> HIDE DEF Headers
    <3> QED BY <3>1, <3>2
<1> QED BY <1>1, <1>4, <1>5, <1>6 DEF SameRows

LEMMA UserReplaced ==
  ASSUME NEW f \in Seq(Line), UsersOK(f), NEW n \in Rows(f, "users"), NEW g, NEW e, Replaced(f, g, n, e),
         e.sect = "", e.id = f[n].id,
         \/ Len(e.val) = 2
         \/ \A i \in Rows(f, "masks") : Len(f[i].val) = 2 => f[i].val[1] # e.id
  PROVE  UsersOK(g)
<1>0. SameRows(f, g, n, e)
  BY ReplacedRows
<1>1. /\ Rows(g, "users") = Rows(f, "users") /\ Rows(g, "masks") = Rows(f, "masks")
      /\ Headers(g, "users") = Headers(f, "users")
      /\ \A i \in Rows(f, "users") : g[i] = IF i = n THEN e ELSE f[i]
      /\ \A i \in Rows(f, "masks") : g[i] = IF i = n THEN e ELSE f[i]
  BY <1>0 DEF SameRows
<1>2. n \notin Rows(f, "masks")
  <2>1. UsersFirst(f)
    BY DEF UsersOK
  <2> QED BY <2>1, UsersBeforeMasks
<1>3. \A i \in Rows(f, "masks") : g[i] = f[i]
  BY <1>1, <1>2
<1>4. UsersFirst(g)
  BY <1>1 DEF UsersOK, UsersFirst
<1>5. UniqueIds(g)
  <2> SUFFICES ASSUME NEW i \in Rows(f, "users"), NEW j \in Rows(f, "users"), g[i].id = g[j].id
               PROVE  i = j
    BY <1>1 DEF UniqueIds
  <2>1. g[i].id = f[i].id /\ g[j].id = f[j].id
    BY <1>1
  <2> QED BY <2>1 DEF UsersOK, UniqueIds
<1>6. ASSUME NEW u, IsUser(f, u), Len(e.val) = 2 \/ u # e.id PROVE IsUser(g, u)
  <2>1. PICK j \in Rows(f, "users") : f[j].id = u /\ Len(f[j].val) = 2
    BY <1>6 DEF IsUser
  <2>2. g[j].id = u /\ Len(g[j].val) = 2
    BY <1>1, <1>6, <2>1
  <2> QED BY <1>1, <2>1, <2>2 DEF IsUser
<1>7. Owned(g)
  <2> SUFFICES ASSUME NEW i \in Rows(f, "masks"), Len(g[i].val) = 2 PROVE IsUser(g, g[i].val[1])
    BY <1>1 DEF Owned
  <2>1. g[i] = f[i] /\ IsUser(f, f[i].val[1])
    BY <1>3 DEF UsersOK, Owned
  <2> QED BY <1>6, <2>1
<1> QED BY <1>4, <1>5, <1>7 DEF UsersOK

\* A file that is cut off loses its masks before their users.
LEMMA UsersCut ==
  ASSUME NEW g \in Seq(Line), UsersOK(g), NEW f, Cut(f, g)
  PROVE  UsersOK(f)
<1>1. f \in Seq(Line) /\ Len(f) <= Len(g) /\ \A i \in 1 .. Len(f) : f[i] = g[i]
  BY DEF Cut
<1>2. /\ \A i : i \in Rows(f, "users") <=> i \in 1 .. Len(f) /\ i \in Rows(g, "users")
      /\ \A i : i \in Rows(f, "masks") <=> i \in 1 .. Len(f) /\ i \in Rows(g, "masks")
  BY <1>1, CutRows
<1>3. UsersFirst(f)
  <2>1. \A i \in 1 .. Len(f) : i \in 1 .. Len(g)
    BY <1>1
  <2>2. \A i : i \in Headers(f, "users") => i \in Headers(g, "users")
    BY <1>1, <2>1, HeaderAt DEF Titled
  <2> QED BY <2>2 DEF UsersOK, UsersFirst
<1>4. UniqueIds(f)
  BY <1>1, <1>2 DEF UsersOK, UniqueIds
<1>5. Owned(f)
  <2> SUFFICES ASSUME NEW i \in Rows(f, "masks"), Len(f[i].val) = 2 PROVE IsUser(f, f[i].val[1])
    BY DEF Owned
  <2>1. i \in 1 .. Len(f) /\ i \in Rows(g, "masks") /\ f[i] = g[i]
    BY <1>1, <1>2
  <2>2. PICK j \in Rows(g, "users") : g[j].id = f[i].val[1] /\ Len(g[j].val) = 2
    BY <2>1 DEF UsersOK, Owned, IsUser
  <2>3. j < i
    BY <2>1, UsersBeforeMasks DEF UsersOK
  <2>4. j \in 1 .. Len(f)
    <3>1. j \in 1 .. Len(g)
      BY RowsAreLines
    <3> QED BY <2>1, <2>3, <3>1
  <2>5. f[j] = g[j]
    BY <1>1, <2>4
  <2> QED BY <1>2, <2>2, <2>4, <2>5 DEF IsUser
<1> QED BY <1>3, <1>4, <1>5 DEF UsersOK

(***************************************************************************)
(* The inductive invariant                                                 *)
(***************************************************************************)
CallType == [op : Ops, uid : Nat, word : Nat, ident : Idents \cup {""}, val : Int]

FilesOK == file \in [Files -> Seq(Line)] /\ UsersOK(file["users"])
CountsOK == leaked \in 0 .. MaxFds /\ dbops \in 0 .. MaxOps /\ crashes \in 0 .. MaxCrashes

\* What a call in progress is, and what it has done: userdb_add adds the mask of a user
\* who is there; nothing but userdb_del returns what userdb_del returns.
CallOK ==
  /\ dbpc \in Steps /\ call \in CallType
  /\ dbpc = "addmask" => IsUser(file["users"], call.uid)
  /\ dbpc = "banset" => call.val \in Nat
  /\ dbpc \in {"addmask", "delmask", "banset", "modeadd"} => call.op # "del"

\* What userdb_del has deleted stays deleted.  (With no descriptor left it deletes
\* nothing, and reports that.)
Stages ==
  Readable =>
    /\ dbpc \in {"delmodes", "delnotes", "delvars", "delmasks", "deluser"} => BansOf(call.uid) = {}
    /\ dbpc \in {"delvars", "delmasks", "deluser"} => NotesOf(call.uid) = {}
    /\ dbpc = "deluser" => MasksOf(call.uid) = {}

DbInv == FilesOK /\ CountsOK /\ CallOK /\ Stages /\ DelClears

\* A step leaves the lines of everybody else where they are.
Spares ==
  \A f \in Files \ {"bans"} : \A i \in DOMAIN file[f] :
    (/\ dbpc' # "dead"
     /\ call'.op # "delid"
     /\ file[f][i].sect = ""
     /\ call'.uid \notin Owners(f, i))
    => file[f][i] \in Range(file'[f])

Spared(f, u) ==
  \A i \in 1 .. Len(file[f]) :
    file[f][i].sect = "" /\ u \notin Owners(f, i) => file[f][i] \in Range(file'[f])

\* A step that changes file f only.
Changes(f) ==
  /\ FilesOK' /\ leaked' \in 0 .. MaxFds /\ crashes' \in 0 .. MaxCrashes
  /\ \A h \in Files : h # f => file'[h] = file[h]

(***************************************************************************)
(* Calls and files                                                         *)
(***************************************************************************)
LEMMA FileIsLines ==
  ASSUME FilesOK, NEW f \in Files
  PROVE  file[f] \in Seq(Line) /\ DOMAIN file[f] = 1 .. Len(file[f])
BY DEF FilesOK

LEMMA CallsAre ==
  ASSUME NEW op \in Ops, NEW uid \in Nat, NEW word \in Nat, NEW val \in Int, Calls(op, uid, word, val)
  PROVE  call' \in CallType /\ call'.op = op /\ call'.uid = uid /\ call'.word = word /\ call'.val = val
BY DEF Calls, CallType

LEMMA CallIs ==
  ASSUME CallOK
  PROVE  call.op \in Ops /\ call.uid \in Nat /\ call.word \in Nat /\ call.val \in Int
BY DEF CallOK, CallType

LEMMA SparesAll ==
  ASSUME FilesOK, NEW f \in Files, Changes(f),
         \/ dbpc' = "dead" \/ call'.op = "delid" \/ f = "bans" \/ Spared(f, call'.uid)
  PROVE  Spares
<1> SUFFICES ASSUME NEW h \in Files, h # "bans", NEW i \in DOMAIN file[h], dbpc' # "dead",
                    call'.op # "delid", file[h][i].sect = "", call'.uid \notin Owners(h, i)
             PROVE  file[h][i] \in Range(file'[h])
  BY DEF Spares
<1>1. CASE h = f
  <2>1. i \in 1 .. Len(file[h])
    BY FileIsLines
  <2> QED BY <1>1, <2>1 DEF Spared
<1>2. CASE h # f
  <2>1. file'[h] = file[h]
    BY <1>2 DEF Changes
  <2> QED BY <2>1 DEF Range
<1> QED BY <1>1, <1>2

LEMMA NoChange ==
  ASSUME FilesOK, UNCHANGED file
  PROVE  FilesOK' /\ Spares
<1>1. FilesOK'
  BY DEF FilesOK
<1>2. Spares
  BY DEF Spares, Range
<1> QED BY <1>1, <1>2

LEMMA SkipChanges ==
  ASSUME FilesOK, CountsOK, NEW next, Skip(next), NEW f \in Files
  PROVE  Changes(f) /\ Spares /\ dbpc' = next /\ leaked' = leaked /\ file' = file
<1>1. UNCHANGED <<file, leaked, crashes>> /\ dbpc' = next
  BY DEF Skip
<1>2. FilesOK' /\ Spares
  BY <1>1, NoChange
<1> QED BY <1>1, <1>2 DEF Changes, CountsOK

LEMMA FoundChanges ==
  ASSUME FilesOK, CountsOK, NEW rows, Found(rows), NEW f \in Files
  PROVE  Changes(f) /\ Spares /\ file' = file
<1>0. MaxFds \in Nat
  BY DbAssumption
<1>1. UNCHANGED <<file, crashes>>
  BY DEF Found
<1>2. FilesOK' /\ Spares
  BY <1>1, NoChange
<1>3. leaked' = leaked \/ (leaked < MaxFds /\ leaked' = leaked + 1)
  BY DEF Found, Readable
<1>4. leaked \in 0 .. MaxFds
  BY DEF CountsOK
<1>5. leaked' \in 0 .. MaxFds
  BY <1>0, <1>3, <1>4
<1> QED BY <1>1, <1>2, <1>5 DEF Changes, CountsOK

LEMMA WriteChanges ==
  ASSUME FilesOK, CountsOK, NEW f \in Files, NEW g \in Seq(Line), f = "users" => UsersOK(g),
         NEW next, Write(f, g, next)
  PROVE  /\ Changes(f) /\ leaked' = leaked
         /\ dbpc' = "dead" \/ (dbpc' = next /\ file'[f] = g)
<1>0. MaxCrashes \in Nat /\ crashes \in 0 .. MaxCrashes /\ leaked \in 0 .. MaxFds
  BY DbAssumption DEF CountsOK
<1>1. file \in [Files -> Seq(Line)] /\ UsersOK(file["users"])
  BY DEF FilesOK
<1>2. leaked' = leaked
  BY DEF Write
<1>3. crashes' \in 0 .. MaxCrashes
  <2>1. crashes' = crashes \/ (crashes < MaxCrashes /\ crashes' = crashes + 1)
    BY DEF Write
  <2> QED BY <1>0, <2>1
<1>4. ASSUME NEW w \in Seq(Line), f = "users" => UsersOK(w), file' = [file EXCEPT ![f] = w]
      PROVE  FilesOK' /\ file'[f] = w /\ \A h \in Files : h # f => file'[h] = file[h]
  <2>1. file' \in [Files -> Seq(Line)] /\ file'[f] = w /\ \A h \in Files : h # f => file'[h] = file[h]
    BY <1>1, <1>4
  <2>2. UsersOK(file'["users"])
    <3>1. "users" \in Files
      BY DEF Files
    <3> QED BY <1>1, <1>4, <2>1, <3>1
  <2> QED BY <2>1, <2>2 DEF FilesOK
<1>5. CASE file' = [file EXCEPT ![f] = g] /\ dbpc' = next
  BY <1>0, <1>2, <1>3, <1>4, <1>5 DEF Changes
<1>6. CASE dbpc' = "dead" /\ \E k \in 0 .. Len(g) - 1 : file' = [file EXCEPT ![f] = SubSeq(g, 1, k)]
  <2>1. PICK k \in 0 .. Len(g) - 1 : file' = [file EXCEPT ![f] = SubSeq(g, 1, k)]
    BY <1>6
  <2>2. k \in 0 .. Len(g) /\ k <= Len(g)
    OBVIOUS
  <2>3. PICK w : w = SubSeq(g, 1, k)
    OBVIOUS
  <2>4. w \in Seq(Line) /\ Len(w) = k /\ \A i \in 1 .. k : w[i] = g[i]
    BY <2>2, <2>3, CutLines
  <2>5. Cut(w, g)
    BY <2>2, <2>4 DEF Cut
  <2>6. f = "users" => UsersOK(w)
    BY <2>5, UsersCut
  <2> QED BY <1>0, <1>2, <1>3, <1>4, <1>6, <2>1, <2>3, <2>4, <2>6 DEF Changes
<1> QED BY <1>5, <1>6 DEF Write

\* config_set_str: a line is replaced, or added, or nothing happens.
LEMMA SetChanges ==
  ASSUME FilesOK, CountsOK, NEW f \in Files, NEW s, NEW id \in Nat, NEW val \in Seq(Nat), NEW next,
         Set(f, s, id, val, next),
         f = "users" /\ Readable /\ CanSetStr(file[f], s, id, val) => UsersOK(SetStr(file[f], s, id, val)),
         NEW u, f # "bans" => \A n \in RowsWith(file[f], s, id) : u \in Owners(f, n)
  PROVE  /\ Changes(f) /\ leaked' = leaked /\ dbpc' \in {next, "dead"}
         /\ dbpc' = "dead" \/ f = "bans" \/ Spared(f, u)
<1>0. file[f] \in Seq(Line)
  BY FileIsLines
<1>1. CASE Readable /\ CanSetStr(file[f], s, id, val)
  <2>1. PICK g : g = SetStr(file[f], s, id, val)
    OBVIOUS
  <2>2. Write(f, g, next)
    BY <1>1, <2>1 DEF Set
  <2>3. \/ \E n \in RowsWith(file[f], s, id) : Replaced(file[f], g, n, Written(id, val))
        \/ LineAdded(file[f], g, s, Written(id, val))
    BY <1>0, <1>1, <2>1, StrSet
  <2>4. g \in Seq(Line)
    BY <2>3 DEF Replaced, LineAdded
  <2>5. f = "users" => UsersOK(g)
    BY <1>1, <2>1
  <2>6. /\ Changes(f) /\ leaked' = leaked
        /\ dbpc' = "dead" \/ (dbpc' = next /\ file'[f] = g)
    BY <2>2, <2>4, <2>5, WriteChanges
  <2>7. ASSUME file'[f] = g, f # "bans" PROVE Spared(f, u)
    <3> SUFFICES ASSUME NEW i \in 1 .. Len(file[f]), u \notin Owners(f, i) PROVE file[f][i] \in Range(g)
      BY <2>7 DEF Spared
    <3>1. CASE LineAdded(file[f], g, s, Written(id, val))
      BY <1>0, <3>1, AddedKeeps
    <3>2. CASE \E n \in RowsWith(file[f], s, id) : Replaced(file[f], g, n, Written(id, val))
      <4>1. PICK n \in RowsWith(file[f], s, id) : Replaced(file[f], g, n, Written(id, val))
        BY <3>2
      <4>2. i # n
        BY <2>7, <4>1
      <4> QED BY <1>0, <4>1, <4>2, ReplacedKeeps
    <3> QED BY <2>3, <3>1, <3>2
  <2> QED BY <2>6, <2>7
<1>2. CASE ~(Readable /\ CanSetStr(file[f], s, id, val))
  <2>1. Skip(next)
    BY <1>2 DEF Set
  <2>2. Changes(f) /\ dbpc' = next /\ leaked' = leaked /\ file' = file
    BY <2>1, SkipChanges
  <2>3. Spared(f, u)
    BY <1>0, <2>2, FileIsLines DEF Spared, Range
  <2> QED BY <2>2, <2>3
<1> QED BY <1>1, <1>2

\* config_add_row
LEMMA AddChanges ==
  ASSUME FilesOK, CountsOK, NEW f \in Files, f # "users", NEW id \in Nat, NEW val \in Seq(Nat), NEW next,
         Add(f, id, val, next), NEW u
  PROVE  /\ Changes(f) /\ leaked' = leaked /\ dbpc' \in {next, "dead"}
         /\ dbpc' = "dead" \/ Spared(f, u)
<1>0. file[f] \in Seq(Line)
  BY FileIsLines
<1>1. CASE Readable /\ Headers(file[f], f) # {}
  <2>1. PICK g : g = AddRow(file[f], f, id, val)
    OBVIOUS
  <2>2. Write(f, g, next)
    BY <1>1, <2>1 DEF Add
  <2>3. LineAdded(file[f], g, f, Row(id, val))
    BY <1>0, <1>1, <2>1, Inserted DEF AddRow
  <2>4. g \in Seq(Line)
    BY <2>3 DEF LineAdded
  <2>5. /\ Changes(f) /\ leaked' = leaked
        /\ dbpc' = "dead" \/ (dbpc' = next /\ file'[f] = g)
    BY <2>2, <2>4, WriteChanges
  <2>6. ASSUME file'[f] = g PROVE Spared(f, u)
    BY <1>0, <2>3, <2>6, AddedKeeps DEF Spared
  <2> QED BY <2>5, <2>6
<1>2. CASE ~(Readable /\ Headers(file[f], f) # {})
  <2>1. Skip(next)
    BY <1>2 DEF Add
  <2>2. Changes(f) /\ dbpc' = next /\ leaked' = leaked /\ file' = file
    BY <2>1, SkipChanges
  <2>3. Spared(f, u)
    BY <1>0, <2>2, FileIsLines DEF Spared, Range
  <2> QED BY <2>2, <2>3
<1> QED BY <1>1, <1>2

\* A row that is removed.
LEMMA RemoveChanges ==
  ASSUME FilesOK, CountsOK, NEW f \in Files, NEW s, f = "users" => s = "masks", NEW n \in Rows(file[f], s),
         NEW next, Write(f, DelRow(file[f], n), next), NEW u, f # "bans" => u \in Owners(f, n)
  PROVE  /\ Changes(f) /\ leaked' = leaked /\ dbpc' \in {next, "dead"}
         /\ dbpc' = "dead" \/ f = "bans" \/ Spared(f, u)
<1>0. file[f] \in Seq(Line)
  BY FileIsLines
<1>1. PICK g : g = DelRow(file[f], n)
  OBVIOUS
<1>2. Removed(file[f], g, n)
  BY <1>0, <1>1, RowRemoved DEF DelRow
<1>3. g \in Seq(Line)
  BY <1>2 DEF Removed
<1>4. f = "users" => UsersOK(g)
  <2> SUFFICES ASSUME f = "users" PROVE UsersOK(g)
    OBVIOUS
  <2>1. UsersOK(file[f]) /\ n \in Rows(file[f], "masks")
    BY DEF FilesOK
  <2> QED BY <1>0, <1>2, <2>1, MaskRemoved
<1>5. /\ Changes(f) /\ leaked' = leaked
      /\ dbpc' = "dead" \/ (dbpc' = next /\ file'[f] = g)
  BY <1>1, <1>3, <1>4, WriteChanges
<1>6. ASSUME file'[f] = g, f # "bans" PROVE Spared(f, u)
  <2> SUFFICES ASSUME NEW i \in 1 .. Len(file[f]), u \notin Owners(f, i) PROVE file[f][i] \in Range(g)
    BY <1>6 DEF Spared
  <2>1. i # n
    BY <1>6
  <2> QED BY <1>0, <1>2, <2>1, RemovedKeeps
<1> QED BY <1>5, <1>6

\* The loops that delete rows end when there is none.
LEMMA DelAllChanges ==
  ASSUME FilesOK, CountsOK, NEW f \in Files, NEW s, f = "users" => s = "masks",
         NEW rows, rows \subseteq Rows(file[f], s), NEW next, DelAll(f, rows, next),
         NEW u, f # "bans" => \A n \in rows : u \in Owners(f, n)
  PROVE  /\ Changes(f) /\ leaked' = leaked
         /\ dbpc' \in {dbpc, "dead"} \/ (dbpc' = next /\ file' = file /\ (Readable => rows = {}))
         /\ dbpc' = "dead" \/ f = "bans" \/ Spared(f, u)
<1>0. file[f] \in Seq(Line)
  BY FileIsLines
<1>1. CASE Readable /\ rows # {}
  <2>1. rows \in SUBSET Nat
    BY <1>0, RowsAreLines
  <2>2. PICK n \in rows : n = Min(rows)
    BY <1>1, <2>1, FirstOf
  <2>3. Write(f, DelRow(file[f], n), dbpc)
    BY <1>1, <2>2 DEF DelAll
  <2>4. n \in Rows(file[f], s) /\ (f # "bans" => u \in Owners(f, n))
    BY <2>2
  <2> QED BY <2>3, <2>4, RemoveChanges
<1>2. CASE ~(Readable /\ rows # {})
  <2>1. Skip(next)
    BY <1>2 DEF DelAll
  <2>2. Changes(f) /\ dbpc' = next /\ leaked' = leaked /\ file' = file
    BY <2>1, SkipChanges
  <2>3. Spared(f, u)
    BY <1>0, <2>2, FileIsLines DEF Spared, Range
  <2> QED BY <1>2, <2>2, <2>3
<1> QED BY <1>1, <1>2

(***************************************************************************)
(* What the calls find                                                     *)
(***************************************************************************)
LEMMA UsersFile == "users" \in Files /\ "bans" \in Files /\ "modes" \in Files /\ "notes" \in Files /\ "vars" \in Files
BY DEF Files

LEMMA UserFound ==
  ASSUME FilesOK, NEW u
  PROVE  HasUser(u) <=> IsUser(file["users"], u)
<1> DEFINE f == file["users"]
           old == RowsWith(f, "users", u)
<1>0. f \in Seq(Line) /\ UniqueIds(f)
  BY FileIsLines, UsersFile DEF FilesOK, UsersOK
<1>1. \A i : i \in old <=> i \in Rows(f, "users") /\ f[i].id = u
  BY DEF RowsWith
<1>2. old \in SUBSET Nat
  BY <1>0, <1>1, RowsAreLines
<1>3. \A i, j \in old : i = j
  BY <1>0, <1>1 DEF UniqueIds
<1>4. old # {} => Min(old) \in old
  BY <1>2, FirstOf
<1>5. HasUser(u) <=> old # {} /\ Len(f[Min(old)].val) = 2
  BY DEF HasUser, GetStr
<1>6. IsUser(f, u) <=> \E j \in old : Len(f[j].val) = 2
  BY <1>1 DEF IsUser
<1> HIDE DEF f, old
<1> QED
  <2>1. ASSUME old # {}, Len(f[Min(old)].val) = 2 PROVE \E j \in old : Len(f[j].val) = 2
    BY <1>4, <2>1
  <2>2. ASSUME NEW j \in old, Len(f[j].val) = 2 PROVE old # {} /\ Len(f[Min(old)].val) = 2
    <3>1. j = Min(old)
      BY <1>3, <1>4
    <3> QED BY <2>2, <3>1
  <2>3. (old # {} /\ Len(f[Min(old)].val) = 2) <=> \E j \in old : Len(f[j].val) = 2
    BY <2>1, <2>2
  <2> QED BY <1>5, <1>6, <2>3 DEF f

LEMMA KnownUser ==
  ASSUME FilesOK, NEW u \in Uids
  PROVE  /\ u \in Nat /\ IsUser(file["users"], u) /\ RowsWith(file["users"], "users", u) # {}
         /\ GetStr(file["users"], "users", u)[1] \in Nat
<1> DEFINE f == file["users"]
           old == RowsWith(f, "users", u)
<1>0. f \in Seq(Line)
  BY FileIsLines, UsersFile
<1>1. HasUser(u) /\ \E i \in Rows(f, "users") : u = f[i].id
  BY DEF Uids, Users
<1>2. u \in Nat
  BY <1>0, <1>1, RowsAreLines, LineType
<1>3. IsUser(f, u)
  BY <1>1, UserFound
<1>4. old # {} /\ Len(GetStr(f, "users", u)) = 2
  BY <1>1 DEF HasUser
<1>5. old \in SUBSET Nat /\ old \subseteq Rows(f, "users")
  BY <1>0, RowsAreLines DEF RowsWith
<1>6. PICK n \in old : n = Min(old)
  BY <1>4, <1>5, FirstOf
<1>7. f[n].val \in Seq(Nat) /\ GetStr(f, "users", u) = f[n].val
  BY <1>0, <1>5, <1>6, RowsAreLines, LineType DEF GetStr
<1>8. f[n].val[1] \in Nat
  <2>1. PICK v \in Seq(Nat) : v = f[n].val /\ Len(v) = 2
    BY <1>4, <1>7
  <2> QED BY <2>1, FirstOfTwo
<1> QED BY <1>2, <1>3, <1>4, <1>7, <1>8

LEMMA OwnersAre ==
  /\ \A i : Owners("notes", i) = Range(Val("notes", i))
  /\ \A i : i \notin Users => Owners("users", i) = {Val("users", i)[1]}
  /\ \A i : i \in Users => Owners("users", i) = {file["users"][i].id}
  /\ \A i : Owners("modes", i) = {file["modes"][i].id}
  /\ \A i : Owners("vars", i) = {file["vars"][i].id}
BY DEF Owners

LEMMA MaskRowsAre ==
  ASSUME FilesOK, NEW u
  PROVE  /\ MasksOf(u) \subseteq Rows(file["users"], "masks")
         /\ \A i \in MasksOf(u) : u \in Owners("users", i)
<1>1. MasksOf(u) \subseteq Rows(file["users"], "masks")
  BY DEF MasksOf, MaskRows
<1>2. ASSUME NEW i \in MasksOf(u) PROVE u \in Owners("users", i)
  <2>1. i \in Rows(file["users"], "masks")
    BY <1>1
  <2>2. i \notin Users
    BY <2>1, FileIsLines, UsersFile, UsersBeforeMasks DEF Users, FilesOK, UsersOK
  <2>3. Val("users", i)[1] = u
    BY DEF MasksOf
  <2> QED BY <2>2, <2>3, OwnersAre
<1> QED BY <1>1, <1>2

(***************************************************************************)
(* The calls of scripts                                                    *)
(***************************************************************************)

\* A step after which no deletion is in progress, and none has been reported.
LEMMA PlainStep ==
  ASSUME NEW f \in Files, Changes(f), dbops' \in 0 .. MaxOps, call' \in CallType,
         dbpc' \in {"idle", "dead", "modeadd", "delmask"}, dbpc' = "dead" \/ call'.op # "del"
  PROVE  DbInv'
<1>1. FilesOK' /\ CountsOK'
  BY DEF Changes, CountsOK
<1>2. CallOK'
  BY DEF CallOK, Steps
<1>3. Stages'
  BY DEF Stages
<1>4. DelClears'
  BY DEF DelClears
<1> QED BY <1>1, <1>2, <1>3, <1>4 DEF DbInv

LEMMA IdleCounts ==
  ASSUME CountsOK, Idle
  PROVE  dbops' \in 0 .. MaxOps
<1>1. MaxOps \in Nat /\ dbops \in 0 .. MaxOps
  BY DbAssumption DEF CountsOK
<1> QED BY <1>1 DEF Idle

LEMMA Words ==
  /\ Masks \subseteq Nat /\ Handles \subseteq Nat /\ Keys \subseteq Nat /\ Banned \subseteq Nat
  /\ \A a, b \in Nat : <<a, b>> \in Seq(Nat) /\ Len(<<a, b>>) = 2 /\ <<a, b>>[1] = a /\ <<a, b>> # <<>>
  /\ \A a \in Nat : <<a>> \in Seq(Nat)
<1>1. Masks \subseteq Nat /\ Handles \subseteq Nat /\ Keys \subseteq Nat /\ Banned \subseteq Nat
  BY DbAssumption
<1>2. ASSUME NEW a \in Nat, NEW b \in Nat
      PROVE  <<a, b>> \in Seq(Nat) /\ Len(<<a, b>>) = 2 /\ <<a, b>>[1] = a /\ <<a, b>> # <<>>
  <2>1. <<a, b>> \in Seq(Nat) /\ Len(<<a, b>>) = 2 /\ <<a, b>>[1] = a
    OBVIOUS
  <2>2. Len(<<>>) = 0
    OBVIOUS
  <2> QED BY <2>1, <2>2
<1> QED BY <1>1, <1>2

LEMMA WrittenIs ==
  ASSUME NEW id \in Nat, NEW val \in Seq(Nat)
  PROVE  /\ Written(id, val) \in Line /\ Written(id, val).sect = "" /\ Written(id, val).id = id
         /\ val # <<>> => Written(id, val).val = val
         /\ Len(Written(id, <<>>).val) = 1
<1>1. PICK z \in Seq(Nat) : z = <<0>> /\ Len(z) = 1
  <2>1. <<0>> \in Seq(Nat) /\ Len(<<0>>) = 1
    OBVIOUS
  <2> QED BY <2>1
<1>2. Written(id, <<>>) = Row(id, z)
  BY <1>1 DEF Written
<1>3. Row(id, z).val = z
  BY RowType
<1>4. Len(Written(id, <<>>).val) = 1
  BY <1>1, <1>2, <1>3
<1>5. PICK v \in Seq(Nat) : v = (IF val = <<>> THEN z ELSE val)
  OBVIOUS
<1>6. Written(id, val) = Row(id, v)
  BY <1>1, <1>5 DEF Written
<1>7. Row(id, v) \in Line /\ Row(id, v).sect = "" /\ Row(id, v).id = id /\ Row(id, v).val = v
  BY RowType
<1>8. val # <<>> => v = val
  BY <1>5
<1> QED BY <1>4, <1>6, <1>7, <1>8

LEMMA Goods ==
  ASSUME NEW op \in {"addmask", "setpass", "setname", "getid", "ban", "delid", "note", "mode+", "mode-",
                     "set", "unset", "check", "delmask", "add"}
  PROVE  op \in Ops /\ op # "del"
BY DEF Ops

\* userdb_addmask, and the second step of userdb_add
LEMMA AddMaskChanges ==
  ASSUME FilesOK, CountsOK, NEW u \in Nat, IsUser(file["users"], u), NEW mask \in Nat, AddMask(u, mask), NEW w
  PROVE  /\ Changes("users") /\ leaked' = leaked /\ dbpc' \in {"idle", "dead"}
         /\ dbpc' = "dead" \/ Spared("users", w)
<1> DEFINE f == file["users"]
           id == NextId(f, "masks")
           val == <<u, mask>>
<1>0. f \in Seq(Line) /\ "users" \in Files /\ UsersOK(f)
  BY FileIsLines, UsersFile DEF FilesOK
<1>1. id \in Nat /\ RowsWith(f, "masks", id) = {}
  BY <1>0, FreshId
<1>2. val \in Seq(Nat) /\ Len(val) = 2 /\ val[1] = u /\ val # <<>>
  BY Words
<1>3. ASSUME CanSetStr(f, "masks", id, val) PROVE UsersOK(SetStr(f, "masks", id, val))
  <2> HIDE DEF f, id, val
  <2>1. PICK s : s = "masks"
    OBVIOUS
  <2>2. LineAdded(f, SetStr(f, s, id, val), s, Written(id, val))
    BY <1>0, <1>1, <1>2, <1>3, <2>1, StrSet
  <2>3. PICK g, e : g = SetStr(f, s, id, val) /\ e = Written(id, val)
    OBVIOUS
  <2>4. e.sect = "" /\ Len(e.val) = 2 /\ e.val[1] = u
    BY <1>1, <1>2, <2>3, WrittenIs
  <2>5. IsUser(f, e.val[1])
    BY <2>4 DEF f
  <2>6. LineAdded(f, g, "masks", e)
    BY <2>1, <2>2, <2>3
  <2>7. UsersOK(g)
    BY <1>0, <2>4, <2>5, <2>6, MaskAdded
  <2> QED BY <2>1, <2>3, <2>7
<1>4. Set("users", "masks", id, val, "idle")
  BY DEF AddMask
<1>5. \A n \in RowsWith(f, "masks", id) : w \in Owners("users", n)
  BY <1>1
<1> HIDE DEF id, val
<1>6. PICK a, b, c : a = "users" /\ b = "masks" /\ c = "idle"
  OBVIOUS
<1>7. /\ Changes(a) /\ leaked' = leaked /\ dbpc' \in {c, "dead"}
      /\ dbpc' = "dead" \/ a = "bans" \/ Spared(a, w)
  BY <1>0, <1>1, <1>2, <1>3, <1>4, <1>5, <1>6, SetChanges
<1> QED BY <1>6, <1>7

LEMMA UserAddStep ==
  ASSUME DbInv, NEW name \in Handles, NEW mask \in Masks, UserAdd(name, mask)
  PROVE  DbInv' /\ Spares
<1> DEFINE f == file["users"]
           uid == NextId(f, "users")
           val == <<name, 1>>
           set == Readable /\ CanSetStr(f, "users", uid, val)
<1>0. f \in Seq(Line) /\ "users" \in Files /\ UsersOK(f) /\ FilesOK /\ CountsOK
  BY FileIsLines, UsersFile DEF DbInv, FilesOK
<1>1. uid \in Nat /\ RowsWith(f, "users", uid) = {} /\ \A i \in Rows(f, "users") : f[i].id # uid
  BY <1>0, FreshId
<1>2. val \in Seq(Nat) /\ Len(val) = 2 /\ val # <<>> /\ mask \in Nat
  BY Words
<1>3. /\ Idle /\ Calls("add", uid, mask, IF set THEN uid ELSE 0)
      /\ Set("users", "users", uid, val, IF set THEN "addmask" ELSE "idle")
  BY DEF UserAdd
<1>4. call' \in CallType /\ call'.op = "add" /\ call'.uid = uid
  <2>1. (IF set THEN uid ELSE 0) \in Int
    BY <1>1
  <2>2. PICK op : op = "add"
    OBVIOUS
  <2>3. op \in Ops
    BY <2>2 DEF Ops
  <2> HIDE DEF uid, set
  <2> QED BY <1>1, <1>2, <1>3, <2>1, <2>2, <2>3, CallsAre
<1>5. dbops' \in 0 .. MaxOps
  BY <1>0, <1>3, IdleCounts
<1>6. CASE set
  <2> HIDE DEF f, uid, val
  <2>1. PICK g, e : g = SetStr(f, "users", uid, val) /\ e = Written(uid, val)
    OBVIOUS
  <2>2. PICK s : s = "users"
    OBVIOUS
  <2>3. LineAdded(f, SetStr(f, s, uid, val), s, Written(uid, val))
    BY <1>0, <1>1, <1>2, <1>6, <2>2, StrSet
  <2>4. LineAdded(f, g, "users", e)
    BY <2>1, <2>2, <2>3
  <2>5. e.sect = "" /\ e.id = uid /\ Len(e.val) = 2
    BY <1>1, <1>2, <2>1, WrittenIs
  <2>6. UsersOK(g) /\ IsUser(g, uid)
    BY <1>0, <1>1, <2>4, <2>5, UserAdded
  <2>7. g \in Seq(Line)
    BY <2>4 DEF LineAdded
  <2>8. Write("users", g, "addmask")
    BY <1>3, <1>6, <2>1 DEF Set, f
  <2>9. PICK a, next : a = "users" /\ next = "addmask"
    OBVIOUS
  <2>10. /\ Changes(a) /\ leaked' = leaked
         /\ dbpc' = "dead" \/ (dbpc' = next /\ file'[a] = g)
    BY <1>0, <2>6, <2>7, <2>8, <2>9, WriteChanges
  <2>11. file'["users"] = g => Spared("users", call'.uid)
    BY <1>0, <2>4, AddedKeeps DEF Spared, f
  <2>12. Spares
    BY <1>0, <2>9, <2>10, <2>11, SparesAll
  <2>13. DbInv'
    <3>1. CASE dbpc' = "dead"
      BY <1>0, <1>4, <1>5, <2>9, <2>10, <3>1, PlainStep
    <3>2. CASE dbpc' = "addmask" /\ file'["users"] = g
      <4>1. FilesOK' /\ CountsOK'
        BY <1>5, <2>9, <2>10 DEF Changes, CountsOK
      <4>2. CallOK'
        BY <1>4, <2>6, <3>2 DEF CallOK, Steps
      <4>3. Stages' /\ DelClears'
        BY <3>2 DEF Stages, DelClears
      <4> QED BY <4>1, <4>2, <4>3 DEF DbInv
    <3> QED BY <2>9, <2>10, <3>1, <3>2
  <2> QED BY <2>12, <2>13
<1>7. CASE ~set
  <2>1. Skip("idle")
    BY <1>3, <1>7 DEF Set
  <2>2. PICK next : next = "idle"
    OBVIOUS
  <2>3. Changes("users") /\ Spares /\ dbpc' = next
    BY <1>0, <2>1, <2>2, SkipChanges
  <2> QED BY <1>0, <1>4, <1>5, <2>2, <2>3, PlainStep
<1> QED BY <1>6, <1>7

LEMMA UserCalls ==
  ASSUME DbInv, NEW u \in Uids
  PROVE  \A mask \in Masks :
           UserAddmask(u, mask) \/ UserDelmask(u, mask) => DbInv' /\ Spares
<1> SUFFICES ASSUME NEW mask \in Masks, UserAddmask(u, mask) \/ UserDelmask(u, mask) PROVE DbInv' /\ Spares
  OBVIOUS
<1>0. FilesOK /\ CountsOK /\ "users" \in Files /\ u \in Nat /\ IsUser(file["users"], u) /\ mask \in Nat
  BY UsersFile, KnownUser, Words DEF DbInv
<1>1. CASE UserAddmask(u, mask)
  <2>1. PICK op : op = "addmask"
    OBVIOUS
  <2>2. op \in Ops /\ op # "del"
    BY <2>1 DEF Ops
  <2>3. Idle /\ Calls(op, u, mask, 0) /\ AddMask(u, mask)
    BY <1>1, <2>1 DEF UserAddmask
  <2>4. call' \in CallType /\ call'.op = op /\ dbops' \in 0 .. MaxOps
    BY <1>0, <2>2, <2>3, CallsAre, IdleCounts
  <2>5. /\ Changes("users") /\ dbpc' \in {"idle", "dead"}
        /\ dbpc' = "dead" \/ Spared("users", call'.uid)
    BY <1>0, <2>3, AddMaskChanges
  <2>6. DbInv'
    BY <1>0, <2>2, <2>4, <2>5, PlainStep
  <2>7. Spares
    BY <1>0, <2>5, SparesAll
  <2> QED BY <2>6, <2>7
<1>2. CASE UserDelmask(u, mask)
  <2>1. PICK op, next : op = "delmask" /\ next = "delmask"
    OBVIOUS
  <2>2. op \in Ops /\ op # "del"
    BY <2>1 DEF Ops
  <2>3. Idle /\ Calls(op, u, mask, 0) /\ Skip(next)
    BY <1>2, <2>1 DEF UserDelmask
  <2>4. call' \in CallType /\ call'.op = op /\ dbops' \in 0 .. MaxOps
    BY <1>0, <2>2, <2>3, CallsAre, IdleCounts
  <2>5. Changes("users") /\ Spares /\ dbpc' = next
    BY <1>0, <2>3, SkipChanges
  <2>6. DbInv'
    BY <1>0, <2>1, <2>2, <2>4, <2>5, PlainStep
  <2> QED BY <2>5, <2>6
<1> QED BY <1>1, <1>2

LEMMA SetpassStep ==
  ASSUME DbInv, NEW u \in Uids, NEW pass \in {1, 2}, UserSetpass(u, pass)
  PROVE  DbInv' /\ Spares
<1> DEFINE f == file["users"]
           name == GetStr(f, "users", u)[1]
           val == <<name, pass>>
<1>0. /\ FilesOK /\ CountsOK /\ "users" \in Files /\ u \in Nat /\ name \in Nat /\ pass \in Nat
      /\ RowsWith(f, "users", u) # {} /\ f \in Seq(Line) /\ UsersOK(f)
  BY UsersFile, KnownUser, FileIsLines DEF DbInv, FilesOK
<1>1. val \in Seq(Nat) /\ Len(val) = 2 /\ val # <<>>
  BY <1>0, Words
<1>2. PICK op, next : op = "setpass" /\ next = "idle"
  OBVIOUS
<1>3. op \in Ops /\ op # "del"
  BY <1>2 DEF Ops
<1>4. Idle /\ Calls(op, u, pass, 0) /\ Set("users", "users", u, val, next)
  BY <1>2 DEF UserSetpass
<1>5. call' \in CallType /\ call'.op = op /\ call'.uid = u /\ dbops' \in 0 .. MaxOps
  BY <1>0, <1>3, <1>4, CallsAre, IdleCounts
<1>6. ASSUME CanSetStr(f, "users", u, val) PROVE UsersOK(SetStr(f, "users", u, val))
  <2> HIDE DEF f, val
  <2>1. PICK s : s = "users"
    OBVIOUS
  <2>2. PICK n \in RowsWith(f, s, u) : Replaced(f, SetStr(f, s, u, val), n, Written(u, val))
    BY <1>0, <1>1, <1>6, <2>1, StrSet
  <2>3. PICK g, e : g = SetStr(f, s, u, val) /\ e = Written(u, val)
    OBVIOUS
  <2>4. e.sect = "" /\ Len(e.val) = 2 /\ e.id = u
    BY <1>0, <1>1, <2>3, WrittenIs
  <2>5. n \in Rows(f, "users") /\ f[n].id = u
    BY <2>1 DEF RowsWith
  <2>6. UsersOK(g)
    BY <1>0, <2>2, <2>3, <2>4, <2>5, UserReplaced
  <2> QED BY <2>1, <2>3, <2>6
<1>7. \A n \in RowsWith(f, "users", u) : u \in Owners("users", n)
  BY OwnersAre DEF RowsWith, Users
<1>8. /\ Changes("users") /\ dbpc' \in {next, "dead"}
      /\ dbpc' = "dead" \/ Spared("users", u)
  <2> HIDE DEF val
  <2>1. PICK a : a = "users"
    OBVIOUS
  <2>2. /\ Changes(a) /\ leaked' = leaked /\ dbpc' \in {next, "dead"}
        /\ dbpc' = "dead" \/ a = "bans" \/ Spared(a, u)
    BY <1>0, <1>1, <1>4, <1>6, <1>7, <2>1, SetChanges
  <2> QED BY <2>1, <2>2
<1>9. DbInv'
  BY <1>0, <1>2, <1>3, <1>5, <1>8, PlainStep
<1>10. Spares
  BY <1>0, <1>5, <1>8, SparesAll
<1> QED BY <1>9, <1>10

\* Calls that write nothing.
LEMMA LookCalls ==
  ASSUME DbInv,
         \/ \E u \in Uids, name \in Handles : UserSetname(u, name)
         \/ \E name \in Handles : UserFindByName(name)
         \/ \E h \in Idents : UserFindByMask(h)
         \/ \E u \in Uids, f \in {"modes", "vars"}, k \in Keys : Check(f, u, k)
         \/ \E u \in Uids : UserDel(u)
         \/ \E u \in Uids, k \in Banned : BanAdd(u, k)
  PROVE  DbInv' /\ Spares
<1>0. FilesOK /\ CountsOK /\ CallOK /\ "users" \in Files /\ "bans" \in Files
  BY UsersFile DEF DbInv
<1>u. file["users"] \in Seq(Line) /\ file["bans"] \in Seq(Line)
  BY <1>0, FileIsLines
<1>1. CASE \E u \in Uids, name \in Handles : UserSetname(u, name)
  <2>1. PICK u \in Uids, name \in Handles : UserSetname(u, name)
    BY <1>1
  <2>2. PICK op : op = "setname"
    OBVIOUS
  <2>3. PICK next : next = "idle"
    OBVIOUS
  <2>4. op \in Ops /\ op # "del" /\ u \in Nat /\ name \in Nat
    BY <1>0, <2>2, KnownUser, Words DEF Ops
  <2>5. Idle /\ Calls(op, u, name, -1) /\ Skip(next)
    BY <2>1, <2>2, <2>3 DEF UserSetname
  <2>6. call' \in CallType /\ call'.op = op
    BY <2>4, <2>5, CallsAre
  <2>7. dbops' \in 0 .. MaxOps /\ Changes("users") /\ Spares /\ dbpc' = next
    BY <1>0, <2>5, IdleCounts, SkipChanges
  <2> QED BY <1>0, <2>3, <2>4, <2>6, <2>7, PlainStep
<1>2. CASE \E name \in Handles : UserFindByName(name)
  <2>1. PICK name \in Handles : UserFindByName(name)
    BY <1>2
  <2> DEFINE val == IF Readable /\ Named(name) # {} THEN file["users"][Min(Named(name))].id ELSE 0
  <2>2. PICK op : op = "getid"
    OBVIOUS
  <2>3. Named(name) # {} => file["users"][Min(Named(name))].id \in Nat
    <3> SUFFICES ASSUME Named(name) # {} PROVE file["users"][Min(Named(name))].id \in Nat
      OBVIOUS
    <3>1. Named(name) \subseteq Rows(file["users"], "users")
      BY DEF Named, Users
    <3>2. Named(name) \in SUBSET Nat
      BY <1>u, <3>1, RowsAreLines
    <3>3. Min(Named(name)) \in Named(name)
      BY <3>2, FirstOf
    <3> QED BY <1>u, <3>1, <3>3, RowsAreLines, LineType
  <2>4. op \in Ops /\ op # "del" /\ name \in Nat /\ val \in Int /\ 0 \in Nat
    BY <2>2, <2>3, Words DEF Ops
  <2>5. Idle /\ Calls(op, 0, name, val) /\ Found(Named(name)) /\ dbpc' = dbpc /\ dbpc = "idle"
    BY <2>1, <2>2 DEF UserFindByName, Idle
  <2> HIDE DEF val
  <2>6. call' \in CallType /\ call'.op = op
    BY <2>4, <2>5, CallsAre
  <2>7. dbops' \in 0 .. MaxOps /\ Changes("users") /\ Spares
    BY <1>0, <2>5, IdleCounts, FoundChanges
  <2> QED BY <1>0, <2>4, <2>5, <2>6, <2>7, PlainStep
<1>3. CASE \E h \in Idents : UserFindByMask(h)
  <2>1. PICK h \in Idents : UserFindByMask(h)
    BY <1>3
  <2>2. FindByMask(h) \in Nat
    <3>1. Matching(h) \subseteq MaskRows /\ MaskRows \subseteq Rows(file["users"], "masks")
      BY DEF Matching, MaskRows
    <3>2. Matching(h) \in SUBSET Nat
      BY <1>u, <3>1, RowsAreLines
    <3>3. ASSUME Matching(h) # {} PROVE Val("users", Min(Matching(h)))[1] \in Nat
      <4>1. PICK i \in Matching(h) : i = Min(Matching(h))
        BY <3>2, <3>3, FirstOf
      <4>2. PICK v \in Seq(Nat) : v = Val("users", i) /\ Len(v) = 2
        BY <1>u, <3>1, <4>1, RowsAreLines, LineType DEF MaskRows, Val
      <4> QED BY <4>1, <4>2, FirstOfTwo
    <3> QED BY <3>3 DEF FindByMask
  <2>3. Idle /\ Found(Matching(h)) /\ dbpc' = dbpc /\ dbpc = "idle"
    BY <2>1 DEF UserFindByMask, Idle
  <2>4. call' = [NoCall EXCEPT !.op = "getid", !.ident = h, !.val = FindByMask(h)]
    BY <2>1 DEF UserFindByMask
  <2>5. call' = [op |-> "getid", uid |-> 0, word |-> 0, ident |-> h, val |-> FindByMask(h)]
    BY <2>4 DEF NoCall
  <2>6. call' \in CallType /\ call'.op = "getid"
    <3>1. PICK op \in Ops : op = "getid"
      BY DEF Ops
    <3>2. PICK z \in Nat : z = 0
      OBVIOUS
    <3>3. PICK v \in Int : v = FindByMask(h)
      BY <2>2
    <3>4. h \in Idents \cup {""}
      OBVIOUS
    <3>5. call' = [op |-> op, uid |-> z, word |-> z, ident |-> h, val |-> v]
      BY <2>5, <3>1, <3>2, <3>3
    <3> QED BY <3>1, <3>4, <3>5 DEF CallType
  <2>7. dbops' \in 0 .. MaxOps /\ Changes("users") /\ Spares
    BY <1>0, <2>3, IdleCounts, FoundChanges
  <2> QED BY <1>0, <2>3, <2>6, <2>7, PlainStep
<1>4. CASE \E u \in Uids, f \in {"modes", "vars"}, k \in Keys : Check(f, u, k)
  <2>1. PICK u \in Uids, f \in {"modes", "vars"}, k \in Keys : Check(f, u, k)
    BY <1>4
  <2>2. PICK op : op = "check"
    OBVIOUS
  <2>3. op \in Ops /\ op # "del" /\ u \in Nat /\ k \in Nat
    BY <1>0, <2>2, KnownUser, Words DEF Ops
  <2>4. Idle /\ Calls(op, u, k, 0) /\ Found(Keyed(f, u, k)) /\ dbpc' = dbpc /\ dbpc = "idle"
    BY <2>1, <2>2 DEF Check, Idle
  <2>5. call' \in CallType /\ call'.op = op
    BY <2>3, <2>4, CallsAre
  <2>6. dbops' \in 0 .. MaxOps /\ Changes("users") /\ Spares
    BY <1>0, <2>4, IdleCounts, FoundChanges
  <2> QED BY <1>0, <2>3, <2>4, <2>5, <2>6, PlainStep
<1>5. CASE \E u \in Uids : UserDel(u)
  <2>1. PICK u \in Uids : UserDel(u)
    BY <1>5
  <2>2. PICK op : op = "del"
    OBVIOUS
  <2>3. PICK next : next = "delbans"
    OBVIOUS
  <2>4. op \in Ops /\ u \in Nat
    BY <1>0, <2>2, KnownUser DEF Ops
  <2>5. Idle /\ Calls(op, u, 0, -1) /\ Skip(next)
    BY <2>1, <2>2, <2>3 DEF UserDel
  <2>6. call' \in CallType
    BY <2>4, <2>5, CallsAre
  <2>7. dbops' \in 0 .. MaxOps /\ Changes("users") /\ Spares /\ dbpc' = next
    BY <1>0, <2>5, IdleCounts, SkipChanges
  <2>8. FilesOK' /\ CountsOK'
    BY <2>7 DEF Changes, CountsOK
  <2>9. CallOK'
    BY <2>3, <2>6, <2>7 DEF CallOK, Steps
  <2>10. Stages' /\ DelClears'
    BY <2>3, <2>7 DEF Stages, DelClears
  <2> QED BY <2>7, <2>8, <2>9, <2>10 DEF DbInv
<1>6. CASE \E u \in Uids, k \in Banned : BanAdd(u, k)
  <2>1. PICK u \in Uids, k \in Banned : BanAdd(u, k)
    BY <1>6
  <2> DEFINE val == IF Readable /\ BansWith(k) # {} THEN file["bans"][Min(BansWith(k))].id
                    ELSE NextId(file["bans"], "bans")
  <2>2. PICK op : op = "ban"
    OBVIOUS
  <2>3. BansWith(k) # {} => file["bans"][Min(BansWith(k))].id \in Nat
    <3> SUFFICES ASSUME BansWith(k) # {} PROVE file["bans"][Min(BansWith(k))].id \in Nat
      OBVIOUS
    <3>1. BansWith(k) \subseteq Rows(file["bans"], "bans")
      BY DEF BansWith
    <3>2. BansWith(k) \in SUBSET Nat
      BY <1>u, <3>1, RowsAreLines
    <3>3. Min(BansWith(k)) \in BansWith(k)
      BY <3>2, FirstOf
    <3> QED BY <1>u, <3>1, <3>3, RowsAreLines, LineType
  <2>4. NextId(file["bans"], "bans") \in Nat
    BY <1>u, FreshId
  <2>5. op \in Ops /\ op # "del" /\ u \in Nat /\ k \in Nat /\ val \in Nat
    BY <1>0, <2>2, <2>3, <2>4, KnownUser, Words DEF Ops
  <2>6. Idle /\ Calls(op, u, k, val) /\ Found(BansWith(k)) /\ dbpc' = "banset"
    BY <2>1, <2>2 DEF BanAdd
  <2> HIDE DEF val
  <2>7. call' \in CallType /\ call'.op = op /\ call'.val = val
    BY <2>5, <2>6, CallsAre
  <2>8. dbops' \in 0 .. MaxOps /\ Changes("bans") /\ Spares
    BY <1>0, <2>6, IdleCounts, FoundChanges
  <2>9. FilesOK' /\ CountsOK'
    BY <2>8 DEF Changes, CountsOK
  <2>10. CallOK'
    BY <2>5, <2>6, <2>7 DEF CallOK, Steps
  <2>11. Stages' /\ DelClears'
    BY <2>6 DEF Stages, DelClears
  <2> QED BY <2>8, <2>9, <2>10, <2>11 DEF DbInv
<1> QED BY <1>1, <1>2, <1>3, <1>4, <1>5, <1>6

LEMMA ByIdStep ==
  ASSUME DbInv, NEW f \in {"bans", "notes"}, NEW i \in Rows(file[f], f), DelById(f, file[f][i].id)
  PROVE  DbInv' /\ Spares
<1>0. FilesOK /\ CountsOK /\ f \in Files /\ f # "users"
  BY DEF DbInv, Files
<1>1. PICK id \in Nat : id = file[f][i].id
  BY <1>0, FileIsLines, RowsAreLines, LineType
<1>2. PICK op : op = "delid"
  OBVIOUS
<1>3. PICK next : next = "idle"
  OBVIOUS
<1>4. op \in Ops /\ op # "del" /\ <<>> \in Seq(Nat) /\ 0 \in Nat
  BY <1>2 DEF Ops
<1>5. Idle /\ Calls(op, 0, id, 0) /\ Set(f, f, id, <<>>, next)
  BY <1>1, <1>2, <1>3 DEF DelById
<1>6. call' \in CallType /\ call'.op = op /\ dbops' \in 0 .. MaxOps
  BY <1>0, <1>4, <1>5, CallsAre, IdleCounts
<1>7. Changes(f) /\ dbpc' \in {next, "dead"}
  <2>1. CASE Readable /\ CanSetStr(file[f], f, id, <<>>)
    <3>1. PICK g : g = SetStr(file[f], f, id, <<>>)
      OBVIOUS
    <3>2. Write(f, g, next)
      BY <1>5, <2>1, <3>1 DEF Set
    <3>3. g \in Seq(Line)
      <4>1. file[f] \in Seq(Line)
        BY <1>0, FileIsLines
      <4>2. \/ \E n \in RowsWith(file[f], f, id) : Replaced(file[f], g, n, Written(id, <<>>))
            \/ LineAdded(file[f], g, f, Written(id, <<>>))
        BY <1>4, <2>1, <3>1, <4>1, StrSet
      <4> QED BY <4>2 DEF Replaced, LineAdded
    <3> QED BY <1>0, <3>2, <3>3, WriteChanges
  <2>2. CASE ~(Readable /\ CanSetStr(file[f], f, id, <<>>))
    <3>1. Skip(next)
      BY <1>5, <2>2 DEF Set
    <3> QED BY <1>0, <3>1, SkipChanges
  <2> QED BY <2>1, <2>2
<1>8. DbInv'
  BY <1>0, <1>3, <1>4, <1>6, <1>7, PlainStep
<1>9. Spares
  BY <1>0, <1>2, <1>6, <1>7, SparesAll
<1> QED BY <1>8, <1>9

LEMMA NoteStep ==
  ASSUME DbInv, NEW from \in Uids, NEW to \in Uids, NoteAdd(from, to)
  PROVE  DbInv' /\ Spares
<1>0. /\ FilesOK /\ CountsOK /\ "notes" \in Files /\ file["notes"] \in Seq(Line)
      /\ from \in Nat /\ to \in Nat /\ <<from, to>> \in Seq(Nat)
  BY UsersFile, FileIsLines, KnownUser, Words DEF DbInv
<1>1. PICK f : f = "notes" /\ f \in Files /\ f # "users" /\ f # "bans"
  BY <1>0
<1>2. PICK op : op = "note"
  OBVIOUS
<1>3. PICK next : next = "idle"
  OBVIOUS
<1>4. op \in Ops /\ op # "del"
  BY <1>2 DEF Ops
<1>5. PICK id \in Nat : id = NextId(file[f], f) /\ RowsWith(file[f], f, id) = {}
  BY <1>0, <1>1, FreshId
<1>6. Idle /\ Calls(op, from, to, 0) /\ Set(f, f, id, <<from, to>>, next)
  BY <1>1, <1>2, <1>3, <1>5 DEF NoteAdd
<1>7. call' \in CallType /\ call'.op = op /\ dbops' \in 0 .. MaxOps
  BY <1>0, <1>4, <1>6, CallsAre, IdleCounts
<1>8. /\ Changes(f) /\ dbpc' \in {next, "dead"}
      /\ dbpc' = "dead" \/ f = "bans" \/ Spared(f, call'.uid)
  <2>1. \A n \in RowsWith(file[f], f, id) : call'.uid \in Owners(f, n)
    BY <1>5
  <2> QED BY <1>0, <1>1, <1>6, <2>1, SetChanges
<1>9. DbInv'
  BY <1>1, <1>3, <1>4, <1>7, <1>8, PlainStep
<1>10. Spares
  BY <1>0, <1>1, <1>8, SparesAll
<1> QED BY <1>9, <1>10

\* mode_set and var_set: the row that is replaced or removed is the user's.
LEMMA KeyedAre ==
  ASSUME FilesOK, NEW f \in {"modes", "vars"}, NEW u, NEW k, Keyed(f, u, k) # {}
  PROVE  /\ Min(Keyed(f, u, k)) \in Keyed(f, u, k) /\ Min(Keyed(f, u, k)) \in Rows(file[f], f)
         /\ u \in Owners(f, Min(Keyed(f, u, k)))
<1>1. file[f] \in Seq(Line)
  BY FileIsLines DEF Files
<1>2. \A i \in Keyed(f, u, k) : i \in Rows(file[f], f) /\ file[f][i].id = u
  BY DEF Keyed, RowsWith
<1>3. Keyed(f, u, k) \in SUBSET Nat
  BY <1>1, <1>2, RowsAreLines
<1>4. Min(Keyed(f, u, k)) \in Keyed(f, u, k)
  BY <1>3, FirstOf
<1>5. \A i : Owners(f, i) = {file[f][i].id}
  BY OwnersAre
<1> QED BY <1>2, <1>4, <1>5

LEMMA ModeStep ==
  ASSUME DbInv, NEW u \in Uids, NEW k \in Keys, NEW on \in BOOLEAN, ModeSet(u, k, on)
  PROVE  DbInv' /\ Spares
<1>0. FilesOK /\ CountsOK /\ "modes" \in Files /\ u \in Nat /\ k \in Nat /\ 0 \in Int
  BY UsersFile, KnownUser, Words DEF DbInv
<1>1. PICK f : f = "modes" /\ f \in Files /\ f # "users" /\ f # "bans" /\ f \in {"modes", "vars"}
  BY <1>0
<1>2. PICK op : op = IF on THEN "mode+" ELSE "mode-"
  OBVIOUS
<1>3. PICK next : next = IF on THEN "modeadd" ELSE "idle"
  OBVIOUS
<1>4. op \in Ops /\ op # "del" /\ next \in {"modeadd", "idle"}
  BY <1>2, <1>3 DEF Ops
<1>5. Idle /\ Calls(op, u, k, 0)
  BY <1>2 DEF ModeSet
<1>6. call' \in CallType /\ call'.op = op /\ call'.uid = u /\ dbops' \in 0 .. MaxOps
  BY <1>0, <1>4, <1>5, CallsAre, IdleCounts
<1>7. \/ Skip("dead")
      \/ Keyed("modes", u, k) # {} /\ Write("modes", DelRow(file["modes"], Min(Keyed("modes", u, k))), next)
      \/ Skip(next)
  BY <1>3 DEF ModeSet
<1>8. /\ Changes(f) /\ dbpc' \in {"modeadd", "idle", "dead"}
      /\ Spares \/ dbpc' = "dead" \/ Spared(f, u)
  <2>1. CASE Skip("dead") \/ Skip(next)
    <3>1. PICK nx \in {"modeadd", "idle", "dead"} : Skip(nx)
      BY <1>4, <2>1
    <3> QED BY <1>0, <1>1, <3>1, SkipChanges
  <2>2. CASE Keyed("modes", u, k) # {} /\ Write("modes", DelRow(file["modes"], Min(Keyed("modes", u, k))), next)
    <3>1. PICK n : n = Min(Keyed(f, u, k))
      OBVIOUS
    <3>2. n \in Rows(file[f], f) /\ u \in Owners(f, n)
      BY <1>0, <1>1, <2>2, <3>1, KeyedAre
    <3>3. Write(f, DelRow(file[f], n), next)
      BY <1>1, <2>2, <3>1
    <3>4. Changes(f) /\ dbpc' \in {next, "dead"} /\ (dbpc' = "dead" \/ Spared(f, u))
      BY <1>0, <1>1, <3>2, <3>3, RemoveChanges
    <3> QED BY <1>4, <3>4
  <2> QED BY <1>7, <2>1, <2>2
<1>9. DbInv'
  BY <1>1, <1>4, <1>6, <1>8, PlainStep
<1>10. Spares
  BY <1>0, <1>1, <1>6, <1>8, SparesAll
<1> QED BY <1>9, <1>10

LEMMA VarStep ==
  ASSUME DbInv, NEW u \in Uids, NEW k \in Keys, NEW on \in BOOLEAN, VarSet(u, k, on)
  PROVE  DbInv' /\ Spares
<1>0. FilesOK /\ CountsOK /\ "vars" \in Files /\ u \in Nat /\ k \in Nat /\ 0 \in Int
  BY UsersFile, KnownUser, Words DEF DbInv
<1>1. PICK f : f = "vars" /\ f \in Files /\ f # "users" /\ f # "bans" /\ f \in {"modes", "vars"}
  BY <1>0
<1>2. PICK op : op = IF on THEN "set" ELSE "unset"
  OBVIOUS
<1>3. PICK next : next = "idle"
  OBVIOUS
<1>4. op \in Ops /\ op # "del"
  BY <1>2 DEF Ops
<1>5. PICK val \in Seq(Nat) : val = <<k, IF on THEN 1 ELSE 0>>
  <2>1. (IF on THEN 1 ELSE 0) \in Nat
    OBVIOUS
  <2> QED BY <1>0, <2>1, Words
<1>6. Idle /\ Calls(op, u, k, 0)
  BY <1>2 DEF VarSet
<1>7. call' \in CallType /\ call'.op = op /\ call'.uid = u /\ dbops' \in 0 .. MaxOps
  BY <1>0, <1>4, <1>6, CallsAre, IdleCounts
<1> DEFINE n == Min(Keyed(f, u, k))
<1>8. \/ Add(f, u, val, next)
      \/ Keyed(f, u, k) # {} /\ Write(f, SetRow(file[f], n, u, val), next)
      \/ Keyed(f, u, k) # {} /\ Write(f, DelRow(file[f], n), next)
  BY <1>1, <1>3, <1>5 DEF VarSet
<1>9. /\ Changes(f) /\ dbpc' \in {next, "dead"}
      /\ dbpc' = "dead" \/ Spared(f, u)
  <2>1. CASE Add(f, u, val, next)
    BY <1>0, <1>1, <2>1, AddChanges
  <2>2. CASE Keyed(f, u, k) # {} /\ Write(f, SetRow(file[f], n, u, val), next)
    <3>1. n \in Rows(file[f], f) /\ u \in Owners(f, n)
      BY <1>0, <1>1, <2>2, KeyedAre
    <3> HIDE DEF n
    <3>2. file[f] \in Seq(Line)
      BY <1>0, <1>1, FileIsLines
    <3>3. PICK g : g = SetRow(file[f], n, u, val)
      OBVIOUS
    <3>4. Replaced(file[f], g, n, Row(u, val))
      BY <1>0, <3>1, <3>2, <3>3, RowReplaced DEF SetRow
    <3>5. g \in Seq(Line)
      BY <3>4 DEF Replaced
    <3>6. /\ Changes(f)
          /\ dbpc' = "dead" \/ (dbpc' = next /\ file'[f] = g)
      BY <1>0, <1>1, <2>2, <3>3, <3>5, WriteChanges
    <3>7. ASSUME file'[f] = g PROVE Spared(f, u)
      <4> SUFFICES ASSUME NEW i \in 1 .. Len(file[f]), u \notin Owners(f, i) PROVE file[f][i] \in Range(g)
        BY <3>7 DEF Spared
      <4>1. i # n
        BY <3>1
      <4> QED BY <3>2, <3>4, <4>1, ReplacedKeeps
    <3> QED BY <3>6, <3>7
  <2>3. CASE Keyed(f, u, k) # {} /\ Write(f, DelRow(file[f], n), next)
    <3>1. n \in Rows(file[f], f) /\ u \in Owners(f, n)
      BY <1>0, <1>1, <2>3, KeyedAre
    <3> HIDE DEF n
    <3> QED BY <1>0, <1>1, <2>3, <3>1, RemoveChanges
  <2> QED BY <1>8, <2>1, <2>2, <2>3
<1>10. DbInv'
  BY <1>1, <1>3, <1>4, <1>7, <1>9, PlainStep
<1>11. Spares
  BY <1>0, <1>1, <1>7, <1>9, SparesAll
<1> QED BY <1>10, <1>11

(***************************************************************************)
(* Calls in progress                                                       *)
(***************************************************************************)
LEMMA GoesOn ==
  ASSUME CountsOK, NEW s, Goes(s)
  PROVE  dbpc = s /\ dbops' \in 0 .. MaxOps
BY DEF Goes, CountsOK

LEMMA SameRecords ==
  ASSUME UNCHANGED call
  PROVE  /\ file'["bans"] = file["bans"] => BansOf(call.uid)' = BansOf(call.uid)
         /\ file'["notes"] = file["notes"] => NotesOf(call.uid)' = NotesOf(call.uid)
         /\ file'["users"] = file["users"] => MasksOf(call.uid)' = MasksOf(call.uid)
<1>1. ASSUME file'["bans"] = file["bans"] PROVE BansOf(call.uid)' = BansOf(call.uid)
  BY <1>1 DEF BansOf, Val
<1>2. ASSUME file'["notes"] = file["notes"] PROVE NotesOf(call.uid)' = NotesOf(call.uid)
  BY <1>2 DEF NotesOf, Val
<1>3. ASSUME file'["users"] = file["users"] PROVE MasksOf(call.uid)' = MasksOf(call.uid)
  BY <1>3 DEF MasksOf, MaskRows, Val
<1> QED BY <1>1, <1>2, <1>3

LEMMA PlainCallSteps ==
  ASSUME DbInv, UserAddSecond \/ DelmaskStep \/ BanSet \/ ModeAdd
  PROVE  DbInv' /\ Spares
<1>0. FilesOK /\ CountsOK /\ CallOK
  BY DEF DbInv
<1>c. call.uid \in Nat /\ call.word \in Nat /\ call \in CallType
  BY <1>0, CallIs DEF CallOK
<1>n. PICK next : next = "idle"
  OBVIOUS
<1>1. CASE UserAddSecond
  <2>1. Goes("addmask") /\ AddMask(call.uid, call.word) /\ call' = call
    BY <1>1 DEF UserAddSecond
  <2>2. dbpc = "addmask" /\ dbops' \in 0 .. MaxOps
    BY <1>0, <2>1, GoesOn DEF Goes
  <2>3. IsUser(file["users"], call.uid) /\ call.op # "del"
    BY <1>0, <2>2 DEF CallOK
  <2>4. /\ Changes("users") /\ dbpc' \in {"idle", "dead"}
        /\ dbpc' = "dead" \/ Spared("users", call'.uid)
    BY <1>0, <1>c, <2>1, <2>3, AddMaskChanges
  <2>5. DbInv'
    BY <1>c, <2>1, <2>2, <2>3, <2>4, UsersFile, PlainStep
  <2>6. Spares
    BY <1>0, <2>4, UsersFile, SparesAll
  <2> QED BY <2>5, <2>6
<1>2. CASE DelmaskStep
  <2>1. Goes("delmask") /\ DelAll("users", MasksOf(call.uid), "idle") /\ call' = call
    BY <1>2 DEF DelmaskStep
  <2>2. dbpc = "delmask" /\ dbops' \in 0 .. MaxOps
    BY <1>0, <2>1, GoesOn DEF Goes
  <2>3. call.op # "del"
    BY <1>0, <2>2 DEF CallOK
  <2>4. MasksOf(call.uid) \subseteq Rows(file["users"], "masks") /\ \A i \in MasksOf(call.uid) : call.uid \in Owners("users", i)
    BY <1>0, MaskRowsAre
  <2>5. PICK f : f = "users" /\ f \in Files /\ f # "bans"
    BY UsersFile
  <2>6. PICK s : s = "masks"
    OBVIOUS
  <2>7. DelAll(f, MasksOf(call.uid), next) /\ MasksOf(call.uid) \subseteq Rows(file[f], s) /\ \A i \in MasksOf(call.uid) : call.uid \in Owners(f, i)
    BY <1>n, <2>1, <2>4, <2>5, <2>6
  <2>8. /\ Changes(f)
        /\ dbpc' \in {dbpc, "dead"} \/ dbpc' = next
        /\ dbpc' = "dead" \/ Spared(f, call.uid)
    BY <1>0, <2>5, <2>6, <2>7, DelAllChanges
  <2>9. dbpc' \in {"idle", "dead", "delmask"}
    BY <1>n, <2>2, <2>8
  <2>10. DbInv'
    BY <1>c, <2>1, <2>2, <2>3, <2>5, <2>8, <2>9, PlainStep
  <2>11. Spares
    BY <1>0, <2>1, <2>5, <2>8, SparesAll
  <2> QED BY <2>10, <2>11
<1>3. CASE BanSet
  <2>1. Goes("banset") /\ Set("bans", "bans", call.val, <<call.uid, call.word>>, "idle") /\ call' = call
    BY <1>3 DEF BanSet
  <2>2. dbpc = "banset" /\ dbops' \in 0 .. MaxOps
    BY <1>0, <2>1, GoesOn DEF Goes
  <2>3. call.val \in Nat /\ call.op # "del" /\ <<call.uid, call.word>> \in Seq(Nat)
    BY <1>0, <1>c, <2>2, Words DEF CallOK
  <2>4. PICK f : f = "bans" /\ f \in Files /\ f # "users"
    BY UsersFile
  <2>5. Set(f, f, call.val, <<call.uid, call.word>>, next)
    BY <1>n, <2>1, <2>4
  <2>6. Changes(f) /\ dbpc' \in {next, "dead"}
    BY <1>0, <2>3, <2>4, <2>5, SetChanges
  <2>7. DbInv'
    BY <1>c, <1>n, <2>1, <2>2, <2>3, <2>4, <2>6, PlainStep
  <2>8. Spares
    BY <1>0, <2>4, <2>6, SparesAll
  <2> QED BY <2>7, <2>8
<1>4. CASE ModeAdd
  <2>1. Goes("modeadd") /\ Add("modes", call.uid, <<call.word>>, "idle") /\ call' = call
    BY <1>4 DEF ModeAdd
  <2>2. dbpc = "modeadd" /\ dbops' \in 0 .. MaxOps
    BY <1>0, <2>1, GoesOn DEF Goes
  <2>3. call.op # "del" /\ <<call.word>> \in Seq(Nat)
    BY <1>0, <1>c, <2>2, Words DEF CallOK
  <2>4. PICK f : f = "modes" /\ f \in Files /\ f # "users"
    BY UsersFile
  <2>5. Add(f, call.uid, <<call.word>>, next)
    BY <1>n, <2>1, <2>4
  <2>6. Changes(f) /\ dbpc' \in {next, "dead"} /\ (dbpc' = "dead" \/ Spared(f, call.uid))
    BY <1>0, <1>c, <2>3, <2>4, <2>5, AddChanges
  <2>7. DbInv'
    BY <1>c, <1>n, <2>1, <2>2, <2>3, <2>4, <2>6, PlainStep
  <2>8. Spares
    BY <1>0, <2>1, <2>4, <2>6, SparesAll
  <2> QED BY <2>7, <2>8
<1> QED BY <1>1, <1>2, <1>3, <1>4

LEMMA ProcessSteps ==
  ASSUME DbInv, Crash \/ Start
  PROVE  DbInv' /\ Spares
<1>0. FilesOK /\ CountsOK /\ CallOK /\ MaxFds \in Nat /\ MaxCrashes \in Nat
  BY DbAssumption DEF DbInv
<1>1. file' = file /\ dbops' = dbops
  BY DEF Crash, Start
<1>2. FilesOK' /\ Spares
  BY <1>0, <1>1, NoChange
<1>3. CASE Crash
  <2>1. crashes < MaxCrashes /\ crashes' = crashes + 1 /\ leaked' = leaked
    BY <1>3 DEF Crash
  <2>2. dbpc' = "dead" /\ call' = call
    BY <1>3 DEF Crash
  <2>3. crashes \in 0 .. MaxCrashes
    BY <1>0 DEF CountsOK
  <2>4. crashes' \in 0 .. MaxCrashes
    BY <1>0, <2>1, <2>3
  <2>5. Changes("users") /\ dbops' \in 0 .. MaxOps
    BY <1>0, <1>1, <1>2, <2>1, <2>4 DEF Changes, CountsOK
  <2>6. DbInv'
    BY <1>0, <2>2, <2>5, UsersFile, PlainStep DEF CallOK
  <2> QED BY <1>2, <2>6
<1>4. CASE Start
  <2>1. crashes' = crashes /\ leaked' = 0
    BY <1>4 DEF Start
  <2>2. dbpc' = "idle" /\ call' = NoCall
    BY <1>4 DEF Start
  <2>3. leaked' \in 0 .. MaxFds
    BY <1>0, <2>1
  <2>4. Changes("users") /\ dbops' \in 0 .. MaxOps
    BY <1>0, <1>1, <1>2, <2>1, <2>3 DEF Changes, CountsOK
  <2>5. NoCall \in CallType /\ NoCall.op # "del"
    <3>1. PICK op \in Ops : op = "" /\ op # "del"
      BY DEF Ops
    <3>2. PICK z \in Nat : z = 0 /\ z \in Int
      OBVIOUS
    <3>3. PICK h \in Idents \cup {""} : h = ""
      OBVIOUS
    <3>4. NoCall = [op |-> op, uid |-> z, word |-> z, ident |-> h, val |-> z]
      BY <3>1, <3>2, <3>3 DEF NoCall
    <3> QED BY <3>1, <3>2, <3>3, <3>4 DEF CallType
  <2>6. DbInv'
    BY <2>2, <2>4, <2>5, UsersFile, PlainStep
  <2> QED BY <1>2, <2>6
<1> QED BY <1>3, <1>4

LEMMA Readings ==
  ASSUME leaked' = leaked
  PROVE  Readable' <=> Readable
BY DEF Readable

\* The stages of userdb_del.
DelSteps == {"delbans", "delmodes", "delnotes", "delvars", "delmasks", "deluser"}

LEMMA StageStep ==
  ASSUME DbInv, NEW f \in Files, Changes(f), dbops' \in 0 .. MaxOps, UNCHANGED call,
         dbpc' \in DelSteps \cup {"dead"}, Stages'
  PROVE  DbInv'
<1>1. FilesOK' /\ CountsOK'
  BY DEF Changes, CountsOK
<1>2. CallOK'
  BY DEF DbInv, CallOK, DelSteps, Steps
<1>3. DelClears'
  BY DEF DelClears, DelSteps
<1> QED BY <1>1, <1>2, <1>3 DEF DbInv

LEMMA DelRowSteps ==
  ASSUME DbInv, DelBans \/ DelNotes \/ DelMasks
  PROVE  DbInv' /\ Spares
<1>0. FilesOK /\ CountsOK /\ Stages
  BY DEF DbInv
<1>1. CASE DelBans
  <2>1. Goes("delbans") /\ DelAll("bans", BansOf(call.uid), "delmodes") /\ call' = call
    BY <1>1 DEF DelBans
  <2>2. dbpc = "delbans" /\ dbops' \in 0 .. MaxOps
    BY <1>0, <2>1, GoesOn DEF Goes
  <2>3. PICK f : f = "bans" /\ f \in Files
    BY UsersFile
  <2>4. PICK next : next = "delmodes"
    OBVIOUS
  <2>5. PICK s : s = f
    OBVIOUS
  <2>6. DelAll(f, BansOf(call.uid), next) /\ BansOf(call.uid) \subseteq Rows(file[f], s) /\ (f = "users" => s = "masks")
    BY <2>1, <2>3, <2>4, <2>5 DEF BansOf
  <2>7. f # "bans" => \A i \in BansOf(call.uid) : call.uid \in Owners(f, i)
    BY <2>3
  <2>8. /\ Changes(f) /\ leaked' = leaked
        /\ dbpc' \in {dbpc, "dead"} \/ (dbpc' = next /\ file' = file /\ (Readable => BansOf(call.uid) = {}))
        /\ dbpc' = "dead" \/ f = "bans" \/ Spared(f, call.uid)
    BY <1>0, <2>3, <2>6, <2>7, DelAllChanges
  <2>9. Stages'
    <3>1. Readable' <=> Readable
      BY <2>8, Readings
    <3>2. \A h \in Files : h # f => file'[h] = file[h]
      BY <2>8 DEF Changes
    <3>3. CASE dbpc' = "dead"
      BY <3>3 DEF Stages
    <3>4. CASE dbpc' = dbpc
      BY <1>0, <2>1, <2>2, <2>3, <3>1, <3>2, <3>4, SameRecords, UsersFile DEF Stages
    <3>5. CASE dbpc' = next /\ file' = file /\ (Readable => BansOf(call.uid) = {})
      BY <1>0, <2>1, <2>2, <2>4, <3>1, <3>5, SameRecords DEF Stages
    <3> QED BY <2>8, <3>3, <3>4, <3>5
  <2>10. dbpc' \in DelSteps \cup {"dead"}
    BY <2>2, <2>4, <2>8 DEF DelSteps
  <2>11. DbInv'
    BY <2>1, <2>2, <2>3, <2>8, <2>9, <2>10, StageStep
  <2>12. Spares
    BY <1>0, <2>1, <2>3, <2>8, SparesAll
  <2> QED BY <2>11, <2>12
<1>2. CASE DelNotes
  <2>1. Goes("delnotes") /\ DelAll("notes", NotesOf(call.uid), "delvars") /\ call' = call
    BY <1>2 DEF DelNotes
  <2>2. dbpc = "delnotes" /\ dbops' \in 0 .. MaxOps
    BY <1>0, <2>1, GoesOn DEF Goes
  <2>3. PICK f : f = "notes" /\ f \in Files
    BY UsersFile
  <2>4. PICK next : next = "delvars"
    OBVIOUS
  <2>5. PICK s : s = f
    OBVIOUS
  <2>6. DelAll(f, NotesOf(call.uid), next) /\ NotesOf(call.uid) \subseteq Rows(file[f], s) /\ (f = "users" => s = "masks")
    BY <2>1, <2>3, <2>4, <2>5 DEF NotesOf
  <2>7. f # "bans" => \A i \in NotesOf(call.uid) : call.uid \in Owners(f, i)
    BY <2>3, OwnersAre DEF NotesOf
  <2>8. /\ Changes(f) /\ leaked' = leaked
        /\ dbpc' \in {dbpc, "dead"} \/ (dbpc' = next /\ file' = file /\ (Readable => NotesOf(call.uid) = {}))
        /\ dbpc' = "dead" \/ f = "bans" \/ Spared(f, call.uid)
    BY <1>0, <2>3, <2>6, <2>7, DelAllChanges
  <2>9. Stages'
    <3>1. Readable' <=> Readable
      BY <2>8, Readings
    <3>2. \A h \in Files : h # f => file'[h] = file[h]
      BY <2>8 DEF Changes
    <3>3. CASE dbpc' = "dead"
      BY <3>3 DEF Stages
    <3>4. CASE dbpc' = dbpc
      BY <1>0, <2>1, <2>2, <2>3, <3>1, <3>2, <3>4, SameRecords, UsersFile DEF Stages
    <3>5. CASE dbpc' = next /\ file' = file /\ (Readable => NotesOf(call.uid) = {})
      BY <1>0, <2>1, <2>2, <2>4, <3>1, <3>5, SameRecords DEF Stages
    <3> QED BY <2>8, <3>3, <3>4, <3>5
  <2>10. dbpc' \in DelSteps \cup {"dead"}
    BY <2>2, <2>4, <2>8 DEF DelSteps
  <2>11. DbInv'
    BY <2>1, <2>2, <2>3, <2>8, <2>9, <2>10, StageStep
  <2>12. Spares
    BY <1>0, <2>1, <2>3, <2>8, SparesAll
  <2> QED BY <2>11, <2>12
<1>3. CASE DelMasks
  <2>1. Goes("delmasks") /\ DelAll("users", MasksOf(call.uid), "deluser") /\ call' = call
    BY <1>3 DEF DelMasks
  <2>2. dbpc = "delmasks" /\ dbops' \in 0 .. MaxOps
    BY <1>0, <2>1, GoesOn DEF Goes
  <2>3. PICK f : f = "users" /\ f \in Files
    BY UsersFile
  <2>4. PICK next : next = "deluser"
    OBVIOUS
  <2>5. PICK s : s = "masks"
    OBVIOUS
  <2>6. DelAll(f, MasksOf(call.uid), next) /\ MasksOf(call.uid) \subseteq Rows(file[f], s) /\ (f = "users" => s = "masks")
    BY <2>1, <2>3, <2>4, <2>5, <1>0, MaskRowsAre
  <2>7. f # "bans" => \A i \in MasksOf(call.uid) : call.uid \in Owners(f, i)
    BY <1>0, <2>3, MaskRowsAre
  <2>8. /\ Changes(f) /\ leaked' = leaked
        /\ dbpc' \in {dbpc, "dead"} \/ (dbpc' = next /\ file' = file /\ (Readable => MasksOf(call.uid) = {}))
        /\ dbpc' = "dead" \/ f = "bans" \/ Spared(f, call.uid)
    BY <1>0, <2>3, <2>6, <2>7, DelAllChanges
  <2>9. Stages'
    <3>1. Readable' <=> Readable
      BY <2>8, Readings
    <3>2. \A h \in Files : h # f => file'[h] = file[h]
      BY <2>8 DEF Changes
    <3>3. CASE dbpc' = "dead"
      BY <3>3 DEF Stages
    <3>4. CASE dbpc' = dbpc
      BY <1>0, <2>1, <2>2, <2>3, <3>1, <3>2, <3>4, SameRecords, UsersFile DEF Stages
    <3>5. CASE dbpc' = next /\ file' = file /\ (Readable => MasksOf(call.uid) = {})
      BY <1>0, <2>1, <2>2, <2>4, <3>1, <3>5, SameRecords DEF Stages
    <3> QED BY <2>8, <3>3, <3>4, <3>5
  <2>10. dbpc' \in DelSteps \cup {"dead"}
    BY <2>2, <2>4, <2>8 DEF DelSteps
  <2>11. DbInv'
    BY <2>1, <2>2, <2>3, <2>8, <2>9, <2>10, StageStep
  <2>12. Spares
    BY <1>0, <2>1, <2>3, <2>8, SparesAll
  <2> QED BY <2>11, <2>12
<1> QED BY <1>1, <1>2, <1>3

LEMMA DelKeyedSteps ==
  ASSUME DbInv, DelModes \/ DelVars
  PROVE  DbInv' /\ Spares
<1>0. FilesOK /\ CountsOK /\ Stages /\ call.uid \in Nat /\ <<>> \in Seq(Nat)
  BY CallIs DEF DbInv
<1>1. PICK f, now, next : /\ f \in {"modes", "vars"} /\ Goes(now) /\ DelKeyed(f, next) /\ call' = call
                          /\ \/ f = "modes" /\ now = "delmodes" /\ next = "delnotes"
                             \/ f = "vars" /\ now = "delvars" /\ next = "delmasks"
  BY DEF DelModes, DelVars
<1>2. f \in Files /\ f # "users" /\ f # "bans" /\ f # "notes"
  BY <1>1 DEF Files
<1>3. dbpc = now /\ dbops' \in 0 .. MaxOps
  BY <1>0, <1>1, GoesOn DEF Goes
<1>4. PICK nx : nx \in {dbpc, next} /\ Set(f, f, call.uid, <<>>, nx)
  BY <1>1 DEF DelKeyed
<1>5. \A n \in RowsWith(file[f], f, call.uid) : call.uid \in Owners(f, n)
  <2>1. \A n : Owners(f, n) = {file[f][n].id}
    BY <1>1, OwnersAre
  <2> QED BY <2>1 DEF RowsWith
<1>6. /\ Changes(f) /\ leaked' = leaked /\ dbpc' \in {nx, "dead"}
      /\ dbpc' = "dead" \/ f = "bans" \/ Spared(f, call.uid)
  BY <1>0, <1>2, <1>4, <1>5, SetChanges
<1>7. dbpc' \in {now, next, "dead"}
  BY <1>3, <1>4, <1>6
<1>8. file'["bans"] = file["bans"] /\ file'["notes"] = file["notes"]
  BY <1>2, <1>6, UsersFile DEF Changes
<1>9. Stages'
  <2>1. Readable' <=> Readable
    BY <1>6, Readings
  <2>2. BansOf(call.uid)' = BansOf(call.uid) /\ NotesOf(call.uid)' = NotesOf(call.uid)
    BY <1>1, <1>8, SameRecords
  <2> QED BY <1>0, <1>1, <1>3, <1>7, <2>1, <2>2 DEF Stages
<1>10. dbpc' \in DelSteps \cup {"dead"}
  BY <1>1, <1>7 DEF DelSteps
<1>11. DbInv'
  BY <1>1, <1>2, <1>3, <1>6, <1>9, <1>10, StageStep
<1>12. Spares
  BY <1>0, <1>1, <1>2, <1>6, SparesAll
<1> QED BY <1>11, <1>12

LEMMA DelUserStep ==
  ASSUME DbInv, DelUser
  PROVE  DbInv' /\ Spares
<1> DEFINE f == file["users"]
           u == call.uid
<1>0. /\ FilesOK /\ CountsOK /\ Stages /\ CallOK /\ u \in Nat /\ <<>> \in Seq(Nat) /\ "users" \in Files
      /\ f \in Seq(Line) /\ UsersOK(f)
  BY CallIs, UsersFile, FileIsLines DEF DbInv, FilesOK
<1>1. Goes("deluser") /\ Set("users", "users", u, <<>>, "idle")
  BY DEF DelUser
<1>2. dbpc = "deluser" /\ dbops' \in 0 .. MaxOps
  BY <1>0, <1>1, GoesOn DEF Goes
<1>3. PICK v \in Int : v = (IF Readable /\ CanSetStr(f, "users", u, <<>>) THEN 0 ELSE -1)
  OBVIOUS
<1>4. call' = [call EXCEPT !.val = v]
  BY <1>3 DEF DelUser
<1>5. call' \in CallType /\ call'.uid = u /\ call'.val = v /\ call'.op = call.op
  BY <1>0, <1>4 DEF CallOK, CallType
<1>6. Readable => BansOf(u) = {} /\ NotesOf(u) = {} /\ MasksOf(u) = {}
  BY <1>0, <1>2 DEF Stages
<1>7. CASE Readable /\ CanSetStr(f, "users", u, <<>>)
  <2>0. \A i \in Rows(f, "masks") : Len(f[i].val) = 2 => f[i].val[1] # u
    BY <1>6, <1>7 DEF MasksOf, MaskRows, Val
  <2> HIDE DEF f, u
  <2>1. PICK s : s = "users"
    OBVIOUS
  <2>2. PICK e : e = Written(u, <<>>)
    OBVIOUS
  <2>3. e.sect = "" /\ e.id = u
    BY <1>0, <2>2, WrittenIs
  <2>g. PICK g : g = SetStr(f, s, u, <<>>)
    OBVIOUS
  <2>4. PICK n \in RowsWith(f, s, u) : Replaced(f, g, n, e)
    BY <1>0, <1>7, <2>1, <2>2, <2>g, StrSet
  <2>5. n \in Rows(f, s) /\ f[n].id = u
    BY DEF RowsWith
  <2>6. UsersOK(g)
    BY <1>0, <2>0, <2>1, <2>3, <2>4, <2>5, UserReplaced
  <2>7. g \in Seq(Line) /\ SameRows(f, g, n, e)
    BY <1>0, <2>3, <2>4, <2>5, ReplacedRows
  <2>8. PICK next : next = "idle"
    OBVIOUS
  <2>9. Write("users", g, next)
    BY <1>1, <1>7, <2>1, <2>g, <2>4, <2>8 DEF Set, f
  <2>10. /\ Changes("users") /\ leaked' = leaked
         /\ dbpc' = "dead" \/ (dbpc' = next /\ file'["users"] = g)
    BY <1>0, <2>6, <2>7, <2>9, WriteChanges
  <2>11. file'["bans"] = file["bans"] /\ file'["notes"] = file["notes"]
    BY <2>10, UsersFile DEF Changes
  <2>12. BansOf(call.uid)' = {} /\ NotesOf(call.uid)' = {}
    BY <1>5, <1>6, <1>7, <2>11 DEF BansOf, NotesOf, Val, u
  <2>13. file'["users"] = g => MasksOf(call.uid)' = {}
    <3> SUFFICES ASSUME file'["users"] = g, NEW i \in Rows(g, "masks"), Len(g[i].val) = 2, g[i].val[1] = u PROVE FALSE
      BY <1>5 DEF MasksOf, MaskRows, Val
    <3>1. i \in Rows(f, "masks") /\ g[i] = IF i = n THEN e ELSE f[i]
      BY <2>7 DEF SameRows
    <3>2. i # n
      BY <1>0, <2>1, <2>5, <3>1, UsersBeforeMasks DEF UsersOK
    <3> QED BY <2>0, <3>1, <3>2
  <2>14. DbInv'
    <3>1. FilesOK' /\ CountsOK'
      BY <1>2, <2>10 DEF Changes, CountsOK
    <3>2. dbpc' \in {"idle", "dead"}
      BY <2>8, <2>10
    <3>3. CallOK' /\ Stages'
      BY <1>5, <3>2 DEF CallOK, Steps, Stages
    <3>4. DelClears'
      BY <2>8, <2>10, <2>12, <2>13 DEF DelClears
    <3> QED BY <3>1, <3>3, <3>4 DEF DbInv
  <2>15. file'["users"] = g => Spared("users", u)
    <3> SUFFICES ASSUME NEW i \in 1 .. Len(f), u \notin Owners("users", i) PROVE f[i] \in Range(g)
      BY DEF Spared, f
    <3>1. u \in Owners("users", n)
      BY <2>1, <2>5, OwnersAre DEF Users, f
    <3>2. i # n
      BY <3>1
    <3> QED BY <1>0, <2>4, <3>2, ReplacedKeeps
  <2>16. Spares
    BY <1>0, <1>5, <2>10, <2>15, SparesAll
  <2> QED BY <2>14, <2>16
<1>8. CASE ~(Readable /\ CanSetStr(f, "users", u, <<>>))
  <2>1. Skip("idle") /\ v # 0
    <3>1. v = -1
      BY <1>3, <1>8
    <3> QED BY <1>1, <1>8, <3>1 DEF Set
  <2>2. PICK next : next = "idle"
    OBVIOUS
  <2>3. Changes("users") /\ Spares /\ dbpc' = next
    BY <1>0, <2>1, <2>2, SkipChanges
  <2>4. FilesOK' /\ CountsOK'
    BY <1>2, <2>3 DEF Changes, CountsOK
  <2>5. CallOK' /\ Stages'
    BY <1>5, <2>2, <2>3 DEF CallOK, Steps, Stages
  <2>6. DelClears'
    BY <1>5, <2>1 DEF DelClears
  <2> QED BY <2>3, <2>4, <2>5, <2>6 DEF DbInv
<1> QED BY <1>7, <1>8

(***************************************************************************)
(* The theorems                                                            *)
(***************************************************************************)
LEMMA TwoLines ==
  ASSUME NEW l \in Line, NEW m \in Line
  PROVE  <<l, m>> \in Seq(Line) /\ Len(<<l, m>>) = 2 /\ <<l, m>>[1] = l /\ <<l, m>>[2] = m
OBVIOUS

LEMMA DbStart ==
  ASSUME DbInit
  PROVE  DbInv
<1>1. \A s \in {"users", "bans", "modes", "notes", "vars", "masks"} : Header(s) \in Line /\ Header(s).sect = s
  BY HeaderType DEF Files
<1>2. PICK l : l = Header("users") /\ l \in Line /\ l.sect = "users"
  BY <1>1
<1>3. PICK m : m = Header("masks") /\ m \in Line /\ m.sect = "masks"
  BY <1>1
<1>4. PICK f \in Seq(Line) : f = <<l, m>> /\ Len(f) = 2 /\ f[1] = l /\ f[2] = m
  <2>1. <<l, m>> \in Seq(Line) /\ Len(<<l, m>>) = 2 /\ <<l, m>>[1] = l /\ <<l, m>>[2] = m
    BY <1>2, <1>3, TwoLines
  <2> QED BY <2>1
<1>5. file = [h \in Files |-> IF h = "users" THEN f ELSE <<Header(h)>>]
  BY <1>2, <1>3, <1>4 DEF DbInit
<1>6. file \in [Files -> Seq(Line)] /\ file["users"] = f
  <2>1. \A h \in Files : <<Header(h)>> \in Seq(Line)
    <3>1. \A h \in Files : Header(h) \in Line
      BY HeaderType
    <3> QED BY <3>1
  <2> QED BY <1>5, <2>1, UsersFile
<1>7. \A i : i \in 1 .. Len(f) <=> i = 1 \/ i = 2
  BY <1>4
<1>8. \A i : i \in 1 .. Len(f) => ~Plain(f, i)
  BY <1>2, <1>3, <1>4, <1>7 DEF Plain
<1>9. \A s : Rows(f, s) = {}
  BY <1>8, RowAt
<1>10. UsersFirst(f)
  <2>1. ~Titled(f, "users", 2)
    BY <1>3, <1>4 DEF Titled
  <2> QED BY <1>7, <2>1, HeaderAt DEF UsersFirst
<1>11. UsersOK(f)
  BY <1>9, <1>10 DEF UsersOK, UniqueIds, Owned
<1>12. FilesOK
  BY <1>6, <1>11 DEF FilesOK
<1>13. CountsOK
  BY DbAssumption DEF DbInit, CountsOK
<1>14. call \in CallType /\ call.op = "" /\ dbpc = "idle"
  <2>1. PICK op \in Ops : op = ""
    BY DEF Ops
  <2>2. PICK z \in Nat : z = 0 /\ z \in Int
    OBVIOUS
  <2>3. PICK h \in Idents \cup {""} : h = ""
    OBVIOUS
  <2>4. call = [op |-> op, uid |-> z, word |-> z, ident |-> h, val |-> z]
    BY <2>1, <2>2, <2>3 DEF DbInit, NoCall
  <2>5. call \in CallType /\ call.op = ""
    BY <2>1, <2>2, <2>3, <2>4 DEF CallType
  <2> QED BY <2>5 DEF DbInit
<1>15. CallOK /\ Stages /\ DelClears
  BY <1>14 DEF CallOK, Steps, Stages, DelClears
<1> QED BY <1>12, <1>13, <1>15 DEF DbInv

LEMMA DbSteps ==
  ASSUME DbInv, DbNext
  PROVE  DbInv' /\ Spares
<1>1. CASE CallStep
  BY <1>1, PlainCallSteps, DelRowSteps, DelKeyedSteps, DelUserStep DEF CallStep
<1>2. CASE ScriptCall
  <2>1. CASE \E name \in Handles, mask \in Masks : UserAdd(name, mask)
    BY <2>1, UserAddStep
  <2>2. CASE \E f \in {"bans", "notes"} : \E i \in Rows(file[f], f) : DelById(f, file[f][i].id)
    BY <2>2, ByIdStep
  <2>3. CASE \E u \in Uids, mask \in Masks : UserAddmask(u, mask) \/ UserDelmask(u, mask)
    BY <2>3, UserCalls
  <2>4. CASE \E u \in Uids, pass \in {1, 2} : UserSetpass(u, pass)
    BY <2>4, SetpassStep
  <2>5. CASE \E u \in Uids, to \in Uids : NoteAdd(u, to)
    BY <2>5, NoteStep
  <2>6. CASE \E u \in Uids, k \in Keys, on \in BOOLEAN : ModeSet(u, k, on)
    BY <2>6, ModeStep
  <2>7. CASE \E u \in Uids, k \in Keys, on \in BOOLEAN : VarSet(u, k, on)
    BY <2>7, VarStep
  <2>8. CASE \/ \E u \in Uids, name \in Handles : UserSetname(u, name)
             \/ \E name \in Handles : UserFindByName(name)
             \/ \E h \in Idents : UserFindByMask(h)
             \/ \E u \in Uids, f \in {"modes", "vars"}, k \in Keys : Check(f, u, k)
             \/ \E u \in Uids : UserDel(u)
             \/ \E u \in Uids, k \in Banned : BanAdd(u, k)
    BY <2>8, LookCalls
  <2> QED BY <1>2, <2>1, <2>2, <2>3, <2>4, <2>5, <2>6, <2>7, <2>8 DEF ScriptCall
<1>3. CASE Crash \/ Start
  BY <1>3, ProcessSteps
<1> QED BY <1>1, <1>2, <1>3 DEF DbNext

LEMMA DbStutters ==
  ASSUME DbInv, UNCHANGED dbvars
  PROVE  DbInv' /\ Spares
<1>1. file' = file
  BY DEF dbvars
<1>2. Spares
  BY <1>1, NoChange DEF DbInv
<1>3. FilesOK' /\ CountsOK' /\ CallOK'
  BY DEF dbvars, DbInv, FilesOK, CountsOK, CallOK
<1>4. Stages'
  BY DEF dbvars, DbInv, Stages, Readable, BansOf, NotesOf, MasksOf, MaskRows, Val
<1>5. DelClears'
  BY DEF dbvars, DbInv, DelClears, BansOf, NotesOf, MasksOf, MaskRows, Val
<1> QED BY <1>2, <1>3, <1>4, <1>5 DEF DbInv

\* The invariant of the files and of the call in progress: the users are the first
\* section of their file and have numbers of their own, every mask belongs to one of
\* them, and what userdb_del has deleted is gone, however often the process was
\* killed in the middle of a write.
THEOREM FilesInvariance == DbSpec => []DbInv
<1>1. DbInit => DbInv
  BY DbStart
<1>2. DbInv /\ [DbNext]_dbvars => DbInv'
  BY DbSteps, DbStutters
<1> QED BY <1>1, <1>2, PTL DEF DbSpec

\* The files consist of lines, and the calls have the arguments they should.
THEOREM DbTypes == DbSpec => []DbTypeOK
<1>1. DbInv => DbTypeOK
  BY DEF DbInv, FilesOK, CountsOK, CallOK, CallType, DbTypeOK
<1> QED BY <1>1, FilesInvariance, PTL

\* No mask outlives its user, wherever a crash cuts a file off: FindByMask answers
\* with a user there is.
THEOREM MasksBelong == DbSpec => []MasksHaveUsers
<1>1. DbInv => MasksHaveUsers
  <2> SUFFICES ASSUME DbInv, NEW i \in MaskRows PROVE HasUser(Val("users", i)[1])
    BY DEF MasksHaveUsers
  <2>1. i \in Rows(file["users"], "masks") /\ Len(file["users"][i].val) = 2
    BY DEF MaskRows, Val
  <2>2. IsUser(file["users"], file["users"][i].val[1])
    BY <2>1 DEF DbInv, FilesOK, UsersOK, Owned
  <2> QED BY <2>2, UserFound DEF DbInv, Val
<1> QED BY <1>1, FilesInvariance, PTL

\* When userdb_del reports success it has left no ban, mask or note of the user.
THEOREM DeletionsAreComplete == DbSpec => []DelClears
<1>1. DbInv => DelClears
  BY DEF DbInv
<1> QED BY <1>1, FilesInvariance, PTL

\* A call for one user leaves the lines of all others as they are, but for bans.
THEOREM OthersAreSpared == DbSpec => OthersUntouched
<1>1. DbInv /\ [DbNext]_dbvars => Spares
  BY DbSteps, DbStutters
<1>2. Spares => [Spares]_dbvars
  OBVIOUS
<1> QED BY <1>1, FilesInvariance, PTL DEF DbSpec, OthersUntouched, Spares
=============================================================================
