---------------------------- MODULE UrlBarProofs ----------------------------
(***************************************************************************)
(* The URL field's safety, for fields of any length: who has the keyboard,  *)
(* which key repeats, and that the caret and the anchor never stand inside  *)
(* a character.  The last needs what is typed, pasted and reported by the   *)
(* page to be UTF-8, and that the field then stays UTF-8.                   *)
(***************************************************************************)
EXTENDS UrlBar, SequenceTheorems, WellFoundedInduction, TLAPS

\* Every lead byte is followed by its trail, every trail follows its lead.
Utf8(t) ==
    \A i \in 1 .. Len(t) :
        /\ t[i] = "L" => i < Len(t) /\ t[i + 1] = "T"
        /\ t[i] = "T" => i > 1 /\ t[i - 1] = "L"

\* A set of naturals that is not empty has a least member.
LEMMA LeastNat ==
  ASSUME NEW S \in SUBSET Nat, S # {}
  PROVE  \E x \in S : \A y \in S : x <= y
<1> DEFINE less == {ss \in Nat \X Nat : ss[1] < ss[2]}
<1>1. IsWellFoundedOn(less, Nat)
  BY NatLessThanWellFounded, Zenon DEF OpToRel
<1>2. \E x \in S : \A y \in S : ~(<<y, x>> \in less)
  <2> HIDE DEF less
  <2> QED BY <1>1, WFMin
<1>3. \A x, y \in Nat : y < x => <<y, x>> \in less
  OBVIOUS
<1>4. \A x, y \in Nat : x <= y \/ y < x
  OBVIOUS
<1> HIDE DEF less
<1> QED BY <1>2, <1>3, <1>4

\* The least and the greatest offset of a set of offsets are in the set.
LEMMA MinIn ==
  ASSUME NEW n \in Nat, NEW S \in SUBSET (0 .. n), S # {}
  PROVE  Min(S) \in S
<1>1. S \in SUBSET Nat
  OBVIOUS
<1> QED BY <1>1, LeastNat DEF Min

\* MaxIn: as MinIn, counted from the other end.
LEMMA MaxIn ==
  ASSUME NEW n \in Nat, NEW S \in SUBSET (0 .. n), S # {}
  PROVE  Max(S) \in S
<1> DEFINE D == {d \in Nat : n - d \in S}
<1>1. D \in SUBSET Nat
  OBVIOUS
<1>2. D # {}
  <2>1. PICK x \in S : TRUE
    OBVIOUS
  <2>2. x \in 0 .. n /\ n - x \in Nat /\ n - (n - x) = x
    OBVIOUS
  <2> QED BY <2>1, <2>2
<1>3. PICK d \in D : \A e \in D : d <= e
  BY <1>1, <1>2, LeastNat
<1>4. \A y \in S : n - y \in D /\ y \in 0 .. n
  <2> SUFFICES ASSUME NEW y \in S PROVE n - y \in D /\ y \in 0 .. n
    OBVIOUS
  <2>1. y \in 0 .. n /\ n - y \in Nat /\ n - (n - y) = y
    OBVIOUS
  <2> QED BY <2>1
<1>5. \A y \in S : n - d >= y
  BY <1>3, <1>4
<1> QED BY <1>3, <1>5 DEF Max

\* What g_string_erase leaves, byte by byte.
LEMMA EraseText ==
  ASSUME NEW t \in Seq(Bytes), NEW from \in 0 .. Len(t), NEW to \in from .. Len(t)
  PROVE  /\ Erase(t, from, to) \in Seq(Bytes)
         /\ Len(Erase(t, from, to)) = Len(t) - (to - from)
         /\ \A i \in 1 .. Len(Erase(t, from, to)) :
              Erase(t, from, to)[i] = IF i <= from THEN t[i] ELSE t[i + (to - from)]
<1> DEFINE a == SubSeq(t, 1, from)
           b == SubSeq(t, to + 1, Len(t))
<1>0. Len(t) \in Nat /\ \A i \in 1 .. Len(t) : t[i] \in Bytes
  OBVIOUS
<1>1. /\ a \in Seq(Bytes) /\ Len(a) = from
      /\ \A i \in 1 .. from : a[i] = t[i]
  <2>1. \A i \in 1 .. from : t[i] \in Bytes
    BY <1>0
  <2>2. 1 \in Int /\ from \in Int
    BY <1>0
  <2>3. /\ a \in Seq(Bytes) /\ Len(a) = IF 1 <= from THEN from - 1 + 1 ELSE 0
        /\ \A i \in 1 .. from - 1 + 1 : a[i] = t[1 + i - 1]
    BY <2>1, <2>2, SubSeqProperties
  <2> QED BY <2>2, <2>3, <1>0
<1>2. /\ b \in Seq(Bytes) /\ Len(b) = Len(t) - to
      /\ \A i \in 1 .. Len(t) - to : b[i] = t[to + i]
  <2>1. \A i \in to + 1 .. Len(t) : t[i] \in Bytes
    BY <1>0
  <2>2. to + 1 \in Int /\ Len(t) \in Int
    BY <1>0
  <2>3. /\ b \in Seq(Bytes) /\ Len(b) = IF to + 1 <= Len(t) THEN Len(t) - (to + 1) + 1 ELSE 0
        /\ \A i \in 1 .. Len(t) - (to + 1) + 1 : b[i] = t[(to + 1) + i - 1]
    BY <2>1, <2>2, SubSeqProperties
  <2> QED BY <2>2, <2>3, <1>0
<1>3. Erase(t, from, to) = a \o b
  BY DEF Erase
<1> HIDE DEF a, b
<1>4. /\ a \o b \in Seq(Bytes) /\ Len(a \o b) = Len(a) + Len(b)
      /\ \A i \in 1 .. Len(a) + Len(b) : (a \o b)[i] = IF i <= Len(a) THEN a[i] ELSE b[i - Len(a)]
  BY <1>1, <1>2, ConcatProperties
<1> DEFINE e == Erase(t, from, to)
<1>5. /\ e \in Seq(Bytes) /\ Len(e) = Len(a) + Len(b)
      /\ \A i \in 1 .. Len(a) + Len(b) : e[i] = IF i <= Len(a) THEN a[i] ELSE b[i - Len(a)]
  BY <1>3, <1>4, Zenon
<1> HIDE DEF e
<1>6. Len(e) = Len(t) - (to - from)
  BY <1>0, <1>1, <1>2, <1>5
<1>7. ASSUME NEW i \in 1 .. Len(e)
      PROVE  e[i] = IF i <= from THEN t[i] ELSE t[i + (to - from)]
  <2>1. CASE i <= from
    <3>1. i \in 1 .. from /\ i \in 1 .. Len(a) + Len(b)
      BY <2>1, <1>0, <1>1, <1>2, <1>6
    <3>2. e[i] = a[i]
      BY <3>1, <1>1, <1>5
    <3> QED
      BY <2>1, <3>1, <3>2, <1>1
  <2>2. CASE ~(i <= from)
    <3>1. /\ i - from \in 1 .. Len(t) - to /\ i \in 1 .. Len(a) + Len(b)
          /\ to + (i - from) = i + (to - from)
      BY <2>2, <1>0, <1>1, <1>2, <1>6
    <3>2. e[i] = b[i - from]
      BY <2>2, <3>1, <1>1, <1>5
    <3>3. b[i - from] = t[to + (i - from)]
      BY <3>1, <1>2
    <3> QED
      BY <2>2, <3>1, <3>2, <3>3
  <2> QED
    BY <2>1, <2>2
<1> QED
  BY <1>5, <1>6, <1>7, Zenon DEF e

\* What g_string_insert makes, byte by byte.
LEMMA InsertText ==
  ASSUME NEW t \in Seq(Bytes), NEW s \in Seq(Bytes), NEW at \in 0 .. Len(t)
  PROVE  /\ Insert(t, at, s) \in Seq(Bytes)
         /\ Len(Insert(t, at, s)) = Len(t) + Len(s)
         /\ \A i \in 1 .. Len(t) + Len(s) :
              Insert(t, at, s)[i] = IF i <= at THEN t[i]
                                    ELSE IF i <= at + Len(s) THEN s[i - at] ELSE t[i - Len(s)]
<1> DEFINE a == SubSeq(t, 1, at)
           b == SubSeq(t, at + 1, Len(t))
<1>0. /\ Len(t) \in Nat /\ \A i \in 1 .. Len(t) : t[i] \in Bytes
      /\ Len(s) \in Nat
  OBVIOUS
<1>1. /\ a \in Seq(Bytes) /\ Len(a) = at
      /\ \A i \in 1 .. at : a[i] = t[i]
  <2>1. \A i \in 1 .. at : t[i] \in Bytes
    BY <1>0
  <2>2. 1 \in Int /\ at \in Int
    BY <1>0
  <2>3. /\ a \in Seq(Bytes) /\ Len(a) = IF 1 <= at THEN at - 1 + 1 ELSE 0
        /\ \A i \in 1 .. at - 1 + 1 : a[i] = t[1 + i - 1]
    BY <2>1, <2>2, SubSeqProperties
  <2> QED BY <2>2, <2>3, <1>0
<1>2. /\ b \in Seq(Bytes) /\ Len(b) = Len(t) - at
      /\ \A i \in 1 .. Len(t) - at : b[i] = t[at + i]
  <2>1. \A i \in at + 1 .. Len(t) : t[i] \in Bytes
    BY <1>0
  <2>2. at + 1 \in Int /\ Len(t) \in Int
    BY <1>0
  <2>3. /\ b \in Seq(Bytes) /\ Len(b) = IF at + 1 <= Len(t) THEN Len(t) - (at + 1) + 1 ELSE 0
        /\ \A i \in 1 .. Len(t) - (at + 1) + 1 : b[i] = t[(at + 1) + i - 1]
    BY <2>1, <2>2, SubSeqProperties
  <2> QED BY <2>2, <2>3, <1>0
<1>3. Insert(t, at, s) = (a \o s) \o b
  BY DEF Insert
<1> HIDE DEF a, b
<1>4. /\ a \o s \in Seq(Bytes) /\ Len(a \o s) = Len(a) + Len(s)
      /\ \A i \in 1 .. Len(a) + Len(s) : (a \o s)[i] = IF i <= Len(a) THEN a[i] ELSE s[i - Len(a)]
  BY <1>1, ConcatProperties
<1> DEFINE c == a \o s
<1> HIDE DEF c
<1>5. /\ c \o b \in Seq(Bytes) /\ Len(c \o b) = Len(c) + Len(b)
      /\ \A i \in 1 .. Len(c) + Len(b) : (c \o b)[i] = IF i <= Len(c) THEN c[i] ELSE b[i - Len(c)]
  <2>1. c \in Seq(Bytes) /\ b \in Seq(Bytes)
    BY <1>2, <1>4 DEF c
  <2> QED
    BY <2>1, ConcatProperties
<1>6. /\ Len(c) = at + Len(s)
      /\ \A i \in 1 .. at + Len(s) : c[i] = IF i <= at THEN t[i] ELSE s[i - at]
  BY <1>0, <1>1, <1>4 DEF c
<1> DEFINE e == Insert(t, at, s)
<1>7. /\ e \in Seq(Bytes) /\ Len(e) = Len(c) + Len(b)
      /\ \A i \in 1 .. Len(c) + Len(b) : e[i] = IF i <= Len(c) THEN c[i] ELSE b[i - Len(c)]
  BY <1>3, <1>5, Zenon DEF c
<1> HIDE DEF e
<1>8. Len(e) = Len(t) + Len(s)
  BY <1>0, <1>2, <1>6, <1>7
<1>9. ASSUME NEW i \in 1 .. Len(t) + Len(s)
      PROVE  e[i] = IF i <= at THEN t[i]
                    ELSE IF i <= at + Len(s) THEN s[i - at] ELSE t[i - Len(s)]
  <2>1. CASE i <= at + Len(s)
    <3>1. i \in 1 .. at + Len(s) /\ i \in 1 .. Len(c) + Len(b) /\ i <= Len(c)
      BY <2>1, <1>0, <1>2, <1>6
    <3>2. e[i] = c[i]
      BY <3>1, <1>7
    <3>3. c[i] = IF i <= at THEN t[i] ELSE s[i - at]
      BY <3>1, <1>6
    <3> QED
      BY <1>0, <2>1, <3>2, <3>3
  <2>2. CASE ~(i <= at + Len(s))
    <3>1. /\ i - Len(c) \in 1 .. Len(t) - at /\ i \in 1 .. Len(c) + Len(b) /\ ~(i <= Len(c))
          /\ at + (i - Len(c)) = i - Len(s) /\ ~(i <= at)
      BY <2>2, <1>0, <1>2, <1>6
    <3>2. e[i] = b[i - Len(c)]
      BY <3>1, <1>7
    <3>3. b[i - Len(c)] = t[at + (i - Len(c))]
      BY <3>1, <1>2
    <3> QED
      BY <2>2, <3>1, <3>2, <3>3
  <2> QED
    BY <2>1, <2>2
<1> QED
  BY <1>7, <1>8, <1>9, Zenon DEF e

\* Both ends of a UTF-8 text are character boundaries.
LEMMA Ends ==
  ASSUME NEW t \in Seq(Bytes), Utf8(t)
  PROVE  /\ 0 \in Boundaries(t) /\ Len(t) \in Boundaries(t)
         /\ Boundaries(t) \subseteq 0 .. Len(t) /\ Len(t) \in Nat
BY DEF Boundaries, Utf8

\* Cutting between two boundaries leaves UTF-8, and the cut is a boundary.
LEMMA EraseUtf8 ==
  ASSUME NEW t \in Seq(Bytes), Utf8(t),
         NEW from \in Boundaries(t), NEW to \in Boundaries(t), from <= to
  PROVE  /\ Erase(t, from, to) \in Seq(Bytes)
         /\ Utf8(Erase(t, from, to))
         /\ from \in Boundaries(Erase(t, from, to))
<1> DEFINE e == Erase(t, from, to)
           d == to - from
<1>1. /\ Len(t) \in Nat /\ from \in 0 .. Len(t) /\ to \in from .. Len(t)
      /\ from < Len(t) => t[from + 1] # "T"
      /\ to < Len(t) => t[to + 1] # "T"
  BY DEF Boundaries
<1>2. /\ e \in Seq(Bytes) /\ Len(e) = Len(t) - d
      /\ \A i \in 1 .. Len(e) : e[i] = IF i <= from THEN t[i] ELSE t[i + d]
  BY <1>1, EraseText
<1> HIDE DEF e
<1>3. Utf8(e)
  <2> SUFFICES ASSUME NEW i \in 1 .. Len(e)
               PROVE  /\ e[i] = "L" => i < Len(e) /\ e[i + 1] = "T"
                      /\ e[i] = "T" => i > 1 /\ e[i - 1] = "L"
    BY DEF Utf8
  <2>1. CASE i <= from
    <3>1. e[i] = t[i] /\ i \in 1 .. Len(t)
      BY <1>1, <1>2, <2>1
    <3>2. e[i] = "L" => i < Len(e) /\ e[i + 1] = "T"
      <4>1. e[i] = "L" => i < Len(t) /\ t[i + 1] = "T"
        BY <3>1 DEF Utf8
      <4>2. e[i] = "L" => i + 1 <= from
        BY <4>1, <1>1, <2>1
      <4> QED BY <4>1, <4>2, <1>1, <1>2, <2>1
    <3>3. e[i] = "T" => i > 1 /\ t[i - 1] = "L"
      BY <3>1 DEF Utf8
    <3>4. i > 1 => e[i - 1] = t[i - 1]
      BY <1>1, <1>2, <2>1
    <3> QED BY <3>2, <3>3, <3>4
  <2>2. CASE ~(i <= from)
    <3>1. e[i] = t[i + d] /\ i + d \in 1 .. Len(t) /\ i + d > to
      BY <1>1, <1>2, <2>2
    <3>2. e[i] = "L" => i + d < Len(t) /\ t[i + d + 1] = "T"
      BY <3>1 DEF Utf8
    <3>3. i < Len(e) => e[i + 1] = t[i + d + 1]
      <4>1. i < Len(e) => i + 1 \in 1 .. Len(e) /\ ~(i + 1 <= from) /\ (i + 1) + d = i + d + 1
        BY <1>1, <1>2, <2>2
      <4> QED BY <4>1, <1>2
    <3>4. e[i] = "T" => t[i + d - 1] = "L" /\ i + d - 1 > to
      <4>0. \A k \in 1 .. Len(t) : t[k] = "T" => t[k - 1] = "L"
        BY DEF Utf8
      <4>1. e[i] = "T" => t[i + d - 1] = "L"
        <5> DEFINE k == i + d
        <5>1. k \in 1 .. Len(t) /\ e[i] = t[k] /\ i + d - 1 = k - 1
          BY <1>1, <3>1
        <5>2. t[k] = "T" => t[k - 1] = "L"
          <6> HIDE DEF k
          <6> QED BY <5>1, <4>0
        <5> HIDE DEF k
        <5> QED BY <5>1, <5>2
      <4>2. i + d = to + 1 => e[i] # "T"
        BY <1>1, <3>1
      <4>3. i + d = to + 1 \/ i + d - 1 > to
        BY <1>1, <3>1
      <4> QED BY <4>1, <4>2, <4>3
    <3>5. i - 1 > from => e[i - 1] = t[i + d - 1]
      BY <1>1, <1>2, <2>2
    <3>6. (i + d < Len(t) => i < Len(e)) /\ (i + d - 1 > to => i - 1 > from /\ i > 1)
      BY <1>1, <1>2, <2>2
    <3> QED BY <3>2, <3>3, <3>4, <3>5, <3>6
  <2> QED BY <2>1, <2>2
<1>4. from \in Boundaries(e)
  <2>1. from < Len(e) => e[from + 1] = t[to + 1] /\ to < Len(t)
    BY <1>1, <1>2
  <2>2. from \in 0 .. Len(e) /\ (from < Len(e) \/ from = Len(e))
    <3>1. Len(e) = Len(t) - (to - from) /\ Len(e) \in Nat
      BY <1>2
    <3> QED BY <1>1, <3>1
  <2> QED
    BY <1>1, <2>1, <2>2 DEF Boundaries
<1> QED
  BY <1>2, <1>3, <1>4 DEF e

\* UTF-8 put in at a boundary gives UTF-8, and what was put in ends at one.
LEMMA InsertUtf8 ==
  ASSUME NEW t \in Seq(Bytes), Utf8(t), NEW s \in Seq(Bytes), Utf8(s),
         NEW at \in Boundaries(t)
  PROVE  /\ Insert(t, at, s) \in Seq(Bytes)
         /\ Utf8(Insert(t, at, s))
         /\ at + Len(s) \in Boundaries(Insert(t, at, s))
<1> DEFINE u == Insert(t, at, s)
           n == Len(s)
<1>1. /\ Len(t) \in Nat /\ n \in Nat /\ at \in 0 .. Len(t)
      /\ at < Len(t) => t[at + 1] # "T"
  BY DEF Boundaries
<1>2. /\ u \in Seq(Bytes) /\ Len(u) = Len(t) + n
      /\ \A i \in 1 .. Len(t) + n :
           u[i] = IF i <= at THEN t[i] ELSE IF i <= at + n THEN s[i - at] ELSE t[i - n]
  BY <1>1, InsertText
<1> HIDE DEF u
<1>3. Utf8(u)
  <2> SUFFICES ASSUME NEW i \in 1 .. Len(u)
               PROVE  /\ u[i] = "L" => i < Len(u) /\ u[i + 1] = "T"
                      /\ u[i] = "T" => i > 1 /\ u[i - 1] = "L"
    BY DEF Utf8
  <2>1. CASE i <= at
    <3>1. u[i] = t[i] /\ i \in 1 .. Len(t)
      BY <1>1, <1>2, <2>1
    <3>2. u[i] = "L" => i < Len(t) /\ t[i + 1] = "T"
      BY <3>1 DEF Utf8
    <3>3. u[i] = "L" => i + 1 <= at
      BY <3>2, <1>1, <2>1
    <3>4. i + 1 <= at => u[i + 1] = t[i + 1] /\ i < Len(u)
      BY <1>1, <1>2, <2>1
    <3>5. u[i] = "T" => i > 1 /\ t[i - 1] = "L"
      BY <3>1 DEF Utf8
    <3>6. i > 1 => u[i - 1] = t[i - 1]
      BY <1>1, <1>2, <2>1
    <3> QED BY <3>2, <3>3, <3>4, <3>5, <3>6
  <2>2. CASE ~(i <= at) /\ i <= at + n
    <3>1. u[i] = s[i - at] /\ i - at \in 1 .. n
      BY <1>1, <1>2, <2>2
    <3>2. u[i] = "L" => i - at < n /\ s[i - at + 1] = "T"
      BY <3>1 DEF Utf8
    <3>3. i - at < n => u[i + 1] = s[i - at + 1] /\ i < Len(u)
      <4>1. i - at < n => i + 1 \in 1 .. Len(t) + n /\ ~(i + 1 <= at) /\ i + 1 <= at + n
                          /\ (i + 1) - at = i - at + 1
        BY <1>1, <1>2, <2>2
      <4> QED BY <4>1, <1>1, <1>2
    <3>4. u[i] = "T" => i - at > 1 /\ s[i - at - 1] = "L"
      BY <3>1 DEF Utf8
    <3>5. i - at > 1 => u[i - 1] = s[i - at - 1] /\ i > 1
      <4>1. i - at > 1 => i - 1 \in 1 .. Len(t) + n /\ ~(i - 1 <= at) /\ i - 1 <= at + n
                          /\ (i - 1) - at = i - at - 1
        BY <1>1, <1>2, <2>2
      <4> QED BY <4>1, <1>1, <1>2
    <3> QED BY <3>2, <3>3, <3>4, <3>5
  <2>3. CASE ~(i <= at + n)
    <3>1. u[i] = t[i - n] /\ i - n \in 1 .. Len(t) /\ i - n > at
      BY <1>1, <1>2, <2>3
    <3>2. u[i] = "L" => i - n < Len(t) /\ t[i - n + 1] = "T"
      BY <3>1 DEF Utf8
    <3>3. i - n < Len(t) => u[i + 1] = t[i - n + 1] /\ i < Len(u)
      <4>1. i - n < Len(t) => i + 1 \in 1 .. Len(t) + n /\ ~(i + 1 <= at) /\ ~(i + 1 <= at + n)
                              /\ (i + 1) - n = i - n + 1
        BY <1>1, <1>2, <2>3
      <4> QED BY <4>1, <1>1, <1>2
    <3>4. u[i] = "T" => t[i - n - 1] = "L" /\ i - n - 1 > at
      <4>1. u[i] = "T" => t[i - n - 1] = "L"
        BY <3>1 DEF Utf8
      <4>2. i - n = at + 1 => u[i] # "T"
        BY <1>1, <3>1
      <4>3. i - n = at + 1 \/ i - n - 1 > at
        BY <1>1, <3>1
      <4> QED BY <4>1, <4>2, <4>3
    <3>5. i - n - 1 > at => u[i - 1] = t[i - n - 1] /\ i > 1
      <4>1. i - n - 1 > at => i - 1 \in 1 .. Len(t) + n /\ ~(i - 1 <= at) /\ ~(i - 1 <= at + n)
                              /\ (i - 1) - n = i - n - 1 /\ i > 1
        BY <1>1, <1>2, <2>3
      <4>2. i - n - 1 > at => u[i - 1] = t[(i - 1) - n]
        BY <4>1, <1>2
      <4> QED BY <4>1, <4>2
    <3> QED BY <3>2, <3>3, <3>4, <3>5
  <2> QED BY <1>1, <2>1, <2>2, <2>3
<1>4. at + n \in Boundaries(u)
  <2>1. at + n < Len(u) => u[at + n + 1] = t[at + 1] /\ at < Len(t)
    <3>1. at + n < Len(u) => at + n + 1 \in 1 .. Len(t) + n /\ ~(at + n + 1 <= at)
                             /\ ~(at + n + 1 <= at + n) /\ (at + n + 1) - n = at + 1
      BY <1>1, <1>2
    <3> QED BY <3>1, <1>1, <1>2
  <2>2. at + n \in 0 .. Len(u) /\ (at + n < Len(u) \/ at + n = Len(u))
    <3>1. Len(u) = Len(t) + n /\ Len(u) \in Nat
      BY <1>2
    <3> QED BY <1>1, <3>1
  <2> QED
    BY <1>1, <2>1, <2>2 DEF Boundaries
<1> QED
  BY <1>2, <1>3, <1>4 DEF u

\* g_utf8_next_char from a boundary reaches a boundary of the text.
LEMMA NextCharBoundary ==
  ASSUME NEW t \in Seq(Bytes), Utf8(t), NEW i \in Boundaries(t), i < Len(t)
  PROVE  NextChar(t, i) \in Boundaries(t) /\ i <= NextChar(t, i)
<1>1. Len(t) \in Nat /\ i \in 0 .. Len(t) /\ i + 1 \in 1 .. Len(t) /\ t[i + 1] # "T"
  BY DEF Boundaries
<1>2. CASE t[i + 1] = "L"
  <2>1. i + 1 < Len(t) /\ t[i + 2] = "T"
    BY <1>1, <1>2 DEF Utf8
  <2>2. i + 2 < Len(t) => t[i + 3] # "T"
    BY <1>1, <2>1 DEF Utf8
  <2> QED
    BY <1>1, <1>2, <2>1, <2>2 DEF NextChar, Boundaries
<1>3. CASE t[i + 1] # "L"
  <2>1. i + 1 < Len(t) => t[i + 2] # "T"
    BY <1>1, <1>3 DEF Utf8
  <2> QED
    BY <1>1, <1>3, <2>1 DEF NextChar, Boundaries
<1> QED
  BY <1>2, <1>3

\* g_utf8_prev_char reaches one too, at or before where it started.
LEMMA PrevCharBoundary ==
  ASSUME NEW t \in Seq(Bytes), Utf8(t), NEW i \in Boundaries(t), i > 0
  PROVE  PrevChar(t, i) \in Boundaries(t) /\ PrevChar(t, i) <= i
<1> DEFINE S == {j \in 0 .. i - 1 : j = 0 \/ t[j + 1] # "T"}
<1>1. Len(t) \in Nat /\ i \in 0 .. Len(t) /\ i - 1 \in Nat
  BY DEF Boundaries
<1>2. S \in SUBSET (0 .. i - 1) /\ 0 \in S
  BY <1>1
<1>3. Max(S) \in S
  BY <1>1, <1>2, MaxIn
<1>4. PrevChar(t, i) = Max(S)
  BY DEF PrevChar
<1>5. S \subseteq Boundaries(t)
  BY <1>1, Ends DEF Boundaries
<1>6. \A j \in S : j <= i
  BY <1>1
<1> HIDE DEF S
<1> QED
  BY <1>3, <1>4, <1>5, <1>6

\* veron_chrome_word_at answers with boundaries.
LEMMA WordAtBoundaries ==
  ASSUME NEW t \in Seq(Bytes), Utf8(t), NEW at \in Boundaries(t)
  PROVE  WordAt(t, at)[1] \in Boundaries(t) /\ WordAt(t, at)[2] \in Boundaries(t)
<1> DEFINE letters(i, j) == \A k \in i + 1 .. j : t[k] # "s"
           S == {i \in 0 .. at : i \in Boundaries(t) /\ letters(i, at)}
           U == {j \in at .. Len(t) : j \in Boundaries(t) /\ letters(at, j)}
           from == Min(S)
           to == Max(U)
<1>1. Len(t) \in Nat /\ at \in 0 .. Len(t) /\ at \in Nat
  BY DEF Boundaries
<1>2. S \in SUBSET (0 .. at) /\ at \in S
  BY <1>1
<1>3. U \in SUBSET (0 .. Len(t)) /\ at \in U
  BY <1>1
<1>4. from \in S /\ to \in U
  <2> HIDE DEF S, U
  <2>1. from \in S
    BY <1>1, <1>2, MinIn
  <2>2. to \in U
    BY <1>1, <1>3, MaxIn
  <2> QED BY <2>1, <2>2
<1>5. from \in Boundaries(t) /\ to \in Boundaries(t) /\ to \in 0 .. Len(t)
  BY <1>4, <1>1
<1>6. WordAt(t, at) = <<from, IF from = to /\ to < Len(t) THEN NextChar(t, to) ELSE to>>
  BY DEF WordAt
<1> HIDE DEF from, to
<1>7. to < Len(t) => NextChar(t, to) \in Boundaries(t)
  BY <1>5, NextCharBoundary
<1> QED
  BY <1>5, <1>6, <1>7

-----------------------------------------------------------------------------
\* What keys insert, other clients offer and the page reports is UTF-8.
ValidInputs == \A t \in Typed \cup Clipboard \cup Urls : Utf8(t)

\* A field a slice of which is UTF-8: the inductive invariant of the text.
Good(t, c, a) ==
    t \in Seq(Bytes) /\ Utf8(t) /\ c \in Boundaries(t) /\ a \in Boundaries(t)

TextInv == url \in Urls /\ Good(editing, caret, anchor)

\* The selection's ends, in order, are boundaries.
LEMMA SelectionEnds ==
  ASSUME Good(editing, caret, anchor)
  PROVE  From \in Boundaries(editing) /\ To \in Boundaries(editing) /\ From <= To
<1>1. caret \in Int /\ anchor \in Int
  BY DEF Good, Boundaries
<1> QED
  BY <1>1 DEF Good, From, To

\* Each edit of the field keeps it good: deleting the selection, inserting,
\* backspace, delete, and moving the caret.
LEMMA SelDeleteGood ==
  ASSUME Good(editing, caret, anchor), selDelete
  PROVE  Good(editing', caret', anchor')
<1> DEFINE t == Erase(editing, From, To)
<1>1. t \in Seq(Bytes) /\ Utf8(t) /\ From \in Boundaries(t)
  BY SelectionEnds, EraseUtf8 DEF Good
<1>2. editing' = t /\ caret' = From /\ anchor' = From
  BY DEF selDelete, Field
<1> HIDE DEF t
<1> QED
  BY <1>1, <1>2 DEF Good

\* veron_chrome_insert keeps the field good.
LEMMA InsertGood ==
  ASSUME Good(editing, caret, anchor), NEW s \in Seq(Bytes), Utf8(s), insert(s)
  PROVE  Good(editing', caret', anchor')
<1> DEFINE t == Erase(editing, From, To)
           u == Insert(t, From, s)
<1>1. t \in Seq(Bytes) /\ Utf8(t) /\ From \in Boundaries(t)
  BY SelectionEnds, EraseUtf8 DEF Good
<1>2. From <= Len(t)
  <2> HIDE DEF t
  <2> QED BY <1>1 DEF Boundaries
<1>3. u \in Seq(Bytes) /\ Utf8(u) /\ From + Len(s) \in Boundaries(u)
  <2> HIDE DEF t
  <2> QED BY <1>1, InsertUtf8
<1>4. CASE s = <<>>
  BY <1>4 DEF insert
<1>5. CASE s # <<>>
  <2>1. editing' = u /\ caret' = From + Len(s) /\ anchor' = From + Len(s)
    BY <1>2, <1>5 DEF insert, Field
  <2> HIDE DEF u
  <2> QED BY <1>3, <2>1 DEF Good
<1> QED
  BY <1>4, <1>5

\* veron_chrome_backspace keeps the field good.
LEMMA BackspaceGood ==
  ASSUME Good(editing, caret, anchor), backspace
  PROVE  Good(editing', caret', anchor')
<1>1. CASE caret # anchor
  BY <1>1, SelDeleteGood DEF backspace
<1>2. CASE caret = anchor /\ caret = 0
  BY <1>2 DEF backspace
<1>3. CASE caret = anchor /\ caret # 0
  <2> DEFINE p == PrevChar(editing, caret)
             t == Erase(editing, p, caret)
  <2>1. caret > 0
    BY <1>3 DEF Good, Boundaries
  <2>2. p \in Boundaries(editing) /\ p <= caret
    BY <2>1, PrevCharBoundary DEF Good
  <2>3. t \in Seq(Bytes) /\ Utf8(t) /\ p \in Boundaries(t)
    <3> HIDE DEF p
    <3> QED BY <2>2, EraseUtf8 DEF Good
  <2>4. editing' = t /\ caret' = p /\ anchor' = p
    BY <1>3 DEF backspace, Field
  <2> HIDE DEF t, p
  <2> QED BY <2>3, <2>4 DEF Good
<1> QED
  BY <1>1, <1>2, <1>3

\* veron_chrome_delete keeps the field good.
LEMMA DeleteGood ==
  ASSUME Good(editing, caret, anchor), delete
  PROVE  Good(editing', caret', anchor')
<1> DEFINE n == NextChar(editing, caret)
           t == Erase(editing, caret, n)
<1>1. CASE caret # anchor
  BY <1>1, SelDeleteGood DEF delete
<1>2. CASE caret = anchor /\ (caret >= Len(editing) \/ n > Len(editing))
  BY <1>2 DEF delete
<1>3. CASE caret = anchor /\ ~(caret >= Len(editing) \/ n > Len(editing))
  <2>1. caret < Len(editing)
    BY <1>3 DEF Good, Boundaries
  <2>2. n \in Boundaries(editing) /\ caret <= n
    BY <2>1, NextCharBoundary DEF Good
  <2>3. t \in Seq(Bytes) /\ Utf8(t) /\ caret \in Boundaries(t)
    <3> HIDE DEF n
    <3> QED BY <2>2, EraseUtf8 DEF Good
  <2>4. editing' = t /\ caret' = caret /\ anchor' = caret
    BY <1>3 DEF delete, Field
  <2> HIDE DEF t
  <2> QED BY <2>3, <2>4 DEF Good
<1> QED
  BY <1>1, <1>2, <1>3

\* veron_chrome_move_caret_ex keeps the field good.
LEMMA MoveCaretGood ==
  ASSUME Good(editing, caret, anchor),
         NEW d \in {-1, 1}, NEW e \in BOOLEAN, NEW x \in BOOLEAN, moveCaret(d, e, x)
  PROVE  Good(editing', caret', anchor')
<1>1. Moved(d, e) \in Boundaries(editing)
  <2>1. caret > 0 => PrevChar(editing, caret) \in Boundaries(editing)
    BY PrevCharBoundary DEF Good
  <2>2. caret < Len(editing) => NextChar(editing, caret) \in Boundaries(editing)
    BY NextCharBoundary DEF Good
  <2>3. 0 \in Boundaries(editing) /\ Len(editing) \in Boundaries(editing)
    BY Ends DEF Good
  <2> QED BY <2>1, <2>2, <2>3 DEF Good, Moved
<1>2. From \in Boundaries(editing) /\ To \in Boundaries(editing)
  BY SelectionEnds
<1>3. /\ editing' = editing /\ caret' \in {From, To, Moved(d, e)}
      /\ anchor' \in {caret', anchor}
  BY DEF moveCaret
<1> QED
  BY <1>1, <1>2, <1>3 DEF Good

\* Text from outside is bytes, and UTF-8.
LEMMA InputText ==
  ASSUME ValidInputs, NEW s \in Typed \cup Clipboard \cup Urls
  PROVE  s \in Seq(Bytes) /\ Utf8(s)
BY UrlBarAssumption DEF ValidInputs, Bytes

\* A click selects everything, a word, or places the caret, all at boundaries.
LEMMA ClickGood ==
  ASSUME ValidInputs, TextInv, NEW double \in BOOLEAN, ClickUrl(double)
  PROVE  TextInv'
<1>1. Opened \in Seq(Bytes) /\ Utf8(Opened)
  BY InputText DEF TextInv, Good, Opened
<1>2. PICK at \in Boundaries(Opened) :
        IF double THEN Field(Opened, WordAt(Opened, at)[2], WordAt(Opened, at)[1])
        ELSE IF ~focused THEN Field(Opened, Len(Opened), 0)
        ELSE Field(editing, at, at)
  BY DEF ClickUrl
<1>3. url' = url
  BY DEF ClickUrl
<1>4. CASE double
  <2>1. WordAt(Opened, at)[1] \in Boundaries(Opened) /\ WordAt(Opened, at)[2] \in Boundaries(Opened)
    BY <1>1, WordAtBoundaries
  <2> QED BY <1>1, <1>2, <1>3, <1>4, <2>1 DEF TextInv, Good, Field
<1>5. CASE ~double /\ ~focused
  <2>1. 0 \in Boundaries(Opened) /\ Len(Opened) \in Boundaries(Opened)
    BY <1>1, Ends
  <2> QED BY <1>1, <1>2, <1>3, <1>5, <2>1 DEF TextInv, Good, Field
<1>6. CASE ~double /\ focused
  <2>1. Opened = editing
    BY <1>6 DEF Opened
  <2> QED BY <1>2, <1>3, <1>6, <2>1 DEF TextInv, Good, Field
<1> QED
  BY <1>4, <1>5, <1>6

\* A press anywhere in the strip keeps the field good.
LEMMA StripDownGood ==
  ASSUME ValidInputs, TextInv, StripDown
  PROVE  TextInv'
<1>1. CASE \E double \in BOOLEAN : ClickUrl(double)
  BY <1>1, ClickGood
<1>2. CASE ClickElsewhere
  BY <1>2 DEF ClickElsewhere, textVars, TextInv, Good
<1>3. CASE UNCHANGED fieldVars
  BY <1>3 DEF fieldVars, textVars, TextInv, Good
<1> QED
  BY <1>1, <1>2, <1>3 DEF StripDown

\* A key, pressed or repeated, keeps the field good.
LEMMA KeyGood ==
  ASSUME ValidInputs, TextInv, NEW k, DispatchKey(k)
  PROVE  TextInv'
<1>1. CASE UNCHANGED fieldVars
  BY <1>1 DEF fieldVars, textVars, TextInv, Good
<1>2. ASSUME NEW s \in Typed \cup Clipboard, Edit(insert(s)) PROVE TextInv'
  <2>1. s \in Seq(Bytes) /\ Utf8(s)
    BY InputText
  <2> QED BY <1>2, <2>1, InsertGood DEF Edit, TextInv
<1>3. CASE Edit(backspace)
  BY <1>3, BackspaceGood DEF Edit, TextInv
<1>4. CASE Edit(delete)
  BY <1>4, DeleteGood DEF Edit, TextInv
<1>5. ASSUME NEW d \in {-1, 1}, NEW e \in BOOLEAN, NEW x \in BOOLEAN, Edit(moveCaret(d, e, x))
      PROVE  TextInv'
  BY <1>5, MoveCaretGood DEF Edit, TextInv
<1>6. CASE Edit(Field(editing, Len(editing), 0))
  BY <1>6, Ends DEF Edit, Field, TextInv, Good
<1>7. CASE Edit(caret # anchor /\ selDelete)
  BY <1>7, SelDeleteGood DEF Edit, TextInv
<1>8. CASE Navigate
  BY <1>8 DEF Navigate, textVars, TextInv, Good
<1>9. CASE GiveUpFocus /\ UNCHANGED <<textVars, selecting>>
  BY <1>9 DEF textVars, TextInv, Good
<1>10. CASE \E extend \in BOOLEAN :
               Edit(moveCaret(IF k \in {"left", "home"} THEN -1 ELSE 1,
                              k \in {"home", "end"}, extend))
  <2> DEFINE d == IF k \in {"left", "home"} THEN -1 ELSE 1
             e == k \in {"home", "end"}
  <2>1. PICK x \in BOOLEAN : Edit(moveCaret(d, e, x))
    BY <1>10
  <2>2. d \in {-1, 1} /\ e \in BOOLEAN
    OBVIOUS
  <2> HIDE DEF d, e
  <2> QED BY <1>5, <2>1, <2>2
<1>11. \/ UNCHANGED fieldVars
       \/ \E s \in Typed : Edit(insert(s))
       \/ \E s \in Clipboard : Edit(insert(s))
       \/ Edit(backspace) \/ Edit(delete)
       \/ Edit(Field(editing, Len(editing), 0)) \/ Edit(caret # anchor /\ selDelete)
       \/ \E extend \in BOOLEAN :
             Edit(moveCaret(IF k \in {"left", "home"} THEN -1 ELSE 1,
                            k \in {"home", "end"}, extend))
       \/ Navigate
       \/ GiveUpFocus /\ UNCHANGED <<textVars, selecting>>
  BY DEF DispatchKey, ChromeKey
<1> QED
  BY <1>1, <1>2, <1>3, <1>4, <1>6, <1>7, <1>8, <1>9, <1>10, <1>11

\* One step of any actor keeps the field good.
LEMMA TextNext ==
  ASSUME ValidInputs, TextInv, [Next]_vars
  PROVE  TextInv'
<1>0. UNCHANGED fieldVars \/ UNCHANGED textVars => TextInv'
  BY DEF fieldVars, textVars, TextInv, Good
<1>1. ASSUME NEW k \in HeldKeys, KeyDown(k) PROVE TextInv'
  BY <1>1, KeyGood DEF KeyDown
<1>2. ASSUME NEW k \in HeldKeys, KeyUp(k) PROVE TextInv'
  BY <1>0, <1>2 DEF KeyUp
<1>3. ASSUME NEW k \in Keys, Tap(k) PROVE TextInv'
  BY <1>3, KeyGood DEF Tap
<1>4. CASE RepeatTick
  BY <1>0, <1>4, KeyGood DEF RepeatTick
<1>m. StripMove => TextInv'
  BY <1>0 DEF StripMove, Field, TextInv, Good
<1>5. CASE \/ KeyboardEnter \/ KeyboardLeave \/ RepeatInfo \/ KeyboardLost \/ KeyboardBack
           \/ PointerLeave \/ TouchCancel
  BY <1>0, <1>m, <1>5 DEF KeyboardEnter, KeyboardLeave, RepeatInfo, KeyboardLost, KeyboardBack,
                          PointerLeave, TouchCancel
<1>6. ASSUME NEW s \in {"strip", "page"}, PointerEnter(s) PROVE TextInv'
  BY <1>0, <1>6 DEF PointerEnter
<1>7. CASE PointerDown
  BY <1>0, <1>7, StripDownGood DEF PointerDown, PageClicked
<1>8. CASE PointerUp
  BY <1>0, <1>8 DEF PointerUp, StripUp
<1>9. CASE PointerMotion
  BY <1>m, <1>9 DEF PointerMotion
<1>10. ASSUME NEW f \in Fingers, NEW s \in {"strip", "page"}, TouchDown(f, s) PROVE TextInv'
  BY <1>0, <1>10, StripDownGood DEF TouchDown
<1>11. ASSUME NEW f \in Fingers, TouchUp(f) PROVE TextInv'
  BY <1>0, <1>11 DEF TouchUp, StripUp
<1>14. ASSUME NEW f \in Fingers, TouchMotion(f) PROVE TextInv'
  BY <1>0, <1>m, <1>14 DEF TouchMotion
<1>12. ASSUME NEW u \in Urls, UriChanged(u) PROVE TextInv'
  <2>1. u \in Seq(Bytes) /\ Utf8(u) /\ Len(u) \in Boundaries(u)
    BY InputText, Ends
  <2> QED BY <1>12, <2>1 DEF UriChanged, Field, TextInv, Good
<1>13. CASE UNCHANGED vars
  BY <1>0, <1>13 DEF vars
<1> QED
  BY <1>1, <1>2, <1>3, <1>4, <1>5, <1>6, <1>7, <1>8, <1>9, <1>10, <1>11, <1>12, <1>13, <1>14 DEF Next

\* With UTF-8 from outside, caret and anchor are always between characters, so
\* no slice of the field breaks one (chrome.c: "safe here rather than by luck").
THEOREM CaretSafe == ValidInputs => (Spec => []CaretOnBoundary)
<1> SUFFICES ASSUME ValidInputs PROVE Spec => []CaretOnBoundary
  OBVIOUS
<1>1. Init => TextInv
  BY InputText, Ends DEF Init, TextInv, Good
<1>2. TextInv /\ [Next]_vars => TextInv'
  BY TextNext
<1>3. TextInv => CaretOnBoundary
  BY DEF TextInv, Good, CaretOnBoundary
<1> QED
  BY <1>1, <1>2, <1>3, PTL DEF Spec

-----------------------------------------------------------------------------
\* Each handler that moves one focus flag moves the other.
LEMMA FocusNext == FocusAgrees /\ [Next]_vars => FocusAgrees'
<1> SUFFICES ASSUME FocusAgrees, [Next]_vars PROVE FocusAgrees'
  OBVIOUS
<1>0. UNCHANGED fieldVars \/ UNCHANGED <<chromeFocus, focused>> \/ GiveUpFocus => FocusAgrees'
  <2>1. UNCHANGED fieldVars => UNCHANGED <<chromeFocus, focused>>
    BY DEF fieldVars
  <2>2. UNCHANGED <<chromeFocus, focused>> => FocusAgrees'
    BY DEF FocusAgrees
  <2>3. GiveUpFocus => FocusAgrees'
    BY Zenon DEF GiveUpFocus, FocusAgrees
  <2> QED BY <2>1, <2>2, <2>3
<1>1. ASSUME NEW double \in BOOLEAN, ClickUrl(double) PROVE FocusAgrees'
  BY <1>1, Zenon DEF ClickUrl, FocusAgrees
<1>2. StripDown => FocusAgrees'
  BY <1>0, <1>1, Zenon DEF StripDown, ClickElsewhere
<1>3. ASSUME NEW k, DispatchKey(k) PROVE FocusAgrees'
  BY <1>0, <1>3, Zenon DEF DispatchKey, ChromeKey, Edit, Navigate
<1>5. ASSUME NEW k \in HeldKeys, KeyDown(k) PROVE FocusAgrees'
  BY <1>3, <1>5 DEF KeyDown
<1>6. ASSUME NEW k \in HeldKeys, KeyUp(k) PROVE FocusAgrees'
  BY <1>0, <1>6 DEF KeyUp
<1>7. ASSUME NEW k \in Keys, Tap(k) PROVE FocusAgrees'
  BY <1>3, <1>7 DEF Tap
<1>8. CASE RepeatTick
  BY <1>0, <1>3, <1>8 DEF RepeatTick
<1>m. StripMove => FocusAgrees'
  BY <1>0, Zenon DEF StripMove
<1>9. CASE \/ KeyboardEnter \/ KeyboardLeave \/ RepeatInfo \/ KeyboardLost \/ KeyboardBack
           \/ PointerLeave \/ TouchCancel
  BY <1>0, <1>m, <1>9 DEF KeyboardEnter, KeyboardLeave, RepeatInfo, KeyboardLost, KeyboardBack,
                          PointerLeave, TouchCancel
<1>10. ASSUME NEW s \in {"strip", "page"}, PointerEnter(s) PROVE FocusAgrees'
  BY <1>0, <1>10 DEF PointerEnter
<1>11. CASE PointerDown
  BY <1>0, <1>2, <1>11, Zenon DEF PointerDown, PageClicked
<1>12. CASE PointerUp
  BY <1>0, <1>12, Zenon DEF PointerUp, StripUp
<1>13. CASE PointerMotion
  BY <1>m, <1>13 DEF PointerMotion
<1>14. ASSUME NEW f \in Fingers, NEW s \in {"strip", "page"}, TouchDown(f, s) PROVE FocusAgrees'
  BY <1>0, <1>2, <1>14, Zenon DEF TouchDown
<1>15. ASSUME NEW f \in Fingers, TouchUp(f) PROVE FocusAgrees'
  BY <1>0, <1>15, Zenon DEF TouchUp, StripUp
<1>18. ASSUME NEW f \in Fingers, TouchMotion(f) PROVE FocusAgrees'
  BY <1>0, <1>m, <1>18 DEF TouchMotion
<1>16. ASSUME NEW u \in Urls, UriChanged(u) PROVE FocusAgrees'
  BY <1>0, <1>16, Zenon DEF UriChanged
<1>17. CASE UNCHANGED vars
  BY <1>0, <1>17 DEF vars
<1> QED
  BY <1>5, <1>6, <1>7, <1>8, <1>9, <1>10, <1>11, <1>12, <1>13, <1>14, <1>15, <1>16, <1>17, <1>18 DEF Next

\* The toplevel sends keys to the strip exactly while the field takes them,
\* whatever clicks, taps, keys and navigations come in whatever order.
THEOREM FocusCorrect == Spec => []FocusAgrees
<1>1. Init => FocusAgrees
  BY DEF Init, FocusAgrees
<1> QED
  BY <1>1, FocusNext, PTL DEF Spec

\* A window the compositor's focus is in has its toplevel set, and a repeat that
\* outlived its keyboard still types into the window it was typing into.
RepeatInv == RepeatHeld /\ (wlKeyboard = "in" => keyboard)

\* A repeat starts with a press and ends with the release, another press or the
\* leave; a keyboard that is lost makes it the exception.
LEMMA RepeatNext == RepeatInv /\ [Next]_vars => RepeatInv'
<1> SUFFICES ASSUME RepeatInv, [Next]_vars PROVE RepeatInv'
  OBVIOUS
<1>0. UNCHANGED keyVars => RepeatInv'
  BY DEF keyVars, RepeatInv, RepeatHeld
<1>1. ASSUME NEW k \in HeldKeys, KeyDown(k) PROVE RepeatInv'
  BY <1>1 DEF KeyDown, StopRepeat, RepeatInv, RepeatHeld
<1>2. ASSUME NEW k \in HeldKeys, KeyUp(k) PROVE RepeatInv'
  BY <1>2 DEF KeyUp, StopRepeat, RepeatInv, RepeatHeld
<1>3. ASSUME NEW k \in Keys, Tap(k) PROVE RepeatInv'
  BY <1>3 DEF Tap, StopRepeat, RepeatInv, RepeatHeld
<1>4. CASE KeyboardEnter
  BY <1>4, Zenon DEF KeyboardEnter, RepeatInv, RepeatHeld
<1>5. CASE KeyboardLeave
  BY <1>5 DEF KeyboardLeave, StopRepeat, RepeatInv, RepeatHeld
<1>12. CASE RepeatInfo
  BY <1>12 DEF RepeatInfo, StopRepeat, RepeatInv, RepeatHeld
<1>13. CASE KeyboardLost
  BY <1>13, Zenon DEF KeyboardLost, RepeatInv, RepeatHeld
<1>14. CASE KeyboardBack
  BY <1>14, Zenon DEF KeyboardBack, RepeatInv, RepeatHeld
<1>6. CASE RepeatTick \/ PointerLeave \/ PointerDown \/ PointerUp \/ PointerMotion \/ TouchCancel
  BY <1>0, <1>6 DEF RepeatTick, PointerLeave, PointerDown, PointerUp, PointerMotion, TouchCancel
<1>7. ASSUME NEW s \in {"strip", "page"}, PointerEnter(s) PROVE RepeatInv'
  BY <1>0, <1>7 DEF PointerEnter
<1>8. ASSUME NEW f \in Fingers, NEW s \in {"strip", "page"}, TouchDown(f, s) PROVE RepeatInv'
  BY <1>0, <1>8 DEF TouchDown
<1>9. ASSUME NEW f \in Fingers, TouchUp(f) \/ TouchMotion(f) PROVE RepeatInv'
  BY <1>0, <1>9 DEF TouchUp, TouchMotion
<1>10. ASSUME NEW u \in Urls, UriChanged(u) PROVE RepeatInv'
  BY <1>0, <1>10 DEF UriChanged
<1>11. CASE UNCHANGED vars
  BY <1>0, <1>11 DEF vars
<1> QED
  BY <1>1, <1>2, <1>3, <1>4, <1>5, <1>6, <1>7, <1>8, <1>9, <1>10, <1>11, <1>12, <1>13, <1>14 DEF Next

\* Only a key that is held repeats, and only while the window has the keyboard,
\* through enters with keys down, leaves, and keyboards that come and go; a repeat
\* that was running when the seat lost its keyboard is the only other one, and it
\* goes to the window that had it (wpe-veron-seat.c: "LEAVING STOPS THE REPEAT").
THEOREM RepeatCorrect == Spec => []RepeatHeld
<1>1. Init => RepeatInv
  BY DEF Init, RepeatInv, RepeatHeld
<1>2. RepeatInv => RepeatHeld
  BY DEF RepeatInv
<1> QED
  BY <1>1, <1>2, RepeatNext, PTL DEF Spec
=============================================================================
