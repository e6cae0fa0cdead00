--------------------------- MODULE SequenceLemmas ---------------------------
(***************************************************************************)
(* Facts about sequences of sequences that the proofs share.  FlattenSeq   *)
(* is a recursive function, so that they are proved by induction.  The     *)
(* induction theorems of the library quantify over a predicate; here the   *)
(* induction is over a set of numbers, which the provers can instantiate,  *)
(* and rests on the well-foundedness of < on Nat.                          *)
(***************************************************************************)
EXTENDS SequencesExt, SequenceTheorems, FiniteSetTheorems, WellFoundedInduction, TLAPS

(* A set that has 0 and with every number the next has all of them.        *)
LEMMA SetInduction ==
    ASSUME NEW S, 0 \in S, \A n \in Nat : n \in S => n + 1 \in S
    PROVE  Nat \subseteq S
<1> DEFINE R == {p \in Nat \X Nat : p[1] < p[2]}
           T == Nat \ S
<1> SUFFICES ASSUME T # {} PROVE FALSE
  OBVIOUS
<1>1. PICK x \in T : \A y \in T : <<y, x>> \notin R
  <2>1. IsWellFoundedOn(R, Nat)
    BY NatLessThanWellFounded DEF OpToRel
  <2>2. T \subseteq Nat
    OBVIOUS
  <2> HIDE DEF R, T
  <2> QED BY <2>1, <2>2, WFMin
<1>2. x \in Nat /\ x # 0
  OBVIOUS
<1>3. x - 1 \in Nat /\ x - 1 < x
  BY <1>2
<1>4. x - 1 \notin T
  BY <1>1, <1>2, <1>3
<1> QED BY <1>2, <1>3, <1>4

-----------------------------------------------------------------------------
(* The recursive function that FlattenSeq evaluates: f[i] joins the first  *)
(* i sequences of q.                                                       *)
Joins(f, q, n) == f = [i \in 1 .. n |-> IF i = 1 THEN q[i] ELSE f[i - 1] \o q[i]]

LEMMA JoinExists ==
    ASSUME NEW q
    PROVE  \A n \in Nat : \E f : Joins(f, q, n)
<1> DEFINE S == {n \in Nat : \E f : Joins(f, q, n)}
<1>1. 0 \in S
  <2>1. Joins([i \in 1 .. 0 |-> 0], q, 0)
    BY DEF Joins
  <2> QED BY <2>1
<1>2. ASSUME NEW n \in Nat, n \in S PROVE n + 1 \in S
  <2>1. PICK f : Joins(f, q, n)
    BY <1>2
  <2> DEFINE g == [i \in 1 .. n + 1 |-> IF i = 1 THEN q[i] ELSE f[i - 1] \o q[i]]
  <2>2. ASSUME NEW i \in 1 .. n PROVE g[i] = f[i]
    <3>1. f[i] = IF i = 1 THEN q[i] ELSE f[i - 1] \o q[i]
      BY <2>1 DEF Joins
    <3>2. i \in 1 .. n + 1
      OBVIOUS
    <3> QED BY <3>1, <3>2
  <2>3. \A i \in 1 .. n + 1 : i # 1 => i - 1 \in 1 .. n
    OBVIOUS
  <2>4. g = [i \in 1 .. n + 1 |-> IF i = 1 THEN q[i] ELSE g[i - 1] \o q[i]]
    <3>1. \A i \in 1 .. n + 1 : i # 1 => f[i - 1] = g[i - 1]
      BY <2>2, <2>3
    <3> HIDE DEF g
    <3>2. g = [i \in 1 .. n + 1 |-> IF i = 1 THEN q[i] ELSE f[i - 1] \o q[i]]
      BY DEF g
    <3> QED BY <3>1, <3>2
  <2>5. Joins(g, q, n + 1)
    BY <2>4 DEF Joins
  <2> QED BY <2>5
<1> HIDE DEF S
<1>3. Nat \subseteq S
  BY <1>1, <1>2, SetInduction
<1> QED BY <1>3 DEF S

LEMMA FlattenIsJoin ==
    ASSUME NEW q, Len(q) \in Nat \ {0}
    PROVE  \E f : Joins(f, q, Len(q)) /\ FlattenSeq(q) = f[Len(q)]
<1> DEFINE f == CHOOSE f : Joins(f, q, Len(q))
<1>1. Joins(f, q, Len(q))
  BY JoinExists
<1>2. FlattenSeq(q) = f[Len(q)]
  BY DEF FlattenSeq, Joins
<1> QED BY <1>1, <1>2

(* Where each of the sequences of q begins in FlattenSeq(q): after pos[i]  *)
(* elements; pos[Len(q) + 1] is the length of the whole.                   *)
IsOffsets(pos, q) ==
    /\ pos \in [1 .. Len(q) + 1 -> Nat]
    /\ pos[1] = 0
    /\ \A i \in 1 .. Len(q) : pos[i + 1] = pos[i] + Len(q[i])

PlacesAt(s, pos, q) ==
    /\ IsOffsets(pos, q)
    /\ Len(s) = pos[Len(q) + 1]
    /\ \A i \in 1 .. Len(q) : \A j \in 1 .. Len(q[i]) :
          pos[i] + j \in 1 .. Len(s) /\ s[pos[i] + j] = q[i][j]

JoinsTyped(f, q, n, S) ==
    /\ \A i \in 1 .. n : f[i] \in Seq(S)
    /\ n > 0 => f[1] = q[1]
    /\ \A i \in 1 .. n : i + 1 \in 1 .. n => f[i + 1] = f[i] \o q[i + 1]

LEMMA JoinTyped ==
    ASSUME NEW S, NEW n \in Nat, NEW q \in [1 .. n -> Seq(S)], NEW f, Joins(f, q, n)
    PROVE  JoinsTyped(f, q, n, S)
<1>1. \A i \in 1 .. n : f[i] = IF i = 1 THEN q[i] ELSE f[i - 1] \o q[i]
  BY DEF Joins
<1>2. n > 0 => f[1] = q[1]
  BY <1>1
<1>3. \A i \in 1 .. n : i + 1 \in 1 .. n => f[i + 1] = f[i] \o q[i + 1]
  <2> SUFFICES ASSUME NEW i \in 1 .. n, i + 1 \in 1 .. n
               PROVE  f[i + 1] = f[i] \o q[i + 1]
    OBVIOUS
  <2>1. i + 1 # 1 /\ (i + 1) - 1 = i
    OBVIOUS
  <2> QED BY <1>1, <2>1
<1> DEFINE T == {i \in Nat : i \in 1 .. n => f[i] \in Seq(S)}
<1>4. 0 \in T
  OBVIOUS
<1>5. ASSUME NEW i \in Nat, i \in T PROVE i + 1 \in T
  <2> SUFFICES ASSUME i + 1 \in 1 .. n PROVE f[i + 1] \in Seq(S)
    OBVIOUS
  <2>1. CASE i = 0
    BY <1>2, <2>1
  <2>2. CASE i # 0
    <3>1. i \in 1 .. n /\ f[i] \in Seq(S) /\ q[i + 1] \in Seq(S)
      BY <1>5, <2>2
    <3>2. f[i] \o q[i + 1] \in Seq(S)
      BY <3>1, ConcatProperties
    <3> QED BY <1>3, <3>1, <3>2
  <2> QED BY <2>1, <2>2
<1> HIDE DEF T
<1>6. Nat \subseteq T
  BY <1>4, <1>5, SetInduction
<1>7. \A i \in 1 .. n : f[i] \in Seq(S)
  BY <1>6 DEF T
<1> QED BY <1>2, <1>3, <1>7 DEF JoinsTyped

LEMMA JoinPlaces ==
    ASSUME NEW S, NEW n \in Nat \ {0}, NEW q \in [1 .. n -> Seq(S)], Len(q) = n,
           NEW f, Joins(f, q, n)
    PROVE  \E pos : PlacesAt(f[n], pos, q)
<1> DEFINE pos == [i \in 1 .. n + 1 |-> IF i = 1 THEN 0 ELSE Len(f[i - 1])]
<1>1. /\ \A i \in 1 .. n : f[i] \in Seq(S) /\ Len(f[i]) \in Nat
                            /\ q[i] \in Seq(S) /\ Len(q[i]) \in Nat
      /\ f[1] = q[1]
      /\ \A i \in 1 .. n : i + 1 \in 1 .. n => f[i + 1] = f[i] \o q[i + 1]
  <2>1. JoinsTyped(f, q, n, S)
    BY JoinTyped
  <2>2. \A i \in 1 .. n : q[i] \in Seq(S)
    OBVIOUS
  <2>3. \A s \in Seq(S) : Len(s) \in Nat
    BY LenProperties
  <2>4. n > 0
    OBVIOUS
  <2> QED BY <2>1, <2>2, <2>3, <2>4, Zenon DEF JoinsTyped
<1>2. /\ pos \in [1 .. n + 1 -> Nat] /\ pos[1] = 0
      /\ \A i \in 1 .. n : pos[i + 1] = Len(f[i])
  <2>1. \A i \in 1 .. n + 1 : i # 1 => i - 1 \in 1 .. n
    OBVIOUS
  <2>2. pos \in [1 .. n + 1 -> Nat]
    <3>1. \A i \in 1 .. n + 1 : (IF i = 1 THEN 0 ELSE Len(f[i - 1])) \in Nat
      BY <1>1, <2>1
    <3> QED BY <3>1
  <2>3. \A i \in 1 .. n : i + 1 \in 1 .. n + 1 /\ i + 1 # 1 /\ (i + 1) - 1 = i
    OBVIOUS
  <2>4. \A i \in 1 .. n : pos[i + 1] = Len(f[i])
    BY <2>3
  <2>5. 1 \in 1 .. n + 1
    OBVIOUS
  <2>6. pos[1] = 0
    BY <2>5
  <2> HIDE DEF pos
  <2> QED BY <2>2, <2>4, <2>6
<1> HIDE DEF pos
<1>3. \A i \in 1 .. n : pos[i + 1] = pos[i] + Len(q[i])
  <2> SUFFICES ASSUME NEW i \in 1 .. n PROVE pos[i + 1] = pos[i] + Len(q[i])
    OBVIOUS
  <2>1. CASE i = 1
    BY <1>1, <1>2, <2>1
  <2>2. CASE i # 1
    <3>1. i - 1 \in 1 .. n /\ (i - 1) + 1 = i
      BY <2>2
    <3>2. f[i] = f[i - 1] \o q[i] /\ pos[i] = Len(f[i - 1])
      BY <1>1, <1>2, <3>1
    <3>3. Len(f[i - 1] \o q[i]) = Len(f[i - 1]) + Len(q[i])
      BY <1>1, <3>1, ConcatProperties
    <3> QED BY <1>2, <3>2, <3>3
  <2> QED BY <2>1, <2>2
<1> DEFINE Placed(k) == \A i \in 1 .. k : \A j \in 1 .. Len(q[i]) :
                           pos[i] + j \in 1 .. Len(f[k]) /\ f[k][pos[i] + j] = q[i][j]
           T == {k \in Nat : k \in 1 .. n => Placed(k)}
<1>4. 0 \in T
  OBVIOUS
<1>5. ASSUME NEW k \in Nat, k \in T PROVE k + 1 \in T
  <2> SUFFICES ASSUME k + 1 \in 1 .. n PROVE Placed(k + 1)
    OBVIOUS
  <2>1. CASE k = 0
    <3>1. f[1] = q[1] /\ Len(f[1]) \in Nat
      BY <1>1
    <3>2. ASSUME NEW j \in 1 .. Len(q[1])
          PROVE  pos[1] + j \in 1 .. Len(f[1]) /\ f[1][pos[1] + j] = q[1][j]
      <4>1. pos[1] + j = j
        BY <1>2, <3>1
      <4> QED BY <3>1, <4>1
    <3>3. 1 .. k + 1 = {1}
      BY <2>1
    <3> QED BY <2>1, <3>2, <3>3
  <2>2. CASE k # 0
    <3>0. k \in 1 .. n /\ Placed(k)
      BY <1>5, <2>2
    <3> HIDE DEF Placed, T
    <3>1. f[k + 1] = f[k] \o q[k + 1]
          /\ f[k] \in Seq(S) /\ q[k + 1] \in Seq(S)
          /\ Len(f[k]) \in Nat /\ Len(q[k + 1]) \in Nat /\ pos[k + 1] = Len(f[k])
      BY <1>1, <1>2, <3>0
    <3>2. /\ Len(f[k + 1]) = Len(f[k]) + Len(q[k + 1])
          /\ \A m \in 1 .. Len(f[k]) + Len(q[k + 1]) :
                f[k + 1][m] = IF m <= Len(f[k]) THEN f[k][m] ELSE q[k + 1][m - Len(f[k])]
      <4>1. /\ Len(f[k] \o q[k + 1]) = Len(f[k]) + Len(q[k + 1])
            /\ \A m \in 1 .. Len(f[k]) + Len(q[k + 1]) :
                  (f[k] \o q[k + 1])[m] =
                     IF m <= Len(f[k]) THEN f[k][m] ELSE q[k + 1][m - Len(f[k])]
        <5>1. f[k] \in Seq(S) /\ q[k + 1] \in Seq(S)
          BY <3>1
        <5> QED BY ONLY <5>1, ConcatProperties, Zenon
      <4> QED BY <3>1, <4>1, Zenon
    <3>n. Len(f[k]) \in Nat /\ Len(q[k + 1]) \in Nat
      BY <3>1
    <3>3. ASSUME NEW i \in 1 .. k + 1, NEW j \in 1 .. Len(q[i])
          PROVE  pos[i] + j \in 1 .. Len(f[k + 1]) /\ f[k + 1][pos[i] + j] = q[i][j]
      <4>1. CASE i = k + 1
        <5>1. j \in 1 .. Len(q[k + 1])
          BY <4>1
        <5>2. Len(f[k]) + j \in 1 .. Len(f[k]) + Len(q[k + 1])
              /\ ~(Len(f[k]) + j <= Len(f[k])) /\ (Len(f[k]) + j) - Len(f[k]) = j
          <6> DEFINE a == Len(f[k])
                     b == Len(q[k + 1])
          <6>1. a \in Nat /\ b \in Nat /\ j \in 1 .. b
            BY <3>n, <5>1
          <6> HIDE DEF a, b
          <6>2. a + j \in 1 .. a + b /\ ~(a + j <= a) /\ (a + j) - a = j
            BY <6>1
          <6> QED BY <6>2 DEF a, b
        <5>3. f[k + 1][Len(f[k]) + j] = q[k + 1][j]
          BY <3>2, <5>2
        <5> QED BY <3>1, <3>2, <4>1, <5>2, <5>3
      <4>2. CASE i # k + 1
        <5>1. i \in 1 .. k
          BY <4>2
        <5>2. pos[i] + j \in 1 .. Len(f[k]) /\ f[k][pos[i] + j] = q[i][j]
          BY <3>0, <5>1 DEF Placed
        <5>3. /\ pos[i] + j \in 1 .. Len(f[k]) + Len(q[k + 1])
              /\ pos[i] + j <= Len(f[k])
          <6> DEFINE a == Len(f[k])
                     b == Len(q[k + 1])
                     m == pos[i] + j
          <6>1. a \in Nat /\ b \in Nat /\ m \in 1 .. a
            BY <3>n, <5>2
          <6> HIDE DEF a, b, m
          <6>2. m \in 1 .. a + b /\ m <= a
            BY <6>1
          <6> QED BY <6>2 DEF a, b, m
        <5> QED BY <3>2, <5>2, <5>3
      <4> QED BY <4>1, <4>2
    <3> QED BY <3>3 DEF Placed
  <2> QED BY <2>1, <2>2
<1>6. Placed(n)
  <2>1. Nat \subseteq T
    <3> HIDE DEF T
    <3> QED BY <1>4, <1>5, SetInduction
  <2> QED BY <2>1
<1>7. IsOffsets(pos, q)
  BY <1>2, <1>3 DEF IsOffsets
<1>8. Len(f[n]) = pos[Len(q) + 1]
  BY <1>2
<1>9. PlacesAt(f[n], pos, q)
  BY <1>6, <1>7, <1>8 DEF PlacesAt
<1> QED BY <1>9

(* FlattenSeq places each of the sequences whole, one behind the other.    *)
LEMMA FlattenPlaces ==
    ASSUME NEW S, NEW q \in Seq(Seq(S))
    PROVE  FlattenSeq(q) \in Seq(S) /\ \E pos : PlacesAt(FlattenSeq(q), pos, q)
<1>1. Len(q) \in Nat /\ q \in [1 .. Len(q) -> Seq(S)]
  BY LenProperties
<1>2. CASE Len(q) = 0
  <2>1. FlattenSeq(q) = q /\ q = <<>>
    BY <1>2, EmptySeq DEF FlattenSeq
  <2> DEFINE pos == [i \in 1 .. 1 |-> 0]
  <2>2. PlacesAt(<<>>, pos, <<>>)
    BY DEF PlacesAt, IsOffsets
  <2> QED BY <2>1, <2>2
<1>3. CASE Len(q) # 0
  <2>1. PICK f : Joins(f, q, Len(q)) /\ FlattenSeq(q) = f[Len(q)]
    BY <1>1, <1>3, FlattenIsJoin
  <2>2. f[Len(q)] \in Seq(S)
    <3>1. Len(q) \in 1 .. Len(q)
      BY <1>1, <1>3
    <3>2. \A i \in 1 .. Len(q) : f[i] \in Seq(S)
      BY <1>1, <2>1, JoinTyped DEF JoinsTyped
    <3> QED BY <3>1, <3>2
  <2>3. \E pos : PlacesAt(f[Len(q)], pos, q)
    BY <1>1, <1>3, <2>1, JoinPlaces
  <2> QED BY <2>1, <2>2, <2>3
<1> QED BY <1>2, <1>3

OffsetsOf(q) == CHOOSE pos : PlacesAt(FlattenSeq(q), pos, q)

(* A header, and behind it the sequences of q.                             *)
HeadedAt(w, a, pos, q) ==
    /\ IsOffsets(pos, q)
    /\ Len(w) = Len(a) + pos[Len(q) + 1]
    /\ \A j \in 1 .. Len(a) : j \in 1 .. Len(w) /\ w[j] = a[j]
    /\ \A i \in 1 .. Len(q) : \A j \in 1 .. Len(q[i]) :
          Len(a) + pos[i] + j \in 1 .. Len(w) /\ w[Len(a) + pos[i] + j] = q[i][j]

LEMMA HeadedPlaces ==
    ASSUME NEW S, NEW a \in Seq(S), NEW q \in Seq(Seq(S))
    PROVE  /\ a \o FlattenSeq(q) \in Seq(S)
           /\ HeadedAt(a \o FlattenSeq(q), a, OffsetsOf(q), q)
<1> DEFINE s == FlattenSeq(q)
           pos == OffsetsOf(q)
           w == a \o s
<1>1. s \in Seq(S) /\ PlacesAt(s, pos, q)
  BY FlattenPlaces DEF OffsetsOf
<1> HIDE DEF s, pos
<1>2. /\ w \in Seq(S) /\ Len(w) = Len(a) + Len(s)
      /\ \A m \in 1 .. Len(a) + Len(s) :
            w[m] = IF m <= Len(a) THEN a[m] ELSE s[m - Len(a)]
  BY <1>1, ConcatProperties, Zenon
<1> HIDE DEF w
<1>3. Len(a) \in Nat /\ Len(s) \in Nat
  BY <1>1
<1>4. /\ IsOffsets(pos, q) /\ Len(s) = pos[Len(q) + 1]
      /\ \A i \in 1 .. Len(q) : pos[i] \in Nat
  <2>1. IsOffsets(pos, q) /\ Len(s) = pos[Len(q) + 1]
    BY <1>1 DEF PlacesAt
  <2>2. \A i \in 1 .. Len(q) : i \in 1 .. Len(q) + 1
    OBVIOUS
  <2> QED BY <2>1, <2>2 DEF IsOffsets
<1>5. ASSUME NEW j \in 1 .. Len(a)
      PROVE  j \in 1 .. Len(w) /\ w[j] = a[j]
  <2>1. j \in 1 .. Len(a) + Len(s) /\ j <= Len(a)
    BY <1>3
  <2> QED BY <1>2, <2>1
<1>6. ASSUME NEW i \in 1 .. Len(q), NEW j \in 1 .. Len(q[i])
      PROVE  Len(a) + pos[i] + j \in 1 .. Len(w) /\ w[Len(a) + pos[i] + j] = q[i][j]
  <2> DEFINE x == Len(a)
             y == Len(s)
             m == pos[i]
  <2>1. m + j \in 1 .. y /\ s[m + j] = q[i][j]
    BY <1>1 DEF PlacesAt
  <2>2. j \in Nat
    OBVIOUS
  <2>3. x \in Nat /\ y \in Nat /\ m \in Nat
    BY <1>3, <1>4
  <2> HIDE DEF x, y, m
  <2>4. x + m + j \in 1 .. x + y /\ ~(x + m + j <= x) /\ (x + m + j) - x = m + j
    BY <2>1, <2>2, <2>3
  <2> QED BY <1>2, <2>1, <2>4 DEF x, y, m
<1>7. HeadedAt(w, a, pos, q)
  <2>1. Len(w) = Len(a) + pos[Len(q) + 1]
    BY <1>2, <1>4
  <2> QED BY <1>4, <1>5, <1>6, <2>1 DEF HeadedAt
<1> QED BY <1>2, <1>7 DEF w, s, pos

-----------------------------------------------------------------------------
(* A part of a sequence, and a part of that.                               *)
LEMMA PartOf ==
    ASSUME NEW S, NEW q \in Seq(S), NEW i \in Nat, i <= Len(q)
    PROVE  LET r == SubSeq(q, i + 1, Len(q)) IN
           /\ r \in Seq(S) /\ Len(r) = Len(q) - i
           /\ \A j \in 1 .. Len(r) : r[j] = q[i + j]
<1> DEFINE r == SubSeq(q, i + 1, Len(q))
<1>1. Len(q) \in Nat /\ i + 1 \in Int /\ Len(q) \in Int
  OBVIOUS
<1>2. \A j \in i + 1 .. Len(q) : q[j] \in S
  <2>1. \A j \in i + 1 .. Len(q) : j \in 1 .. Len(q)
    BY <1>1
  <2> QED BY <2>1, ElementOfSeq
<1>3. /\ r \in Seq(S)
      /\ Len(r) = IF i + 1 <= Len(q) THEN Len(q) - (i + 1) + 1 ELSE 0
      /\ \A j \in 1 .. Len(q) - (i + 1) + 1 : r[j] = q[i + 1 + j - 1]
  BY <1>1, <1>2, SubSeqProperties
<1> HIDE DEF r
<1>4. Len(r) = Len(q) - i
  BY <1>1, <1>3
<1>5. ASSUME NEW j \in 1 .. Len(r) PROVE r[j] = q[i + j]
  <2>1. j \in 1 .. Len(q) - (i + 1) + 1 /\ i + 1 + j - 1 = i + j
    BY <1>1, <1>4
  <2> QED BY <1>3, <2>1
<1> QED BY <1>3, <1>4, <1>5 DEF r

LEMMA FirstPart ==
    ASSUME NEW S, NEW q \in Seq(S), NEW n \in Nat, n <= Len(q)
    PROVE  LET r == SubSeq(q, 1, n) IN
           r \in Seq(S) /\ Len(r) = n /\ \A j \in 1 .. n : r[j] = q[j]
<1>1. 1 .. n \subseteq 1 .. Len(q)
  OBVIOUS
<1> QED BY <1>1

(* What is left after the first n elements of a part.                      *)
LEMMA PartOfPart ==
    ASSUME NEW S, NEW q \in Seq(S), NEW i \in Nat, NEW n \in Nat, i + n <= Len(q)
    PROVE  LET r == SubSeq(q, i + 1, Len(q)) IN
           SubSeq(r, n + 1, Len(r)) = SubSeq(q, i + n + 1, Len(q))
<1> DEFINE r == SubSeq(q, i + 1, Len(q))
           s == SubSeq(r, n + 1, Len(r))
           t == SubSeq(q, (i + n) + 1, Len(q))
<1>1. Len(q) \in Nat /\ i <= Len(q) /\ i + n \in Nat
  <2>1. Len(q) \in Nat
    OBVIOUS
  <2> QED BY <2>1
<1>2. r \in Seq(S) /\ Len(r) = Len(q) - i /\ \A j \in 1 .. Len(r) : r[j] = q[i + j]
  BY <1>1, PartOf
<1> HIDE DEF r
<1>3. n <= Len(r)
  BY <1>1, <1>2
<1>4. s \in Seq(S) /\ Len(s) = Len(r) - n /\ \A j \in 1 .. Len(s) : s[j] = r[n + j]
  BY <1>2, <1>3, PartOf
<1>5. t \in Seq(S) /\ Len(t) = Len(q) - (i + n) /\ \A j \in 1 .. Len(t) : t[j] = q[(i + n) + j]
  BY <1>1, PartOf
<1> HIDE DEF s, t
<1>6. Len(s) = Len(t)
  BY <1>1, <1>2, <1>4, <1>5
<1>7. ASSUME NEW j \in 1 .. Len(s) PROVE s[j] = t[j]
  <2>1. n + j \in 1 .. Len(r) /\ i + (n + j) = (i + n) + j
    BY <1>1, <1>2, <1>4
  <2> QED BY <1>2, <1>4, <1>5, <1>6, <2>1
<1>8. s = t
  BY <1>4, <1>5, <1>6, <1>7, SeqEqual
<1> QED BY <1>8 DEF r, s, t
-----------------------------------------------------------------------------
(* FlattenSeq and the ends of q: adding a sequence, taking the first.      *)
LEMMA FlattenEmpty == FlattenSeq(<<>>) = <<>>
BY DEF FlattenSeq

Agree(r, q, n) == \A i \in 1 .. n : r[i] = q[i]

LEMMA JoinsAgree ==
    ASSUME NEW S, NEW n \in Nat, NEW m \in Nat, n <= m,
           NEW q, NEW f, JoinsTyped(f, q, n, S), NEW r, NEW g, JoinsTyped(g, r, m, S),
           Agree(r, q, n)
    PROVE  Agree(g, f, n)
<1> DEFINE T == {i \in Nat : i \in 1 .. n => g[i] = f[i]}
<1>1. 0 \in T
  OBVIOUS
<1>2. ASSUME NEW i \in Nat, i \in T PROVE i + 1 \in T
  <2> SUFFICES ASSUME i + 1 \in 1 .. n PROVE g[i + 1] = f[i + 1]
    OBVIOUS
  <2>1. CASE i = 0
    <3>1. n > 0 /\ m > 0 /\ 1 \in 1 .. n
      OBVIOUS
    <3>2. g[1] = r[1] /\ f[1] = q[1] /\ r[1] = q[1]
      BY <3>1 DEF JoinsTyped, Agree
    <3> QED BY <2>1, <3>2
  <2>2. CASE i # 0
    <3>1. i \in 1 .. n /\ i \in 1 .. m /\ i + 1 \in 1 .. m
      BY <2>2
    <3>2. f[i + 1] = f[i] \o q[i + 1]
      BY <3>1 DEF JoinsTyped
    <3>3. g[i + 1] = g[i] \o r[i + 1]
      BY <3>1 DEF JoinsTyped
    <3>4. g[i] = f[i] /\ r[i + 1] = q[i + 1]
      BY <1>2, <3>1 DEF Agree
    <3> QED BY <3>2, <3>3, <3>4
  <2> QED BY <2>1, <2>2
<1> HIDE DEF T
<1>3. Nat \subseteq T
  BY <1>1, <1>2, SetInduction
<1> QED BY <1>3 DEF T, Agree

LEMMA FlattenOne ==
    ASSUME NEW S, NEW x \in Seq(S)
    PROVE  FlattenSeq(<<x>>) = x
<1> DEFINE q == <<x>>
<1>1. Len(q) = 1 /\ q[1] = x
  OBVIOUS
<1> HIDE DEF q
<1>2. PICK f : Joins(f, q, 1) /\ FlattenSeq(q) = f[1]
  <2>1. Len(q) \in Nat \ {0}
    BY <1>1
  <2>2. \E f : Joins(f, q, Len(q)) /\ FlattenSeq(q) = f[Len(q)]
    BY <2>1, FlattenIsJoin
  <2> QED BY <1>1, <2>2
<1>3. f[1] = x
  BY <1>1, <1>2 DEF Joins
<1> QED BY <1>2, <1>3 DEF q

LEMMA FlattenAppend ==
    ASSUME NEW S, NEW q \in Seq(Seq(S)), NEW x \in Seq(S)
    PROVE  FlattenSeq(Append(q, x)) = FlattenSeq(q) \o x
<1> DEFINE n == Len(q)
           r == Append(q, x)
<1>1. /\ n \in Nat /\ q \in [1 .. n -> Seq(S)] /\ r \in [1 .. n + 1 -> Seq(S)]
      /\ Len(r) = n + 1 /\ r[n + 1] = x /\ \A i \in 1 .. n : r[i] = q[i]
  <2>1. n \in Nat /\ q \in [1 .. n -> Seq(S)]
    BY LenProperties
  <2>2. r \in Seq(Seq(S)) /\ Len(r) = n + 1 /\ r[n + 1] = x /\ \A i \in 1 .. n : r[i] = q[i]
    BY AppendProperties
  <2> HIDE DEF n, r
  <2>3. r \in [1 .. Len(r) -> Seq(S)]
    BY <2>2, LenProperties
  <2> QED BY <2>1, <2>2, <2>3
<1>2. CASE n = 0
  <2>1. q = <<>>
    BY <1>2, EmptySeq
  <2>2. r = <<x>>
    BY <2>1
  <2>3. <<>> \o x = x
    OBVIOUS
  <2> QED BY <2>1, <2>2, <2>3, FlattenOne, FlattenEmpty
<1>3. CASE n # 0
  <2> HIDE DEF n, r
  <2>1. PICK f : Joins(f, q, n) /\ FlattenSeq(q) = f[n]
    <3>1. Len(q) \in Nat \ {0}
      BY <1>1, <1>3 DEF n
    <3> QED BY <3>1, FlattenIsJoin DEF n
  <2>2. PICK g : Joins(g, r, n + 1) /\ FlattenSeq(r) = g[n + 1]
    <3>1. Len(r) \in Nat \ {0}
      BY <1>1
    <3>2. \E g : Joins(g, r, Len(r)) /\ FlattenSeq(r) = g[Len(r)]
      BY <3>1, FlattenIsJoin
    <3> QED BY <1>1, <3>2
  <2>3. n + 1 \in Nat /\ n <= n + 1 /\ n \in 1 .. n
    BY <1>1, <1>3
  <2>4. JoinsTyped(g, r, n + 1, S)
    BY <1>1, <2>2, <2>3, JoinTyped
  <2>5. Agree(g, f, n)
    <3>1. JoinsTyped(f, q, n, S)
      BY <1>1, <2>1, JoinTyped
    <3>2. Agree(r, q, n) /\ n \in Nat
      BY <1>1 DEF Agree
    <3> QED BY <2>3, <2>4, <3>1, <3>2, JoinsAgree
  <2>6. n \in 1 .. n + 1 /\ n + 1 \in 1 .. n + 1
    BY <1>1, <1>3
  <2>7. g[n + 1] = g[n] \o r[n + 1]
    BY <2>4, <2>6 DEF JoinsTyped
  <2>8. g[n + 1] = f[n] \o x
    BY <1>1, <2>3, <2>5, <2>7 DEF Agree
  <2> QED BY <2>1, <2>2, <2>8 DEF r
<1> QED BY <1>2, <1>3

LEMMA FlattenHead ==
    ASSUME NEW S, NEW q \in Seq(Seq(S)), q # <<>>
    PROVE  FlattenSeq(q) = Head(q) \o FlattenSeq(Tail(q))
<1> DEFINE n == Len(q)
           t == Tail(q)
<1>1. /\ n \in Nat \ {0} /\ q \in [1 .. n -> Seq(S)]
      /\ t \in Seq(Seq(S)) /\ Len(t) = n - 1 /\ t \in [1 .. n - 1 -> Seq(S)]
      /\ Head(q) = q[1] /\ \A i \in 1 .. n - 1 : t[i] = q[i + 1]
  <2>1. n \in Nat \ {0} /\ q \in [1 .. n -> Seq(S)]
    BY LenProperties, EmptySeq
  <2>2. /\ t \in Seq(Seq(S)) /\ Len(t) = n - 1
        /\ \A i \in 1 .. Len(t) : t[i] = q[i + 1]
    BY HeadTailProperties
  <2>3. Head(q) = q[1]
    BY <2>1
  <2> HIDE DEF n, t
  <2>4. t \in [1 .. Len(t) -> Seq(S)]
    BY <2>2, LenProperties
  <2> QED BY <2>1, <2>2, <2>3, <2>4
<1> HIDE DEF n, t
<1>2. PICK f : Joins(f, q, n) /\ FlattenSeq(q) = f[n]
  BY <1>1, FlattenIsJoin DEF n
<1>3. JoinsTyped(f, q, n, S)
  BY <1>1, <1>2, JoinTyped
<1>4. 1 \in 1 .. n /\ q[1] \in Seq(S)
  BY <1>1
<1>5. f[1] = q[1]
  BY <1>1, <1>3 DEF JoinsTyped
<1>6. CASE n = 1
  <2>1. t = <<>>
    BY <1>1, <1>6, EmptySeq
  <2>2. q[1] \o <<>> = q[1]
    BY <1>4
  <2> QED BY <1>1, <1>2, <1>5, <1>6, <2>1, <2>2, FlattenEmpty DEF t
<1>7. CASE n # 1
  <2>1. Len(t) \in Nat \ {0} /\ n - 1 \in Nat
    BY <1>1, <1>7
  <2>2. PICK g : Joins(g, t, n - 1) /\ FlattenSeq(t) = g[n - 1]
    <3>1. \E g : Joins(g, t, Len(t)) /\ FlattenSeq(t) = g[Len(t)]
      BY <2>1, FlattenIsJoin
    <3> QED BY <1>1, <3>1
  <2>3. JoinsTyped(g, t, n - 1, S)
    BY <1>1, <2>1, <2>2, JoinTyped
  <2> DEFINE Behind(i) == q[1] \o g[i]
             T == {i \in Nat : i \in 1 .. n - 1 => f[i + 1] = Behind(i)}
  <2> HIDE DEF Behind
  <2>4. 0 \in T
    OBVIOUS
  <2>5. ASSUME NEW i \in Nat, i \in T PROVE i + 1 \in T
    <3> SUFFICES ASSUME i + 1 \in 1 .. n - 1
                 PROVE  f[(i + 1) + 1] = Behind(i + 1)
      OBVIOUS
    <3>1. i + 1 \in 1 .. n /\ (i + 1) + 1 \in 1 .. n
      BY <1>1
    <3>2. f[(i + 1) + 1] = f[i + 1] \o q[(i + 1) + 1] /\ t[i + 1] = q[(i + 1) + 1]
      BY <1>1, <1>3, <3>1 DEF JoinsTyped
    <3>3. CASE i = 0
      <4>1. n - 1 > 0
        BY <1>1
      <4>2. g[1] = t[1]
        BY <2>3, <4>1 DEF JoinsTyped
      <4>3. i + 1 = 1
        BY <3>3
      <4>4. f[(i + 1) + 1] = q[1] \o g[i + 1]
        BY <1>5, <3>2, <4>2, <4>3, Zenon
      <4> QED BY <4>4 DEF Behind
    <3>4. CASE i # 0
      <4>1. i \in 1 .. n - 1
        BY <1>1, <3>4
      <4>2. f[i + 1] = q[1] \o g[i]
        BY <2>5, <4>1 DEF Behind
      <4>3. g[i + 1] = g[i] \o t[i + 1] /\ g[i] \in Seq(S) /\ t[i + 1] \in Seq(S)
        BY <1>1, <2>3, <4>1 DEF JoinsTyped
      <4>4. (q[1] \o g[i]) \o t[i + 1] = q[1] \o (g[i] \o t[i + 1])
        <5> DEFINE a == q[1]
                   b == g[i]
                   c == t[i + 1]
        <5>1. a \in Seq(S) /\ b \in Seq(S) /\ c \in Seq(S)
          BY <1>4, <4>3
        <5> HIDE DEF a, b, c
        <5>2. (a \o b) \o c = a \o (b \o c)
          BY <5>1, SMTT(20)
        <5> QED BY <5>2, Zenon DEF a, b, c
      <4> QED BY <3>2, <4>2, <4>3, <4>4, Zenon DEF Behind
    <3> QED BY <3>3, <3>4
  <2> HIDE DEF T
  <2>6. Nat \subseteq T
    BY <2>4, <2>5, SetInduction
  <2>7. f[(n - 1) + 1] = q[1] \o g[n - 1]
    <3>1. n - 1 \in 1 .. n - 1
      BY <1>1, <1>7
    <3> QED BY <2>1, <2>6, <3>1 DEF T, Behind
  <2>8. (n - 1) + 1 = n
    BY <1>1
  <2> QED BY <1>1, <1>2, <2>2, <2>7, <2>8 DEF t
<1> QED BY <1>6, <1>7

(* The sequences of q are not empty: each ends behind the one before it.   *)
LEMMA OffsetsGrow ==
    ASSUME NEW S, NEW q \in Seq(Seq(S)), \A i \in 1 .. Len(q) : Len(q[i]) > 0,
           NEW pos, IsOffsets(pos, q),
           NEW i \in 1 .. Len(q) + 1, NEW j \in 1 .. Len(q) + 1, i < j
    PROVE  pos[i] < pos[j]
<1> DEFINE n == Len(q)
<1>1. /\ n \in Nat /\ \A m \in 1 .. n : Len(q[m]) \in Nat
      /\ \A m \in 1 .. n + 1 : pos[m] \in Nat
      /\ \A m \in 1 .. n : pos[m + 1] = pos[m] + Len(q[m])
  <2>1. n \in Nat
    BY LenProperties
  <2>2. \A m \in 1 .. n : Len(q[m]) \in Nat
    BY ElementOfSeq, LenProperties
  <2> QED BY <2>1, <2>2 DEF IsOffsets
<1> HIDE DEF n
<1> DEFINE T == {m \in Nat : i + 1 + m \in 1 .. n + 1 => pos[i] < pos[i + 1 + m]}
<1>2. \A m \in 1 .. n : pos[m] < pos[m + 1]
  <2> TAKE m \in 1 .. n
  <2>1. pos[m + 1] = pos[m] + Len(q[m]) /\ Len(q[m]) \in Nat /\ Len(q[m]) > 0
    BY <1>1 DEF n
  <2>2. pos[m] \in Nat
    BY <1>1
  <2> QED BY <2>1, <2>2
<1>3. 0 \in T
  BY <1>1, <1>2 DEF n
<1>4. ASSUME NEW m \in Nat, m \in T PROVE m + 1 \in T
  <2> SUFFICES ASSUME i + 1 + (m + 1) \in 1 .. n + 1
               PROVE  pos[i] < pos[i + 1 + (m + 1)]
    OBVIOUS
  <2> DEFINE k == i + 1 + m
  <2>1. k \in 1 .. n /\ k \in 1 .. n + 1 /\ i + 1 + (m + 1) = k + 1
        /\ k + 1 \in 1 .. n + 1 /\ i \in 1 .. n + 1
    BY <1>1 DEF n
  <2>2. pos[i] < pos[k]
    BY <1>4, <2>1
  <2> HIDE DEF k
  <2>3. pos[k] < pos[k + 1]
    BY <1>2, <2>1
  <2>4. pos[i] \in Nat /\ pos[k] \in Nat /\ pos[k + 1] \in Nat
    BY <1>1, <2>1
  <2>5. pos[i] < pos[k + 1]
    BY <2>2, <2>3, <2>4
  <2> QED BY <2>1, <2>5
<1> HIDE DEF T
<1>5. Nat \subseteq T
  BY <1>3, <1>4, SetInduction
<1>6. j - (i + 1) \in Nat /\ i + 1 + (j - (i + 1)) = j
  BY <1>1 DEF n
<1> QED BY <1>5, <1>6 DEF T, n

(* Each sequence of q ends in e: so many times, at least, e is in a        *)
(* sequence that ends in theirs.                                           *)
EachEndsIn(q, e) == \A i \in 1 .. Len(q) : Len(q[i]) > 0 /\ q[i][Len(q[i])] = e

Count(w, e) == Cardinality({i \in DOMAIN w : w[i] = e})

LEMMA CountIsNat ==
    ASSUME NEW S, NEW w \in Seq(S), NEW e
    PROVE  Count(w, e) \in Nat
<1> DEFINE n == Len(w)
           M == {i \in DOMAIN w : w[i] = e}
<1>1. n \in Nat /\ M \in SUBSET (1 .. n)
  BY LenProperties
<1> HIDE DEF n, M
<1>2. IsFiniteSet(1 .. n)
  BY <1>1, FS_Interval
<1>3. IsFiniteSet(M)
  BY <1>1, <1>2, FS_Subset
<1> QED BY <1>3, FS_CardinalityType DEF Count, M

LEMMA EndsCounted ==
    ASSUME NEW S, NEW a \in Seq(S), NEW q \in Seq(Seq(S)), NEW e, EachEndsIn(q, e)
    PROVE  Len(q) <= Count(a \o FlattenSeq(q), e)
<1> DEFINE w == a \o FlattenSeq(q)
           pos == OffsetsOf(q)
           n == Len(q)
           M == {i \in DOMAIN w : w[i] = e}
           f == [i \in 1 .. n |-> Len(a) + pos[i + 1]]
<1>1. w \in Seq(S) /\ HeadedAt(w, a, pos, q)
  BY HeadedPlaces
<1>2. n \in Nat /\ Len(a) \in Nat /\ \A i \in 1 .. n : Len(q[i]) \in Nat
  BY LenProperties, ElementOfSeq
<1> HIDE DEF w, pos, n
<1>3. IsOffsets(pos, q)
  BY <1>1 DEF HeadedAt
<1>4. /\ \A i \in 1 .. n + 1 : pos[i] \in Nat
      /\ \A i \in 1 .. n : pos[i + 1] = pos[i] + Len(q[i])
  BY <1>3 DEF IsOffsets, n
<1>5. ASSUME NEW i \in 1 .. n PROVE f[i] \in M
  <2> DEFINE j == Len(q[i])
  <2>1. j \in 1 .. Len(q[i]) /\ q[i][j] = e
    BY <1>2 DEF n, EachEndsIn
  <2>2. Len(a) + pos[i] + j \in 1 .. Len(w) /\ w[Len(a) + pos[i] + j] = q[i][j]
    BY <1>1, <2>1 DEF HeadedAt, n
  <2>3. Len(a) + pos[i] + j = Len(a) + pos[i + 1]
    <3>1. pos[i] \in Nat /\ pos[i + 1] = pos[i] + j
      BY <1>2, <1>4
    <3>2. j \in Nat
      BY <1>2
    <3> HIDE DEF j
    <3> QED BY <1>2, <3>1, <3>2
  <2>4. DOMAIN w = 1 .. Len(w)
    BY <1>1
  <2> HIDE DEF j
  <2>5. f[i] = Len(a) + pos[i] + j
    BY <2>3
  <2> HIDE DEF f
  <2> QED BY <2>1, <2>2, <2>4, <2>5
<1>6. ASSUME NEW i \in 1 .. n, NEW j \in 1 .. n, f[i] = f[j] PROVE i = j
  <2>1. /\ i + 1 \in 1 .. n + 1 /\ j + 1 \in 1 .. n + 1
        /\ pos[i + 1] \in Nat /\ pos[j + 1] \in Nat
    BY <1>2, <1>4
  <2>2. pos[i + 1] = pos[j + 1]
    BY <1>2, <1>6, <2>1
  <2>3. \A k, m \in 1 .. n + 1 : k < m => pos[k] < pos[m]
    BY <1>3, OffsetsGrow DEF n, EachEndsIn
  <2>4. ~(i + 1 < j + 1) /\ ~(j + 1 < i + 1)
    BY <2>1, <2>2, <2>3
  <2> QED BY <2>1, <2>4
<1>7. IsFiniteSet(M)
  <2>1. DOMAIN w = 1 .. Len(w) /\ Len(w) \in Nat
    BY <1>1
  <2>2. IsFiniteSet(1 .. Len(w))
    BY <2>1, FS_Interval
  <2>3. M \in SUBSET (1 .. Len(w))
    BY <2>1
  <2> QED BY <2>2, <2>3, FS_Subset
<1> HIDE DEF M
<1>8. f \in Injection(1 .. n, M)
  BY <1>5, <1>6 DEF Injection, IsInjective
<1>9. Cardinality(1 .. n) <= Cardinality(M)
  BY <1>7, <1>8, FS_Injection
<1>10. Cardinality(1 .. n) = n
  <2>1. 1 \in Int /\ n \in Int /\ n \in Nat
    BY <1>2
  <2>2. Cardinality(1 .. n) = IF 1 > n THEN 0 ELSE n - 1 + 1
    BY <2>1, FS_Interval
  <2> QED BY <2>1, <2>2
<1> QED BY <1>9, <1>10 DEF M, w, n, Count
=============================================================================
