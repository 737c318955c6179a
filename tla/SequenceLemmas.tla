--------------------------- MODULE SequenceLemmas ---------------------------
(***************************************************************************)
(* Induction over the natural numbers as a fact about sets, which needs no *)
(* operator as a parameter, with it what FlattenSeq computes, and a fact   *)
(* about division.                                                         *)
(***************************************************************************)
EXTENDS Integers, SequencesExt, SequenceTheorems, WellFoundedInduction, TLAPS

(* A set of natural numbers has a least element, unless it is empty.       *)
LEMMA Least ==
  ASSUME NEW T, T \subseteq Nat, T # {}
  PROVE  \E x \in T : \A y \in T : x <= y
<1> DEFINE R == {p \in Nat \X Nat : p[1] < p[2]}
<1>1. IsWellFoundedOn(R, Nat)
  BY NatLessThanWellFounded DEF OpToRel
<1>2. \A x, y \in Nat : <<x, y>> \in R <=> x < y
  OBVIOUS
<1> HIDE DEF R
<1>3. PICK x \in T : \A y \in T : <<y, x>> \notin R
  BY <1>1, WFMin
<1>4. ASSUME NEW y \in T
      PROVE  x <= y
  <2>1. x \in Nat /\ y \in Nat
    OBVIOUS
  <2>2. ~ (y < x)
    BY <1>2, <1>3, <2>1
  <2>3. QED
    BY <2>1, <2>2
<1>5. QED
  BY <1>4

(* What holds of 0 and of n + 1 if it does of n holds of all of them.      *)
LEMMA Induction ==
  ASSUME NEW S, 0 \in S, \A n \in Nat : n \in S => n + 1 \in S
  PROVE  Nat \subseteq S
<1> SUFFICES ASSUME Nat \ S # {}
             PROVE  FALSE
  OBVIOUS
<1>1. PICK x \in Nat \ S : \A y \in Nat \ S : x <= y
  BY Least
<1>2. x # 0 /\ x - 1 \in Nat /\ x - 1 \in S
  BY <1>1
<1>3. x \in S
  BY <1>2
<1>4. QED
  BY <1>1, <1>3

(* Division with remainder is unique.                                      *)
LEMMA DivisionUnique ==
  ASSUME NEW d \in Nat \ {0}, NEW q \in Int, NEW r \in 0 .. d - 1,
         NEW v \in Int, v = d * q + r
  PROVE  v \div d = q /\ v % d = r
<1> DEFINE q2 == v \div d
           r2 == v % d
<1>1. d * q + r = d * q2 + r2 /\ q2 \in Int /\ r2 \in 0 .. d - 1
  OBVIOUS
<1> HIDE DEF q2, r2
<1>2. r2 = r
  BY <1>1
<1>3. q2 = q
  BY <1>1, <1>2
<1>4. QED
  BY <1>2, <1>3 DEF q2, r2
-----------------------------------------------------------------------------
(* A function on 1 .. n is a sequence.                                    *)
LEMMA MapSeq ==
  ASSUME NEW n \in Nat, NEW S, NEW s, s = [i \in 1 .. n |-> s[i]],
         \A i \in 1 .. n : s[i] \in S
  PROVE  s \in Seq(S) /\ Len(s) = n
  BY SeqDef, LenProperties

(* The function FlattenSeq is defined by, on the first n sequences.        *)
IsFlatten(f, ss, n) ==
  f = [i \in 1 .. n |-> IF i = 1 THEN ss[i] ELSE f[i - 1] \o ss[i]]

LEMMA FlattenStep ==
  ASSUME NEW f, NEW ss, NEW n \in Nat, IsFlatten(f, ss, n), NEW i \in 1 .. n
  PROVE  f[i] = IF i = 1 THEN ss[i] ELSE f[i - 1] \o ss[i]
<1> DEFINE e(j) == IF j = 1 THEN ss[j] ELSE f[j - 1] \o ss[j]
<1>1. f = [j \in 1 .. n |-> e(j)]
  BY DEF IsFlatten
<1> HIDE DEF e
<1>2. f[i] = e(i)
  BY <1>1
<1>3. QED
  BY <1>2 DEF e

LEMMA FlattenExists ==
  ASSUME NEW ss
  PROVE  \A n \in Nat : \E f : IsFlatten(f, ss, n)
<1> DEFINE S == {n \in Nat : \E f : IsFlatten(f, ss, n)}
<1>1. 0 \in S
  <2>1. IsFlatten([i \in 1 .. 0 |-> <<>>], ss, 0)
    BY DEF IsFlatten
  <2>2. QED
    BY <2>1
<1>2. ASSUME NEW n \in Nat, n \in S
      PROVE  n + 1 \in S
  <2>1. PICK f : IsFlatten(f, ss, n)
    BY <1>2
  <2> DEFINE g == [i \in 1 .. n + 1 |-> IF i <= n THEN f[i]
                                        ELSE IF i = 1 THEN ss[i] ELSE f[i - 1] \o ss[i]]
  <2>2. \A i \in 1 .. n : f[i] = IF i = 1 THEN ss[i] ELSE f[i - 1] \o ss[i]
    BY <2>1, FlattenStep
  <2>3. \A i \in 1 .. n + 1 : g[i] = IF i = 1 THEN ss[i] ELSE g[i - 1] \o ss[i]
    <3> TAKE i \in 1 .. n + 1
    <3>1. CASE i = 1
      BY <2>2, <3>1
    <3>2. CASE i # 1
      <4>1. i - 1 \in 1 .. n /\ g[i - 1] = f[i - 1]
        BY <3>2
      <4>2. g[i] = f[i - 1] \o ss[i]
        <5>1. CASE i <= n
          <6>1. i \in 1 .. n /\ g[i] = f[i]
            BY <5>1
          <6>2. QED
            BY Zenon, <2>2, <3>2, <6>1
        <5>2. CASE ~ (i <= n)
          BY Zenon, <3>2, <5>2
        <5>3. QED
          BY <5>1, <5>2
      <4>3. QED
        BY <3>2, <4>1, <4>2
    <3>3. QED
      BY <3>1, <3>2
  <2>4. IsFlatten(g, ss, n + 1)
    BY Zenon, <2>3 DEF IsFlatten
  <2>5. QED
    BY <2>4
<1>3. QED
  BY <1>1, <1>2, Induction

AgreeUpTo(ss, tt, m) == \A i \in 1 .. m : ss[i] = tt[i]

(* Such functions agree as far as their sequences do.                      *)
LEMMA FlattenUnique ==
  ASSUME NEW ss, NEW tt, NEW m \in Nat, NEW n \in Nat, m <= n,
         AgreeUpTo(ss, tt, m),
         NEW f, IsFlatten(f, ss, m), NEW g, IsFlatten(g, tt, n)
  PROVE  AgreeUpTo(f, g, m)
<1> DEFINE S == {k \in Nat : k \in 1 .. m => f[k] = g[k]}
<1>1. 0 \in S
  OBVIOUS
<1>2. ASSUME NEW k \in Nat, k \in S
      PROVE  k + 1 \in S
  <2> SUFFICES ASSUME k + 1 \in 1 .. m
               PROVE  f[k + 1] = g[k + 1]
    OBVIOUS
  <2>1. /\ f[k + 1] = IF k + 1 = 1 THEN ss[k + 1] ELSE f[k + 1 - 1] \o ss[k + 1]
        /\ g[k + 1] = IF k + 1 = 1 THEN tt[k + 1] ELSE g[k + 1 - 1] \o tt[k + 1]
    <3>1. k + 1 \in 1 .. n
      OBVIOUS
    <3>2. QED
      BY <3>1, FlattenStep
  <2>2. ss[k + 1] = tt[k + 1]
    BY DEF AgreeUpTo
  <2>3. k # 0 => f[k] = g[k]
    BY <1>2
  <2>4. k + 1 - 1 = k
    OBVIOUS
  <2>5. QED
    BY <2>1, <2>2, <2>3, <2>4
<1>3. Nat \subseteq S
  BY <1>1, <1>2, Induction
<1>4. QED
  BY <1>3 DEF AgreeUpTo

LEMMA FlattenIs ==
  ASSUME NEW ss, Len(ss) \in Nat \ {0}
  PROVE  \E f : IsFlatten(f, ss, Len(ss)) /\ FlattenSeq(ss) = f[Len(ss)]
<1> DEFINE f == CHOOSE g : IsFlatten(g, ss, Len(ss))
<1>1. IsFlatten(f, ss, Len(ss))
  BY FlattenExists
<1>2. FlattenSeq(ss) = f[Len(ss)]
  BY Zenon DEF FlattenSeq, IsFlatten
<1>3. QED
  BY <1>1, <1>2

(* Empty sequences make an empty one.                                      *)
LEMMA FlattenEmpty == FlattenSeq(<<>>) = <<>>
  BY DEF FlattenSeq

(* One more sequence comes behind the others.                              *)
LEMMA FlattenAppend ==
  ASSUME NEW S, NEW ss \in Seq(Seq(S)), NEW s \in Seq(S)
  PROVE  FlattenSeq(Append(ss, s)) = FlattenSeq(ss) \o s
<1> DEFINE tt == Append(ss, s)
           n  == Len(ss)
<1>1. /\ tt \in Seq(Seq(S)) /\ Len(tt) = n + 1 /\ n \in Nat
      /\ \A i \in 1 .. n : ss[i] = tt[i]
      /\ tt[n + 1] = s
  BY AppendProperties, LenProperties
<1> HIDE DEF tt
<1>2. PICK g : IsFlatten(g, tt, n + 1) /\ FlattenSeq(tt) = g[n + 1]
  BY <1>1, FlattenIs
<1>3. g[n + 1] = IF n + 1 = 1 THEN tt[n + 1] ELSE g[n + 1 - 1] \o tt[n + 1]
  BY <1>1, <1>2, FlattenStep
<1>4. CASE n = 0
  <2>1. ss = <<>>
    BY <1>4, EmptySeq
  <2>2. FlattenSeq(ss) = <<>>
    BY <2>1, FlattenEmpty
  <2>3. g[n + 1] = s
    BY <1>1, <1>3, <1>4
  <2>4. <<>> \o s = s
    BY ConcatEmptySeq
  <2>5. QED
    BY <1>2, <2>2, <2>3, <2>4 DEF tt
<1>5. CASE n # 0
  <2>1. PICK f : IsFlatten(f, ss, n) /\ FlattenSeq(ss) = f[n]
    BY <1>1, <1>5, FlattenIs
  <2>2. f[n] = g[n]
    <3>1. n <= n + 1 /\ n + 1 \in Nat /\ n \in 1 .. n
      BY <1>1, <1>5
    <3>2. AgreeUpTo(f, g, n)
      <4>1. n \in Nat /\ AgreeUpTo(ss, tt, n)
        BY <1>1 DEF AgreeUpTo
      <4>2. IsFlatten(f, ss, n) /\ IsFlatten(g, tt, n + 1)
        BY <1>2, <2>1
      <4> DEFINE k == n + 1
      <4>3. k \in Nat /\ n <= k /\ IsFlatten(g, tt, k)
        BY <3>1, <4>2
      <4> HIDE DEF n, k
      <4>4. QED
        BY <4>1, <4>2, <4>3, FlattenUnique
    <3>3. QED
      BY <3>1, <3>2 DEF AgreeUpTo
  <2>3. n + 1 # 1 /\ n + 1 - 1 = n
    BY <1>1, <1>5
  <2>4. g[n + 1] = g[n] \o s
    BY <1>1, <1>3, <2>3
  <2>5. QED
    BY <1>2, <2>1, <2>2, <2>4 DEF tt
<1>6. QED
  BY <1>4, <1>5

(* All but the last, and the last.                                         *)
LEMMA FrontLast ==
  ASSUME NEW S, NEW s \in Seq(S), s # <<>>
  PROVE  /\ Front(s) \in Seq(S) /\ Last(s) \in S
         /\ Len(s) \in Nat \ {0} /\ Len(Front(s)) = Len(s) - 1
         /\ \A i \in 1 .. Len(s) - 1 : Front(s)[i] = s[i]
         /\ s = Append(Front(s), Last(s))
<1>1. Len(s) \in Nat \ {0} /\ \A i \in 1 .. Len(s) : s[i] \in S
  BY EmptySeq, ElementOfSeq
<1>2. /\ Front(s) \in Seq(S) /\ Len(Front(s)) = Len(s) - 1
      /\ \A i \in 1 .. Len(s) - 1 : Front(s)[i] = s[i]
  <2>1. \A i \in 1 .. Len(s) - 1 : s[i] \in S
    BY <1>1
  <2>2. /\ SubSeq(s, 1, Len(s) - 1) \in Seq(S)
        /\ Len(SubSeq(s, 1, Len(s) - 1))
             = IF 1 <= Len(s) - 1 THEN Len(s) - 1 - 1 + 1 ELSE 0
        /\ \A i \in 1 .. Len(s) - 1 - 1 + 1 : SubSeq(s, 1, Len(s) - 1)[i] = s[1 + i - 1]
    BY <1>1, <2>1, SubSeqProperties
  <2>3. \A i \in 1 .. Len(s) - 1 : SubSeq(s, 1, Len(s) - 1)[i] = s[i]
    <3> DEFINE t == SubSeq(s, 1, Len(s) - 1)
    <3>1. \A i \in 1 .. Len(s) - 1 - 1 + 1 : t[i] = s[1 + i - 1]
      BY <2>2
    <3> HIDE DEF t
    <3>2. \A i \in 1 .. Len(s) - 1 : t[i] = s[i]
      BY <1>1, <3>1
    <3>3. QED
      BY <3>2 DEF t
  <2>4. Len(SubSeq(s, 1, Len(s) - 1)) = Len(s) - 1
    <3> DEFINE m == Len(SubSeq(s, 1, Len(s) - 1))
    <3>1. m = IF 1 <= Len(s) - 1 THEN Len(s) - 1 - 1 + 1 ELSE 0
      BY <2>2
    <3> DEFINE k == Len(s)
    <3>2. k \in Nat \ {0} /\ m = IF 1 <= k - 1 THEN k - 1 - 1 + 1 ELSE 0
      BY <1>1, <3>1
    <3> HIDE DEF m, k
    <3>3. m = k - 1
      BY <3>2
    <3>4. QED
      BY <3>3 DEF m, k
  <2>5. QED
    BY Zenon, <2>2, <2>3, <2>4 DEF Front
<1>3. Last(s) \in S
  BY <1>1 DEF Last
<1> DEFINE t == Append(Front(s), Last(s))
<1>4. /\ t \in Seq(S) /\ Len(t) = Len(s)
      /\ \A i \in 1 .. Len(s) - 1 : t[i] = s[i]
      /\ t[Len(s)] = s[Len(s)]
  <2>1. /\ t \in Seq(S) /\ Len(t) = Len(Front(s)) + 1
        /\ \A i \in 1 .. Len(Front(s)) : t[i] = Front(s)[i]
        /\ t[Len(Front(s)) + 1] = Last(s)
    BY <1>2, <1>3, AppendProperties
  <2>2. Len(Front(s)) + 1 = Len(s)
    BY <1>1, <1>2
  <2>3. QED
    BY <1>2, <2>1, <2>2 DEF Last
<1>5. \A i \in 1 .. Len(s) : s[i] = t[i]
  BY <1>1, <1>4
<1>6. s = t
  BY <1>4, <1>5, SeqEqual
<1>7. QED
  BY <1>1, <1>2, <1>3, <1>6

LEMMA FlattenType ==
  ASSUME NEW S
  PROVE  \A ss \in Seq(Seq(S)) : FlattenSeq(ss) \in Seq(S)
<1> DEFINE N == {n \in Nat : \A ss \in Seq(Seq(S)) : Len(ss) = n => FlattenSeq(ss) \in Seq(S)}
<1>1. 0 \in N
  BY FlattenEmpty, EmptySeq
<1>2. ASSUME NEW n \in Nat, n \in N
      PROVE  n + 1 \in N
  <2> SUFFICES ASSUME NEW ss \in Seq(Seq(S)), Len(ss) = n + 1
               PROVE  FlattenSeq(ss) \in Seq(S)
    OBVIOUS
  <2>1. ss # <<>>
    BY EmptySeq
  <2>2. /\ Front(ss) \in Seq(Seq(S)) /\ Last(ss) \in Seq(S)
        /\ Len(Front(ss)) = n
        /\ ss = Append(Front(ss), Last(ss))
    <3>1. /\ Front(ss) \in Seq(Seq(S)) /\ Last(ss) \in Seq(S)
          /\ Len(Front(ss)) = Len(ss) - 1
          /\ ss = Append(Front(ss), Last(ss))
      BY Zenon, <2>1, FrontLast
    <3>2. Len(ss) - 1 = n
      OBVIOUS
    <3>3. QED
      BY Zenon, <3>1, <3>2
  <2>3. FlattenSeq(Front(ss)) \in Seq(S)
    BY <1>2, <2>2
  <2>4. FlattenSeq(ss) = FlattenSeq(Front(ss)) \o Last(ss)
    BY <2>2, FlattenAppend
  <2>5. QED
    BY <2>2, <2>3, <2>4, ConcatProperties
<1>3. Nat \subseteq N
  BY <1>1, <1>2, Induction
<1>4. QED
  BY <1>3, LenProperties

(* Flattening distributes over concatenation.                              *)
LEMMA FlattenConcat ==
  ASSUME NEW S, NEW ss \in Seq(Seq(S))
  PROVE  \A tt \in Seq(Seq(S)) : FlattenSeq(ss \o tt) = FlattenSeq(ss) \o FlattenSeq(tt)
<1> DEFINE N == {n \in Nat : \A tt \in Seq(Seq(S)) :
                   Len(tt) = n => FlattenSeq(ss \o tt) = FlattenSeq(ss) \o FlattenSeq(tt)}
<1>0. FlattenSeq(ss) \in Seq(S)
  BY FlattenType
<1>1. 0 \in N
  <2> SUFFICES ASSUME NEW tt \in Seq(Seq(S)), Len(tt) = 0
               PROVE  FlattenSeq(ss \o tt) = FlattenSeq(ss) \o FlattenSeq(tt)
    OBVIOUS
  <2>1. tt = <<>>
    BY EmptySeq
  <2>2. ss \o <<>> = ss /\ FlattenSeq(ss) \o <<>> = FlattenSeq(ss)
    BY <1>0, ConcatEmptySeq
  <2>3. QED
    BY <2>1, <2>2, FlattenEmpty
<1>2. ASSUME NEW n \in Nat, n \in N
      PROVE  n + 1 \in N
  <2> SUFFICES ASSUME NEW tt \in Seq(Seq(S)), Len(tt) = n + 1
               PROVE  FlattenSeq(ss \o tt) = FlattenSeq(ss) \o FlattenSeq(tt)
    OBVIOUS
  <2> DEFINE front == Front(tt)
             last  == Last(tt)
  <2>1. tt # <<>>
    BY EmptySeq
  <2>2. /\ front \in Seq(Seq(S)) /\ last \in Seq(S)
        /\ Len(front) = n
        /\ tt = Append(front, last)
    <3>1. /\ front \in Seq(Seq(S)) /\ last \in Seq(S)
          /\ Len(front) = Len(tt) - 1
          /\ tt = Append(front, last)
      BY Zenon, <2>1, FrontLast
    <3>2. Len(tt) - 1 = n
      OBVIOUS
    <3>3. QED
      BY Zenon, <3>1, <3>2
  <2> HIDE DEF front, last
  <2>3. /\ ss \o front \in Seq(Seq(S))
        /\ ss \o tt = Append(ss \o front, last)
    <3>1. ss \o front \in Seq(Seq(S)) /\ <<last>> \in Seq(Seq(S))
      BY <2>2, ConcatProperties
    <3>2. tt = front \o <<last>>
      BY <2>2, AppendIsConcat
    <3>3. ss \o (front \o <<last>>) = (ss \o front) \o <<last>>
      <4>1. front \in Seq(Seq(S))
        BY <2>2
      <4>2. QED
        BY <3>1, <4>1, ConcatAssociative
    <3>4. QED
      BY <2>2, <3>1, <3>2, <3>3, AppendIsConcat
  <2>4. FlattenSeq(ss \o tt) = FlattenSeq(ss \o front) \o last
    BY <2>2, <2>3, FlattenAppend
  <2>5. FlattenSeq(ss \o front) = FlattenSeq(ss) \o FlattenSeq(front)
    BY <1>2, <2>2
  <2>6. FlattenSeq(tt) = FlattenSeq(front) \o last
    BY <2>2, FlattenAppend
  <2>7. FlattenSeq(front) \in Seq(S)
    BY <2>2, FlattenType
  <2>8. (FlattenSeq(ss) \o FlattenSeq(front)) \o last = FlattenSeq(ss) \o (FlattenSeq(front) \o last)
    <3>1. last \in Seq(S)
      BY <2>2
    <3> DEFINE a == FlattenSeq(ss)
               b == FlattenSeq(front)
    <3>2. a \in Seq(S) /\ b \in Seq(S)
      BY <1>0, <2>7
    <3> HIDE DEF N, a, b
    <3>3. (a \o b) \o last = a \o (b \o last)
      BY <3>1, <3>2, ConcatAssociative
    <3>4. QED
      BY <3>3 DEF a, b
  <2>9. QED
    BY <2>4, <2>5, <2>6, <2>8
<1>3. Nat \subseteq N
  BY <1>1, <1>2, Induction
<1>4. QED
  BY <1>3, LenProperties

(* Flattening undoes the division into single elements.                    *)
LEMMA FlattenSingles ==
  ASSUME NEW S
  PROVE  \A s \in Seq(S) : FlattenSeq([i \in DOMAIN s |-> <<s[i]>>]) = s
<1> DEFINE singles(s) == [i \in DOMAIN s |-> <<s[i]>>]
           N == {n \in Nat : \A s \in Seq(S) : Len(s) = n => FlattenSeq(singles(s)) = s}
<1>1. 0 \in N
  <2> SUFFICES ASSUME NEW s \in Seq(S), Len(s) = 0
               PROVE  FlattenSeq(singles(s)) = s
    OBVIOUS
  <2>1. s = <<>> /\ singles(s) = <<>>
    BY EmptySeq
  <2>2. QED
    BY <2>1, FlattenEmpty
<1>2. ASSUME NEW n \in Nat, n \in N
      PROVE  n + 1 \in N
  <2> SUFFICES ASSUME NEW s \in Seq(S), Len(s) = n + 1
               PROVE  FlattenSeq(singles(s)) = s
    OBVIOUS
  <2> DEFINE front == Front(s)
             last  == Last(s)
  <2>1. s # <<>>
    BY EmptySeq
  <2>2. /\ front \in Seq(S) /\ last \in S
        /\ Len(front) = n
        /\ \A i \in 1 .. n : front[i] = s[i]
        /\ s = Append(front, last)
    <3>1. /\ front \in Seq(S) /\ last \in S
          /\ Len(front) = Len(s) - 1
          /\ \A i \in 1 .. Len(s) - 1 : front[i] = s[i]
          /\ s = Append(front, last)
      BY Zenon, <2>1, FrontLast
    <3>2. Len(s) - 1 = n
      OBVIOUS
    <3>3. QED
      BY Zenon, <3>1, <3>2
  <2>3. last = s[n + 1]
    BY DEF Last
  <2> HIDE DEF front, last
  <2>4. /\ singles(front) \in Seq(Seq(S)) /\ <<last>> \in Seq(S)
        /\ Len(singles(front)) = n
        /\ \A i \in 1 .. n : singles(front)[i] = <<front[i]>>
    <3>1. /\ DOMAIN front = 1 .. n
          /\ \A i \in 1 .. n : front[i] \in S
      BY <2>2, LenProperties, ElementOfSeq
    <3> DEFINE t == singles(front)
    <3>2. /\ t = [i \in 1 .. n |-> t[i]]
          /\ \A i \in 1 .. n : t[i] \in Seq(S) /\ t[i] = <<front[i]>>
      BY <3>1
    <3> HIDE DEF t
    <3>3. t \in Seq(Seq(S)) /\ Len(t) = n
      BY <3>2, MapSeq
    <3>4. QED
      BY <2>2, <3>2, <3>3 DEF t
  <2>5. singles(s) = Append(singles(front), <<last>>)
    <3> DEFINE t == singles(s)
               u == Append(singles(front), <<last>>)
    <3>1. /\ t \in Seq(Seq(S)) /\ Len(t) = n + 1
          /\ \A i \in 1 .. n + 1 : t[i] = <<s[i]>>
      <4>1. DOMAIN s = 1 .. n + 1 /\ \A i \in 1 .. n + 1 : s[i] \in S
        BY LenProperties, ElementOfSeq
      <4>2. /\ t = [i \in 1 .. n + 1 |-> t[i]]
            /\ \A i \in 1 .. n + 1 : t[i] \in Seq(S) /\ t[i] = <<s[i]>>
        BY <4>1
      <4> DEFINE k == n + 1
      <4>3. k \in Nat /\ t = [i \in 1 .. k |-> t[i]] /\ \A i \in 1 .. k : t[i] \in Seq(S)
        BY <4>2
      <4> HIDE DEF t, k
      <4>4. t \in Seq(Seq(S)) /\ Len(t) = k
        BY <4>3, MapSeq
      <4>5. QED
        BY <4>2, <4>4 DEF k
    <3>2. /\ u \in Seq(Seq(S)) /\ Len(u) = n + 1
          /\ \A i \in 1 .. n : u[i] = singles(front)[i]
          /\ u[n + 1] = <<last>>
      BY <2>4, AppendProperties
    <3>3. \A i \in 1 .. n + 1 : t[i] = u[i]
      <4> TAKE i \in 1 .. n + 1
      <4>1. i \in 1 .. n \/ i = n + 1
        OBVIOUS
      <4> HIDE DEF t, u
      <4>2. QED
        BY <2>2, <2>3, <2>4, <3>1, <3>2, <4>1
    <3> HIDE DEF t, u
    <3>4. t = u
      BY <3>1, <3>2, <3>3, SeqEqual
    <3>5. QED
      BY <3>4 DEF t, u
  <2>6. FlattenSeq(singles(front)) = front
    BY <1>2, <2>2
  <2> HIDE DEF singles
  <2>7. FlattenSeq(singles(s)) = front \o <<last>>
    BY <2>4, <2>5, <2>6, FlattenAppend
  <2>8. QED
    BY <2>2, <2>7, AppendIsConcat
<1>3. Nat \subseteq N
  BY <1>1, <1>2, Induction
<1>4. QED
  BY <1>3, LenProperties
-----------------------------------------------------------------------------
(* The first n elements of a sequence. *)
LEMMA Beginning ==
  ASSUME NEW S, NEW s \in Seq(S), NEW n \in 0 .. Len(s)
  PROVE  /\ SubSeq(s, 1, n) \in Seq(S) /\ Len(SubSeq(s, 1, n)) = n
         /\ \A i \in 1 .. n : SubSeq(s, 1, n)[i] = s[i]
<1>1. Len(s) \in Nat /\ n \in Nat /\ \A i \in 1 .. n : s[i] \in S
  BY ElementOfSeq, LenProperties
<1>2. /\ SubSeq(s, 1, n) \in Seq(S)
      /\ Len(SubSeq(s, 1, n)) = IF 1 <= n THEN n - 1 + 1 ELSE 0
      /\ \A i \in 1 .. n - 1 + 1 : SubSeq(s, 1, n)[i] = s[1 + i - 1]
  BY <1>1, SubSeqProperties
<1>3. QED
  BY <1>1, <1>2

(* A sequence with n more elements, all of them z. *)
LEMMA Continued ==
  ASSUME NEW S, NEW s \in Seq(S), NEW n \in Nat, NEW z \in S
  PROVE  LET t == s \o [i \in 1 .. n |-> z]
         IN  /\ t \in Seq(S) /\ Len(t) = Len(s) + n
             /\ \A i \in 1 .. Len(s) + n : t[i] = IF i <= Len(s) THEN s[i] ELSE z
<1> DEFINE more == [i \in 1 .. n |-> z]
<1>1. more \in Seq(S) /\ Len(more) = n /\ \A i \in 1 .. n : more[i] = z
  OBVIOUS
<1>2. Len(s) \in Nat
  BY LenProperties
<1> HIDE DEF more
<1> DEFINE t == s \o more
<1>3. /\ t \in Seq(S) /\ Len(t) = Len(s) + Len(more)
      /\ \A i \in 1 .. Len(s) + Len(more) :
           t[i] = IF i <= Len(s) THEN s[i] ELSE more[i - Len(s)]
  BY <1>1, ConcatProperties
<1> HIDE DEF t
<1>4. ASSUME NEW i \in 1 .. Len(s) + n, i > Len(s)
      PROVE  t[i] = z
  <2>1. i - Len(s) \in 1 .. n
    BY <1>2, <1>4
  <2>2. QED
    BY <1>1, <1>2, <1>3, <1>4, <2>1
<1>5. QED
  BY <1>1, <1>2, <1>3, <1>4 DEF t, more

(* A sequence with data in the place of what followed its first off        *)
(* elements.                                                               *)
LEMMA Overwritten ==
  ASSUME NEW S, NEW s \in Seq(S), NEW data \in Seq(S), NEW off \in 0 .. Len(s)
  PROVE  LET t == SubSeq(s, 1, off) \o data \o SubSeq(s, off + Len(data) + 1, Len(s))
             n == IF Len(s) >= off + Len(data) THEN Len(s) ELSE off + Len(data)
         IN  /\ t \in Seq(S) /\ Len(t) = n
             /\ \A i \in 1 .. n :
                  t[i] = IF i \in off + 1 .. off + Len(data) THEN data[i - off] ELSE s[i]
<1> DEFINE n == Len(s)
           d == Len(data)
           head == SubSeq(s, 1, off)
           tail == SubSeq(s, off + d + 1, n)
           mid == head \o data
           all == mid \o tail
           m == IF n >= off + d THEN n ELSE off + d
<1>1. n \in Nat /\ d \in Nat /\ off \in Nat /\ off <= n
      /\ \A i \in 1 .. n : s[i] \in S
  BY ElementOfSeq, LenProperties
<1>2. head \in Seq(S) /\ Len(head) = off /\ \A i \in 1 .. off : head[i] = s[i]
  BY Beginning
<1>3. /\ tail \in Seq(S)
      /\ Len(tail) = IF off + d < n THEN n - (off + d) ELSE 0
      /\ \A i \in 1 .. n - (off + d) : tail[i] = s[off + d + i]
  <2>1. \A i \in off + d + 1 .. n : s[i] \in S
    BY <1>1
  <2>2. off + d + 1 \in Int /\ n \in Int
    BY <1>1
  <2>3. /\ tail \in Seq(S)
        /\ Len(tail) = IF off + d + 1 <= n THEN n - (off + d + 1) + 1 ELSE 0
        /\ \A i \in 1 .. n - (off + d + 1) + 1 : tail[i] = s[(off + d + 1) + i - 1]
    BY <2>1, <2>2, SubSeqProperties
  <2>4. QED
    BY <1>1, <2>3
<1> HIDE DEF head, tail, n, d
<1>4. /\ mid \in Seq(S) /\ Len(mid) = off + d
      /\ \A i \in 1 .. off + d : mid[i] = IF i <= off THEN s[i] ELSE data[i - off]
  <2>1. /\ mid \in Seq(S) /\ Len(mid) = Len(head) + Len(data)
        /\ \A i \in 1 .. Len(head) + Len(data) :
             mid[i] = IF i <= Len(head) THEN head[i] ELSE data[i - Len(head)]
    BY <1>2, ConcatProperties
  <2>2. QED
    BY <1>1, <1>2, <2>1 DEF d
<1> HIDE DEF mid
<1>5. /\ all \in Seq(S) /\ Len(all) = Len(mid) + Len(tail)
      /\ \A i \in 1 .. Len(mid) + Len(tail) :
           all[i] = IF i <= Len(mid) THEN mid[i] ELSE tail[i - Len(mid)]
  BY <1>3, <1>4, ConcatProperties
<1> HIDE DEF all
<1>6. Len(all) = m
  BY <1>1, <1>3, <1>4, <1>5
<1>7. ASSUME NEW i \in 1 .. m
      PROVE  all[i] = IF i \in off + 1 .. off + d THEN data[i - off] ELSE s[i]
  <2>1. i \in 1 .. Len(mid) + Len(tail)
    BY <1>5, <1>6
  <2>2. CASE i <= off + d
    BY <1>1, <1>4, <1>5, <2>1, <2>2
  <2>3. CASE i > off + d
    <3>1. i - (off + d) \in 1 .. n - (off + d) /\ off + d < n
      BY <1>1, <1>3, <1>4, <2>1, <2>3
    <3>2. tail[i - (off + d)] = s[off + d + (i - (off + d))]
      BY <1>3, <3>1
    <3>3. all[i] = tail[i - (off + d)]
      BY <1>1, <1>4, <1>5, <2>1, <2>3
    <3>4. off + d + (i - (off + d)) = i
      BY <1>1
    <3>5. QED
      BY <1>1, <2>3, <3>2, <3>3, <3>4
  <2>4. QED
    BY <1>1, <2>2, <2>3, <1>4, <2>1
<1>8. QED
  BY <1>5, <1>6, <1>7 DEF all, mid, head, tail, n, d
=============================================================================
