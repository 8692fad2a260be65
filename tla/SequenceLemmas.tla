--------------------------- MODULE SequenceLemmas ---------------------------
(***************************************************************************)
(* What files are made of: sequences that stand inside others, and         *)
(* FlattenSeq, which joins them. FlattenSeq is defined by a recursive      *)
(* function; that it has a solution, and only one, is proved by induction  *)
(* over sets of numbers and of sequences.                                  *)
(***************************************************************************)
EXTENDS Integers, SequencesExt, SequenceTheorems, FiniteSetTheorems,
        WellFoundedInduction, TLAPS

-----------------------------------------------------------------------------
(* Induction, over sets: a theorem cannot be cited for an operator.        *)

\* A set of natural numbers has a least one.
LEMMA LeastNat ==
  ASSUME NEW S, S \subseteq Nat, S # {}
  PROVE  \E m \in S : \A n \in S : m <= n
<1>1. PICK m \in S : \A y \in S : ~(<<y, m>> \in OpToRel(<, Nat))
  BY NatLessThanWellFounded, WFMin, Zenon DEF OpToRel
<1>2. \A y \in S : y < m => <<y, m>> \in OpToRel(<, Nat)
  BY DEF OpToRel
<1>3. \A y \in S : ~(y < m)
  BY <1>1, <1>2
<1>4. \A i, j \in Nat : ~(j < i) => i <= j
  OBVIOUS
<1> QED
  BY <1>3, <1>4

\* A set that holds 0 and each successor of its numbers holds all of them.
LEMMA NumberInduction ==
  ASSUME NEW S, 0 \in S, \A n \in Nat : n \in S => n + 1 \in S
  PROVE  \A n \in Nat : n \in S
<1>1. SUFFICES ASSUME Nat \ S # {} PROVE FALSE
  OBVIOUS
<1>2. PICK m \in Nat \ S : \A n \in Nat \ S : m <= n
  BY <1>1, LeastNat
<1>3. m # 0 /\ m - 1 \in Nat /\ ~(m <= m - 1)
  BY <1>2
<1>4. (m - 1) + 1 \in S
  BY <1>2, <1>3
<1> QED
  BY <1>2, <1>3, <1>4

\* A set that holds <<>> and each extension of its sequences holds all of them.
LEMMA SequenceInduction ==
  ASSUME NEW X, NEW S, <<>> \in S,
         \A s \in Seq(X), e \in X : s \in S => Append(s, e) \in S
  PROVE  \A s \in Seq(X) : s \in S
<1> DEFINE N == {n \in Nat : \A s \in Seq(X) : Len(s) = n => s \in S}
<1>1. 0 \in N
  BY EmptySeq
<1>2. ASSUME NEW n \in Nat, n \in N PROVE n + 1 \in N
  <2> SUFFICES ASSUME NEW s \in Seq(X), Len(s) = n + 1 PROVE s \in S
    OBVIOUS
  <2>1. s # <<>>
    BY EmptySeq
  <2>2. PICK t \in Seq(X), e \in X : s = Append(t, e)
    BY <2>1, SequenceEmptyOrAppend
  <2>3. Len(t) = n
    BY <2>2, AppendProperties, LenProperties
  <2> QED
    BY <1>2, <2>2, <2>3
<1> HIDE DEF N
<1>3. \A n \in Nat : n \in N
  BY <1>1, <1>2, NumberInduction
<1> QED
  BY <1>3, LenProperties DEF N

-----------------------------------------------------------------------------
(* Sequences within sequences.                                             *)

\* t stands in s behind the first p elements.
Holds(s, p, t) ==
  /\ p \in Nat /\ p + Len(t) <= Len(s)
  /\ \A j \in 1..Len(t) : s[p + j] = t[j]

\* A concatenation holds its parts.
LEMMA HoldsFirst ==
  ASSUME NEW X, NEW s \in Seq(X), NEW t \in Seq(X)
  PROVE  Holds(s \o t, 0, s)
BY ConcatProperties, LenProperties DEF Holds

LEMMA HoldsSecond ==
  ASSUME NEW X, NEW s \in Seq(X), NEW t \in Seq(X)
  PROVE  Holds(s \o t, Len(s), t)
<1>1. Len(s) \in Nat /\ Len(t) \in Nat /\ Len(s \o t) = Len(s) + Len(t)
  BY ConcatProperties, LenProperties
<1>2. ASSUME NEW j \in 1..Len(t) PROVE (s \o t)[Len(s) + j] = t[j]
  <2>1. Len(s) + j \in 1..(Len(s) + Len(t)) /\ ~(Len(s) + j <= Len(s))
        /\ (Len(s) + j) - Len(s) = j
    BY <1>1
  <2> QED
    BY <2>1, ConcatProperties
<1> QED
  BY <1>1, <1>2 DEF Holds

\* Holds is transitive.
LEMMA HoldsInside ==
  ASSUME NEW X, NEW s \in Seq(X), NEW t \in Seq(X), NEW u \in Seq(X),
         NEW p, NEW q, Holds(s, p, t), Holds(t, q, u)
  PROVE  Holds(s, p + q, u)
<1>1. p \in Nat /\ q \in Nat /\ Len(s) \in Nat /\ Len(t) \in Nat /\ Len(u) \in Nat
  BY LenProperties DEF Holds
<1>2. p + Len(t) <= Len(s) /\ q + Len(u) <= Len(t)
  BY DEF Holds
<1>3. ASSUME NEW j \in 1..Len(u) PROVE s[(p + q) + j] = u[j]
  <2>1. q + j \in 1..Len(t) /\ p + (q + j) = (p + q) + j
    BY <1>1, <1>2
  <2> QED
    BY <2>1 DEF Holds
<1> QED
  BY <1>1, <1>2, <1>3 DEF Holds

\* What s holds is a subsequence of it.
LEMMA HoldsIsSubSeq ==
  ASSUME NEW X, NEW s \in Seq(X), NEW t \in Seq(X), NEW p, Holds(s, p, t)
  PROVE  SubSeq(s, p + 1, p + Len(t)) = t
<1>1. p \in Nat /\ Len(s) \in Nat /\ Len(t) \in Nat /\ p + Len(t) <= Len(s)
  BY LenProperties DEF Holds
<1>2. \A i \in (p + 1)..(p + Len(t)) : s[i] \in X
  BY <1>1, ElementOfSeq
<1> DEFINE u == SubSeq(s, p + 1, p + Len(t))
<1>3. /\ u \in Seq(X)
      /\ Len(u) = IF p + 1 <= p + Len(t) THEN (p + Len(t)) - (p + 1) + 1 ELSE 0
      /\ \A i \in 1..((p + Len(t)) - (p + 1) + 1) : u[i] = s[(p + 1) + i - 1]
  BY <1>1, <1>2, SubSeqProperties
<1>4. Len(u) = Len(t)
  BY <1>1, <1>3
<1>5. ASSUME NEW i \in 1..Len(t) PROVE u[i] = t[i]
  <2>1. (p + 1) + i - 1 = p + i /\ i \in 1..((p + Len(t)) - (p + 1) + 1)
    BY <1>1
  <2> QED
    BY <1>3, <2>1 DEF Holds
<1> HIDE DEF u
<1>6. u = t
  BY <1>3, <1>4, <1>5, SeqEqual
<1> QED
  BY <1>6 DEF u

\* A sequence put together of three or four.
LEMMA ThreeParts ==
  ASSUME NEW X, NEW a \in Seq(X), NEW b \in Seq(X), NEW c \in Seq(X),
         NEW s, s = (a \o b) \o c
  PROVE  /\ s \in Seq(X) /\ Len(s) = Len(a) + Len(b) + Len(c)
         /\ Holds(s, 0, a) /\ Holds(s, Len(a), b) /\ Holds(s, Len(a) + Len(b), c)
<1>1. /\ a \o b \in Seq(X) /\ Len(a \o b) = Len(a) + Len(b)
      /\ Len(a) \in Nat /\ Len(b) \in Nat /\ Len(c) \in Nat
  BY ConcatProperties, LenProperties
<1>2. s \in Seq(X) /\ Len(s) = Len(a) + Len(b) + Len(c)
  BY <1>1, ConcatProperties
<1>3. Holds(s, 0, a \o b) /\ Holds(s, Len(a) + Len(b), c)
  BY <1>1, HoldsFirst, HoldsSecond
<1>4. Holds(a \o b, 0, a) /\ Holds(a \o b, Len(a), b)
  BY HoldsFirst, HoldsSecond
<1>5. Holds(s, 0 + 0, a) /\ Holds(s, 0 + Len(a), b)
  BY <1>1, <1>2, <1>3, <1>4, HoldsInside
<1>6. 0 + 0 = 0 /\ 0 + Len(a) = Len(a)
  BY <1>1
<1> QED
  BY <1>2, <1>3, <1>5, <1>6

LEMMA FourParts ==
  ASSUME NEW X, NEW a \in Seq(X), NEW b \in Seq(X), NEW c \in Seq(X), NEW d \in Seq(X),
         NEW s, s = ((a \o b) \o c) \o d
  PROVE  /\ s \in Seq(X) /\ Len(s) = Len(a) + Len(b) + Len(c) + Len(d)
         /\ Holds(s, 0, a) /\ Holds(s, Len(a), b) /\ Holds(s, Len(a) + Len(b), c)
         /\ Holds(s, Len(a) + Len(b) + Len(c), d)
<1> DEFINE t == (a \o b) \o c
<1>1. /\ t \in Seq(X) /\ Len(t) = Len(a) + Len(b) + Len(c)
      /\ Holds(t, 0, a) /\ Holds(t, Len(a), b) /\ Holds(t, Len(a) + Len(b), c)
  BY ThreeParts
<1>2. s = t \o d
  OBVIOUS
<1> HIDE DEF t
<1>3. /\ Len(a) \in Nat /\ Len(b) \in Nat /\ Len(c) \in Nat /\ Len(d) \in Nat
      /\ s \in Seq(X) /\ Len(s) = Len(t) + Len(d)
      /\ Holds(s, 0, t) /\ Holds(s, Len(t), d)
  BY <1>1, <1>2, ConcatProperties, LenProperties, HoldsFirst, HoldsSecond
<1>4. /\ Holds(s, 0 + 0, a) /\ Holds(s, 0 + Len(a), b)
      /\ Holds(s, 0 + (Len(a) + Len(b)), c)
  BY <1>1, <1>3, HoldsInside
<1>5. 0 + 0 = 0 /\ 0 + Len(a) = Len(a) /\ 0 + (Len(a) + Len(b)) = Len(a) + Len(b)
  BY <1>3
<1> QED
  BY <1>1, <1>3, <1>4, <1>5

\* A function on 1..n is a sequence.
LEMMA FunctionIsSeq ==
  ASSUME NEW X, NEW n \in Nat, NEW f \in [1..n -> X]
  PROVE  f \in Seq(X) /\ Len(f) = n
OBVIOUS

\* The first n elements are n.
LEMMA PrefixLength ==
  ASSUME NEW X, NEW s \in Seq(X), NEW n \in 0..Len(s)
  PROVE  Len(SubSeq(s, 1, n)) = n
<1>1. Len(s) \in Nat /\ n \in Nat /\ n <= Len(s)
  BY LenProperties
<1>2. n \in Int /\ 1 \in Int /\ \A i \in 1..n : s[i] \in X
  BY <1>1, ElementOfSeq
<1>3. Len(SubSeq(s, 1, n)) = IF 1 <= n THEN n - 1 + 1 ELSE 0
  BY <1>2, SubSeqProperties
<1> QED
  BY <1>1, <1>3

-----------------------------------------------------------------------------
(* FlattenSeq.                                                             *)

\* The function by which FlattenSeq is defined, for the first n sequences.
IsFlattening(f, s, n) ==
  f = [i \in 1..n |-> IF i = 1 THEN s[i] ELSE f[i - 1] \o s[i]]

\* The same, as an equation for each of its values.
Flattens(f, s, n) ==
  \A i \in 1..n : f[i] = IF i = 1 THEN s[i] ELSE f[i - 1] \o s[i]

\* The recursive equation has a solution, so that CHOOSE finds one.
LEMMA FlatteningExists ==
  ASSUME NEW s
  PROVE  \A n \in Nat : \E f : IsFlattening(f, s, n)
<1> DEFINE N == {n \in Nat : \E f : IsFlattening(f, s, n)}
<1>1. 0 \in N
  <2>1. IsFlattening([i \in 1..0 |-> 0], s, 0)
    BY DEF IsFlattening
  <2> QED
    BY <2>1
<1>2. ASSUME NEW n \in Nat, n \in N PROVE n + 1 \in N
  <2>1. PICK f : IsFlattening(f, s, n)
    BY <1>2
  <2> DEFINE g == [i \in 1..(n + 1) |->
                    IF i = n + 1 THEN (IF i = 1 THEN s[i] ELSE f[n] \o s[i]) ELSE f[i]]
             h == [i \in 1..(n + 1) |-> IF i = 1 THEN s[i] ELSE g[i - 1] \o s[i]]
  <2>2. \A i \in 1..n : f[i] = IF i = 1 THEN s[i] ELSE f[i - 1] \o s[i]
    BY <2>1, Zenon DEF IsFlattening
  <2>3. ASSUME NEW i \in 1..(n + 1) PROVE g[i] = h[i]
    <3>1. CASE i = n + 1
      <4>1. i = 1 \/ (i - 1 \in 1..(n + 1) /\ i - 1 = n /\ i - 1 # n + 1)
        BY <3>1
      <4> QED
        BY <3>1, <4>1
    <3>2. CASE i # n + 1
      <4>1. i \in 1..n /\ (i = 1 \/ (i - 1 \in 1..(n + 1) /\ i - 1 # n + 1))
        BY <3>2
      <4> QED
        BY <3>2, <4>1, <2>2
    <3> QED
      BY <3>1, <3>2
  <2>4. g = h
    BY <2>3
  <2>5. IsFlattening(g, s, n + 1)
    BY <2>4 DEF IsFlattening
  <2> QED
    BY <2>5
<1> HIDE DEF N
<1>3. \A n \in Nat : n \in N
  BY <1>1, <1>2, NumberInduction
<1> QED
  BY <1>3 DEF N

\* s and t have the same first n elements.
Alike(s, t, n) == \A i \in 1..n : s[i] = t[i]

\* ... and only one.
LEMMA FlatteningsAgree ==
  ASSUME NEW s, NEW t, NEW n \in Nat, NEW f, NEW g,
         Flattens(f, s, n), Flattens(g, t, n), Alike(s, t, n)
  PROVE  Alike(f, g, n)
<1> DEFINE N == {i \in Nat : i \in 1..n => f[i] = g[i]}
<1>1. /\ \A i \in 1..n : f[i] = IF i = 1 THEN s[i] ELSE f[i - 1] \o s[i]
      /\ \A i \in 1..n : g[i] = IF i = 1 THEN t[i] ELSE g[i - 1] \o t[i]
  BY DEF Flattens
<1> USE DEF Alike
<1>2. 0 \in N
  OBVIOUS
<1>3. ASSUME NEW i \in Nat, i \in N PROVE i + 1 \in N
  <2> SUFFICES ASSUME i + 1 \in 1..n PROVE f[i + 1] = g[i + 1]
    OBVIOUS
  <2>1. i + 1 \in 1..n /\ (i + 1) - 1 = i /\ (i + 1 # 1 => i \in 1..n)
    OBVIOUS
  <2> QED
    BY <1>1, <1>3, <2>1
<1> HIDE DEF N
<1>4. \A i \in Nat : i \in N
  BY <1>2, <1>3, NumberInduction
<1> QED
  BY <1>4 DEF N

\* FlattenSeq is the last value of that solution.
LEMMA FlattenIsFlattening ==
  ASSUME NEW s, Len(s) \in Nat, Len(s) # 0
  PROVE  \E f : IsFlattening(f, s, Len(s)) /\ FlattenSeq(s) = f[Len(s)]
<1> DEFINE f == CHOOSE f : IsFlattening(f, s, Len(s))
<1>1. IsFlattening(f, s, Len(s))
  BY FlatteningExists, Zenon
<1>2. FlattenSeq(s) = f[Len(s)]
  BY DEF FlattenSeq, IsFlattening
<1> QED
  BY <1>1, <1>2

\* What follows is all that is needed of FlattenSeq from here on.
LEMMA FlattenEmpty == FlattenSeq(<<>>) = <<>>
BY EmptySeq DEF FlattenSeq

LEMMA FlattenAppend ==
  ASSUME NEW X, NEW s \in Seq(Seq(X)), NEW e \in Seq(X)
  PROVE  FlattenSeq(Append(s, e)) = FlattenSeq(s) \o e
<1> DEFINE t == Append(s, e)
<1>1. /\ Len(s) \in Nat /\ Len(t) = Len(s) + 1
      /\ \A i \in 1..Len(s) : t[i] = s[i]
      /\ t[Len(s) + 1] = e
  BY AppendProperties, LenProperties
<1> HIDE DEF t
<1>2. PICK g : IsFlattening(g, t, Len(t)) /\ FlattenSeq(t) = g[Len(t)]
  BY <1>1, FlattenIsFlattening
<1>3. \A i \in 1..Len(t) : g[i] = IF i = 1 THEN t[i] ELSE g[i - 1] \o t[i]
  BY <1>2, Zenon DEF IsFlattening
<1>4. CASE Len(s) = 0
  <2>1. s = <<>>
    BY <1>4, EmptySeq
  <2>2. g[1] = e /\ FlattenSeq(t) = g[1]
    BY <1>1, <1>2, <1>3, <1>4
  <2> QED
    BY <2>1, <2>2, FlattenEmpty, ConcatEmptySeq DEF t
<1>5. CASE Len(s) # 0
  <2>1. PICK f : IsFlattening(f, s, Len(s)) /\ FlattenSeq(s) = f[Len(s)]
    BY <1>1, <1>5, FlattenIsFlattening
  <2>2. f[Len(s)] = g[Len(s)]
    <3>1. /\ Len(t) \in Nat /\ Len(s) <= Len(t) /\ Len(s) \in 1..Len(s)
          /\ \A i \in 1..Len(s) : s[i] = t[i]
      BY <1>1, <1>5
    <3>2. \A i \in 1..Len(s) : f[i] = g[i]
      <4>1. Flattens(f, s, Len(s)) /\ Flattens(g, t, Len(s))
        <5>1. Flattens(f, s, Len(s))
          BY <2>1, Zenon DEF IsFlattening, Flattens
        <5>2. Flattens(g, t, Len(t))
          BY <1>2, Zenon DEF IsFlattening, Flattens
        <5>3. \A i \in 1..Len(s) : i \in 1..Len(t)
          BY <1>1
        <5> QED
          BY <5>1, <5>2, <5>3 DEF Flattens
      <4>2. Len(s) \in Nat
        BY <1>1
      <4> QED
        <5>1. Alike(s, t, Len(s))
          BY <3>1 DEF Alike
        <5>2. Alike(f, g, Len(s))
          BY <5>1, <4>1, <4>2, FlatteningsAgree
        <5> QED
          BY <5>2 DEF Alike
    <3> QED
      BY <3>1, <3>2
  <2>3. g[Len(s) + 1] = g[Len(s)] \o t[Len(s) + 1]
    <3>1. Len(s) + 1 \in 1..Len(t) /\ Len(s) + 1 # 1 /\ (Len(s) + 1) - 1 = Len(s)
      BY <1>1, <1>5
    <3> QED
      BY <1>3, <3>1
  <2> QED
    BY <1>1, <1>2, <2>1, <2>2, <2>3 DEF t
<1> QED
  BY <1>4, <1>5

LEMMA FlattenType ==
  ASSUME NEW X
  PROVE  \A s \in Seq(Seq(X)) : FlattenSeq(s) \in Seq(X)
<1> DEFINE S == {s \in Seq(Seq(X)) : FlattenSeq(s) \in Seq(X)}
<1>1. <<>> \in S
  BY FlattenEmpty, EmptySeq
<1>2. ASSUME NEW s \in Seq(Seq(X)), NEW e \in Seq(X), s \in S PROVE Append(s, e) \in S
  BY <1>2, FlattenAppend, AppendProperties, ConcatProperties
<1> HIDE DEF S
<1>3. \A s \in Seq(Seq(X)) : s \in S
  BY <1>1, <1>2, SequenceInduction
<1> QED
  BY <1>3 DEF S

\* The length of the first n sequences of s.
Before(s, n) == Len(FlattenSeq(SubSeq(s, 1, n)))

\* The first n elements of s.
LEMMA PrefixLaws ==
  ASSUME NEW X, NEW s \in Seq(X)
  PROVE  /\ SubSeq(s, 1, 0) = <<>>
         /\ SubSeq(s, 1, Len(s)) = s
         /\ \A n \in 0..Len(s) : SubSeq(s, 1, n) \in Seq(X)
         /\ \A n \in 1..Len(s) :
              SubSeq(s, 1, n) = Append(SubSeq(s, 1, n - 1), s[n])
         /\ \A e \in X : \A n \in 0..Len(s) :
              SubSeq(Append(s, e), 1, n) = SubSeq(s, 1, n)
<1>1. Len(s) \in Nat /\ \A i \in 1..Len(s) : s[i] \in X
  BY LenProperties, ElementOfSeq
<1>2. SubSeq(s, 1, 0) = <<>>
  BY SubSeqEmpty
<1>3. ASSUME NEW n \in 0..Len(s)
      PROVE  /\ SubSeq(s, 1, n) \in Seq(X) /\ Len(SubSeq(s, 1, n)) = n
             /\ \A i \in 1..n : SubSeq(s, 1, n)[i] = s[i]
  <2>1. \A i \in 1..n : s[i] \in X
    BY <1>1
  <2>2. /\ SubSeq(s, 1, n) \in Seq(X)
        /\ Len(SubSeq(s, 1, n)) = IF 1 <= n THEN n - 1 + 1 ELSE 0
        /\ \A i \in 1..(n - 1 + 1) : SubSeq(s, 1, n)[i] = s[1 + i - 1]
    BY <1>1, <2>1, SubSeqProperties
  <2> QED
    BY <1>1, <2>2
<1>4. ASSUME NEW n \in 1..Len(s)
      PROVE  SubSeq(s, 1, n) = Append(SubSeq(s, 1, n - 1), s[n])
  <2> DEFINE u == SubSeq(s, 1, n - 1)
             v == SubSeq(s, 1, n)
  <2>1. n \in 0..Len(s) /\ n - 1 \in 0..Len(s) /\ n \in Nat
    BY <1>1
  <2>2. /\ u \in Seq(X) /\ Len(u) = n - 1 /\ \A i \in 1..(n - 1) : u[i] = s[i]
        /\ v \in Seq(X) /\ Len(v) = n /\ \A i \in 1..n : v[i] = s[i]
    BY <2>1, <1>3
  <2> HIDE DEF u, v
  <2>3. /\ Append(u, s[n]) \in Seq(X) /\ Len(Append(u, s[n])) = (n - 1) + 1
        /\ \A i \in 1..(n - 1) : Append(u, s[n])[i] = u[i]
        /\ Append(u, s[n])[(n - 1) + 1] = s[n]
    BY <1>1, <2>2, AppendProperties
  <2>4. ASSUME NEW i \in 1..n PROVE v[i] = Append(u, s[n])[i]
    <3>1. i \in 1..(n - 1) \/ (i = n /\ (n - 1) + 1 = n)
      BY <2>1
    <3> QED
      BY <2>2, <2>3, <3>1
  <2>5. v = Append(u, s[n])
    BY <2>1, <2>2, <2>3, <2>4, SeqEqual
  <2> QED
    BY <2>5 DEF u, v
<1>5. ASSUME NEW e \in X, NEW n \in 0..Len(s)
      PROVE  SubSeq(Append(s, e), 1, n) = SubSeq(s, 1, n)
  <2> DEFINE a == Append(s, e)
             u == SubSeq(s, 1, n)
             v == SubSeq(a, 1, n)
  <2>1. a \in Seq(X) /\ Len(a) = Len(s) + 1 /\ \A i \in 1..Len(s) : a[i] = s[i]
    BY AppendProperties
  <2>2. \A i \in 1..n : a[i] \in X
    BY <1>1, <2>1
  <2> HIDE DEF a
  <2>3. /\ v \in Seq(X) /\ Len(v) = IF 1 <= n THEN n - 1 + 1 ELSE 0
        /\ \A i \in 1..(n - 1 + 1) : v[i] = a[1 + i - 1]
    BY <1>1, <2>2, SubSeqProperties
  <2>4. u \in Seq(X) /\ Len(u) = n /\ \A i \in 1..n : u[i] = s[i]
    BY <1>3
  <2> HIDE DEF u, v
  <2>5. Len(v) = n
    BY <1>1, <2>3
  <2>6. ASSUME NEW i \in 1..n PROVE v[i] = u[i]
    <3>1. i \in 1..(n - 1 + 1) /\ 1 + i - 1 = i /\ i \in 1..Len(s)
      BY <1>1
    <3> QED
      BY <2>1, <2>3, <2>4, <3>1
  <2>7. v = u
    BY <2>3, <2>4, <2>5, <2>6, SeqEqual
  <2> QED
    BY <2>7 DEF u, v, a
<1> QED
  BY <1>2, <1>3, <1>4, <1>5, SubSeqFull

\* Before adds up the lengths.
LEMMA BeforeSteps ==
  ASSUME NEW X, NEW s \in Seq(Seq(X))
  PROVE  /\ Before(s, 0) = 0
         /\ Before(s, Len(s)) = Len(FlattenSeq(s))
         /\ \A n \in 0..Len(s) : Before(s, n) \in Nat
         /\ \A n \in 1..Len(s) : /\ Len(s[n]) \in Nat
                                 /\ Before(s, n) = Before(s, n - 1) + Len(s[n])
<1>1. Before(s, 0) = 0 /\ Before(s, Len(s)) = Len(FlattenSeq(s))
  BY PrefixLaws, FlattenEmpty, EmptySeq DEF Before
<1>2. ASSUME NEW n \in 0..Len(s)
      PROVE  Before(s, n) \in Nat /\ FlattenSeq(SubSeq(s, 1, n)) \in Seq(X)
  BY PrefixLaws, FlattenType, LenProperties DEF Before
<1>3. ASSUME NEW n \in 1..Len(s)
      PROVE  Len(s[n]) \in Nat /\ Before(s, n) = Before(s, n - 1) + Len(s[n])
  <2> DEFINE u == SubSeq(s, 1, n - 1)
  <2>1. s[n] \in Seq(X) /\ n - 1 \in 0..Len(s)
    BY ElementOfSeq, LenProperties
  <2>2. SubSeq(s, 1, n) = Append(u, s[n]) /\ u \in Seq(Seq(X))
    BY <2>1, PrefixLaws
  <2>3. FlattenSeq(Append(u, s[n])) = FlattenSeq(u) \o s[n]
    BY <2>1, <2>2, FlattenAppend
  <2>4. FlattenSeq(u) \in Seq(X)
    BY <2>1, <1>2
  <2> QED
    <3>1. Before(s, n) = Len(FlattenSeq(u) \o s[n]) /\ Before(s, n - 1) = Len(FlattenSeq(u))
      BY <2>2, <2>3 DEF Before
    <3> HIDE DEF u
    <3>2. Len(FlattenSeq(u) \o s[n]) = Len(FlattenSeq(u)) + Len(s[n])
      BY <2>1, <2>4, ConcatProperties
    <3>3. Len(s[n]) \in Nat
      BY <2>1, LenProperties
    <3> QED
      BY <3>1, <3>2, <3>3
<1> QED
  BY <1>1, <1>2, <1>3

\* FlattenSeq holds its nth sequence behind those before it.
LEMMA FlattenHolds ==
  ASSUME NEW X
  PROVE  \A s \in Seq(Seq(X)) : \A n \in 1..Len(s) :
           Holds(FlattenSeq(s), Before(s, n - 1), s[n])
<1> DEFINE S == {s \in Seq(Seq(X)) : \A n \in 1..Len(s) :
                    Holds(FlattenSeq(s), Before(s, n - 1), s[n])}
<1>1. <<>> \in S
  BY EmptySeq
<1>2. ASSUME NEW s \in Seq(Seq(X)), NEW e \in Seq(X), s \in S PROVE Append(s, e) \in S
  <2> DEFINE t == Append(s, e)
  <2>1. /\ t \in Seq(Seq(X)) /\ Len(t) = Len(s) + 1 /\ Len(s) \in Nat
        /\ \A i \in 1..Len(s) : t[i] = s[i]
        /\ t[Len(s) + 1] = e
    BY AppendProperties, LenProperties
  <2>2. FlattenSeq(t) = FlattenSeq(s) \o e /\ FlattenSeq(s) \in Seq(X)
    BY FlattenAppend, FlattenType
  <2>3. ASSUME NEW n \in 0..Len(s) PROVE Before(t, n) = Before(s, n)
    <3>1. SubSeq(t, 1, n) = SubSeq(s, 1, n)
      BY PrefixLaws
    <3> QED
      BY <3>1 DEF Before
  <2>4. Before(s, Len(s)) = Len(FlattenSeq(s))
    BY BeforeSteps
  <2> HIDE DEF t
  <2>5. ASSUME NEW n \in 1..Len(t)
        PROVE  Holds(FlattenSeq(t), Before(t, n - 1), t[n])
    <3>1. CASE n = Len(s) + 1
      <4>1. n - 1 = Len(s) /\ Len(s) \in 0..Len(s)
        BY <2>1, <3>1
      <4> QED
        BY <2>1, <2>2, <2>3, <2>4, <3>1, <4>1, HoldsSecond
    <3>2. CASE n # Len(s) + 1
      <4>1. n \in 1..Len(s) /\ n - 1 \in 0..Len(s) /\ s[n] \in Seq(X)
        BY <2>1, <3>2, ElementOfSeq
      <4>2. Holds(FlattenSeq(s), Before(s, n - 1), s[n])
        BY <1>2, <4>1
      <4>3. Holds(FlattenSeq(t), 0, FlattenSeq(s)) /\ FlattenSeq(t) \in Seq(X)
        BY <2>2, HoldsFirst, ConcatProperties
      <4>4. Holds(FlattenSeq(t), 0 + Before(s, n - 1), s[n])
        BY <2>2, <4>1, <4>2, <4>3, HoldsInside
      <4>5. 0 + Before(s, n - 1) = Before(t, n - 1)
        <5>1. Before(s, n - 1) \in Nat
          BY <4>1, BeforeSteps
        <5> QED
          BY <2>3, <4>1, <5>1
      <4> QED
        BY <2>1, <4>1, <4>4, <4>5
    <3> QED
      BY <3>1, <3>2
  <2> QED
    BY <2>1, <2>5 DEF t
<1> HIDE DEF S
<1>3. \A s \in Seq(Seq(X)) : s \in S
  BY <1>1, <1>2, SequenceInduction
<1> QED
  BY <1>3 DEF S

\* Sequences of at most w elements.
LEMMA BeforeBounded ==
  ASSUME NEW X, NEW s \in Seq(Seq(X)), NEW w \in Nat, \A i \in 1..Len(s) : Len(s[i]) <= w
  PROVE  \A n \in 0..Len(s) : Before(s, n) <= w * n
<1> DEFINE N == {n \in Nat : n \in 0..Len(s) => Before(s, n) <= w * n}
<1>1. 0 \in N
  BY BeforeSteps
<1>2. ASSUME NEW n \in Nat, n \in N PROVE n + 1 \in N
  <2> SUFFICES ASSUME n + 1 \in 0..Len(s) PROVE Before(s, n + 1) <= w * (n + 1)
    OBVIOUS
  <2>1. Len(s) \in Nat /\ n \in 0..Len(s) /\ n + 1 \in 1..Len(s) /\ (n + 1) - 1 = n
    BY LenProperties
  <2>2. /\ Before(s, n) \in Nat /\ Before(s, n) <= w * n
        /\ Len(s[n + 1]) \in Nat /\ Len(s[n + 1]) <= w
        /\ Before(s, n + 1) = Before(s, n) + Len(s[n + 1])
    BY <1>2, <2>1, BeforeSteps
  <2>3. w * (n + 1) = w * n + w
    OBVIOUS
  <2> QED
    BY <2>2, <2>3
<1> HIDE DEF N
<1>3. \A n \in Nat : n \in N
  BY <1>1, <1>2, NumberInduction
<1> QED
  BY <1>3, LenProperties DEF N

\* Sequences of w elements each.
LEMMA BeforeEven ==
  ASSUME NEW X, NEW s \in Seq(Seq(X)), NEW w \in Nat, \A i \in 1..Len(s) : Len(s[i]) = w
  PROVE  \A n \in 0..Len(s) : Before(s, n) = w * n
<1> DEFINE N == {n \in Nat : n \in 0..Len(s) => Before(s, n) = w * n}
<1>1. 0 \in N
  BY BeforeSteps
<1>2. ASSUME NEW n \in Nat, n \in N PROVE n + 1 \in N
  <2> SUFFICES ASSUME n + 1 \in 0..Len(s) PROVE Before(s, n + 1) = w * (n + 1)
    OBVIOUS
  <2>1. Len(s) \in Nat /\ n \in 0..Len(s) /\ n + 1 \in 1..Len(s) /\ (n + 1) - 1 = n
    BY LenProperties
  <2>2. Before(s, n) = w * n /\ Before(s, n + 1) = Before(s, n) + w
    BY <1>2, <2>1, BeforeSteps
  <2>3. w * (n + 1) = w * n + w
    OBVIOUS
  <2> QED
    BY <2>2, <2>3
<1> HIDE DEF N
<1>3. \A n \in Nat : n \in N
  BY <1>1, <1>2, NumberInduction
<1> QED
  BY <1>3, LenProperties DEF N

\* s and t agree except at k.
AlikeBut(s, t, k) == \A i \in 1..Len(s) : i # k => t[i] = s[i]

\* Replacing one sequence changes the length by the difference.
LEMMA BeforeReplaced ==
  ASSUME NEW X, NEW s \in Seq(Seq(X)), NEW t \in Seq(Seq(X)), Len(t) = Len(s),
         NEW k \in 1..Len(s), AlikeBut(s, t, k)
  PROVE  /\ Len(FlattenSeq(t)) + Len(s[k]) = Len(FlattenSeq(s)) + Len(t[k])
         /\ Len(FlattenSeq(t)) \in Nat /\ Len(FlattenSeq(s)) \in Nat
<1> DEFINE N == {n \in Nat : n \in 0..Len(s) =>
                   IF n < k THEN Before(t, n) = Before(s, n)
                   ELSE Before(t, n) + Len(s[k]) = Before(s, n) + Len(t[k])}
<1>1. Len(s) \in Nat /\ k \in Nat /\ k > 0 /\ k <= Len(s) /\ Len(s[k]) \in Nat /\ Len(t[k]) \in Nat
  BY LenProperties, BeforeSteps
<1>2. 0 \in N
  BY <1>1, BeforeSteps
<1>3. ASSUME NEW n \in Nat, n \in N PROVE n + 1 \in N
  <2> SUFFICES ASSUME n + 1 \in 0..Len(s)
               PROVE  IF n + 1 < k THEN Before(t, n + 1) = Before(s, n + 1)
                      ELSE Before(t, n + 1) + Len(s[k]) = Before(s, n + 1) + Len(t[k])
    OBVIOUS
  <2>1. n \in 0..Len(s) /\ n + 1 \in 1..Len(s) /\ (n + 1) - 1 = n
    BY <1>1
  <2>2. /\ Before(s, n) \in Nat /\ Before(t, n) \in Nat
        /\ Len(s[n + 1]) \in Nat /\ Len(t[n + 1]) \in Nat
        /\ Before(s, n + 1) = Before(s, n) + Len(s[n + 1])
        /\ Before(t, n + 1) = Before(t, n) + Len(t[n + 1])
    BY <2>1, BeforeSteps
  <2>3. IF n < k THEN Before(t, n) = Before(s, n)
        ELSE Before(t, n) + Len(s[k]) = Before(s, n) + Len(t[k])
    BY <1>3, <2>1
  <2>4. n + 1 # k => t[n + 1] = s[n + 1]
    BY <2>1 DEF AlikeBut
  <2>5. CASE n + 1 = k
    BY <1>1, <2>2, <2>3, <2>5
  <2>6. CASE n + 1 # k
    <3>1. Len(t[n + 1]) = Len(s[n + 1]) /\ (n + 1 < k <=> n < k)
      BY <1>1, <2>4, <2>6
    <3>2. PICK a \in Nat, b \in Nat, c \in Nat, d \in Nat, e \in Nat :
            /\ a = Before(s, n) /\ b = Before(t, n) /\ c = Len(s[n + 1])
            /\ d = Len(s[k]) /\ e = Len(t[k])
      BY <1>1, <2>2
    <3>3. Before(s, n + 1) = a + c /\ Before(t, n + 1) = b + c
      BY <2>2, <3>1, <3>2
    <3>4. CASE n < k
      <4>1. a = b
        BY <2>3, <3>2, <3>4
      <4> QED
        BY ONLY <3>1, <3>3, <3>4, <4>1
    <3>5. CASE ~(n < k)
      <4>1. b + d = a + e
        BY <2>3, <3>2, <3>5
      <4>2. (b + c) + d = (a + c) + e
        BY ONLY <4>1, a \in Nat, b \in Nat, c \in Nat, d \in Nat, e \in Nat
      <4> QED
        BY ONLY <3>1, <3>2, <3>3, <3>5, <4>2
    <3> QED
      BY <3>4, <3>5
  <2> QED
    BY <2>5, <2>6
<1> HIDE DEF N
<1>4. \A n \in Nat : n \in N
  BY <1>2, <1>3, NumberInduction
<1>5. Len(s) \in 0..Len(s) /\ ~(Len(s) < k)
  BY <1>1
<1>6. Before(t, Len(s)) + Len(s[k]) = Before(s, Len(s)) + Len(t[k])
  BY <1>1, <1>4, <1>5 DEF N
<1>7. /\ Before(s, Len(s)) = Len(FlattenSeq(s)) /\ Before(t, Len(t)) = Len(FlattenSeq(t))
      /\ Before(s, Len(s)) \in Nat /\ Before(t, Len(t)) \in Nat
  BY <1>1, <1>5, BeforeSteps
<1> QED
  BY <1>6, <1>7

=============================================================================
