----------------------------- MODULE OpsLemmas -----------------------------
(***************************************************************************)
(* The operators of AtomixOps yield values: whatever two values a binary   *)
(* instruction meets, it ends in one of four ways, with a value.           *)
(***************************************************************************)
EXTENDS AtomixOps, TLAPS, WellFoundedInduction

Effects == {"pop", "keep", "panic", "trap"}

\* An outcome the VM can act on.
IsOutcome(o) == o.effect \in Effects /\ o.value \in Value

-----------------------------------------------------------------------------
(* Induction, by way of the least number that is not in a set.             *)

LEMMA LeastNat ==
  ASSUME NEW S, S \subseteq Nat, S # {}
  PROVE  \E m \in S : \A n \in S : ~(n < m)
<1>1. PICK m \in S : \A y \in S : ~(<<y, m>> \in OpToRel(<, Nat))
  BY NatLessThanWellFounded, WFMin, Zenon DEF OpToRel
<1>2. \A y \in S : y < m => <<y, m>> \in OpToRel(<, Nat)
  BY DEF OpToRel
<1> QED
  BY <1>1, <1>2

\* A set of numbers that holds 0 and each successor of its elements holds them all.
LEMMA SetInduction ==
  ASSUME NEW S, 0 \in S, \A n \in Nat : n \in S => n + 1 \in S
  PROVE  \A n \in Nat : n \in S
<1>1. SUFFICES ASSUME Nat \ S # {} PROVE FALSE
  OBVIOUS
<1>2. PICK m \in Nat \ S : \A n \in Nat \ S : ~(n < m)
  BY <1>1, LeastNat
<1>3. m # 0 /\ m - 1 \in Nat /\ m - 1 < m
  BY <1>2
<1>4. m - 1 \in S
  BY <1>2, <1>3
<1>5. (m - 1) + 1 \in S
  BY <1>3, <1>4
<1> QED
  BY <1>2, <1>3, <1>5

-----------------------------------------------------------------------------
(* Powers of two, up to that of the width.                                 *)

LEMMA Doubling ==
  /\ 0 \in 0..W /\ 2^0 = 1
  /\ \A k \in 0..(W - 1) : 2^(k + 1) = 2 * 2^k
  /\ W \in Nat \ {0}
BY WidthAssumption DEF BitPositions

LEMMA PowersOfTwo == \A k \in 0..W : 2^k \in Nat \ {0}
<1> DEFINE S == {k \in Nat : k <= W => 2^k \in Nat \ {0}}
<1>1. 0 \in S
  BY Doubling
<1>2. ASSUME NEW k \in Nat, k \in S PROVE k + 1 \in S
  <2> SUFFICES ASSUME k + 1 <= W PROVE 2^(k + 1) \in Nat \ {0}
    OBVIOUS
  <2>1. 2^k \in Nat \ {0} /\ 2^(k + 1) = 2 * 2^k
    BY <1>2, Doubling
  <2> QED
    BY <2>1
<1> HIDE DEF S
<1>3. \A k \in Nat : k \in S
  BY <1>1, <1>2, SetInduction
<1> QED
  BY <1>3, Doubling DEF S

LEMMA PowerOfSum == \A i, j \in Nat : i + j <= W => 2^(i + j) = 2^i * 2^j
<1> SUFFICES ASSUME NEW i \in Nat
             PROVE  \A j \in Nat : i + j <= W => 2^(i + j) = 2^i * 2^j
  OBVIOUS
<1> DEFINE S == {j \in Nat : i + j <= W => 2^(i + j) = 2^i * 2^j}
<1>1. 0 \in S
  <2> SUFFICES ASSUME i <= W PROVE 2^(i + 0) = 2^i * 2^0
    OBVIOUS
  <2>1. 2^i \in Nat
    BY PowersOfTwo, Doubling
  <2>2. i + 0 = i
    OBVIOUS
  <2> QED
    BY <2>1, <2>2, Doubling
<1>2. ASSUME NEW j \in Nat, j \in S PROVE j + 1 \in S
  <2> SUFFICES ASSUME i + (j + 1) <= W PROVE 2^(i + (j + 1)) = 2^i * 2^(j + 1)
    OBVIOUS
  <2>1. 2^i \in Nat /\ 2^j \in Nat /\ 2^(i + j) \in Nat
    BY PowersOfTwo, Doubling
  <2>2. 2^(i + j) = 2^i * 2^j
    BY <1>2, Doubling
  <2>3. 2^((i + j) + 1) = 2 * 2^(i + j) /\ 2^(j + 1) = 2 * 2^j
    BY Doubling
  <2>4. (i + j) + 1 = i + (j + 1)
    OBVIOUS
  <2>5. \A x, y, z \in Nat : z = x * y => 2 * z = x * (2 * y)
    OBVIOUS
  <2> QED
    BY <2>1, <2>2, <2>3, <2>4, <2>5
<1> HIDE DEF S
<1>3. \A j \in Nat : j \in S
  BY <1>1, <1>2, SetInduction
<1> QED
  BY <1>3 DEF S

LEMMA Powers ==
  /\ 2^W \in Nat \ {0}
  /\ 2^(W - 1) \in Nat \ {0}
  /\ 2^W = 2 * 2^(W - 1)
  /\ IntMin \in Int /\ IntMax \in Int
  /\ IntRange \subseteq Int
<1>1. W \in 0..W /\ W - 1 \in 0..W /\ W - 1 \in 0..(W - 1)
  BY Doubling
<1>2. 2^W \in Nat \ {0} /\ 2^(W - 1) \in Nat \ {0}
  BY <1>1, PowersOfTwo
<1>3. 2^((W - 1) + 1) = 2 * 2^(W - 1) /\ (W - 1) + 1 = W
  BY <1>1, Doubling
<1> QED
  BY <1>2, <1>3 DEF IntMin, IntMax, IntRange

-----------------------------------------------------------------------------
(* Bits.                                                                   *)

\* Quotient and remainder are what they have to be.
LEMMA DivisionIsUnique ==
  ASSUME NEW p \in Nat \ {0}, NEW q \in Int, NEW r \in Int, 0 <= r, r < p
  PROVE  (p * q + r) \div p = q /\ (p * q + r) % p = r
<1> DEFINE a == p * q + r
<1>1. a \in Int
  OBVIOUS
<1>2. PICK u \in Int, m \in Int : u = a \div p /\ m = a % p
  BY <1>1
<1>3. a = p * u + m /\ 0 <= m /\ m < p
  BY <1>1, <1>2
<1>4. p * (q - u) = m - r
  BY <1>3
<1>5. PICK d \in Int : d = q - u
  OBVIOUS
<1>6. p * d = m - r /\ -p < m - r /\ m - r < p
  BY <1>3, <1>4, <1>5
<1>7. d = 0
  <2>1. d >= 1 => p * d >= p
    OBVIOUS
  <2>2. d <= -1 => p * d <= -p
    OBVIOUS
  <2> QED
    BY <1>6, <2>1, <2>2
<1>8. q = u /\ m = r
  BY <1>5, <1>6, <1>7
<1> QED
  BY <1>2, <1>8

\* Division rounds down.
LEMMA Division ==
  ASSUME NEW a \in Int, NEW p \in Nat \ {0}
  PROVE  /\ a \div p \in Int /\ a % p \in Int
         /\ a = p * (a \div p) + (a % p) /\ 0 <= a % p /\ a % p < p
OBVIOUS

Bit(i, b) == (i \div 2^b) % 2

LEMMA BitIsBinary ==
  \A i \in Int, b \in 0..W : Bit(i, b) \in {0, 1} /\ i \div 2^b \in Int
<1> SUFFICES ASSUME NEW i \in Int, NEW b \in 0..W
             PROVE  Bit(i, b) \in {0, 1} /\ i \div 2^b \in Int
  OBVIOUS
<1>1. PICK q \in Int : q = i \div 2^b
  BY PowersOfTwo, Division
<1>2. q % 2 \in {0, 1}
  OBVIOUS
<1> QED
  BY <1>1, <1>2 DEF Bit

\* The bits below position b + 1.
LEMMA NextBit ==
  ASSUME NEW i \in Int, NEW b \in BitPositions
  PROVE  i % 2^(b + 1) = (i % 2^b) + 2^b * Bit(i, b)
<1>1. b \in 0..W /\ b \in 0..(W - 1)
  BY Doubling DEF BitPositions
<1>2. PICK p \in Nat \ {0} : p = 2^b /\ 2^(b + 1) = 2 * p
  BY <1>1, PowersOfTwo, Doubling
<1>3. PICK q \in Int, r \in Int : q = i \div p /\ r = i % p
  BY Division
<1>4. PICK h \in Int, e \in Int : h = q \div 2 /\ e = q % 2
  OBVIOUS
<1>5. i = p * q + r /\ 0 <= r /\ r < p
  BY <1>3, Division
<1>6. q = 2 * h + e /\ e \in {0, 1}
  BY <1>4
<1>7. PICK low \in Int : low = r + p * e
  OBVIOUS
<1>8. 0 <= low /\ low < 2 * p /\ i = (2 * p) * h + low
  BY <1>5, <1>6, <1>7
<1>9. i % (2 * p) = low
  <2>1. PICK d \in Nat \ {0} : d = 2 * p
    OBVIOUS
  <2>2. i = d * h + low /\ low < d
    BY <1>8, <2>1
  <2> QED
    BY <1>8, <2>1, <2>2, DivisionIsUnique
<1> QED
  BY <1>2, <1>3, <1>4, <1>7, <1>9 DEF Bit

\* Multiples of 2^(b + 1) leave bit b alone.
LEMMA BitKept ==
  ASSUME NEW i \in Int, NEW t \in Int, NEW b \in BitPositions
  PROVE  Bit(i + 2^(b + 1) * t, b) = Bit(i, b)
<1>1. b \in 0..W /\ b \in 0..(W - 1)
  BY Doubling DEF BitPositions
<1>2. PICK p \in Nat \ {0} : p = 2^b /\ 2^(b + 1) = 2 * p
  BY <1>1, PowersOfTwo, Doubling
<1>3. PICK q \in Int, r \in Int : q = i \div p /\ r = i % p
  BY Division
<1>4. i = p * q + r /\ 0 <= r /\ r < p
  BY <1>3, Division
<1>5. i + (2 * p) * t = p * (q + 2 * t) + r
  BY <1>4
<1>6. (p * (q + 2 * t) + r) \div p = q + 2 * t
  BY <1>4, DivisionIsUnique
<1>7. (q + 2 * t) % 2 = q % 2
  OBVIOUS
<1> QED
  BY <1>2, <1>3, <1>5, <1>6, <1>7 DEF Bit

\* ... and so do multiples of 2^W.
LEMMA BitModuloWord ==
  ASSUME NEW i \in Int, NEW t \in Int, NEW b \in BitPositions
  PROVE  Bit(i + 2^W * t, b) = Bit(i, b) /\ Bit(i % 2^W, b) = Bit(i, b)
<1>1. b \in Nat /\ W - (b + 1) \in Nat /\ b + 1 \in 0..W /\ W - (b + 1) \in 0..W
  BY Doubling DEF BitPositions
<1>2. PICK p \in Nat \ {0}, u \in Nat \ {0} : p = 2^(b + 1) /\ u = 2^(W - (b + 1))
  BY <1>1, PowersOfTwo
<1>3. 2^((b + 1) + (W - (b + 1))) = p * u /\ (b + 1) + (W - (b + 1)) = W
  BY <1>1, <1>2, PowerOfSum, Doubling
<1>4. 2^W = p * u
  BY <1>3
<1>5. \A j, s \in Int : Bit(j + 2^W * s, b) = Bit(j, b)
  <2> SUFFICES ASSUME NEW j \in Int, NEW s \in Int PROVE Bit(j + 2^W * s, b) = Bit(j, b)
    OBVIOUS
  <2>1. Bit(j + p * (u * s), b) = Bit(j, b)
    BY <1>2, BitKept
  <2>2. (p * u) * s = p * (u * s)
    OBVIOUS
  <2> QED
    BY <1>4, <2>1, <2>2
<1>6. PICK q \in Int, r \in Int : q = i \div 2^W /\ r = i % 2^W
  BY Powers, Division
<1>7. i = 2^W * q + r
  BY <1>6, Powers, Division
<1>8. i = r + 2^W * q
  BY <1>7, Powers
<1> QED
  BY <1>5, <1>6, <1>8

LEMMA InBits ==
  \A i \in Int : \A b \in BitPositions : b \in Bits(i) <=> Bit(i, b) = 1
BY BitModuloWord DEF Bits, Bit

\* Two patterns that agree bit by bit, up to a factor, as sums.
LEMMA SumOfBits ==
  ASSUME NEW x \in Int, NEW y \in Int, NEW a \in Int, NEW b \in Int,
         NEW m \in Nat, NEW e \in Int,
         \A k \in BitPositions : Bit(x, k) + m * Bit(y, k) = Bit(a, k) + Bit(b, k) + e
  PROVE  (x % 2^W) + m * (y % 2^W) = (a % 2^W) + (b % 2^W) + e * (2^W - 1)
<1> DEFINE S == {k \in Nat : k <= W =>
                   (x % 2^k) + m * (y % 2^k) = (a % 2^k) + (b % 2^k) + e * (2^k - 1)}
<1>1. 0 \in S
  <2>1. \A i \in Int : i % 1 = 0
    OBVIOUS
  <2>2. 0 + m * 0 = 0 + 0 + e * (1 - 1)
    OBVIOUS
  <2> QED
    BY <2>1, <2>2, Doubling
<1>2. ASSUME NEW k \in Nat, k \in S PROVE k + 1 \in S
  <2> SUFFICES ASSUME k + 1 <= W
               PROVE  (x % 2^(k + 1)) + m * (y % 2^(k + 1))
                        = (a % 2^(k + 1)) + (b % 2^(k + 1)) + e * (2^(k + 1) - 1)
    OBVIOUS
  <2>1. k \in BitPositions /\ k \in 0..W /\ k \in 0..(W - 1) /\ k <= W
    BY Doubling DEF BitPositions
  <2>2. PICK p \in Nat \ {0} : p = 2^k
    BY <2>1, PowersOfTwo
  <2>3. 2^(k + 1) = 2 * p
    BY <2>1, <2>2, Doubling
  <2>4. \A i \in Int : i % p \in Int /\ Bit(i, k) \in Int
    BY <2>1, BitIsBinary, Division
  <2>5. PICK x0 \in Int, y0 \in Int, a0 \in Int, b0 \in Int :
          x0 = x % p /\ y0 = y % p /\ a0 = a % p /\ b0 = b % p
    BY <2>4
  <2>6. PICK x1 \in Int, y1 \in Int, a1 \in Int, b1 \in Int :
          x1 = Bit(x, k) /\ y1 = Bit(y, k) /\ a1 = Bit(a, k) /\ b1 = Bit(b, k)
    BY <2>4
  <2>7. x0 + m * y0 = a0 + b0 + e * (p - 1)
    BY <1>2, <2>1, <2>2, <2>5
  <2>8. x1 + m * y1 = a1 + b1 + e
    BY <2>1, <2>6
  <2>9. /\ x % (2 * p) = x0 + p * x1 /\ y % (2 * p) = y0 + p * y1
        /\ a % (2 * p) = a0 + p * a1 /\ b % (2 * p) = b0 + p * b1
    <3>1. \A i \in Int : i % 2^(k + 1) = (i % 2^k) + 2^k * Bit(i, k)
      BY <2>1, NextBit
    <3>2. \A i \in Int : i % (2 * p) = (i % p) + p * Bit(i, k)
      BY <2>2, <2>3, <3>1
    <3> QED
      BY <2>5, <2>6, <3>2
  <2>10. p * (x1 + m * y1) = p * (a1 + b1 + e)
    BY <2>8
  <2>11. (x0 + p * x1) + m * (y0 + p * y1)
           = (a0 + p * a1) + (b0 + p * b1) + e * (2 * p - 1)
    BY ONLY <2>7, <2>10, x0 \in Int, y0 \in Int, a0 \in Int, b0 \in Int,
       x1 \in Int, y1 \in Int, a1 \in Int, b1 \in Int, p \in Int, m \in Int, e \in Int
  <2> QED
    BY <2>3, <2>9, <2>11
<1> HIDE DEF S
<1>3. \A k \in Nat : k \in S
  BY <1>1, <1>2, SetInduction
<1> QED
  BY <1>3, Doubling DEF S

LEMMA ZeroBits == \A k \in BitPositions : Bit(0, k) = 0
<1> SUFFICES ASSUME NEW k \in BitPositions PROVE Bit(0, k) = 0
  OBVIOUS
<1>1. PICK p \in Nat \ {0} : p = 2^k
  BY PowersOfTwo, Doubling DEF BitPositions
<1>2. p * 0 + 0 = 0 /\ 0 < p
  OBVIOUS
<1>3. 0 \div p = 0
  BY <1>2, DivisionIsUnique
<1> QED
  BY <1>1, <1>3 DEF Bit

LEMMA SameBitsSameResidue ==
  ASSUME NEW x \in Int, NEW a \in Int, \A k \in BitPositions : Bit(x, k) = Bit(a, k)
  PROVE  x % 2^W = a % 2^W
<1>1. \A k \in BitPositions : Bit(x, k) \in Int
  BY BitIsBinary, Doubling DEF BitPositions
<1>2. \A k \in BitPositions : Bit(x, k) + 0 * Bit(0, k) = Bit(a, k) + Bit(0, k) + 0
  BY <1>1, ZeroBits
<1>3. (x % 2^W) + 0 * (0 % 2^W) = (a % 2^W) + (0 % 2^W) + 0 * (2^W - 1)
  BY <1>2, SumOfBits
<1>4. 0 % 2^W = 0
  BY Powers
<1>5. x % 2^W \in Int /\ a % 2^W \in Int
  BY Powers, Division
<1> QED
  BY <1>3, <1>4, <1>5, Powers

\* Every pattern of W bits is an int.
LEMMA EveryPattern ==
  \A S \in SUBSET BitPositions : \E i \in IntRange : Bits(i) = S
<1> SUFFICES ASSUME NEW S \in SUBSET BitPositions
             PROVE  \E i \in IntRange : Bits(i) = S
  OBVIOUS
<1> DEFINE Spells(n, k) == /\ 0 <= n /\ n < 2^k
                           /\ \A b \in 0..(k - 1) : Bit(n, b) = 1 <=> b \in S
           Ks == {k \in Nat : k <= W => \E n \in Int : Spells(n, k)}
<1>1. 0 \in Ks
  <2>1. Spells(0, 0)
    BY Doubling
  <2> QED
    BY <2>1
<1>2. ASSUME NEW k \in Nat, k \in Ks PROVE k + 1 \in Ks
  <2> SUFFICES ASSUME k + 1 <= W PROVE \E n \in Int : Spells(n, k + 1)
    OBVIOUS
  <2>1. k \in BitPositions /\ k \in 0..W /\ k \in 0..(W - 1) /\ k <= W
    BY Doubling DEF BitPositions
  <2>2. PICK n \in Int : Spells(n, k)
    BY <1>2, <2>1
  <2>3. PICK p \in Nat \ {0} : p = 2^k
    BY <2>1, PowersOfTwo
  <2>4. PICK e \in {0, 1} : e = 1 <=> k \in S
    OBVIOUS
  <2>5. PICK i \in Int : i = n + p * e
    OBVIOUS
  <2>6. 0 <= n /\ n < p /\ 2^(k + 1) = 2 * p
    BY <2>1, <2>2, <2>3, Doubling
  <2>7. 0 <= i /\ i < 2^(k + 1)
    BY <2>5, <2>6
  <2>8. Bit(i, k) = e
    <3>1. i = p * e + n
      BY <2>5
    <3>2. i \div p = e
      BY <2>6, <3>1, DivisionIsUnique
    <3>3. e % 2 = e
      OBVIOUS
    <3> QED
      BY <2>3, <3>2, <3>3 DEF Bit
  <2>9. ASSUME NEW b \in 0..(k - 1) PROVE Bit(i, b) = Bit(n, b)
    <3>1. b + 1 \in Nat /\ k - (b + 1) \in Nat /\ b \in BitPositions
          /\ (b + 1) + (k - (b + 1)) = k /\ b + 1 \in 0..W /\ k - (b + 1) \in 0..W
      BY <2>1, Doubling DEF BitPositions
    <3>2. PICK u \in Nat \ {0}, v \in Nat \ {0} : u = 2^(b + 1) /\ v = 2^(k - (b + 1))
      BY <3>1, PowersOfTwo
    <3>3. p = u * v
      BY <2>1, <2>3, <3>1, <3>2, PowerOfSum
    <3>4. i = n + u * (v * e)
      BY <2>5, <3>3
    <3>5. PICK t \in Int : t = v * e
      OBVIOUS
    <3>6. i = n + 2^(b + 1) * t
      BY <3>2, <3>4, <3>5
    <3> QED
      BY <3>1, <3>6, BitKept
  <2>10. ASSUME NEW b \in 0..((k + 1) - 1) PROVE Bit(i, b) = 1 <=> b \in S
    <3>1. CASE b = k
      BY <2>4, <2>8, <3>1
    <3>2. CASE b # k
      <4>1. b \in 0..(k - 1)
        BY <3>2
      <4> QED
        BY <2>2, <2>9, <4>1
    <3> QED
      BY <3>1, <3>2
  <2>11. Spells(i, k + 1)
    BY <2>7, <2>10
  <2> QED
    BY <2>11
<1> HIDE DEF Ks
<1>3. W \in Ks
  BY <1>1, <1>2, SetInduction, Doubling
<1>4. PICK n \in Int : Spells(n, W)
  BY <1>3, Doubling DEF Ks
<1>5. PICK i \in Int : i = IF n <= IntMax THEN n ELSE n + 2^W * (-1)
  BY Powers
<1>6. i \in IntRange
  <2>1. PICK h \in Nat \ {0} : h = 2^(W - 1)
    BY Powers
  <2>2. 2^W = 2 * h /\ IntMin = -h /\ IntMax = h - 1 /\ n < 2 * h /\ 0 <= n
    BY <1>4, <2>1, Powers DEF IntMin, IntMax
  <2>3. i = IF n <= h - 1 THEN n ELSE n - 2 * h
    BY <1>5, <2>2
  <2> QED
    BY <2>2, <2>3 DEF IntRange
<1>7. \A b \in BitPositions : Bit(i, b) = Bit(n, b)
  BY <1>5, BitModuloWord
<1>8. \A b \in BitPositions : b \in Bits(i) <=> b \in S
  BY <1>4, <1>7, InBits DEF BitPositions
<1>9. Bits(i) = S
  BY <1>8 DEF Bits
<1> QED
  BY <1>6, <1>9

LEMMA FromBitsIsInverse ==
  \A S \in SUBSET BitPositions : FromBits(S) \in IntRange /\ Bits(FromBits(S)) = S
BY EveryPattern DEF FromBits

-----------------------------------------------------------------------------
(* Values.                                                                 *)

LEMMA TaggedIsValue ==
  ASSUME NEW type \in {"integer", "boolean", "string", "undefined", "null"},
         NEW n \in Int
  PROVE  Tagged(type, n) \in Value
BY DEF Tagged, Value, IsValue, JSType

LEMMA ReferencesAreValues ==
  /\ \A o \in ObjIds : JSObject(o) \in Value /\ Tagged("symbol", o) \in Value
  /\ \A f \in FuncIds : JSFunc(f) \in Value
BY AddressAssumption DEF JSObject, JSFunc, Tagged, Value, IsValue, JSType

LEMMA SgnAbs ==
  \A n \in Int : Sgn(n) \in Int /\ Abs(n) \in Nat /\ (n # 0 => Abs(n) # 0)
BY DEF Sgn, Abs

LEMMA NonZeroProduct == \A a, b \in Int : a # 0 /\ b # 0 => a * b # 0
BY SMTT(60)

LEMMA JSDoubleIsValue ==
  ASSUME NEW n \in Int, NEW d \in Nat
  PROVE  /\ JSDouble(n, d) \in Value
         /\ JSDouble(n, d).type = "double"
         /\ JSDouble(n, d).den = d
BY SgnAbs DEF JSDouble, Value, IsValue, JSType

LEMMA ConstantValues ==
  /\ \A n \in Int : JSInt(n) \in Value /\ JSString(n) \in Value
  /\ \A b : JSBool(b) \in Value
  /\ JSUndefined \in Value /\ JSNull \in Value /\ JSNaN \in Value
  /\ \A s \in Int : JSInfinity(s) \in Value
<1>1. \A b : (IF b THEN 1 ELSE 0) \in Int
  OBVIOUS
<1> QED
  BY <1>1, TaggedIsValue, JSDoubleIsValue
  DEF JSInt, JSString, JSBool, JSUndefined, JSNull, JSNaN, JSInfinity

LEMMA ValueFields ==
  ASSUME NEW v \in Value
  PROVE  v.type \in JSType /\ v.num \in Int /\ v.den \in Nat
BY DEF Value, IsValue

-----------------------------------------------------------------------------
(* Integers of the machine.                                                *)

LEMMA WrapIsInt == \A n \in Int : Wrap(n) \in Int
<1> SUFFICES ASSUME NEW n \in Int PROVE Wrap(n) \in Int
  OBVIOUS
<1> DEFINE p == 2^W
<1>1. p \in Nat \ {0} /\ n - IntMin \in Int
  BY Powers
<1>2. (n - IntMin) % p \in Int
  BY <1>1
<1> QED
  BY <1>2, Powers DEF Wrap

LEMMA OutcomeForms ==
  /\ \A v \in Value : IsOutcome(Pushed(v)) /\ IsOutcome(Kept(v))
  /\ IsOutcome(Panicked) /\ IsOutcome(Trapped)
BY ConstantValues DEF IsOutcome, Pushed, Kept, Panicked, Trapped, Outcome, Effects

LEMMA IntResultIsOutcome == \A n \in Int : IsOutcome(IntResult(n))
<1> SUFFICES ASSUME NEW n \in Int PROVE IsOutcome(IntResult(n))
  OBVIOUS
<1>1. IntResult(n) \in {Pushed(JSInt(n)), Trapped, Pushed(JSInt(Wrap(n)))}
  BY DEF IntResult
<1> QED
  BY <1>1, OutcomeForms, ConstantValues, WrapIsInt

-----------------------------------------------------------------------------
(* Doubles.                                                                *)

LEMMA Products ==
  /\ \A a, b \in Int : a * b \in Int
  /\ \A a, b \in Nat : a * b \in Nat
OBVIOUS

LEMMA CQuotIsInt ==
  ASSUME NEW a \in Int, NEW b \in Int, b # 0
  PROVE  CQuot(a, b) \in Int /\ CRem(a, b) \in Int
<1>1. Abs(a) \div Abs(b) \in Int
  BY SgnAbs
<1>2. CQuot(a, b) \in Int
  BY <1>1, SgnAbs, Products DEF CQuot
<1> QED
  BY <1>2, Products DEF CRem

\* An undefined cast ends the debug build and changes nothing else.
LEMMA CastingForms == \A vs, out : Casting(vs, out) \in {Trapped, out}
BY DEF Casting

LEMMA CastToIntIsInt == \A x \in Value : CastToInt(x) \in Int
<1> SUFFICES ASSUME NEW x \in Value PROVE CastToInt(x) \in Int
  OBVIOUS
<1>1. CASE x.den # 0
  BY <1>1, ValueFields, CQuotIsInt, WidthAssumption, Powers DEF CastToInt, UndefinedCast
<1>2. CASE x.den = 0
  BY <1>2, WidthAssumption, Powers DEF CastToInt, UndefinedCast
<1> QED
  BY <1>1, <1>2

LEMMA CoercedIsValue == \A v \in Value : Coerced(v) \in Value
BY ValueFields, ConstantValues DEF Coerced

LEMMA AsDoubleIsValue == \A v \in Value : AsDouble(v) \in Value
BY ValueFields, JSDoubleIsValue DEF AsDouble

LEMMA ToIntIsInt == \A v \in Value : ToInt(v) \in Int
BY ValueFields, CastToIntIsInt DEF ToInt

LEMMA CollapsedIsValue == \A x \in Value : Collapsed(x) \in Value
BY CastToIntIsInt, ConstantValues DEF Collapsed

LEMMA DoubleOpsAreValues ==
  ASSUME NEW x \in Value, NEW y \in Value
  PROVE  /\ DSum(x, y) \in Value
         /\ DNeg(x) \in Value
         /\ DProduct(x, y) \in Value
         /\ DQuotient(x, y) \in Value
<1>1. /\ x.num \in Int /\ x.den \in Nat
      /\ y.num \in Int /\ y.den \in Nat
  BY ValueFields
<1>2. DSum(x, y) \in Value
  <2>1. x.num * y.den + y.num * x.den \in Int /\ x.den * y.den \in Nat
    BY <1>1, Products
  <2> QED
    BY <2>1, JSDoubleIsValue, ConstantValues DEF DSum
<1>3. DNeg(x) \in Value
  BY <1>1, JSDoubleIsValue DEF DNeg
<1>4. DProduct(x, y) \in Value
  BY <1>1, Products, JSDoubleIsValue DEF DProduct
<1>5. DQuotient(x, y) \in Value
  <2>1. x.num * y.den * Sgn(y.num) \in Int /\ x.den * Abs(y.num) \in Nat
    BY <1>1, Products, SgnAbs
  <2> QED
    BY <2>1, JSDoubleIsValue DEF DQuotient
<1> QED
  BY <1>2, <1>3, <1>4, <1>5

LEMMA DRemainderIsValue ==
  ASSUME NEW x \in Value, NEW y \in Value, ~DIsZero(y)
  PROVE  DRemainder(x, y) \in Value
<1>1. /\ x.num \in Int /\ x.den \in Nat
      /\ y.num \in Int /\ y.den \in Nat
  BY ValueFields
<1>2. CASE x.den = 0 \/ IsNaN(y)
  BY <1>2, ConstantValues DEF DRemainder
<1>3. CASE x.den # 0 /\ y.den = 0 /\ ~IsNaN(y)
  BY <1>3 DEF DRemainder
<1>4. CASE x.den # 0 /\ y.den # 0
  <2>1. y.num # 0
    BY <1>4 DEF DIsZero
  <2>2. y.num * x.den # 0
    BY <1>1, <1>4, <2>1, NonZeroProduct
  <2>3. x.num * y.den \in Int /\ y.num * x.den \in Int
    BY <1>1
  <2>4. CRem(x.num * y.den, y.num * x.den) \in Int
    BY ONLY <2>2, <2>3, CQuotIsInt, Zenon
  <2>5. DRemainder(x, y) =
          JSDouble(CRem(x.num * y.den, y.num * x.den), x.den * y.den)
    BY <1>4 DEF DRemainder, IsNaN
  <2> QED
    BY <1>1, <2>4, <2>5, Products, JSDoubleIsValue
<1> QED
  BY <1>2, <1>3, <1>4

-----------------------------------------------------------------------------
(* Arithmetic.                                                             *)

LEMMA IntAddIsOutcome == \A a, b \in Int : IsOutcome(IntAdd(a, b))
BY IntResultIsOutcome DEF IntAdd

LEMMA IntMinusIsOutcome == \A a, b \in Int : IsOutcome(IntMinus(a, b))
BY IntResultIsOutcome DEF IntMinus

LEMMA IntMulIsOutcome == \A a, b \in Int : IsOutcome(IntMul(a, b))
BY IntResultIsOutcome, Products DEF IntMul

LEMMA DoubleAddIsOutcome == \A x, y \in Value : IsOutcome(DoubleAdd(x, y))
BY DoubleOpsAreValues, OutcomeForms DEF DoubleAdd

LEMMA DoubleMinusIsOutcome == \A x, y \in Value : IsOutcome(DoubleMinus(x, y))
BY DoubleOpsAreValues, OutcomeForms DEF DoubleMinus

LEMMA CastingIsOutcome == \A vs, out : IsOutcome(out) => IsOutcome(Casting(vs, out))
<1> SUFFICES ASSUME NEW vs, NEW out, IsOutcome(out) PROVE IsOutcome(Casting(vs, out))
  OBVIOUS
<1>1. Casting(vs, out) \in {Trapped, out}
  BY CastingForms
<1> QED
  BY <1>1, OutcomeForms

LEMMA PushCollapsedIsOutcome == \A x \in Value : IsOutcome(PushCollapsed(x))
BY CollapsedIsValue, OutcomeForms, CastingIsOutcome DEF PushCollapsed

LEMMA DoubleMulIsOutcome == \A x, y \in Value : IsOutcome(DoubleMul(x, y))
BY DoubleOpsAreValues, PushCollapsedIsOutcome DEF DoubleMul

LEMMA DoubleDivIsOutcome == \A x, y \in Value : IsOutcome(DoubleDiv(x, y))
<1> SUFFICES ASSUME NEW x \in Value, NEW y \in Value PROVE IsOutcome(DoubleDiv(x, y))
  OBVIOUS
<1> DEFINE sign == IF DLess(JSDouble(0, 1), x) THEN 1 ELSE -1
<1>1. DoubleDiv(x, y) \in {Pushed(JSNaN), Pushed(JSInfinity(sign)),
                           PushCollapsed(DQuotient(x, y))}
  BY DEF DoubleDiv
<1>2. sign \in Int
  OBVIOUS
<1> QED
  BY <1>1, <1>2, DoubleOpsAreValues, PushCollapsedIsOutcome, ConstantValues, OutcomeForms

LEMMA IntModIsOutcome == \A a, b \in Int : IsOutcome(IntMod(a, b))
<1> SUFFICES ASSUME NEW a \in Int, NEW b \in Int PROVE IsOutcome(IntMod(a, b))
  OBVIOUS
<1>1. CASE b = 0
  BY <1>1, OutcomeForms, ConstantValues DEF IntMod
<1>2. CASE b # 0
  <2>1. IntMod(a, b) \in {Trapped, Pushed(JSInt(CRem(a, b)))}
    BY <1>2 DEF IntMod
  <2> QED
    BY <1>2, <2>1, CQuotIsInt, ConstantValues, OutcomeForms
<1> QED
  BY <1>1, <1>2

LEMMA DoubleModIsOutcome == \A x, y \in Value : IsOutcome(DoubleMod(x, y))
BY DRemainderIsValue, PushCollapsedIsOutcome, ConstantValues, OutcomeForms DEF DoubleMod

LEMMA AddIsOutcome ==
  \A l, r \in Value : IsOutcome(inst_add(l, r))
<1> SUFFICES ASSUME NEW l \in Value, NEW r \in Value PROVE IsOutcome(inst_add(l, r))
  OBVIOUS
<1>1. inst_add(l, r) \in
        {Kept(JSNaN), Panicked, IntAdd(Coerced(l).num, Coerced(r).num),
         DoubleAdd(AsDouble(Coerced(l)), AsDouble(Coerced(r)))}
  BY DEF inst_add, Arithmetic
<1>2. /\ Coerced(l).num \in Int /\ Coerced(r).num \in Int
      /\ AsDouble(Coerced(l)) \in Value /\ AsDouble(Coerced(r)) \in Value
  BY CoercedIsValue, AsDoubleIsValue, ValueFields
<1> QED
  BY <1>1, <1>2, OutcomeForms, ConstantValues, IntAddIsOutcome, DoubleAddIsOutcome

LEMMA MinusIsOutcome ==
  \A l, r \in Value : IsOutcome(inst_minus(l, r))
<1> SUFFICES ASSUME NEW l \in Value, NEW r \in Value PROVE IsOutcome(inst_minus(l, r))
  OBVIOUS
<1>1. inst_minus(l, r) \in
        {Kept(JSNaN), Panicked, IntMinus(Coerced(l).num, Coerced(r).num),
         DoubleMinus(AsDouble(Coerced(l)), AsDouble(Coerced(r)))}
  BY DEF inst_minus, Arithmetic
<1>2. /\ Coerced(l).num \in Int /\ Coerced(r).num \in Int
      /\ AsDouble(Coerced(l)) \in Value /\ AsDouble(Coerced(r)) \in Value
  BY CoercedIsValue, AsDoubleIsValue, ValueFields
<1> QED
  BY <1>1, <1>2, OutcomeForms, ConstantValues, IntMinusIsOutcome, DoubleMinusIsOutcome

LEMMA MulIsOutcome ==
  \A l, r \in Value : IsOutcome(inst_mul(l, r))
<1> SUFFICES ASSUME NEW l \in Value, NEW r \in Value PROVE IsOutcome(inst_mul(l, r))
  OBVIOUS
<1>1. inst_mul(l, r) \in
        {Kept(JSNaN), Panicked, IntMul(Coerced(l).num, Coerced(r).num),
         DoubleMul(AsDouble(Coerced(l)), AsDouble(Coerced(r)))}
  BY DEF inst_mul, Arithmetic
<1>2. /\ Coerced(l).num \in Int /\ Coerced(r).num \in Int
      /\ AsDouble(Coerced(l)) \in Value /\ AsDouble(Coerced(r)) \in Value
  BY CoercedIsValue, AsDoubleIsValue, ValueFields
<1> QED
  BY <1>1, <1>2, OutcomeForms, ConstantValues, IntMulIsOutcome, DoubleMulIsOutcome

LEMMA DivOperandIsValue == \A v \in Value : AsDouble(DivOperand(v)) \in Value
<1> SUFFICES ASSUME NEW v \in Value PROVE AsDouble(DivOperand(v)) \in Value
  OBVIOUS
<1>1. DivOperand(v) \in {JSDouble(0, 1), AsDouble(v), v}
  BY DEF DivOperand
<1> QED
  BY <1>1, AsDoubleIsValue, JSDoubleIsValue

LEMMA DivIsOutcome ==
  \A l, r \in Value : IsOutcome(inst_div(l, r))
<1> SUFFICES ASSUME NEW l \in Value, NEW r \in Value PROVE IsOutcome(inst_div(l, r))
  OBVIOUS
<1>1. inst_div(l, r) \in
        {Kept(JSNaN), Panicked,
         DoubleDiv(AsDouble(DivOperand(l)), AsDouble(DivOperand(r)))}
  BY DEF inst_div
<1> QED
  BY <1>1, DivOperandIsValue, OutcomeForms, ConstantValues, DoubleDivIsOutcome

LEMMA ModIsOutcome ==
  \A l, r \in Value : IsOutcome(inst_mod(l, r))
<1> SUFFICES ASSUME NEW l \in Value, NEW r \in Value PROVE IsOutcome(inst_mod(l, r))
  OBVIOUS
<1>1. inst_mod(l, r) \in
        {Kept(JSNaN), Panicked, IntMod(Coerced(l).num, Coerced(r).num),
         DoubleMod(AsDouble(Coerced(l)), AsDouble(Coerced(r)))}
  BY DEF inst_mod, Arithmetic
<1>2. /\ Coerced(l).num \in Int /\ Coerced(r).num \in Int
      /\ AsDouble(Coerced(l)) \in Value /\ AsDouble(Coerced(r)) \in Value
  BY CoercedIsValue, AsDoubleIsValue, ValueFields
<1> QED
  BY <1>1, <1>2, OutcomeForms, ConstantValues, IntModIsOutcome, DoubleModIsOutcome

-----------------------------------------------------------------------------
(* Bitwise operators.                                                      *)

LEMMA BitsIsSet == \A i : Bits(i) \in SUBSET BitPositions
BY DEF Bits

LEMMA FromBitsIsValue ==
  \A S \in SUBSET BitPositions : IsOutcome(Pushed(JSInt(FromBits(S))))
BY FromBitsIsInverse, Powers, ConstantValues, OutcomeForms

LEMMA AndIsOutcome == \A l, r \in Value : IsOutcome(inst_binary_and(l, r))
BY BitsIsSet, FromBitsIsValue, ConstantValues, OutcomeForms, CastingIsOutcome
DEF inst_binary_and

LEMMA OneNumberIsOutcome == \A l, r \in Value : IsOutcome(OneNumber(l, r))
<1> SUFFICES ASSUME NEW l \in Value, NEW r \in Value PROVE IsOutcome(OneNumber(l, r))
  OBVIOUS
<1>1. OneNumber(l, r) \in
        {Casting({l}, Pushed(JSInt(ToInt(l)))), Casting({r}, Pushed(JSInt(ToInt(r)))),
         Pushed(JSInt(0))}
  BY DEF OneNumber
<1> QED
  BY <1>1, ToIntIsInt, ConstantValues, OutcomeForms, CastingIsOutcome

LEMMA OrIsOutcome == \A l, r \in Value : IsOutcome(inst_binary_or(l, r))
BY BitsIsSet, FromBitsIsValue, OneNumberIsOutcome, CastingIsOutcome DEF inst_binary_or

LEMMA XorIsOutcome == \A l, r \in Value : IsOutcome(inst_binary_xor(l, r))
BY BitsIsSet, FromBitsIsValue, OneNumberIsOutcome, CastingIsOutcome DEF inst_binary_xor

LEMMA LeftShiftIsOutcome == \A a, k \in Int : IsOutcome(LeftShift(a, k))
BY FromBitsIsValue, OutcomeForms DEF LeftShift

LEMMA RightShiftIsOutcome == \A a, k \in Int : IsOutcome(RightShift(a, k))
<1> SUFFICES ASSUME NEW a \in Int, NEW k \in Int PROVE IsOutcome(RightShift(a, k))
  OBVIOUS
<1>1. Count(k) \in 0..W
  BY WidthAssumption DEF Count
<1> DEFINE p == 2^Count(k)
<1>2. p \in Nat \ {0}
  BY <1>1, PowersOfTwo
<1>3. a \div p \in Int
  BY <1>2
<1> QED
  BY <1>3, ConstantValues, OutcomeForms DEF RightShift

LEMMA ZeroRightShiftIsOutcome == \A a, k \in Int : IsOutcome(ZeroRightShift(a, k))
BY FromBitsIsValue, OutcomeForms DEF ZeroRightShift

LEMMA TruncatedIsValue == \A v \in Value : Truncated(v) \in Value
BY CastToIntIsInt, JSDoubleIsValue DEF Truncated

LEMMA LshftIsOutcome == \A l, r \in Value : IsOutcome(inst_binary_lshft(l, r))
<1> SUFFICES ASSUME NEW l \in Value, NEW r \in Value PROVE IsOutcome(inst_binary_lshft(l, r))
  OBVIOUS
<1>1. inst_binary_lshft(l, r) \in
        {Pushed(JSInt(0)), Casting({l}, Pushed(Truncated(l))),
         Casting({l, r}, LeftShift(ToInt(l), ToInt(r)))}
  BY DEF inst_binary_lshft, Shift
<1> QED
  BY <1>1, ToIntIsInt, TruncatedIsValue, ConstantValues, OutcomeForms, CastingIsOutcome,
     LeftShiftIsOutcome

LEMMA RshftIsOutcome == \A l, r \in Value : IsOutcome(inst_binary_rshft(l, r))
<1> SUFFICES ASSUME NEW l \in Value, NEW r \in Value PROVE IsOutcome(inst_binary_rshft(l, r))
  OBVIOUS
<1>1. inst_binary_rshft(l, r) \in
        {Pushed(JSInt(0)), Casting({l}, Pushed(Truncated(l))),
         Casting({l, r}, RightShift(ToInt(l), ToInt(r)))}
  BY DEF inst_binary_rshft, Shift
<1> QED
  BY <1>1, ToIntIsInt, TruncatedIsValue, ConstantValues, OutcomeForms, CastingIsOutcome,
     RightShiftIsOutcome

LEMMA ZrshftIsOutcome == \A l, r \in Value : IsOutcome(inst_binary_zrshft(l, r))
<1> SUFFICES ASSUME NEW l \in Value, NEW r \in Value PROVE IsOutcome(inst_binary_zrshft(l, r))
  OBVIOUS
<1>1. inst_binary_zrshft(l, r) \in
        {Pushed(JSInt(0)), Casting({l}, Pushed(Truncated(l))),
         Casting({l, r}, ZeroRightShift(ToInt(l), ToInt(r)))}
  BY DEF inst_binary_zrshft, Shift
<1> QED
  BY <1>1, ToIntIsInt, TruncatedIsValue, ConstantValues, OutcomeForms, CastingIsOutcome,
     ZeroRightShiftIsOutcome

-----------------------------------------------------------------------------
(* Comparisons.                                                            *)

LEMMA EqualityIsOutcome ==
  ASSUME NEW l \in Value, NEW r \in Value, NEW same
  PROVE  IsOutcome(Equality(l, r, same))
<1>1. Equality(l, r, same) \in
        {Pushed(JSBool(DEqual(AsDouble(l), AsDouble(r)) = same)),
         Pushed(JSBool(FALSE = same)), Pushed(JSBool(TRUE = same)),
         Pushed(JSBool((l.num = r.num) = same)), Panicked}
  BY DEF Equality
<1> QED
  BY <1>1, ConstantValues, OutcomeForms

LEMMA GtIsOutcome == \A l, r \in Value : IsOutcome(inst_gt(l, r))
<1> SUFFICES ASSUME NEW l \in Value, NEW r \in Value PROVE IsOutcome(inst_gt(l, r))
  OBVIOUS
<1>1. inst_gt(l, r) \in
        {Pushed(JSBool(FALSE)), Panicked,
         Pushed(JSBool(Greater(AsDouble(Coerced(l)), AsDouble(Coerced(r)))))}
  BY DEF inst_gt, Relational
<1> QED
  BY <1>1, ConstantValues, OutcomeForms

LEMMA GeqIsOutcome == \A l, r \in Value : IsOutcome(inst_geq(l, r))
<1> SUFFICES ASSUME NEW l \in Value, NEW r \in Value PROVE IsOutcome(inst_geq(l, r))
  OBVIOUS
<1>1. inst_geq(l, r) \in
        {Pushed(JSBool(FALSE)), Panicked,
         Pushed(JSBool(GreaterEqual(AsDouble(Coerced(l)), AsDouble(Coerced(r)))))}
  BY DEF inst_geq, Relational
<1> QED
  BY <1>1, ConstantValues, OutcomeForms

LEMMA LtIsOutcome == \A l, r \in Value : IsOutcome(inst_lt(l, r))
<1> SUFFICES ASSUME NEW l \in Value, NEW r \in Value PROVE IsOutcome(inst_lt(l, r))
  OBVIOUS
<1>1. inst_lt(l, r) \in
        {Pushed(JSBool(FALSE)), Panicked,
         Pushed(JSBool(DLess(AsDouble(Coerced(l)), AsDouble(Coerced(r)))))}
  BY DEF inst_lt, Relational
<1> QED
  BY <1>1, ConstantValues, OutcomeForms

LEMMA LeqIsOutcome == \A l, r \in Value : IsOutcome(inst_leq(l, r))
<1> SUFFICES ASSUME NEW l \in Value, NEW r \in Value PROVE IsOutcome(inst_leq(l, r))
  OBVIOUS
<1>1. inst_leq(l, r) \in
        {Pushed(JSBool(FALSE)), Panicked,
         Pushed(JSBool(LessEqual(AsDouble(Coerced(l)), AsDouble(Coerced(r)))))}
  BY DEF inst_leq, Relational
<1> QED
  BY <1>1, ConstantValues, OutcomeForms

-----------------------------------------------------------------------------
(* Unary operators.                                                        *)

LEMMA BinaryNotIsOutcome == \A v \in Value : IsOutcome(inst_binary_not(v))
<1>1. \A S : BitPositions \ S \in SUBSET BitPositions
  OBVIOUS
<1> QED
  BY <1>1, FromBitsIsValue, ConstantValues, OutcomeForms, CastingIsOutcome DEF inst_binary_not

LEMMA NegateIsOutcome == \A v \in Value : IsOutcome(inst_negate(v))
<1> SUFFICES ASSUME NEW v \in Value PROVE IsOutcome(inst_negate(v))
  OBVIOUS
<1>1. inst_negate(v) \in {Pushed(JSNaN), IntResult(-Coerced(v).num),
                         Pushed(DNeg(Coerced(v))), Panicked}
  BY DEF inst_negate
<1>2. Coerced(v) \in Value /\ -Coerced(v).num \in Int
  BY CoercedIsValue, ValueFields
<1> QED
  BY <1>1, <1>2, IntResultIsOutcome, DoubleOpsAreValues, ConstantValues, OutcomeForms

LEMMA TypeofIsOutcome == \A v \in Value : IsOutcome(inst_typeof(v))
<1> SUFFICES ASSUME NEW v \in Value PROVE IsOutcome(inst_typeof(v))
  OBVIOUS
<1>1. \A t \in {"number", "object", "string", "function", "undefined", "boolean"} :
        TypeofText[t] \in Int
  BY DEF TypeofText
<1>2. \/ inst_typeof(v) = Panicked
      \/ \E t \in {"number", "object", "string", "function", "undefined", "boolean"} :
           inst_typeof(v) = Pushed(JSString(TypeofText[t]))
  BY DEF inst_typeof
<1> QED
  BY <1>1, <1>2, ConstantValues, OutcomeForms

-----------------------------------------------------------------------------

\* Every binary instruction, on any two values, replaces its operands, keeps
\* the left one, panics or traps, and what it pushes is a value: no handler
\* between inst_add and inst_leq leaves an ill-formed JSValue on the stack.
THEOREM BinaryIsOutcome ==
  \A op \in BinaryOpcodes : \A l, r \in Value : IsOutcome(Binary(op, l, r))
<1> SUFFICES ASSUME NEW op \in BinaryOpcodes, NEW l \in Value, NEW r \in Value
             PROVE  IsOutcome(Binary(op, l, r))
  OBVIOUS
<1>1. Binary(op, l, r) \in
        {inst_add(l, r), inst_minus(l, r), inst_mul(l, r), inst_div(l, r), inst_mod(l, r),
         inst_binary_and(l, r), inst_binary_or(l, r), inst_binary_xor(l, r),
         inst_binary_lshft(l, r), inst_binary_rshft(l, r), inst_binary_zrshft(l, r),
         inst_teq(l, r), inst_nteq(l, r), inst_gt(l, r), inst_geq(l, r),
         inst_lt(l, r), inst_leq(l, r)}
  BY Zenon DEF Binary, BinaryOpcodes
<1>2. IsOutcome(inst_teq(l, r)) /\ IsOutcome(inst_nteq(l, r))
  BY EqualityIsOutcome DEF inst_teq, inst_nteq
<1> QED
  BY <1>1, <1>2, AddIsOutcome, MinusIsOutcome, MulIsOutcome, DivIsOutcome, ModIsOutcome,
     AndIsOutcome, OrIsOutcome, XorIsOutcome, LshftIsOutcome, RshftIsOutcome,
     ZrshftIsOutcome, GtIsOutcome, GeqIsOutcome, LtIsOutcome, LeqIsOutcome

\* The same of the unary instructions inst_binary_not, inst_not, inst_negate
\* and inst_typeof.
THEOREM UnaryIsOutcome ==
  \A op \in UnaryOpcodes : \A v \in Value : IsOutcome(Unary(op, v))
<1> SUFFICES ASSUME NEW op \in UnaryOpcodes, NEW v \in Value
             PROVE  IsOutcome(Unary(op, v))
  OBVIOUS
<1>1. Unary(op, v) \in {inst_binary_not(v), inst_not(v), inst_negate(v), inst_typeof(v)}
  BY Zenon DEF Unary, UnaryOpcodes
<1>2. IsOutcome(inst_not(v))
  BY ConstantValues, OutcomeForms DEF inst_not
<1> QED
  BY <1>1, <1>2, BinaryNotIsOutcome, NegateIsOutcome, TypeofIsOutcome

\* A unary instruction never keeps an operand it should replace.
LEMMA UnaryNeverKeeps ==
  \A op \in UnaryOpcodes : \A v \in Value : Unary(op, v).effect # "keep"
<1> SUFFICES ASSUME NEW op \in UnaryOpcodes, NEW v \in Value
             PROVE  Unary(op, v).effect # "keep"
  OBVIOUS
<1>1. \A x : Pushed(x).effect # "keep"
  BY DEF Pushed, Outcome
<1>2. Panicked.effect # "keep" /\ Trapped.effect # "keep"
  BY DEF Panicked, Trapped, Outcome
<1>3. \A n : \/ IntResult(n) \in {Pushed(JSInt(n)), Trapped}
             \/ IntResult(n) = Pushed(JSInt(Wrap(n)))
  BY Zenon DEF IntResult
<1>4. \A n : IntResult(n).effect # "keep"
  BY <1>1, <1>2, <1>3
<1>5. inst_binary_not(v).effect # "keep" /\ inst_not(v).effect # "keep"
  BY <1>1, <1>2, CastingForms DEF inst_binary_not, inst_not
<1>6. inst_negate(v).effect # "keep"
  <2>1. inst_negate(v) \in {Pushed(JSNaN), IntResult(-Coerced(v).num),
                           Pushed(DNeg(Coerced(v))), Panicked}
    BY DEF inst_negate
  <2> QED
    BY <1>1, <1>2, <1>4, <2>1
<1>7. inst_typeof(v).effect # "keep"
  <2>1. inst_typeof(v) = Panicked \/ \E x : inst_typeof(v) = Pushed(x)
    BY DEF inst_typeof
  <2> QED
    BY <1>1, <1>2, <2>1
<1>8. Unary(op, v) \in {inst_binary_not(v), inst_not(v), inst_negate(v), inst_typeof(v)}
  BY Zenon DEF Unary, UnaryOpcodes
<1> QED
  BY <1>5, <1>6, <1>7, <1>8

=============================================================================
