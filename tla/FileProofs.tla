----------------------------- MODULE FileProofs -----------------------------
(***************************************************************************)
(* The compiler, atomixc bundle and the virtual machine agree on the file  *)
(* of a module, byte by byte, for every program within the bounds of       *)
(* FileAssumption. The folds and LittleEndian are recursive or nested      *)
(* operators; what they compute is proved first. Holds(s, p, t), of        *)
(* SequenceLemmas, then says what stands where: a file is known by what it *)
(* holds, and a reader gets it back. FileInv, below, says so of every      *)
(* phase and is inductive.                                                 *)
(***************************************************************************)
EXTENDS ModuleFile, SequenceLemmas

-----------------------------------------------------------------------------
(* Folds over at most two operands.                                        *)

\* The function by which a sum of at most two numbers is folded.
IsFold(f, v, n) ==
  f = [s \in SUBSET DOMAIN v |-> IF s = {} THEN n ELSE f[s \ {Max(s)}] + v[Max(s)]]

\* What the fold computes over at most two numbers.
TwoSum(v, n) ==
  CASE DOMAIN v = {} -> n [] DOMAIN v = {1} -> n + v[1] [] DOMAIN v = {1, 2} -> (n + v[1]) + v[2]

\* The solution of the recursive equation of the fold.
TwoFold(v, n) ==
  [s \in SUBSET DOMAIN v |->
     CASE s = {} -> n
       [] s = {1} -> n + v[1]
       [] s = {2} -> n + v[2]
       [] s = {1, 2} -> (n + v[1]) + v[2]]

LEMMA Largest == Max({1}) = 1 /\ Max({2}) = 2 /\ Max({1, 2}) = 2
<1>1. 1 >= 1 /\ 2 >= 2 /\ 2 >= 1 /\ ~(1 >= 2)
  OBVIOUS
<1> QED
  BY <1>1 DEF Max

LEMMA SubsetsOfTwo ==
  /\ {1} # {2} /\ {1, 2} # {1} /\ {1, 2} # {2} /\ {1} # {} /\ {2} # {} /\ {1, 2} # {}
  /\ {1} \ {1} = {} /\ {2} \ {2} = {} /\ {1, 2} \ {2} = {1}
OBVIOUS

\* It is one, and every solution agrees with it.
LEMMA FoldOfTwo ==
  ASSUME NEW v, DOMAIN v \in {{}, {1}, {1, 2}}, NEW n
  PROVE  /\ IsFold(TwoFold(v, n), v, n)
         /\ \A f : IsFold(f, v, n) => f[DOMAIN v] = TwoSum(v, n)
<1> DEFINE Sub == SUBSET DOMAIN v
           f == TwoFold(v, n)
           g == [s \in Sub |->
                  IF s = {} THEN n ELSE f[s \ {Max(s)}] + v[Max(s)]]
<1>1. \A s \in Sub : s = {} \/ s = {1} \/ s = {2} \/ s = {1, 2}
  OBVIOUS
<1>2. \A s \in Sub : \A i : s \ {i} \in Sub
  OBVIOUS
<1> USE SubsetsOfTwo, Largest
<1>3. \A s \in Sub : /\ s = {} => f[s] = n
                     /\ s = {1} => f[s] = n + v[1]
                     /\ s = {2} => f[s] = n + v[2]
                     /\ s = {1, 2} => f[s] = (n + v[1]) + v[2]
  BY DEF TwoFold
<1> HIDE DEF f
<1>4. ASSUME NEW s \in Sub PROVE f[s] = g[s]
  <2>1. CASE s = {}
    BY <1>3, <2>1
  <2>2. CASE s = {1}
    <3>1. Max(s) = 1 /\ s \ {Max(s)} = {} /\ {} \in Sub /\ s # {}
      BY <2>2
    <3> QED
      BY <1>3, <2>2, <3>1
  <2>3. CASE s = {2}
    <3>1. Max(s) = 2 /\ s \ {Max(s)} = {} /\ {} \in Sub /\ s # {}
      BY <2>3
    <3>2. n + v[2] = f[s]
      BY <1>3, <2>3
    <3> QED
      BY <1>3, <2>3, <3>1, <3>2
  <2>4. CASE s = {1, 2}
    <3>1. Max(s) = 2 /\ s \ {Max(s)} = {1} /\ {1} \in Sub /\ s # {}
      BY <2>4
    <3> QED
      BY <1>3, <2>4, <3>1
  <2> QED
    BY <1>1, <2>1, <2>2, <2>3, <2>4
<1>5. f = g
  BY <1>4 DEF f, TwoFold
<1>6. IsFold(f, v, n)
  BY <1>5 DEF IsFold, f
<1>7. ASSUME NEW h, IsFold(h, v, n) PROVE h[DOMAIN v] = TwoSum(v, n)
  <2>1. \A s \in Sub : h[s] = IF s = {} THEN n ELSE h[s \ {Max(s)}] + v[Max(s)]
    BY <1>7, Zenon DEF IsFold
  <2>2. {} \in Sub /\ h[{}] = n
    BY <2>1
  <2>3. ASSUME {1} \in Sub PROVE h[{1}] = n + v[1]
    <3>1. h[{1}] = h[{1} \ {Max({1})}] + v[Max({1})]
      BY <2>1, <2>3
    <3> QED
      BY <3>1, <2>2
  <2>4. ASSUME {1, 2} \in Sub PROVE h[{1, 2}] = h[{1}] + v[2]
    <3>1. h[{1, 2}] = h[{1, 2} \ {Max({1, 2})}] + v[Max({1, 2})]
      BY <2>1, <2>4
    <3> QED
      BY <3>1
  <2>5. CASE DOMAIN v = {}
    BY <2>2, <2>5 DEF TwoSum
  <2>6. CASE DOMAIN v = {1}
    <3>1. TwoSum(v, n) = n + v[1]
      BY <2>6 DEF TwoSum
    <3> QED
      BY <2>3, <2>6, <3>1
  <2>7. CASE DOMAIN v = {1, 2}
    <3>1. TwoSum(v, n) = (n + v[1]) + v[2]
      BY <2>7 DEF TwoSum
    <3>2. {1} \in Sub /\ {1, 2} \in Sub
      BY <2>7
    <3> QED
      BY <2>3, <2>4, <2>7, <3>1, <3>2
  <2> QED
    BY <2>5, <2>6, <2>7
<1> QED
  BY <1>6, <1>7 DEF f

\* Total, of at most two operands, is their sum.
LEMMA TotalIsSum ==
  ASSUME NEW S, DOMAIN S \in {{}, {1}, {1, 2}}, NEW n
  PROVE  Total(S, n) = TwoSum([i \in DOMAIN S |-> OperandLength(S[i])], n)
<1> DEFINE v == [i \in DOMAIN S |-> OperandLength(S[i])]
           G(f) == [s \in SUBSET DOMAIN S |->
                     IF s = {} THEN n ELSE f[s \ {Max(s)}] + OperandLength(S[Max(s)])]
           F(f) == [s \in SUBSET DOMAIN v |-> IF s = {} THEN n ELSE f[s \ {Max(s)}] + v[Max(s)]]
           f == CHOOSE f : f = G(f)
<1>1. ASSUME NEW s \in SUBSET DOMAIN S, s # {} PROVE Max(s) \in DOMAIN S
  <2>1. s = {1} \/ s = {2} \/ s = {1, 2}
    BY <1>1
  <2> QED
    BY <1>1, <2>1, Largest
<1>2. ASSUME NEW h PROVE F(h) = G(h)
  BY <1>1
<1>3. \E h : h = G(h)
  <2>1. IsFold(TwoFold(v, n), v, n)
    <3>1. DOMAIN v \in {{}, {1}, {1, 2}}
      OBVIOUS
    <3> HIDE DEF v
    <3> QED
      BY <3>1, FoldOfTwo
  <2>2. TwoFold(v, n) = F(TwoFold(v, n))
    BY <2>1 DEF IsFold
  <2> QED
    BY <2>2, <1>2
<1>4. f = G(f)
  <2> HIDE DEF G
  <2> QED
    BY <1>3, Zenon
<1>5. Total(S, n) = f[DOMAIN S]
  BY DEF Total, FoldLeft, MapThenFoldSet
<1> HIDE DEF f
<1>6. IsFold(f, v, n)
  BY <1>2, <1>4 DEF IsFold
<1>7. DOMAIN v = DOMAIN S
  OBVIOUS
<1> HIDE DEF v
<1> QED
  BY <1>5, <1>6, <1>7, FoldOfTwo DEF v

-----------------------------------------------------------------------------
(* Opcodes.                                                                *)

Byte == 0..(BYTE - 1)

\* Both enumerations are the same, and a byte has room for them.
LEMMA OpcodesAre ==
  /\ Len(Opcodes) = 53 /\ DOMAIN Opcodes = 1..53 /\ Opcodes[1] = "NOP"
  /\ Opcode = Opcodes
  /\ \A i \in 1..53 : Opcodes[i] \in ToSet(Opcodes)
<1>1. Len(Opcodes) = 53 /\ Opcodes[1] = "NOP"
  BY DEF Opcodes
<1>2. DOMAIN Opcodes = 1..53
  BY DEF Opcodes
<1>3. Opcode = Opcodes
  BY DEF Opcodes, Opcode
<1> QED
  BY <1>1, <1>2, <1>3 DEF ToSet

\* The place of an opcode in the enumeration.
Place(op) == SelectInSeq(Opcodes, LAMBDA x : x = op)

\* An opcode is found at its place, and only a NOP at the first.
LEMMA PlaceOfOpcode ==
  ASSUME NEW op \in ToSet(Opcodes)
  PROVE  /\ Place(op) \in 1..53
         /\ Opcodes[Place(op)] = op
         /\ Place(op) = 1 <=> op = "NOP"
<1> DEFINE I == {i \in 1..Len(Opcodes) : Opcodes[i] = op}
<1>1. Place(op) = IF I # {} THEN Min(I) ELSE 0
  BY DEF Place, SelectInSeq
<1>2. I # {}
  BY OpcodesAre DEF ToSet
<1>3. \E m \in I : \A n \in I : m <= n
  <2>1. I \subseteq Nat
    BY OpcodesAre
  <2> HIDE DEF I
  <2> QED
    BY <1>2, <2>1, LeastNat
<1>4. Min(I) \in I /\ \A n \in I : Min(I) <= n
  BY <1>3 DEF Min
<1>5. Place(op) \in I /\ \A n \in I : Place(op) <= n
  BY <1>1, <1>2, <1>4
<1>6. Place(op) \in 1..53 /\ Opcodes[Place(op)] = op
  BY <1>5, OpcodesAre
<1>7. ASSUME op = "NOP" PROVE Place(op) = 1
  <2>1. 1 \in I
    BY <1>7, OpcodesAre
  <2> QED
    BY <1>5, <1>6, <2>1
<1> QED
  BY <1>6, <1>7, OpcodesAre

-----------------------------------------------------------------------------
(* Numbers as bytes.                                                       *)

\* The numbers of values of a byte, of two and of four.
LEMMA Bases ==
  /\ BYTE \in Nat /\ BYTE > 1 /\ BYTE >= 53
  /\ SHORT \in Nat /\ SHORT > 0 /\ INT \in Nat /\ INT > 0
  /\ BYTE^0 = 1 /\ BYTE^1 = BYTE /\ BYTE^2 = SHORT /\ BYTE^3 = BYTE * SHORT
  /\ INT = BYTE * (BYTE * SHORT)
  /\ 8 + MaxParts * (MaxLength + 8) < INT
  /\ INT \div 2 \in Nat /\ INT = 2 * (INT \div 2)
<1>1. BYTE \in Nat /\ BYTE > 1 /\ BYTE >= 53 /\ BYTE % 2 = 0
  BY FileAssumption, OpcodesAre
<1>2. PICK b \in Nat : b = BYTE
  BY <1>1
<1>3. BYTE^0 = 1 /\ BYTE^(0 + 1) = BYTE * BYTE^0 /\ BYTE^(1 + 1) = BYTE * BYTE^1
      /\ BYTE^(2 + 1) = BYTE * BYTE^2
  BY FileAssumption
<1>4. b * 1 = b /\ b * b \in Nat /\ b * b > 0 /\ (b * b) * (b * b) = b * (b * (b * b))
      /\ (b * b) * (b * b) \in Nat /\ (b * b) * (b * b) > 0
  <2>1. \A x, y \in Nat : x > 0 /\ y > 0 => x * y \in Nat /\ x * y > 0
    OBVIOUS
  <2>2. b * b \in Nat /\ b * b > 0
    BY <1>1, <1>2, <2>1
  <2>3. (b * b) * (b * b) \in Nat /\ (b * b) * (b * b) > 0
    BY <2>1, <2>2
  <2>4. (b * b) * (b * b) = b * (b * (b * b))
    OBVIOUS
  <2> QED
    BY <2>2, <2>3, <2>4
<1>5. BYTE^1 = b /\ BYTE^2 = b * b /\ BYTE^3 = b * (b * b)
  <2>1. BYTE^1 = b
    BY <1>2, <1>3, <1>4
  <2>2. BYTE^2 = b * b
    BY <1>2, <1>3, <2>1
  <2> QED
    BY <1>2, <1>3, <2>2
<1>6. PICK h \in Nat : b = 2 * h
  BY <1>1, <1>2
<1>7. INT = b * (b * (b * b)) /\ SHORT = b * b
  BY <1>2, <1>4 DEF INT, SHORT
<1>8. PICK k \in Nat : INT = 2 * k
  <2>1. b * (b * b) \in Nat
    BY <1>4
  <2>2. \A x \in Nat : (2 * h) * x = 2 * (h * x) /\ h * x \in Nat
    OBVIOUS
  <2>3. INT = 2 * (h * (b * (b * b))) /\ h * (b * (b * b)) \in Nat
    BY <1>6, <1>7, <2>1, <2>2
  <2> QED
    BY <2>3
<1>9. INT \div 2 \in Nat /\ INT = 2 * (INT \div 2)
  BY <1>8
<1> QED
  BY <1>1, <1>2, <1>3, <1>4, <1>5, <1>7, <1>9, FileAssumption

\* Quotient and remainder are determined by p * q + r.
LEMMA DivisionIsUnique ==
  ASSUME NEW p \in Nat \ {0}, NEW q \in Int, NEW r \in Int, 0 <= r, r < p
  PROVE  (p * q + r) \div p = q /\ (p * q + r) % p = r
<1> DEFINE a == p * q + r
<1>1. a \in Int
  OBVIOUS
<1>2. PICK u \in Int, m \in Int : u = a \div p /\ m = a % p
  BY <1>1
<1>3. a = p * u + m /\ 0 <= m /\ m < p
  BY <1>1, <1>2
<1>4. p * (q - u) = m - r
  BY <1>3
<1>5. PICK d \in Int : d = q - u
  OBVIOUS
<1>6. p * d = m - r /\ -p < m - r /\ m - r < p
  BY <1>3, <1>4, <1>5
<1>7. d = 0
  <2>1. d >= 1 => p * d >= p
    OBVIOUS
  <2>2. d <= -1 => p * d <= -p
    OBVIOUS
  <2> QED
    BY <1>6, <2>1, <2>2
<1>8. q = u /\ m = r
  BY <1>5, <1>6, <1>7
<1> QED
  BY <1>2, <1>8

\* Division with remainder.
LEMMA Division ==
  ASSUME NEW a \in Int, NEW p \in Nat \ {0}
  PROVE  /\ a \div p \in Int /\ a % p \in Int
         /\ a = p * (a \div p) + (a % p) /\ 0 <= a % p /\ a % p < p
OBVIOUS

\* Division of a natural number by a product is division by one factor after the other.
LEMMA NestedDivision ==
  ASSUME NEW n \in Int, NEW a \in Nat \ {0}, NEW b \in Nat \ {0}
  PROVE  n \div (a * b) = (n \div a) \div b
<1>1. PICK q \in Int, r \in Int : q = n \div a /\ n = a * q + r /\ 0 <= r /\ r < a
  BY Division
<1>2. PICK u \in Int, v \in Int : u = q \div b /\ q = b * u + v /\ 0 <= v /\ v < b
  BY Division
<1>3. PICK m \in Int : m = a * v + r
  BY <1>1, <1>2
<1>4. PICK p \in Nat \ {0} : p = a * b
  <2>1. \A x, y \in Nat : x > 0 /\ y > 0 => x * y \in Nat /\ x * y > 0
    OBVIOUS
  <2> QED
    BY <2>1
<1>5. n = p * u + m
  <2>1. a * (b * u + v) = (a * b) * u + a * v
    BY <1>2
  <2>2. p * u = (a * b) * u /\ a * q = a * (b * u + v)
    BY <1>2, <1>4
  <2>3. n = ((a * b) * u + a * v) + r
    BY <1>1, <2>1, <2>2
  <2>4. \A x, y, z \in Int : (x + y) + z = x + (y + z)
    OBVIOUS
  <2> QED
    BY <1>1, <1>2, <1>3, <1>4, <2>2, <2>3, <2>4
<1>6. 0 <= m /\ m < p
  <2>1. \A x, y \in Int : 0 <= x /\ x <= y => a * x <= a * y /\ 0 <= a * x
    OBVIOUS
  <2>2. v <= b - 1 /\ b - 1 \in Int /\ a * (b - 1) = a * b - a
    BY <1>2
  <2>3. a * v <= a * b - a /\ 0 <= a * v
    BY <1>2, <2>1, <2>2
  <2> QED
    BY <1>1, <1>3, <1>4, <2>3
<1>7. n \div p = u
  BY <1>5, <1>6, DivisionIsUnique
<1> QED
  BY <1>1, <1>2, <1>4, <1>7

\* LittleEndian writes w bytes.
LEMMA LittleEndianType ==
  ASSUME NEW n \in Int, NEW w \in {2, 4}
  PROVE  /\ LittleEndian(n, w) \in Seq(Byte)
         /\ Len(LittleEndian(n, w)) = w
         /\ \A i \in 1..w : LittleEndian(n, w)[i] = (n \div BYTE^(i - 1)) % BYTE
<1>1. ASSUME NEW i \in 1..w PROVE (n \div BYTE^(i - 1)) % BYTE \in Byte
  <2>1. i - 1 \in 0..3
    OBVIOUS
  <2>2. BYTE^(i - 1) \in Nat \ {0}
    <3>1. BYTE * SHORT \in Nat \ {0}
      <4>1. \A x, y \in Nat : x > 0 /\ y > 0 => x * y \in Nat /\ x * y > 0
        OBVIOUS
      <4> QED
        BY <4>1, Bases
    <3>2. i - 1 = 0 \/ i - 1 = 1 \/ i - 1 = 2 \/ i - 1 = 3
      BY <2>1
    <3> QED
      BY <3>1, <3>2, Bases
  <2>3. PICK q \in Int : q = n \div BYTE^(i - 1)
    BY <2>2, Division
  <2>4. BYTE \in Nat \ {0}
    BY Bases
  <2>5. q % BYTE \in Int /\ 0 <= q % BYTE /\ q % BYTE < BYTE
    BY <2>4, Division
  <2> QED
    BY <2>3, <2>4, <2>5 DEF Byte
<1>2. LittleEndian(n, w) \in [1..w -> Byte]
  BY <1>1 DEF LittleEndian
<1>3. w \in Nat
  OBVIOUS
<1> QED
  BY <1>2, <1>3 DEF LittleEndian

\* The two bytes of n give n back.
LEMMA TwoDigits ==
  ASSUME NEW n \in 0..(SHORT - 1), NEW t, t = LittleEndian(n, 2)
  PROVE  t[1] \in Byte /\ t[2] \in Byte /\ t[1] + BYTE * t[2] = n
<1>1. PICK b \in Nat \ {0} : b = BYTE /\ b * b = SHORT
  BY Bases DEF SHORT
<1>2. PICK q \in Int, r \in Int : q = n \div b /\ r = n % b /\ n = b * q + r /\ 0 <= r /\ r < b
  BY <1>1, Bases, Division
<1>3. 0 <= q /\ q < b
  <2>1. n \in Int /\ 0 <= n /\ n < b * b
    BY <1>1, Bases
  <2>2. q >= b => b * q >= b * b
    OBVIOUS
  <2>3. q <= -1 => b * q <= -b
    OBVIOUS
  <2> QED
    BY <1>2, <2>1, <2>2, <2>3
<1>4. q % b = q
  <2>1. b * 0 + q = q
    BY <1>2
  <2> QED
    BY <1>3, <2>1, DivisionIsUnique
<1>5. t[1] = (n \div BYTE^0) % BYTE /\ t[2] = (n \div BYTE^1) % BYTE
  <2>1. n \in Int
    BY Bases
  <2>2. 1 \in 1..2 /\ 2 \in 1..2 /\ 1 - 1 = 0 /\ 2 - 1 = 1
    OBVIOUS
  <2> QED
    BY <2>1, <2>2, LittleEndianType
<1>6. n \div 1 = n
  BY Bases
<1>7. t[1] = r /\ t[2] = q
  BY <1>1, <1>2, <1>4, <1>5, <1>6, Bases
<1>8. r \in Byte /\ q \in Byte
  BY <1>1, <1>2, <1>3 DEF Byte
<1>9. r + BYTE * q = n
  BY <1>1, <1>2
<1> QED
  BY <1>7, <1>8, <1>9

\* So do four.
LEMMA FourDigits ==
  ASSUME NEW n \in 0..(INT - 1), NEW t, t = LittleEndian(n, 4)
  PROVE  /\ \A i \in 1..4 : t[i] \in Byte
         /\ (t[1] + BYTE * t[2]) + SHORT * (t[3] + BYTE * t[4]) = n
<1>1. PICK b \in Nat \ {0} : b = BYTE /\ b * b = SHORT
  BY Bases DEF SHORT
<1> DEFINE low == n % SHORT
           high == n \div SHORT
<1>2. n \in Int /\ SHORT \in Nat \ {0}
  BY Bases
<1>3. low \in 0..(SHORT - 1) /\ high \in 0..(SHORT - 1) /\ n = SHORT * high + low
  <2>1. PICK s \in Nat \ {0} : s = SHORT /\ s * s = INT
    BY <1>2 DEF INT
  <2>2. PICK q \in Int, r \in Int :
          q = high /\ r = low /\ n = s * q + r /\ 0 <= r /\ r < s
    BY <1>2, <2>1, Division
  <2>3. 0 <= n /\ n < s * s
    BY <2>1, Bases
  <2>4. q >= s => s * q >= s * s
    OBVIOUS
  <2>5. q <= -1 => s * q <= -s
    OBVIOUS
  <2>6. 0 <= q /\ q < s
    BY <1>2, <2>2, <2>3, <2>4, <2>5
  <2> QED
    BY <2>1, <2>2, <2>6
<1> HIDE DEF low, high
<1>4. /\ t \in Seq(Byte) /\ Len(t) = 4
      /\ \A i \in 1..4 : t[i] = (n \div BYTE^(i - 1)) % BYTE
  BY <1>2, LittleEndianType
<1>5. \A i \in 1..4 : t[i] \in Byte
  BY <1>4, ElementOfSeq
<1>6. t[3] = LittleEndian(high, 2)[1] /\ t[4] = LittleEndian(high, 2)[2]
  <2>1. /\ 3 \in 1..4 /\ 3 - 1 = 2 /\ 4 \in 1..4 /\ 4 - 1 = 3
        /\ 1 \in 1..2 /\ 1 - 1 = 0 /\ 2 \in 1..2 /\ 2 - 1 = 1
    OBVIOUS
  <2>2. high \in Int
    BY <1>3, Bases
  <2>3. /\ LittleEndian(high, 2)[1] = (high \div BYTE^0) % BYTE
        /\ LittleEndian(high, 2)[2] = (high \div BYTE^1) % BYTE
    BY <2>1, <2>2, LittleEndianType
  <2>4. t[3] = (n \div BYTE^2) % BYTE /\ t[4] = (n \div BYTE^3) % BYTE
    BY <1>4, <2>1
  <2>5. high \div 1 = high
    BY <2>2
  <2>6. n \div (SHORT * BYTE) = high \div BYTE /\ n \div SHORT = high
    BY <1>1, <1>2, NestedDivision DEF high
  <2>7. BYTE * SHORT = SHORT * BYTE
    BY Bases
  <2> QED
    BY <2>3, <2>4, <2>5, <2>6, <2>7, Bases
<1>7. t[1] = LittleEndian(low, 2)[1] /\ t[2] = LittleEndian(low, 2)[2]
  <2>1. /\ 1 \in 1..4 /\ 1 - 1 = 0 /\ 2 \in 1..4 /\ 2 - 1 = 1
        /\ 1 \in 1..2 /\ 2 \in 1..2
    OBVIOUS
  <2>2. low \in Int
    BY <1>3, Bases
  <2>3. /\ LittleEndian(low, 2)[1] = (low \div BYTE^0) % BYTE
        /\ LittleEndian(low, 2)[2] = (low \div BYTE^1) % BYTE
    BY <2>1, <2>2, LittleEndianType
  <2>4. t[1] = (n \div BYTE^0) % BYTE /\ t[2] = (n \div BYTE^1) % BYTE
    BY <1>4, <2>1
  <2>5. low \div 1 = low /\ n \div 1 = n
    BY <1>2, <2>2
  <2>6. PICK q \in Int, r \in Int : low = b * q + r /\ 0 <= r /\ r < b
    BY <2>2, Division
  <2>7. PICK k \in Int : k = b * high + q
    BY <1>3, <2>6, Bases
  <2>8. n = b * k + r
    <3>1. PICK h \in Int : h = high
      BY <1>3, Bases
    <3>2. b * (b * h + q) = (b * b) * h + b * q
      BY <2>6
    <3> QED
      BY <1>1, <1>3, <2>6, <2>7, <3>1, <3>2
  <2>9. n % b = r /\ low % b = r /\ n \div b = k /\ low \div b = q
    BY <2>6, <2>8, DivisionIsUnique
  <2>10. k % b = q % b
    <3>1. PICK u \in Int, v \in Int : q = b * u + v /\ 0 <= v /\ v < b
      BY <2>6, Division
    <3>2. PICK h \in Int : h = high
      BY <1>3, Bases
    <3>3. PICK w \in Int : w = h + u
      BY <3>1
    <3>4. k = b * w + v
      <4>1. b * (h + u) = b * h + b * u
        BY <3>1
      <4> QED
        BY <2>7, <3>1, <3>2, <3>3, <4>1
    <3> QED
      BY <3>1, <3>4, DivisionIsUnique
  <2> QED
    BY <1>1, <2>3, <2>4, <2>5, <2>9, <2>10, Bases
<1>8. t[1] + BYTE * t[2] = low /\ t[3] + BYTE * t[4] = high
  BY <1>3, <1>6, <1>7, TwoDigits
<1>9. low + SHORT * high = n
  BY <1>2, <1>3, Bases
<1> QED
  BY <1>5, <1>8, <1>9

-----------------------------------------------------------------------------
(* Reading them back.                                                      *)

\* READ_U16 reads the number that was written.
LEMMA ReadShort ==
  ASSUME NEW n \in 0..(SHORT - 1), NEW p, Holds(file.bytes, p, LittleEndian(n, 2))
  PROVE  READ_U16(p) = n
<1>1. n \in Int
  BY Bases
<1>2. PICK t : t = LittleEndian(n, 2)
  OBVIOUS
<1>3. Len(t) = 2
  BY <1>1, <1>2, LittleEndianType
<1>4. file.bytes[p + 1] = t[1] /\ file.bytes[p + 2] = t[2]
  BY <1>2, <1>3 DEF Holds
<1>5. t[1] + BYTE * t[2] = n
  BY <1>2, TwoDigits
<1> QED
  BY <1>4, <1>5 DEF READ_U16

\* READ_U32 reads the number that was written.
LEMMA ReadInt ==
  ASSUME NEW n \in 0..(INT - 1), NEW p, Holds(file.bytes, p, LittleEndian(n, 4))
  PROVE  READ_U32(p) = n
<1>1. n \in Int /\ p \in Nat
  BY Bases DEF Holds
<1>2. PICK t : t = LittleEndian(n, 4)
  OBVIOUS
<1>3. Len(t) = 4
  BY <1>1, <1>2, LittleEndianType
<1>4. /\ file.bytes[p + 1] = t[1] /\ file.bytes[p + 2] = t[2]
      /\ file.bytes[p + 3] = t[3] /\ file.bytes[p + 4] = t[4]
  BY <1>2, <1>3 DEF Holds
<1>5. (t[1] + BYTE * t[2]) + SHORT * (t[3] + BYTE * t[4]) = n
  BY <1>2, FourDigits
<1>6. (p + 2) + 1 = p + 3 /\ (p + 2) + 2 = p + 4
  BY <1>1
<1> QED
  BY <1>4, <1>5, <1>6 DEF READ_U32, READ_U16

\* A remainder, from any way to write the number.
LEMMA RemainderIs ==
  ASSUME NEW p \in Nat \ {0}, NEW q \in Int, NEW r \in Int, NEW a \in Int,
         a = p * q + r, 0 <= r, r < p
  PROVE  a % p = r
BY DivisionIsUnique

\* Int32 is the int32_t that the four bytes of a number stand for.
LEMMA Wrapped ==
  ASSUME NEW n \in Int
  PROVE  /\ n % INT \in 0..(INT - 1)
         /\ Int32(n) \in Int
         /\ Int32(n) = IF n % INT < INT \div 2 THEN n % INT ELSE (n % INT) - INT
         /\ Int32(n) % INT = n % INT
<1>1. PICK m \in Nat \ {0}, h \in Nat : m = INT /\ h = INT \div 2 /\ m = 2 * h
  BY Bases
<1>2. PICK q \in Int, r \in Int : r = n % m /\ n = m * q + r /\ 0 <= r /\ r < m
  BY Division
<1>3. CASE r < h
  <2>1. n + h = m * q + (r + h) /\ 0 <= r + h /\ r + h < m /\ r + h \in Int
    BY <1>1, <1>2, <1>3
  <2>2. (n + h) % m = r + h
    BY <2>1, DivisionIsUnique
  <2>3. Int32(n) = r
    <3>1. (r + h) - h = r
      OBVIOUS
    <3> QED
      BY <1>1, <2>2, <3>1 DEF Int32
  <2>4. r % m = r
    <3>1. PICK z \in Int : z = 0
      OBVIOUS
    <3>2. r = m * z + r
      BY <3>1
    <3> QED
      BY ONLY <1>1, <1>2, <3>1, <3>2, RemainderIs
  <2> QED
    BY <1>1, <1>2, <1>3, <2>3, <2>4
<1>4. CASE ~(r < h)
  <2>1. PICK k \in Int : k = q + 1
    OBVIOUS
  <2>2. m * (q + 1) = m * q + m
    OBVIOUS
  <2>3. n + h = m * k + (r - h) /\ 0 <= r - h /\ r - h < m /\ r - h \in Int
    BY <1>1, <1>2, <1>4, <2>1, <2>2
  <2>4. (n + h) % m = r - h
    BY <2>3, DivisionIsUnique
  <2>5. Int32(n) = r - m
    <3>1. (r - h) - h = r - m
      BY <1>1
    <3> QED
      BY <1>1, <2>4, <3>1 DEF Int32
  <2>6. (r - m) % m = r
    <3>1. PICK z \in Int, x \in Int : z = -1 /\ x = r - m
      OBVIOUS
    <3>2. x = m * z + r
      BY <3>1
    <3>3. x % m = r
      BY ONLY <1>1, <1>2, <3>1, <3>2, RemainderIs
    <3> QED
      BY <3>1, <3>3
  <2> QED
    BY <1>1, <1>2, <1>4, <2>5, <2>6
<1> QED
  BY <1>3, <1>4

\* READ_I32 reads a number that was written modulo 2^32.
LEMMA ReadSigned ==
  ASSUME NEW n \in Int, NEW p, Holds(file.bytes, p, LittleEndian(n % INT, 4))
  PROVE  READ_I32(p) = Int32(n)
BY Wrapped, ReadInt DEF READ_I32

-----------------------------------------------------------------------------
(* Instructions as bytes.                                                  *)

UnitsOf(inst) == [i \in DOMAIN inst.operands |-> inst.operands[i].unit]

\* The instructions that a compiler or a reader can make.
Program == {inst \in Instruction : UnitsOf(inst) = operandDictionary(inst.op)}

\* FileAssumption, about what the compiler emits.
LEMMA EmittedInstructions == Insts \cup Patches \subseteq Program
BY FileAssumption DEF Program, UnitsOf

\* The machine expects the operands that the compiler writes.
LEMMA UnitsOfOpcodes ==
  \A op : /\ operandDictionary(op) \in {<<>>, <<"int">>, <<"double">>, <<"short">>,
                                        <<"short", "short">>}
          /\ operandDictionary(op) = <<"double">> <=> op = "LD_DOUBLE"
          /\ InstUnits(op) = operandDictionary(op)
<1> TAKE op
<1>1. InstUnits(op) = operandDictionary(op)
  BY DEF operandDictionary, InstUnits
<1>2. operandDictionary(op) \in {<<>>, <<"int">>, <<"double">>, <<"short">>,
                                 <<"short", "short">>}
  BY DEF operandDictionary
<1>3. <<"int">> # <<"double">> /\ <<"short">> # <<"double">>
      /\ <<>> # <<"double">> /\ <<"short", "short">> # <<"double">>
  OBVIOUS
<1>4. CASE op = "LD_DOUBLE"
  BY <1>1, <1>2, <1>4 DEF operandDictionary
<1>5. CASE op # "LD_DOUBLE"
  BY <1>1, <1>2, <1>3, <1>5 DEF operandDictionary
<1> QED
  BY <1>4, <1>5

\* Neither a NOP nor what becomes of it has operands.
LEMMA NoUnits == operandDictionary("NOP") = <<>> /\ operandDictionary("NULL") = <<>>
BY DEF operandDictionary

\* WidthOf, of at most two operands, is the sum of their widths.
LEMMA WidthOfIsSum ==
  ASSUME NEW S, DOMAIN S \in {{}, {1}, {1, 2}}
  PROVE  WidthOf(S) = TwoSum([i \in DOMAIN S |-> Width(S[i])], 0)
<1> DEFINE v == [i \in DOMAIN S |-> Width(S[i])]
           G(f) == [s \in SUBSET DOMAIN S |->
                     IF s = {} THEN 0 ELSE f[s \ {Max(s)}] + Width(S[Max(s)])]
           F(f) == [s \in SUBSET DOMAIN v |-> IF s = {} THEN 0 ELSE f[s \ {Max(s)}] + v[Max(s)]]
           f == CHOOSE f : f = G(f)
<1>1. ASSUME NEW s \in SUBSET DOMAIN S, s # {} PROVE Max(s) \in DOMAIN S
  <2>1. s = {1} \/ s = {2} \/ s = {1, 2}
    BY <1>1
  <2> QED
    BY <1>1, <2>1, Largest
<1>2. ASSUME NEW h PROVE F(h) = G(h)
  BY <1>1
<1>3. \E h : h = G(h)
  <2>1. IsFold(TwoFold(v, 0), v, 0)
    <3>1. DOMAIN v \in {{}, {1}, {1, 2}}
      OBVIOUS
    <3> HIDE DEF v
    <3> QED
      BY <3>1, FoldOfTwo
  <2>2. TwoFold(v, 0) = F(TwoFold(v, 0))
    BY <2>1 DEF IsFold
  <2> QED
    BY <2>2, <1>2
<1>4. f = G(f)
  <2> HIDE DEF G
  <2> QED
    BY <1>3, Zenon
<1>5. WidthOf(S) = f[DOMAIN S]
  BY DEF WidthOf, FoldLeft, MapThenFoldSet
<1> HIDE DEF f
<1>6. IsFold(f, v, 0)
  BY <1>2, <1>4 DEF IsFold
<1>7. DOMAIN v = DOMAIN S
  OBVIOUS
<1> HIDE DEF v
<1> QED
  BY <1>5, <1>6, <1>7, FoldOfTwo DEF v

\* TwoSum, case by case.
LEMMA TwoSums ==
  \A v, n : /\ DOMAIN v = {} => TwoSum(v, n) = n
            /\ DOMAIN v = {1} => TwoSum(v, n) = n + v[1]
            /\ DOMAIN v = {1, 2} => TwoSum(v, n) = (n + v[1]) + v[2]
<1> SUFFICES ASSUME NEW v, NEW n
             PROVE  /\ DOMAIN v = {} => TwoSum(v, n) = n
                    /\ DOMAIN v = {1} => TwoSum(v, n) = n + v[1]
                    /\ DOMAIN v = {1, 2} => TwoSum(v, n) = (n + v[1]) + v[2]
  OBVIOUS
<1> QED
  BY SubsetsOfTwo DEF TwoSum

\* An operand takes the width of its unit.
LEMMA OperandLayout ==
  ASSUME NEW x \in Operand
  PROVE  /\ x.unit \in {"short", "int", "double"}
         /\ OperandBytes(x) \in Seq(Byte)
         /\ Len(OperandBytes(x)) = Width(x.unit)
         /\ x.unit \in {"short", "int"} => x.value \in Int
         /\ x.unit = "double" => x.value \in Seq(Byte) /\ Len(x.value) = 8
<1>1. CASE x \in [unit : {"short", "int"}, value : Int]
  <2>1. x.unit \in {"short", "int"} /\ x.value \in Int
    BY <1>1
  <2>2. CASE x.unit = "short"
    BY <2>1, <2>2, LittleEndianType DEF OperandBytes, Width
  <2>3. CASE x.unit = "int"
    <3>1. x.value % INT \in Int
      BY <2>1, Wrapped, Bases
    <3>2. LittleEndian(x.value % INT, 4) \in Seq(Byte)
          /\ Len(LittleEndian(x.value % INT, 4)) = 4
      BY <3>1, LittleEndianType
    <3>3. OperandBytes(x) = LittleEndian(x.value % INT, 4) /\ Width(x.unit) = 4
      BY <2>3 DEF OperandBytes, Width
    <3> QED
      BY <2>1, <2>3, <3>2, <3>3
  <2>4. x.unit = "short" \/ x.unit = "int"
    BY <2>1
  <2> QED
    BY ONLY <2>2, <2>3, <2>4
<1>2. CASE x \in [unit : {"double"}, value : [1..8 -> 0..(BYTE - 1)]]
  <2>1. x.unit = "double" /\ x.value \in [1..8 -> Byte]
    BY <1>2 DEF Byte
  <2>2. x.value \in Seq(Byte) /\ Len(x.value) = 8
    <3>1. PICK n \in Nat : n = 8
      OBVIOUS
    <3>2. PICK y \in [1..n -> Byte] : y = x.value
      BY <2>1, <3>1
    <3>3. y \in Seq(Byte) /\ Len(y) = n
      BY FunctionIsSeq
    <3> QED
      BY <3>1, <3>2, <3>3
  <2> QED
    BY <2>1, <2>2 DEF OperandBytes, Width
<1> QED
  BY <1>1, <1>2 DEF Operand

\* An instruction has as many operands as its opcode says, two only if both are shorts.
LEMMA Shape ==
  ASSUME NEW inst \in Program
  PROVE  /\ inst.op \in ToSet(Opcodes) /\ inst.operands \in Seq(Operand)
         /\ DOMAIN inst.operands = DOMAIN operandDictionary(inst.op)
         /\ DOMAIN inst.operands \in {{}, {1}, {1, 2}}
         /\ \A i \in DOMAIN inst.operands :
              /\ inst.operands[i] \in Operand
              /\ inst.operands[i].unit = operandDictionary(inst.op)[i]
         /\ DOMAIN inst.operands = {1, 2} =>
              inst.operands[1].unit = "short" /\ inst.operands[2].unit = "short"
         /\ DOMAIN inst.operands = 1..Len(inst.operands)
         /\ Len(inst.operands) \in 0..2
<1> DEFINE units == operandDictionary(inst.op)
<1>1. inst.op \in ToSet(Opcodes) /\ inst.operands \in Seq(Operand) /\ UnitsOf(inst) = units
  BY DEF Program, Instruction
<1>2. DOMAIN inst.operands = DOMAIN units
  BY <1>1 DEF UnitsOf
<1>3. /\ DOMAIN units \in {{}, {1}, {1, 2}}
      /\ DOMAIN units = {1, 2} => units[1] = "short" /\ units[2] = "short"
  <2>1. units \in {<<>>, <<"int">>, <<"double">>, <<"short">>, <<"short", "short">>}
    BY UnitsOfOpcodes
  <2>2. \A u : u = <<>> => DOMAIN u = {}
    OBVIOUS
  <2>3. \A u : u = <<"int">> \/ u = <<"double">> \/ u = <<"short">> => DOMAIN u = {1}
    OBVIOUS
  <2>4. \A u : u = <<"short", "short">> =>
          DOMAIN u = {1, 2} /\ u[1] = "short" /\ u[2] = "short"
    OBVIOUS
  <2>5. {1, 2} # {1} /\ {1, 2} # {}
    OBVIOUS
  <2> HIDE DEF units
  <2> QED
    BY <2>1, <2>2, <2>3, <2>4, <2>5
<1> HIDE DEF units
<1>4. /\ DOMAIN inst.operands = 1..Len(inst.operands) /\ Len(inst.operands) \in Nat
      /\ \A i \in DOMAIN inst.operands : inst.operands[i] \in Operand
  BY <1>1, LenProperties, ElementOfSeq
<1>5. \A i \in DOMAIN inst.operands : inst.operands[i].unit = units[i]
  <2>1. \A i \in DOMAIN inst.operands : UnitsOf(inst)[i] = inst.operands[i].unit
    BY DEF UnitsOf
  <2> QED
    BY <1>1, <2>1
<1>6. Len(inst.operands) \in 0..2
  <2>1. \A d : d \in {{}, {1}, {1, 2}} => 3 \notin d
    OBVIOUS
  <2>2. 3 \notin DOMAIN inst.operands
    <3>1. DOMAIN inst.operands \in {{}, {1}, {1, 2}}
      BY <1>2, <1>3
    <3> QED
      BY ONLY <2>1, <3>1
  <2>3. \A n \in Nat : 3 \notin 1..n => n \in 0..2
    OBVIOUS
  <2> QED
    BY <1>4, <2>2, <2>3
<1>7. DOMAIN inst.operands = {1, 2} =>
        inst.operands[1].unit = "short" /\ inst.operands[2].unit = "short"
  BY <1>2, <1>3, <1>5
<1> QED
  BY <1>1, <1>2, <1>3, <1>4, <1>5, <1>6, <1>7 DEF units

OperandSeqs(inst) == [i \in DOMAIN inst.operands |-> OperandBytes(inst.operands[i])]

\* InstBytes, in the terms used here.
LEMMA InstBytesIs ==
  ASSUME NEW inst
  PROVE  InstBytes(inst) = <<Place(inst.op) - 1>> \o FlattenSeq(OperandSeqs(inst))
BY DEF InstBytes, Place, OperandSeqs

\* What an instruction looks like in the file: the opcode, then the operands.
LEMMA InstLayout ==
  ASSUME NEW inst \in Program
  PROVE  /\ InstBytes(inst) \in Seq(Byte)
         /\ InstBytes(inst)[1] = Place(inst.op) - 1
         /\ Len(InstBytes(inst)) = 1 + WidthOf(operandDictionary(inst.op))
         /\ WidthOf(operandDictionary(inst.op)) \in Nat
         /\ \A i \in DOMAIN inst.operands :
              Holds(InstBytes(inst), 1 + 2 * (i - 1), OperandBytes(inst.operands[i]))
         /\ \A n \in Nat : /\ Total(inst.operands, n) \in Nat
                            /\ Total(inst.operands, n) + 1 = n + Total(inst.operands, 1)
         /\ Total(inst.operands, 1) \in 1..5
         /\ inst.op = "NOP" => Total(inst.operands, 1) = 1
         /\ Len(InstBytes(inst)) = Total(inst.operands, 1)
                                   + IF inst.op = "LD_DOUBLE" THEN 4 ELSE 0
<1> DEFINE args == inst.operands
           obs == OperandSeqs(inst)
           flat == FlattenSeq(obs)
           k == Place(inst.op) - 1
           units == operandDictionary(inst.op)
<1>1. /\ inst.op \in ToSet(Opcodes) /\ args \in Seq(Operand)
      /\ DOMAIN args = DOMAIN units
      /\ DOMAIN args \in {{}, {1}, {1, 2}}
      /\ \A i \in DOMAIN args : args[i] \in Operand /\ args[i].unit = units[i]
      /\ DOMAIN args = {1, 2} => args[1].unit = "short" /\ args[2].unit = "short"
      /\ DOMAIN args = 1..Len(args) /\ Len(args) \in 0..2
  BY Shape
<1>2. k \in Byte
  <2>1. Place(inst.op) \in 1..53
    BY <1>1, PlaceOfOpcode
  <2> QED
    BY <2>1, Bases DEF Byte
<1>3. obs \in Seq(Seq(Byte)) /\ Len(obs) = Len(args)
      /\ \A i \in DOMAIN args : obs[i] = OperandBytes(args[i])
                                /\ Len(obs[i]) = Width(units[i])
  BY <1>1, OperandLayout DEF OperandSeqs
<1>4. flat \in Seq(Byte)
  BY <1>3, FlattenType
<1>5. <<k>> \in Seq(Byte) /\ Len(<<k>>) = 1 /\ <<k>>[1] = k
  BY <1>2
<1>6. InstBytes(inst) = <<k>> \o flat
  BY InstBytesIs
<1> HIDE DEF k, obs, flat
<1>7. /\ InstBytes(inst) \in Seq(Byte) /\ Len(InstBytes(inst)) = 1 + Len(flat)
      /\ InstBytes(inst)[1] = k /\ Len(flat) \in Nat
  BY <1>4, <1>5, <1>6, ConcatProperties, LenProperties
<1>8. /\ Before(obs, 0) = 0 /\ Before(obs, Len(args)) = Len(flat)
      /\ \A n \in 1..Len(args) : /\ Len(obs[n]) \in Nat
                                 /\ Before(obs, n) = Before(obs, n - 1) + Len(obs[n])
  BY <1>3, BeforeSteps DEF flat
<1>9. ASSUME NEW i \in DOMAIN args PROVE Before(obs, i - 1) = 2 * (i - 1)
  <2>1. CASE i = 1
    BY <1>8, <2>1
  <2>2. CASE i = 2
    <3>1. DOMAIN args = {1, 2}
      BY <1>1, <2>2
    <3>2. Len(obs[1]) = 2
      BY <1>1, <1>3, <3>1 DEF Width
    <3>3. 1 \in 1..Len(args) /\ 1 - 1 = 0 /\ 2 - 1 = 1
      BY <1>1, <3>1
    <3>4. Before(obs, 1) = 0 + 2
      BY <1>8, <3>2, <3>3
    <3> QED
      BY <2>2, <3>3, <3>4
  <2> QED
    BY <1>1, <2>1, <2>2
<1>10. ASSUME NEW i \in DOMAIN args
       PROVE  Holds(InstBytes(inst), 1 + 2 * (i - 1), OperandBytes(args[i]))
  <2>1. Holds(flat, 2 * (i - 1), OperandBytes(args[i])) /\ OperandBytes(args[i]) \in Seq(Byte)
    <3>1. i \in 1..Len(obs) /\ obs[i] = OperandBytes(args[i])
      BY <1>1, <1>3
    <3>2. Holds(flat, Before(obs, i - 1), obs[i])
      BY <1>3, <3>1, FlattenHolds DEF flat
    <3> QED
      BY <1>1, <1>9, <3>1, <3>2, OperandLayout
  <2>2. Holds(InstBytes(inst), 1, flat)
    BY <1>4, <1>5, <1>6, HoldsSecond
  <2> QED
    BY <1>4, <1>7, <2>1, <2>2, HoldsInside
<1> DEFINE widths == [i \in DOMAIN units |-> Width(units[i])]
           lengths == [i \in DOMAIN args |-> OperandLength(args[i])]
<1>11. WidthOf(units) = TwoSum(widths, 0) /\ \A n : Total(args, n) = TwoSum(lengths, n)
  <2>1. DOMAIN units \in {{}, {1}, {1, 2}}
    BY <1>1
  <2> HIDE DEF units
  <2>2. WidthOf(units) = TwoSum(widths, 0)
    BY <2>1, WidthOfIsSum
  <2>3. PICK S : S = args
    OBVIOUS
  <2>4. ASSUME NEW n
        PROVE  Total(S, n) = TwoSum([i \in DOMAIN S |-> OperandLength(S[i])], n)
    <3>1. DOMAIN S \in {{}, {1}, {1, 2}}
      BY <1>1, <2>3
    <3> QED
      BY <3>1, TotalIsSum
  <2> QED
    BY <2>2, <2>3, <2>4
<1>12. /\ DOMAIN widths = DOMAIN args /\ DOMAIN lengths = DOMAIN args
       /\ \A i \in DOMAIN args : /\ widths[i] = Width(args[i].unit)
                                 /\ lengths[i] = OperandLength(args[i])
                                 /\ Len(obs[i]) = Width(args[i].unit)
                                 /\ args[i].unit \in {"short", "int", "double"}
  BY <1>1, <1>3, OperandLayout
<1> DEFINE total == Total(args, 1)
           extra == IF inst.op = "LD_DOUBLE" THEN 4 ELSE 0
<1>13. inst.op = "LD_DOUBLE" <=> (DOMAIN args = {1} /\ args[1].unit = "double")
  <2>1. inst.op = "LD_DOUBLE" <=> units = <<"double">>
    BY UnitsOfOpcodes
  <2>2. units \in {<<>>, <<"int">>, <<"double">>, <<"short">>, <<"short", "short">>}
    BY UnitsOfOpcodes
  <2>3. units = <<"double">> <=> (DOMAIN units = {1} /\ units[1] = "double")
    <3> HIDE DEF units
    <3>1. \A u : u = <<"double">> => DOMAIN u = {1} /\ u[1] = "double"
      OBVIOUS
    <3>2. \A u : u = <<"int">> \/ u = <<"short">> => u[1] # "double"
      OBVIOUS
    <3>3. \A u : u = <<>> => 1 \notin DOMAIN u
      OBVIOUS
    <3>4. \A u : u = <<"short", "short">> => 2 \in DOMAIN u
      OBVIOUS
    <3>5. 2 \notin {1} /\ 1 \in {1}
      OBVIOUS
    <3> QED
      BY <2>2, <3>1, <3>2, <3>3, <3>4, <3>5
  <2> HIDE DEF units
  <2> QED
    BY <1>1, <2>1, <2>3
<1> HIDE DEF units, widths, lengths
<1>14. /\ Len(flat) = WidthOf(units)
       /\ \A n \in Nat : Total(args, n) \in Nat /\ Total(args, n) + 1 = n + total
       /\ total \in 1..5 /\ 1 + Len(flat) = total + extra
       /\ DOMAIN args = {} => total = 1
  <2>1. CASE DOMAIN args = {}
    <3>1. \A n : TwoSum(widths, n) = n /\ TwoSum(lengths, n) = n
      BY <1>12, <2>1 DEF TwoSum
    <3>2. Len(args) = 0
      BY <1>1, <2>1
    <3>3. extra = 0
      BY <1>13, <2>1
    <3> QED
      BY <1>8, <1>11, <2>1, <3>1, <3>2, <3>3
  <2>2. CASE DOMAIN args = {1}
    <3>1. 1 \in DOMAIN args /\ DOMAIN args # {} /\ {1} # {}
      BY <2>2
    <3>2. \A n : TwoSum(widths, n) = n + widths[1] /\ TwoSum(lengths, n) = n + lengths[1]
      BY <1>12, <2>2, TwoSums
    <3>3. Len(args) = 1
      BY <1>1, <2>2
    <3>4. Len(flat) = Width(args[1].unit)
      BY <1>8, <1>12, <3>1, <3>3
    <3>5. WidthOf(units) = Width(args[1].unit) /\ \A n \in Nat : Total(args, n) = n + OperandLength(args[1])
      BY <1>11, <1>12, <3>1, <3>2 DEF Width
    <3>6. /\ Width(args[1].unit) = OperandLength(args[1]) + extra
          /\ OperandLength(args[1]) \in {2, 4} /\ extra \in {0, 4}
      <4>1. CASE args[1].unit = "double"
        BY <1>13, <2>2, <4>1 DEF Width, OperandLength
      <4>2. CASE args[1].unit \in {"short", "int"}
        BY <1>13, <2>2, <4>2 DEF Width, OperandLength
      <4> QED
        BY <1>12, <3>1, <4>1, <4>2
    <3>7. PICK l \in {2, 4}, x \in {0, 4} : l = OperandLength(args[1]) /\ x = extra
      BY <3>6
    <3> HIDE DEF extra
    <3>8. total = 1 + l /\ \A n \in Nat : Total(args, n) = n + l
      BY <3>5, <3>7
    <3>9. Len(flat) = WidthOf(units) /\ Len(flat) = l + x
      BY <3>4, <3>5, <3>6, <3>7
    <3> HIDE DEF total
    <3>10. \A n \in Nat : Total(args, n) \in Nat /\ Total(args, n) + 1 = n + total
      BY <3>7, <3>8
    <3>11. total \in 1..5 /\ 1 + Len(flat) = total + extra
      BY <3>7, <3>8, <3>9
    <3> QED
      BY ONLY <3>1, <3>9, <3>10, <3>11
  <2>3. CASE DOMAIN args = {1, 2}
    <3>1. 1 \in DOMAIN args /\ 2 \in DOMAIN args /\ {1, 2} # {} /\ {1, 2} # {1}
      BY <2>3
    <3>2. /\ \A n : TwoSum(widths, n) = (n + widths[1]) + widths[2]
          /\ \A n : TwoSum(lengths, n) = (n + lengths[1]) + lengths[2]
      BY <1>12, <2>3, <3>1 DEF TwoSum
    <3>3. Len(args) = 2
      <4>1. PICK n \in 0..2 : n = Len(args) /\ DOMAIN args = 1..n
        BY <1>1
      <4>2. 2 \in 1..n
        BY <3>1, <4>1
      <4> QED
        BY ONLY <4>1, <4>2
    <3>4. /\ widths[1] = 2 /\ widths[2] = 2 /\ lengths[1] = 2 /\ lengths[2] = 2
          /\ Len(obs[1]) = 2 /\ Len(obs[2]) = 2
      BY <1>1, <1>12, <2>3, <3>1 DEF Width, OperandLength
    <3>5. Len(flat) = 4
      <4>1. 1 \in 1..Len(args) /\ 2 \in 1..Len(args) /\ 1 - 1 = 0 /\ 2 - 1 = 1
        BY <3>3
      <4>2. Before(obs, 1) = 0 + 2 /\ Before(obs, 2) = Before(obs, 1) + 2
        BY <1>8, <3>4, <4>1
      <4> QED
        BY <1>8, <3>3, <4>2
    <3>6. extra = 0
      BY <1>13, <2>3, <3>1
    <3> QED
      BY <1>11, <2>3, <3>1, <3>2, <3>4, <3>5, <3>6
  <2> QED
    BY <1>1, <2>1, <2>2, <2>3
<1>15. inst.op = "NOP" => DOMAIN args = {}
  <2>1. \A u : u = <<>> => DOMAIN u = {}
    OBVIOUS
  <2>2. inst.op = "NOP" => units = <<>>
    BY NoUnits DEF units
  <2> QED
    BY <1>1, <2>1, <2>2
<1> HIDE DEF total, extra
<1> QED
  BY <1>7, <1>10, <1>14, <1>15 DEF k, units, total, extra

-----------------------------------------------------------------------------
(* Instructions read back.                                                 *)

\* An instruction as a reader gets it: an integer literal is an int32_t.
NormalOperand(x) == IF x.unit = "int" THEN [x EXCEPT !.value = Int32(@)] ELSE x

Normal(inst) ==
  [op |-> inst.op,
   operands |-> [i \in DOMAIN inst.operands |-> NormalOperand(inst.operands[i])]]

\* A reader gets an operand of the same unit and the same bytes.
LEMMA NormalOperandKeeps ==
  ASSUME NEW x \in Operand
  PROVE  /\ NormalOperand(x) \in Operand
         /\ NormalOperand(x).unit = x.unit
         /\ OperandBytes(NormalOperand(x)) = OperandBytes(x)
         /\ NormalOperand(x) =
              [unit |-> x.unit,
               value |-> IF x.unit = "int" THEN Int32(x.value) ELSE x.value]
         /\ Unwritable(NormalOperand(x)) <=> Unwritable(x)
<1>1. CASE x.unit = "int"
  <2>1. x \in [unit : {"short", "int"}, value : Int]
    BY <1>1 DEF Operand
  <2>2. Int32(x.value) \in Int /\ Int32(x.value) % INT = x.value % INT
    BY <2>1, Wrapped
  <2>3. NormalOperand(x) = [unit |-> "int", value |-> Int32(x.value)]
    BY <1>1, <2>1 DEF NormalOperand
  <2>4. NormalOperand(x) \in Operand
    BY <2>2, <2>3 DEF Operand
  <2>5. OperandBytes(NormalOperand(x)) = OperandBytes(x)
    BY <1>1, <2>2, <2>3 DEF OperandBytes
  <2>6. Unwritable(NormalOperand(x)) <=> Unwritable(x)
    BY <1>1, <2>3 DEF Unwritable
  <2> QED
    BY <1>1, <2>3, <2>4, <2>5, <2>6
<1>2. CASE x.unit # "int"
  <2>1. x = [unit |-> x.unit, value |-> x.value]
    BY DEF Operand
  <2> QED
    BY <1>2, <2>1 DEF NormalOperand
<1> QED
  BY <1>1, <1>2

\* ... and an instruction of the same bytes.
LEMMA NormalKeeps ==
  ASSUME NEW inst \in Program
  PROVE  /\ Normal(inst) \in Program
         /\ InstBytes(Normal(inst)) = InstBytes(inst)
         /\ \A i \in DOMAIN inst.operands :
              Unwritable(Normal(inst).operands[i]) <=> Unwritable(inst.operands[i])
         /\ DOMAIN Normal(inst).operands = DOMAIN inst.operands
         /\ Normal(inst).op = inst.op
<1> DEFINE args == inst.operands
           new == Normal(inst)
<1>1. /\ inst.op \in ToSet(Opcodes) /\ DOMAIN args = 1..Len(args) /\ Len(args) \in 0..2
      /\ \A i \in DOMAIN args : args[i] \in Operand
  BY Shape
<1>2. /\ new.op = inst.op /\ DOMAIN new.operands = DOMAIN args
      /\ \A i \in DOMAIN args : new.operands[i] = NormalOperand(args[i])
      /\ new = [op |-> new.op, operands |-> new.operands]
  BY DEF Normal
<1>3. new.operands \in [1..Len(args) -> Operand] /\ Len(args) \in Nat
  BY <1>1, NormalOperandKeeps DEF Normal
<1>4. new.operands \in Seq(Operand)
  BY <1>3, SeqDef
<1> HIDE DEF new
<1>5. new \in Instruction
  BY <1>1, <1>2, <1>4 DEF Instruction
<1>6. UnitsOf(new) = UnitsOf(inst)
  BY <1>1, <1>2, NormalOperandKeeps DEF UnitsOf
<1>7. new \in Program
  BY <1>2, <1>5, <1>6 DEF Program
<1>8. OperandSeqs(new) = OperandSeqs(inst)
  BY <1>1, <1>2, NormalOperandKeeps DEF OperandSeqs
<1>9. InstBytes(new) = InstBytes(inst)
  BY <1>2, <1>8, InstBytesIs
<1>10. \A i \in DOMAIN args : Unwritable(new.operands[i]) <=> Unwritable(args[i])
  BY <1>1, <1>2, NormalOperandKeeps
<1> QED
  BY <1>2, <1>7, <1>9, <1>10 DEF new

WritableInst(inst) == \A i \in DOMAIN inst.operands : ~Unwritable(inst.operands[i])

\* Operands reads back each operand that was written.
LEMMA ReadOperand ==
  ASSUME file.bytes \in Seq(Byte), NEW x \in Operand, ~Unwritable(x), NEW q,
         Holds(file.bytes, q, OperandBytes(x))
  PROVE  [unit |-> x.unit,
          value |-> CASE x.unit = "short" -> READ_U16(q)
                      [] x.unit = "int" -> READ_I32(q)
                      [] x.unit = "double" -> SubSeq(file.bytes, q + 1, q + 8)]
         = NormalOperand(x)
<1>1. /\ x.unit \in {"short", "int", "double"}
      /\ x.unit \in {"short", "int"} => x.value \in Int
      /\ x.unit = "double" => x.value \in Seq(Byte) /\ Len(x.value) = 8
  BY OperandLayout
<1>2. NormalOperand(x) =
        [unit |-> x.unit, value |-> IF x.unit = "int" THEN Int32(x.value) ELSE x.value]
  BY NormalOperandKeeps
<1>3. CASE x.unit = "short"
  <2>1. x.value \in 0..(SHORT - 1) /\ OperandBytes(x) = LittleEndian(x.value, 2)
    BY <1>3 DEF Unwritable, OperandBytes
  <2>2. READ_U16(q) = x.value
    BY <2>1, ReadShort
  <2> QED
    BY <1>2, <1>3, <2>2
<1>4. CASE x.unit = "int"
  <2>1. x.value \in Int /\ OperandBytes(x) = LittleEndian(x.value % INT, 4)
    BY <1>1, <1>4 DEF OperandBytes
  <2>2. READ_I32(q) = Int32(x.value)
    BY <2>1, ReadSigned
  <2> QED
    BY <1>2, <1>4, <2>2
<1>5. CASE x.unit = "double"
  <2>1. OperandBytes(x) = x.value
    BY <1>5 DEF OperandBytes
  <2>2. SubSeq(file.bytes, q + 1, q + 8) = x.value
    BY <1>1, <1>5, <2>1, HoldsIsSubSeq
  <2> QED
    BY <1>2, <1>5, <2>2
<1> QED
  BY <1>1, <1>3, <1>4, <1>5

\* Both readers get the instruction that was written, the machine NULL for a NOP.
LEMMA ReadInstruction ==
  ASSUME file.bytes \in Seq(Byte), NEW inst \in Program, WritableInst(inst), NEW p,
         Holds(file.bytes, p, InstBytes(inst))
  PROVE  /\ file.bytes[p + 1] = Place(inst.op) - 1
         /\ Opcodes[file.bytes[p + 1] + 1] = inst.op
         /\ OpAt(p) = IF inst.op = "NOP" THEN "NULL" ELSE inst.op
         /\ Operands(operandDictionary(inst.op), p + 1) = Normal(inst).operands
<1> DEFINE args == inst.operands
           units == operandDictionary(inst.op)
<1>1. /\ inst.op \in ToSet(Opcodes)
      /\ DOMAIN args = DOMAIN units
      /\ \A i \in DOMAIN args : args[i] \in Operand /\ args[i].unit = units[i]
      /\ DOMAIN args = 1..Len(args) /\ Len(args) \in 0..2
  BY Shape
<1>2. /\ InstBytes(inst) \in Seq(Byte)
      /\ InstBytes(inst)[1] = Place(inst.op) - 1
      /\ Len(InstBytes(inst)) \in Nat /\ Len(InstBytes(inst)) >= 1
      /\ \A i \in DOMAIN args :
           Holds(InstBytes(inst), 1 + 2 * (i - 1), OperandBytes(args[i]))
  <2>1. /\ InstBytes(inst) \in Seq(Byte)
        /\ InstBytes(inst)[1] = Place(inst.op) - 1
        /\ \A i \in DOMAIN inst.operands :
             Holds(InstBytes(inst), 1 + 2 * (i - 1), OperandBytes(inst.operands[i]))
    BY InstLayout
  <2>2. /\ Len(InstBytes(inst)) = 1 + WidthOf(operandDictionary(inst.op))
        /\ WidthOf(operandDictionary(inst.op)) \in Nat
    BY InstLayout
  <2>3. Len(InstBytes(inst)) \in Nat /\ Len(InstBytes(inst)) >= 1
    BY <2>2
  <2> QED
    BY <2>1, <2>3
<1>3. p \in Nat /\ file.bytes[p + 1] = Place(inst.op) - 1
  BY <1>2 DEF Holds
<1>4. /\ Place(inst.op) \in 1..53 /\ Opcodes[Place(inst.op)] = inst.op
      /\ Place(inst.op) = 1 <=> inst.op = "NOP"
  BY <1>1, PlaceOfOpcode
<1>5. (Place(inst.op) - 1) + 1 = Place(inst.op)
  <2>1. PICK c \in 1..53 : c = Place(inst.op)
    BY <1>4
  <2>2. (c - 1) + 1 = c
    OBVIOUS
  <2> QED
    BY <2>1, <2>2
<1>6. OpAt(p) = IF inst.op = "NOP" THEN "NULL" ELSE inst.op
  <2>1. OpAt(p) = IF Place(inst.op) \in 2..Len(Opcode) THEN Opcode[Place(inst.op)] ELSE "NULL"
    BY <1>3, <1>5 DEF OpAt
  <2>2. PICK c \in 1..53 : c = Place(inst.op)
    BY <1>4
  <2>3. c \in 2..53 <=> c # 1
    OBVIOUS
  <2> QED
    BY <1>4, <2>1, <2>2, <2>3, OpcodesAre
<1>7. ASSUME NEW i \in DOMAIN args
      PROVE  [unit |-> units[i],
              value |-> LET q == p + 1 + 2 * (i - 1)
                        IN  CASE units[i] = "short" -> READ_U16(q)
                              [] units[i] = "int" -> READ_I32(q)
                              [] units[i] = "double" -> SubSeq(file.bytes, q + 1, q + 8)]
             = NormalOperand(args[i])
  <2>1. args[i] \in Operand /\ ~Unwritable(args[i]) /\ args[i].unit = units[i]
    BY <1>1 DEF WritableInst
  <2>2. OperandBytes(args[i]) \in Seq(Byte)
    BY <2>1, OperandLayout
  <2>3. i \in Nat
    BY <1>1
  <2>4. PICK q : q = p + 1 + 2 * (i - 1) /\ q = p + (1 + 2 * (i - 1))
    <3>1. \A a, b \in Nat : a + 1 + 2 * (b - 1) = a + (1 + 2 * (b - 1))
      OBVIOUS
    <3> QED
      BY <1>3, <2>3, <3>1
  <2>5. Holds(file.bytes, q, OperandBytes(args[i]))
    BY <1>2, <2>2, <2>4, HoldsInside
  <2> QED
    BY <2>1, <2>4, <2>5, ReadOperand
<1>8. Operands(units, p + 1) = [i \in DOMAIN args |-> NormalOperand(args[i])]
  BY <1>1, <1>7 DEF Operands
<1> QED
  BY <1>3, <1>4, <1>5, <1>6, <1>8 DEF Normal

-----------------------------------------------------------------------------
(* The sections of a module.                                               *)

OffsetBytes(os) == [i \in DOMAIN os |-> LittleEndian(os[i], 4)]

Pieces(is) == [i \in DOMAIN is |-> InstBytes(is[i])]

\* As many elements as an instruction counts in the length of the data section.
Counted(is) == [i \in DOMAIN is |-> [j \in 1..Total(is[i].operands, 1) |-> 0]]

OffsetsOf(ss) == [i \in DOMAIN ss |-> Before(ss, i - 1)]

TableLength(ss) == 8 + 4 * Len(ss) + Len(FlattenSeq(ss))

DataLength(is) == 8 + Len(FlattenSeq(Counted(is)))

Table(ss, os, n) ==
  LittleEndian(n, 4) \o LittleEndian(Len(ss), 4) \o FlattenSeq(OffsetBytes(os))
  \o FlattenSeq(ss)

Data(is, n) ==
  LittleEndian(n, 4) \o LittleEndian(Len(is), 4) \o FlattenSeq(Pieces(is))

\* TableBytes and DataBytes, of the current sections.
LEMMA SectionsAre ==
  TableBytes = Table(strings, offsets, tlength) /\ DataBytes = Data(insts, dlength)
BY DEF TableBytes, DataBytes, Table, Data, OffsetBytes, Pieces

\* Every instruction has its bytes, and counts one to five.
LEMMA PiecesType ==
  ASSUME NEW is \in Seq(Program)
  PROVE  /\ Pieces(is) \in Seq(Seq(Byte)) /\ Len(Pieces(is)) = Len(is)
         /\ \A i \in 1..Len(is) : Pieces(is)[i] = InstBytes(is[i])
         /\ Counted(is) \in Seq(Seq({0})) /\ Len(Counted(is)) = Len(is)
         /\ \A i \in 1..Len(is) : /\ Len(Counted(is)[i]) = Total(is[i].operands, 1)
                                  /\ Len(Counted(is)[i]) \in 1..5
<1>1. /\ Len(is) \in Nat /\ DOMAIN is = 1..Len(is)
      /\ \A i \in 1..Len(is) : is[i] \in Program
  BY LenProperties, ElementOfSeq
<1>2. Pieces(is) \in [1..Len(is) -> Seq(Byte)]
      /\ \A i \in 1..Len(is) : Pieces(is)[i] = InstBytes(is[i])
  BY <1>1, InstLayout DEF Pieces
<1>3. ASSUME NEW i \in 1..Len(is)
      PROVE  /\ Counted(is)[i] \in Seq({0})
             /\ Len(Counted(is)[i]) = Total(is[i].operands, 1)
             /\ Len(Counted(is)[i]) \in 1..5
  <2>1. PICK n \in 1..5 : n = Total(is[i].operands, 1)
    BY <1>1, InstLayout
  <2>2. PICK s : s = [j \in 1..n |-> 0]
    OBVIOUS
  <2>3. s \in Seq({0}) /\ Len(s) = n
    BY <2>2
  <2> QED
    BY <1>1, <2>1, <2>2, <2>3 DEF Counted
<1>4. Counted(is) \in [1..Len(is) -> Seq({0})]
  BY <1>1, <1>3 DEF Counted
<1>5. Pieces(is) \in Seq(Seq(Byte)) /\ Len(Pieces(is)) = Len(is)
  BY <1>1, <1>2 DEF Pieces
<1>6. Counted(is) \in Seq(Seq({0})) /\ Len(Counted(is)) = Len(is)
  BY <1>1, <1>4 DEF Counted
<1> QED
  BY <1>2, <1>3, <1>5, <1>6

\* Where the numbers, the offsets and the strings stand in a string table.
LEMMA TableLayout ==
  ASSUME NEW X, Byte \subseteq X, NEW ss \in Seq(Seq(X)),
         NEW os \in Seq(Int), Len(os) = Len(ss), NEW n \in Int,
         NEW s, s = Table(ss, os, n)
  PROVE  /\ s \in Seq(X) /\ Len(s) = TableLength(ss)
         /\ Holds(s, 0, LittleEndian(n, 4)) /\ Holds(s, 4, LittleEndian(Len(ss), 4))
         /\ \A i \in 1..Len(ss) :
              /\ Holds(s, 8 + 4 * (i - 1), LittleEndian(os[i], 4))
              /\ Holds(s, 8 + 4 * Len(ss) + Before(ss, i - 1), ss[i])
         /\ Holds(s, 8 + 4 * Len(ss), FlattenSeq(ss))
         /\ Len(FlattenSeq(ss)) \in Nat /\ Len(ss) \in Nat
<1> DEFINE ob == OffsetBytes(os)
           a == LittleEndian(n, 4)
           b == LittleEndian(Len(ss), 4)
           c == FlattenSeq(ob)
           d == FlattenSeq(ss)
<1>1. Len(ss) \in Nat /\ DOMAIN os = 1..Len(os) /\ \A i \in 1..Len(os) : os[i] \in Int
  BY LenProperties, ElementOfSeq
<1>2. \A t \in Seq(Byte) : t \in Seq(X)
  BY SeqMonotonic
<1>3. a \in Seq(Byte) /\ b \in Seq(Byte) /\ Len(a) = 4 /\ Len(b) = 4
  <2>1. Len(ss) \in Int /\ 4 \in {2, 4}
    BY <1>1
  <2> QED
    BY <2>1, LittleEndianType
<1>4. /\ ob \in Seq(Seq(Byte)) /\ Len(ob) = Len(ss)
      /\ \A i \in 1..Len(ss) : ob[i] = LittleEndian(os[i], 4) /\ Len(ob[i]) = 4
  <2>1. \A i \in 1..Len(ss) : LittleEndian(os[i], 4) \in Seq(Byte)
                              /\ Len(LittleEndian(os[i], 4)) = 4
    BY <1>1, LittleEndianType
  <2>2. ob = [i \in 1..Len(ss) |-> LittleEndian(os[i], 4)]
    BY <1>1 DEF OffsetBytes
  <2>3. ob \in [1..Len(ss) -> Seq(Byte)]
    BY <2>1, <2>2
  <2> HIDE DEF ob
  <2>4. ob \in Seq(Seq(Byte)) /\ Len(ob) = Len(ss)
    BY ONLY <1>1, <2>3, FunctionIsSeq
  <2> QED
    BY <2>1, <2>2, <2>4
<1> HIDE DEF ob
<1>5. c \in Seq(Byte) /\ d \in Seq(X) /\ Len(d) \in Nat
  BY <1>4, FlattenType, LenProperties
<1>6. PICK four \in Nat : four = 4
  OBVIOUS
<1>7. Before(ob, Len(ob)) = Len(c) /\ \A i \in 0..Len(ob) : Before(ob, i) = 4 * i
  <2>1. \A i \in 1..Len(ob) : Len(ob[i]) = four
    BY <1>4, <1>6
  <2>2. \A i \in 0..Len(ob) : Before(ob, i) = four * i
    BY <1>4, <2>1, BeforeEven
  <2> QED
    BY <1>4, <1>6, <2>2, BeforeSteps
<1>8. Len(c) = 4 * Len(ss)
  <2> HIDE DEF c
  <2>1. Len(ob) \in 0..Len(ob)
    BY <1>1, <1>4
  <2> QED
    BY ONLY <1>1, <1>4, <1>7, <2>1
<1>9. s = ((a \o b) \o c) \o d
  BY DEF Table, ob
<1> HIDE DEF a, b, c, d
<1>10. /\ s \in Seq(X) /\ Len(s) = Len(a) + Len(b) + Len(c) + Len(d)
       /\ Holds(s, 0, a) /\ Holds(s, Len(a), b) /\ Holds(s, Len(a) + Len(b), c)
       /\ Holds(s, Len(a) + Len(b) + Len(c), d)
  <2>1. a \in Seq(X) /\ b \in Seq(X) /\ c \in Seq(X)
    BY <1>2, <1>3, <1>5
  <2> QED
    BY <1>5, <1>9, <2>1, FourParts
<1>11. Len(s) = TableLength(ss) /\ Holds(s, 4, b) /\ Holds(s, 8, c)
       /\ Holds(s, 8 + 4 * Len(ss), d)
  <2>1. Len(a) + Len(b) = 8 /\ Len(a) + Len(b) + Len(c) = 8 + 4 * Len(ss)
    BY <1>1, <1>3, <1>8
  <2> QED
    BY <1>3, <1>10, <2>1 DEF TableLength, d
<1>12. ASSUME NEW i \in 1..Len(ss)
       PROVE  /\ Holds(s, 8 + 4 * (i - 1), LittleEndian(os[i], 4))
              /\ Holds(s, 8 + 4 * Len(ss) + Before(ss, i - 1), ss[i])
  <2>1. i - 1 \in 0..Len(ob) /\ i \in 1..Len(ob)
    BY <1>1, <1>4
  <2>2. Holds(c, 4 * (i - 1), ob[i]) /\ ob[i] \in Seq(X)
    <3>1. Holds(c, Before(ob, i - 1), ob[i])
      BY <1>4, <2>1, FlattenHolds DEF c
    <3>2. ob[i] \in Seq(Byte)
      BY <1>4, <2>1, ElementOfSeq
    <3> QED
      BY <1>2, <1>7, <2>1, <3>1, <3>2
  <2>3. Holds(d, Before(ss, i - 1), ss[i]) /\ ss[i] \in Seq(X)
    BY FlattenHolds, ElementOfSeq DEF d
  <2>4. c \in Seq(X)
    BY <1>2, <1>5
  <2>5. Holds(s, 8 + 4 * (i - 1), ob[i])
    BY <1>10, <1>11, <2>2, <2>4, HoldsInside
  <2>6. Holds(s, 8 + 4 * Len(ss) + Before(ss, i - 1), ss[i])
    BY <1>5, <1>10, <1>11, <2>3, HoldsInside
  <2> QED
    BY <1>4, <2>5, <2>6
<1> QED
  BY <1>1, <1>5, <1>10, <1>11, <1>12 DEF a, b, d

\* Where the numbers and the instructions stand in a data section.
LEMMA DataLayout ==
  ASSUME NEW is \in Seq(Program), NEW n \in Int, NEW s, s = Data(is, n)
  PROVE  /\ s \in Seq(Byte) /\ Len(s) = 8 + Len(FlattenSeq(Pieces(is)))
         /\ Holds(s, 0, LittleEndian(n, 4)) /\ Holds(s, 4, LittleEndian(Len(is), 4))
         /\ \A i \in 1..Len(is) : /\ Holds(s, 8 + Before(Pieces(is), i - 1), InstBytes(is[i]))
                                  /\ InstBytes(is[i]) \in Seq(Byte)
         /\ Len(FlattenSeq(Pieces(is))) \in Nat /\ Len(is) \in Nat
<1> DEFINE a == LittleEndian(n, 4)
           b == LittleEndian(Len(is), 4)
           c == FlattenSeq(Pieces(is))
<1>1. /\ Pieces(is) \in Seq(Seq(Byte)) /\ Len(Pieces(is)) = Len(is)
      /\ \A i \in 1..Len(is) : Pieces(is)[i] = InstBytes(is[i])
      /\ Len(is) \in Nat
  BY PiecesType, LenProperties
<1>2. a \in Seq(Byte) /\ b \in Seq(Byte) /\ Len(a) = 4 /\ Len(b) = 4
  <2>1. Len(is) \in Int /\ 4 \in {2, 4}
    BY <1>1
  <2> QED
    BY <2>1, LittleEndianType
<1>3. c \in Seq(Byte) /\ Len(c) \in Nat
  BY <1>1, FlattenType, LenProperties
<1>4. s = (a \o b) \o c
  BY DEF Data
<1>5. \A i \in 1..Len(is) : /\ Holds(c, Before(Pieces(is), i - 1), InstBytes(is[i]))
                            /\ InstBytes(is[i]) \in Seq(Byte)
  BY <1>1, FlattenHolds, ElementOfSeq
<1> HIDE DEF a, b, c
<1>6. /\ s \in Seq(Byte) /\ Len(s) = Len(a) + Len(b) + Len(c)
      /\ Holds(s, 0, a) /\ Holds(s, Len(a), b) /\ Holds(s, Len(a) + Len(b), c)
  BY <1>2, <1>3, <1>4, ThreeParts
<1>7. Len(s) = 8 + Len(c) /\ Holds(s, 4, b) /\ Holds(s, 8, c)
  <2>1. Len(a) + Len(b) = 8
    BY <1>2
  <2> QED
    BY <1>2, <1>3, <1>6, <2>1
<1>8. \A i \in 1..Len(is) : Holds(s, 8 + Before(Pieces(is), i - 1), InstBytes(is[i]))
  BY <1>3, <1>5, <1>6, <1>7, HoldsInside
<1> QED
  BY <1>1, <1>3, <1>5, <1>6, <1>7, <1>8 DEF a, b, c

\* Within the bounds, no length, count or offset exceeds a uint32_t.
LEMMA SizesFit ==
  ASSUME NEW ss \in Seq(Seq(Nat)), \A i \in 1..Len(ss) : Len(ss[i]) <= MaxLength,
         NEW is \in Seq(Program), Len(ss) + Len(is) <= MaxParts
  PROVE  /\ TableLength(ss) \in 0..(INT - 1) /\ DataLength(is) \in 0..(INT - 1)
         /\ Len(ss) \in 0..(INT - 1) /\ Len(is) \in 0..(INT - 1)
         /\ \A i \in 1..Len(ss) : Before(ss, i - 1) \in 0..(INT - 1)
<1>1. Len(ss) \in Nat /\ Len(is) \in Nat /\ MaxParts \in Nat /\ MaxLength \in Nat
  BY LenProperties, FileAssumption
<1>2. PICK l \in Nat, n \in Nat, m \in Nat, k \in Nat :
        l = MaxLength /\ n = MaxParts /\ m = Len(ss) /\ k = Len(is)
  BY <1>1
<1>3. /\ Before(ss, m) \in Nat /\ Before(ss, m) = Len(FlattenSeq(ss))
      /\ \A i \in 0..m : Before(ss, i) \in Nat /\ Before(ss, i) <= l * i
  <2>1. \A i \in 1..Len(ss) : Len(ss[i]) <= l
    BY <1>2
  <2>2. \A i \in 0..Len(ss) : Before(ss, i) <= l * i
    BY ONLY <2>1, BeforeBounded, ss \in Seq(Seq(Nat)), l \in Nat
  <2>3. Before(ss, Len(ss)) = Len(FlattenSeq(ss)) /\ \A i \in 0..Len(ss) : Before(ss, i) \in Nat
    BY ONLY BeforeSteps, ss \in Seq(Seq(Nat))
  <2>4. m \in 0..m
    OBVIOUS
  <2> QED
    BY ONLY <1>2, <2>2, <2>3, <2>4
<1>4. Len(FlattenSeq(Counted(is))) \in Nat /\ Len(FlattenSeq(Counted(is))) <= 5 * k
  <2> DEFINE ct == Counted(is)
  <2>1. PICK five \in Nat : five = 5
    OBVIOUS
  <2>2. ct \in Seq(Seq({0})) /\ Len(ct) = Len(is) /\ \A i \in 1..Len(is) : Len(ct[i]) \in 1..5
    BY ONLY PiecesType, is \in Seq(Program)
  <2> HIDE DEF ct
  <2>3. \A i \in 1..Len(ct) : Len(ct[i]) <= five
    <3> TAKE i \in 1..Len(ct)
    <3>1. Len(ct[i]) \in 1..5
      BY ONLY <2>2, i \in 1..Len(ct)
    <3>2. PICK y \in 1..5 : y = Len(ct[i])
      BY ONLY <3>1
    <3>3. y <= five
      BY ONLY <2>1, y \in 1..5, five \in Nat
    <3> QED
      BY ONLY <3>2, <3>3
  <2>4. \A i \in 0..Len(ct) : Before(ct, i) <= five * i
    BY ONLY <2>2, <2>3, BeforeBounded, five \in Nat
  <2>5. Before(ct, Len(ct)) = Len(FlattenSeq(ct)) /\ \A i \in 0..Len(ct) : Before(ct, i) \in Nat
    BY ONLY <2>2, BeforeSteps
  <2>6. Len(ct) = k /\ k \in 0..k
    BY ONLY <1>2, <2>2
  <2>7. Len(FlattenSeq(ct)) \in Nat /\ Len(FlattenSeq(ct)) <= five * k
    BY ONLY <2>4, <2>5, <2>6
  <2> QED
    BY ONLY <2>1, <2>7 DEF ct
<1>5. n * (l + 8) = n * l + 8 * n
  OBVIOUS
<1>6. \A i \in 0..m : l * i <= n * l
  <2> TAKE i \in 0..m
  <2>1. i <= n
    BY <1>2
  <2>2. PICK d \in Nat : n = i + d
    BY <2>1
  <2>3. (i + d) * l = l * i + d * l /\ d * l >= 0
    OBVIOUS
  <2> QED
    BY <2>2, <2>3
<1>7. PICK p \in Nat : p = n * l
  OBVIOUS
<1>8. 8 + (p + 8 * n) < INT /\ INT \in Nat
  BY <1>2, <1>5, <1>7, Bases
<1>9. m + k <= n
  BY <1>2
<1>10. \A i \in 0..m : Before(ss, i) \in Nat /\ Before(ss, i) <= p
  <2> TAKE i \in 0..m
  <2>1. PICK x \in Int : x = l * i
    BY l \in Nat, i \in Int
  <2>2. x <= p
    BY <1>6, <1>7, <2>1
  <2>3. PICK y : y = Before(ss, i)
    OBVIOUS
  <2>4. y \in Nat /\ y <= x
    BY <1>3, <2>1, <2>3
  <2>5. y <= p
    BY ONLY <2>2, <2>4, x \in Int, p \in Nat
  <2> QED
    BY <2>3, <2>4, <2>5
<1>11. TableLength(ss) \in 0..(INT - 1)
  <2>1. PICK y : y = Len(FlattenSeq(ss))
    OBVIOUS
  <2>2. y \in Nat /\ y <= p
    <3>1. m \in 0..m
      OBVIOUS
    <3> QED
      BY <1>3, <1>10, <2>1, <3>1
  <2>3. 8 + 4 * m + y \in 0..(INT - 1)
    BY ONLY <1>8, <1>9, <2>2, m \in Nat, k \in Nat, n \in Nat, p \in Nat
  <2> QED
    BY ONLY <1>2, <2>1, <2>3 DEF TableLength
<1>12. DataLength(is) \in 0..(INT - 1)
  BY <1>4, <1>8, <1>9 DEF DataLength
<1>13. Len(ss) \in 0..(INT - 1) /\ Len(is) \in 0..(INT - 1)
  BY <1>2, <1>8, <1>9
<1>14. \A i \in 1..m : Before(ss, i - 1) \in 0..(INT - 1)
  <2> TAKE i \in 1..m
  <2>1. i - 1 \in 0..m
    OBVIOUS
  <2> QED
    BY <1>8, <1>10, <2>1
<1> QED
  BY <1>2, <1>11, <1>12, <1>13, <1>14

-----------------------------------------------------------------------------
(* What the compiler counts.                                               *)

\* The doubles among the first n instructions.
Doubles(is, n) == {i \in 1..n : is[i].op = "LD_DOUBLE"}

\* One more instruction is one more double, or not.
LEMMA DoublesSteps ==
  ASSUME NEW is, NEW n \in Nat, IsFiniteSet(Doubles(is, n)), Cardinality(Doubles(is, n)) \in Nat
  PROVE  /\ IsFiniteSet(Doubles(is, n + 1))
         /\ Cardinality(Doubles(is, n + 1)) =
              Cardinality(Doubles(is, n)) + IF is[n + 1].op = "LD_DOUBLE" THEN 1 ELSE 0
<1>1. CASE is[n + 1].op = "LD_DOUBLE"
  <2>1. Doubles(is, n + 1) = Doubles(is, n) \cup {n + 1} /\ n + 1 \notin Doubles(is, n)
    BY <1>1 DEF Doubles
  <2> QED
    BY <1>1, <2>1, FS_AddElement
<1>2. CASE is[n + 1].op # "LD_DOUBLE"
  <2>1. Doubles(is, n + 1) = Doubles(is, n)
    BY <1>2 DEF Doubles
  <2> QED
    BY <1>2, <2>1
<1> QED
  BY <1>1, <1>2

\* The bytes of the instructions against the length counted for them.
LEMMA DataAddsUp ==
  ASSUME NEW is \in Seq(Program)
  PROVE  /\ Len(FlattenSeq(Pieces(is))) =
              Len(FlattenSeq(Counted(is))) + 4 * Cardinality(Doubles(is, Len(is)))
         /\ Len(FlattenSeq(Counted(is))) \in Nat /\ Cardinality(Doubles(is, Len(is))) \in Nat
<1> DEFINE pc == Pieces(is)
           ct == Counted(is)
           N == {n \in Nat : n \in 0..Len(is) =>
                   /\ Before(pc, n) = Before(ct, n) + 4 * Cardinality(Doubles(is, n))
                   /\ IsFiniteSet(Doubles(is, n)) /\ Cardinality(Doubles(is, n)) \in Nat}
<1>1. /\ Len(is) \in Nat /\ pc \in Seq(Seq(Byte)) /\ Len(pc) = Len(is)
      /\ ct \in Seq(Seq({0})) /\ Len(ct) = Len(is)
      /\ \A i \in 1..Len(is) : /\ pc[i] = InstBytes(is[i])
                               /\ Len(ct[i]) = Total(is[i].operands, 1)
  BY PiecesType, LenProperties
<1>2. ASSUME NEW i \in 1..Len(is)
      PROVE  /\ Len(ct[i]) \in Nat /\ Len(pc[i]) \in Nat
             /\ Len(pc[i]) = Len(ct[i]) + IF is[i].op = "LD_DOUBLE" THEN 4 ELSE 0
  <2>1. is[i] \in Program
    BY ElementOfSeq
  <2>2. PICK inst \in Program : inst = is[i]
    BY <2>1
  <2>3. Len(InstBytes(inst)) = Total(inst.operands, 1) + (IF inst.op = "LD_DOUBLE" THEN 4 ELSE 0)
        /\ Total(inst.operands, 1) \in 1..5
    BY InstLayout
  <2>4. pc[i] = InstBytes(inst) /\ Len(ct[i]) = Total(inst.operands, 1)
    BY <1>1, <2>2
  <2> HIDE DEF pc, ct
  <2> QED
    BY ONLY <2>2, <2>3, <2>4
<1> HIDE DEF pc, ct
<1>3. 0 \in N
  <2>1. Doubles(is, 0) = {}
    BY DEF Doubles
  <2>2. Before(pc, 0) = 0 /\ Before(ct, 0) = 0
    BY <1>1, BeforeSteps
  <2>3. IsFiniteSet({}) /\ Cardinality({}) = 0
    BY FS_EmptySet
  <2>4. PICK c \in Nat : c = Cardinality({}) /\ c = 0
    BY <2>3
  <2>5. 0 = 0 + 4 * c
    BY <2>4
  <2> QED
    BY <2>1, <2>2, <2>3, <2>4, <2>5
<1>4. ASSUME NEW n \in Nat, n \in N PROVE n + 1 \in N
  <2> SUFFICES ASSUME n + 1 \in 0..Len(is)
               PROVE  /\ Before(pc, n + 1) = Before(ct, n + 1) + 4 * Cardinality(Doubles(is, n + 1))
                      /\ IsFiniteSet(Doubles(is, n + 1))
                      /\ Cardinality(Doubles(is, n + 1)) \in Nat
    OBVIOUS
  <2>1. n \in 0..Len(is) /\ n + 1 \in 1..Len(is) /\ (n + 1) - 1 = n
    BY <1>1
  <2>2. /\ Before(ct, n) \in Nat /\ Before(ct, n + 1) = Before(ct, n) + Len(ct[n + 1])
        /\ Before(pc, n) \in Nat /\ Before(pc, n + 1) = Before(pc, n) + Len(pc[n + 1])
    BY <1>1, <2>1, BeforeSteps
  <2>3. /\ Before(pc, n) = Before(ct, n) + 4 * Cardinality(Doubles(is, n))
        /\ IsFiniteSet(Doubles(is, n)) /\ Cardinality(Doubles(is, n)) \in Nat
    BY <1>4, <2>1
  <2>4. /\ IsFiniteSet(Doubles(is, n + 1))
        /\ Cardinality(Doubles(is, n + 1)) =
             Cardinality(Doubles(is, n)) + IF is[n + 1].op = "LD_DOUBLE" THEN 1 ELSE 0
    BY <2>3, DoublesSteps
  <2>5. /\ Len(ct[n + 1]) \in Nat
        /\ Len(pc[n + 1]) = Len(ct[n + 1]) + IF is[n + 1].op = "LD_DOUBLE" THEN 4 ELSE 0
    BY <1>2, <2>1
  <2>6. PICK a \in Nat, b \in Nat, c \in Nat, d \in Nat, e \in Nat :
          /\ a = Before(ct, n) /\ b = Len(ct[n + 1]) /\ c = Cardinality(Doubles(is, n))
          /\ d = (IF is[n + 1].op = "LD_DOUBLE" THEN 1 ELSE 0)
          /\ e = Len(pc[n + 1])
    <3>1. (IF is[n + 1].op = "LD_DOUBLE" THEN 1 ELSE 0) \in Nat
      OBVIOUS
    <3>2. Len(pc[n + 1]) \in Nat
      BY <1>2, <2>1
    <3> QED
      BY <2>2, <2>3, <2>5, <3>1, <3>2
  <2>7. e = b + 4 * d
    BY <2>5, <2>6
  <2>8. Before(pc, n + 1) = (a + 4 * c) + e /\ Before(ct, n + 1) = a + b
    BY <2>2, <2>3, <2>6
  <2>9. Cardinality(Doubles(is, n + 1)) = c + d
    BY <2>4, <2>6
  <2>10. (a + 4 * c) + e = (a + b) + 4 * (c + d)
    BY ONLY <2>7, a \in Nat, b \in Nat, c \in Nat, d \in Nat, e \in Nat
  <2>11. c + d \in Nat
    OBVIOUS
  <2> QED
    BY ONLY <2>4, <2>8, <2>9, <2>10, <2>11
<1> HIDE DEF N
<1>5. \A n \in Nat : n \in N
  BY <1>3, <1>4, NumberInduction
<1>6. /\ Before(pc, Len(is)) = Before(ct, Len(is)) + 4 * Cardinality(Doubles(is, Len(is)))
      /\ Cardinality(Doubles(is, Len(is))) \in Nat
  BY <1>1, <1>5 DEF N
<1>7. /\ Before(pc, Len(pc)) = Len(FlattenSeq(pc)) /\ Before(ct, Len(ct)) = Len(FlattenSeq(ct))
      /\ Before(ct, Len(ct)) \in Nat
  <2>1. Len(ct) \in 0..Len(ct)
    BY <1>1
  <2> QED
    BY <1>1, <2>1, BeforeSteps
<1> QED
  BY <1>1, <1>6, <1>7 DEF pc, ct

\* The strings that the bounds allow.
Word == {x \in Seq(Nat) : Len(x) <= MaxLength}

\* What is known of a sequence of them.
LEMMA Words ==
  ASSUME NEW ss \in Seq(Word)
  PROVE  /\ ss \in Seq(Seq(Nat)) /\ Len(ss) \in Nat /\ DOMAIN ss = 1..Len(ss)
         /\ \A i \in 1..Len(ss) : ss[i] \in Seq(Nat) /\ Len(ss[i]) <= MaxLength
<1>1. Word \subseteq Seq(Nat) /\ \A x \in Word : Len(x) <= MaxLength
  BY DEF Word
<1>2. ss \in Seq(Seq(Nat))
  BY <1>1, SeqMonotonic
<1>3. \A i \in 1..Len(ss) : ss[i] \in Word
  BY ElementOfSeq
<1> QED
  BY <1>1, <1>2, <1>3, LenProperties

\* The offset of a string is the length of those before it.
LEMMA OffsetsType ==
  ASSUME NEW ss \in Seq(Seq(Nat))
  PROVE  /\ OffsetsOf(ss) \in Seq(Nat) /\ Len(OffsetsOf(ss)) = Len(ss)
         /\ \A i \in 1..Len(ss) : OffsetsOf(ss)[i] = Before(ss, i - 1)
<1>1. Len(ss) \in Nat /\ DOMAIN ss = 1..Len(ss)
  BY LenProperties
<1>2. \A i \in 1..Len(ss) : Before(ss, i - 1) \in Nat
  <2> TAKE i \in 1..Len(ss)
  <2>1. i - 1 \in 0..Len(ss)
    BY <1>1
  <2> QED
    BY <2>1, BeforeSteps
<1>3. OffsetsOf(ss) = [i \in 1..Len(ss) |-> Before(ss, i - 1)]
  BY <1>1 DEF OffsetsOf
<1>4. OffsetsOf(ss) \in [1..Len(ss) -> Nat]
  BY <1>2, <1>3
<1>5. OffsetsOf(ss) \in Seq(Nat) /\ Len(OffsetsOf(ss)) = Len(ss)
  BY ONLY <1>1, <1>4, FunctionIsSeq
<1> QED
  BY <1>3, <1>5

\* registerString keeps the offsets and the length of the string table.
LEMMA StringAdded ==
  ASSUME NEW ss \in Seq(Word), NEW x \in Word
  PROVE  /\ Append(ss, x) \in Seq(Word) /\ Len(Append(ss, x)) = Len(ss) + 1
         /\ OffsetsOf(Append(ss, x)) =
              Append(OffsetsOf(ss), IF ss = <<>> THEN 0
                                    ELSE Last(OffsetsOf(ss)) + Len(Last(ss)))
         /\ TableLength(Append(ss, x)) = TableLength(ss) + 4 + Len(x)
<1> DEFINE tt == Append(ss, x)
           os == OffsetsOf(ss)
           v == IF ss = <<>> THEN 0 ELSE Last(os) + Len(Last(ss))
<1>1. /\ ss \in Seq(Seq(Nat)) /\ Len(ss) \in Nat /\ x \in Seq(Nat) /\ Len(x) \in Nat
      /\ tt \in Seq(Word) /\ tt \in Seq(Seq(Nat)) /\ Len(tt) = Len(ss) + 1
  <2>1. ss \in Seq(Seq(Nat)) /\ Len(ss) \in Nat /\ x \in Seq(Nat) /\ Len(x) \in Nat
    BY Words, LenProperties DEF Word
  <2>2. tt \in Seq(Word) /\ Len(tt) = Len(ss) + 1
    BY AppendProperties
  <2> QED
    BY <2>1, <2>2, Words
<1>2. /\ os \in Seq(Nat) /\ Len(os) = Len(ss)
      /\ \A i \in 1..Len(ss) : os[i] = Before(ss, i - 1)
  BY <1>1, OffsetsType
<1>3. /\ OffsetsOf(tt) \in Seq(Nat) /\ Len(OffsetsOf(tt)) = Len(ss) + 1
      /\ \A i \in 1..(Len(ss) + 1) : OffsetsOf(tt)[i] = Before(tt, i - 1)
  BY <1>1, OffsetsType
<1>4. \A n \in 0..Len(ss) : Before(tt, n) = Before(ss, n)
  <2> TAKE n \in 0..Len(ss)
  <2>1. SubSeq(tt, 1, n) = SubSeq(ss, 1, n)
    BY <1>1, PrefixLaws
  <2> QED
    BY <2>1 DEF Before
<1>5. v = Before(ss, Len(ss)) /\ v \in Nat
  <2>1. CASE ss = <<>>
    <3>1. Len(ss) = 0
      BY <2>1
    <3> QED
      BY <1>1, <2>1, <3>1, BeforeSteps
  <2>2. CASE ss # <<>>
    <3>1. Len(ss) \in 1..Len(ss)
      BY <1>1, <2>2, EmptySeq
    <3>2. Last(os) = os[Len(ss)] /\ Last(ss) = ss[Len(ss)]
      BY <1>2 DEF Last
    <3>3. /\ Before(ss, Len(ss)) = Before(ss, Len(ss) - 1) + Len(ss[Len(ss)])
          /\ Before(ss, Len(ss)) \in Nat
      <4>1. Len(ss) \in 0..Len(ss)
        BY <1>1
      <4> QED
        BY <1>1, <3>1, <4>1, BeforeSteps
    <3> QED
      BY <1>2, <2>2, <3>1, <3>2, <3>3
  <2> QED
    BY <2>1, <2>2
<1>6. OffsetsOf(tt) = Append(os, v)
  <2> HIDE DEF os, v, tt
  <2>1. /\ Append(os, v) \in Seq(Nat) /\ Len(Append(os, v)) = Len(ss) + 1
        /\ \A i \in 1..Len(ss) : Append(os, v)[i] = os[i]
        /\ Append(os, v)[Len(ss) + 1] = v
    BY <1>2, <1>5, AppendProperties
  <2>2. ASSUME NEW i \in 1..(Len(ss) + 1)
        PROVE  OffsetsOf(tt)[i] = Append(os, v)[i]
    <3>1. CASE i = Len(ss) + 1
      <4>1. i - 1 = Len(ss) /\ i - 1 \in 0..Len(ss)
        BY <1>1, <3>1
      <4> QED
        BY <1>3, <1>4, <1>5, <2>1, <3>1, <4>1
    <3>2. CASE i # Len(ss) + 1
      <4>1. i \in 1..Len(ss) /\ i - 1 \in 0..Len(ss)
        BY <1>1, <3>2
      <4> QED
        BY <1>2, <1>3, <1>4, <2>1, <4>1
    <3> QED
      BY <3>1, <3>2
  <2> QED
    BY <1>3, <2>1, <2>2, SeqEqual
<1>7. TableLength(tt) = TableLength(ss) + 4 + Len(x)
  <2>1. FlattenSeq(tt) = FlattenSeq(ss) \o x /\ FlattenSeq(ss) \in Seq(Nat)
    BY <1>1, FlattenAppend, FlattenType
  <2>2. Len(FlattenSeq(tt)) = Len(FlattenSeq(ss)) + Len(x) /\ Len(FlattenSeq(ss)) \in Nat
    BY <1>1, <2>1, ConcatProperties, LenProperties
  <2> HIDE DEF tt
  <2> QED
    BY <1>1, <2>2 DEF TableLength
<1> QED
  BY <1>1, <1>6, <1>7

\* addInstruction keeps the length of the data section.
LEMMA InstructionAdded ==
  ASSUME NEW is \in Seq(Program), NEW inst \in Program
  PROVE  /\ Append(is, inst) \in Seq(Program) /\ Len(Append(is, inst)) = Len(is) + 1
         /\ DataLength(Append(is, inst)) = Total(inst.operands, DataLength(is) + 1)
<1> DEFINE js == Append(is, inst)
           ct == Counted(is)
<1>1. Len(is) \in Nat /\ js \in Seq(Program) /\ Len(js) = Len(is) + 1
      /\ (\A i \in 1..Len(is) : js[i] = is[i]) /\ js[Len(is) + 1] = inst
  BY LenProperties, AppendProperties
<1>2. PICK n \in 1..5 : n = Total(inst.operands, 1)
  BY InstLayout
<1>3. PICK e : e = [j \in 1..n |-> 0]
  OBVIOUS
<1>4. e \in Seq({0}) /\ Len(e) = n
  BY <1>3
<1>5. ct \in Seq(Seq({0})) /\ Len(ct) = Len(is)
  BY PiecesType
<1>6. Counted(js) = Append(ct, e)
  <2>1. Counted(js) \in Seq(Seq({0})) /\ Len(Counted(js)) = Len(is) + 1
    BY <1>1, PiecesType
  <2>2. /\ Append(ct, e) \in Seq(Seq({0})) /\ Len(Append(ct, e)) = Len(is) + 1
        /\ \A i \in 1..Len(is) : Append(ct, e)[i] = ct[i]
        /\ Append(ct, e)[Len(is) + 1] = e
    <3> HIDE DEF ct
    <3> QED
      BY <1>4, <1>5, AppendProperties
  <2>3. DOMAIN js = 1..(Len(is) + 1) /\ DOMAIN is = 1..Len(is)
    BY <1>1, LenProperties
  <2>4. ASSUME NEW i \in 1..(Len(is) + 1) PROVE Counted(js)[i] = Append(ct, e)[i]
    <3>1. Counted(js)[i] = [j \in 1..Total(js[i].operands, 1) |-> 0]
      BY <2>3 DEF Counted
    <3>2. CASE i = Len(is) + 1
      BY <1>1, <1>2, <1>3, <2>2, <3>1, <3>2
    <3>3. CASE i # Len(is) + 1
      <4>1. i \in 1..Len(is)
        BY <1>1, <3>3
      <4>2. ct[i] = [j \in 1..Total(is[i].operands, 1) |-> 0]
        BY <2>3, <4>1 DEF Counted
      <4>3. js[i] = is[i] /\ Append(ct, e)[i] = ct[i]
        BY <1>1, <2>2, <4>1
      <4> QED
        BY <3>1, <4>2, <4>3
    <3> QED
      BY <3>2, <3>3
  <2> QED
    BY <2>1, <2>2, <2>4, SeqEqual
<1>7. /\ FlattenSeq(Counted(js)) = FlattenSeq(ct) \o e
      /\ FlattenSeq(ct) \in Seq({0})
  <2> HIDE DEF ct
  <2> QED
    BY <1>4, <1>5, <1>6, FlattenAppend, FlattenType
<1>8. Len(FlattenSeq(Counted(js))) = Len(FlattenSeq(ct)) + n /\ Len(FlattenSeq(ct)) \in Nat
  BY <1>4, <1>7, ConcatProperties, LenProperties
<1>9. PICK d \in Nat : d = DataLength(is) /\ DataLength(js) = d + n
  BY <1>8 DEF DataLength
<1>10. Total(inst.operands, d + 1) + 1 = d + 1 + n
  <2>1. d + 1 \in Nat
    OBVIOUS
  <2> QED
    BY <1>2, <2>1, InstLayout
<1>11. Total(inst.operands, d + 1) \in Int
  <2>1. \A m \in Nat : Total(inst.operands, m) \in Nat
    BY InstLayout
  <2>2. d + 1 \in Nat
    OBVIOUS
  <2> QED
    BY <2>1, <2>2
<1> QED
  BY <1>1, <1>9, <1>10, <1>11

\* replaceInstruction takes nothing off for the placeholder: a NOP counts one
\* byte, and so does the instruction that replaces it, besides its operands.
LEMMA InstructionReplaced ==
  ASSUME NEW is \in Seq(Program), NEW k \in 1..Len(is), is[k].op = "NOP",
         NEW inst \in Program
  PROVE  /\ [is EXCEPT ![k] = inst] \in Seq(Program)
         /\ Len([is EXCEPT ![k] = inst]) = Len(is)
         /\ DataLength([is EXCEPT ![k] = inst]) = Total(inst.operands, DataLength(is))
<1> DEFINE js == [is EXCEPT ![k] = inst]
           ct == Counted(is)
           dt == Counted(js)
<1>1. /\ Len(is) \in Nat /\ DOMAIN is = 1..Len(is) /\ is[k] \in Program
      /\ js \in Seq(Program) /\ Len(js) = Len(is) /\ js[k] = inst
      /\ \A i \in 1..Len(is) : i # k => js[i] = is[i]
  <2>1. /\ Len(is) \in Nat /\ DOMAIN is = 1..Len(is) /\ \A i \in 1..Len(is) : is[i] \in Program
    BY LenProperties, ElementOfSeq
  <2>2. js \in [1..Len(is) -> Program]
    BY <2>1
  <2>3. js \in Seq(Program) /\ Len(js) = Len(is)
    <3> HIDE DEF js
    <3> QED
      BY ONLY <2>1, <2>2, FunctionIsSeq
  <2> QED
    BY <2>1, <2>3
<1>2. PICK n \in 1..5 : n = Total(inst.operands, 1)
  BY InstLayout
<1>3. Total(is[k].operands, 1) = 1
  BY <1>1, InstLayout
<1>4. ct \in Seq(Seq({0})) /\ Len(ct) = Len(is) /\ \A i \in 1..Len(is) : Len(ct[i]) = Total(is[i].operands, 1)
  BY PiecesType
<1> HIDE DEF js
<1>5. dt \in Seq(Seq({0})) /\ Len(dt) = Len(is) /\ \A i \in 1..Len(is) : Len(dt[i]) = Total(js[i].operands, 1)
  BY <1>1, PiecesType
<1>6. AlikeBut(ct, dt, k)
  <2>1. DOMAIN js = 1..Len(is)
    BY <1>1, LenProperties
  <2>2. \A i \in 1..Len(is) : i # k => dt[i] = ct[i]
    BY <1>1, <2>1 DEF Counted
  <2> HIDE DEF ct, dt
  <2> QED
    BY <1>4, <2>2 DEF AlikeBut
<1>7. Len(ct[k]) = 1 /\ Len(dt[k]) = n
  BY <1>1, <1>2, <1>3, <1>4, <1>5
<1> HIDE DEF ct, dt
<1>8. /\ Len(FlattenSeq(dt)) + Len(ct[k]) = Len(FlattenSeq(ct)) + Len(dt[k])
      /\ Len(FlattenSeq(dt)) \in Nat /\ Len(FlattenSeq(ct)) \in Nat
  BY <1>4, <1>5, <1>6, BeforeReplaced
<1>9. PICK d \in Nat, e \in Nat : d = DataLength(is) /\ e = DataLength(js)
  BY <1>8 DEF DataLength, ct, dt
<1>10. e + 1 = d + n
  BY <1>7, <1>8, <1>9 DEF DataLength, ct, dt
<1>11. Total(inst.operands, d) \in Nat /\ Total(inst.operands, d) + 1 = d + n
  BY <1>2, InstLayout
<1> QED
  BY <1>1, <1>9, <1>10, <1>11 DEF js

-----------------------------------------------------------------------------
(* The file of a program.                                                  *)

\* Strings and instructions within the bounds.
Sound(ss, is) ==
  ss \in Seq(Word) /\ is \in Seq(Program) /\ Len(ss) + Len(is) <= MaxParts

\* ... that hold nothing too large to write.
WritableParts(ss, is) ==
  /\ \A i \in DOMAIN ss : \A j \in DOMAIN ss[i] : ss[i][j] < BYTE
  /\ \A i \in DOMAIN is : WritableInst(is[i])

LEMMA WritableIs == Writable <=> WritableParts(strings, insts)
BY DEF Writable, WritableParts, WritableInst

\* The file written for them.
Bytes(ss, is) == Table(ss, OffsetsOf(ss), TableLength(ss)) \o Data(is, DataLength(is))

\* The sections are kept as registerString, addInstruction and replaceInstruction
\* promise.
Compiled ==
  /\ Sound(strings, insts)
  /\ offsets = OffsetsOf(strings)
  /\ tlength = TableLength(strings)
  /\ dlength = DataLength(insts)

\* What is known of sound strings and instructions.
LEMMA LengthsOf ==
  ASSUME NEW ss, NEW is, Sound(ss, is)
  PROVE  /\ ss \in Seq(Seq(Nat)) /\ is \in Seq(Program) /\ Len(ss) \in Nat /\ Len(is) \in Nat
         /\ OffsetsOf(ss) \in Seq(Int) /\ Len(OffsetsOf(ss)) = Len(ss)
         /\ TableLength(ss) \in 0..(INT - 1) /\ DataLength(is) \in 0..(INT - 1)
         /\ Len(ss) \in 0..(INT - 1) /\ Len(is) \in 0..(INT - 1)
         /\ \A i \in 1..Len(ss) : /\ OffsetsOf(ss)[i] = Before(ss, i - 1)
                                  /\ Before(ss, i - 1) \in 0..(INT - 1)
<1>1. ss \in Seq(Word) /\ is \in Seq(Program) /\ Len(ss) + Len(is) <= MaxParts
  BY DEF Sound
<1>2. /\ ss \in Seq(Seq(Nat)) /\ Len(ss) \in Nat /\ Len(is) \in Nat
      /\ \A i \in 1..Len(ss) : Len(ss[i]) <= MaxLength
  BY <1>1, Words, LenProperties
<1>3. OffsetsOf(ss) \in Seq(Nat) /\ Len(OffsetsOf(ss)) = Len(ss)
      /\ \A i \in 1..Len(ss) : OffsetsOf(ss)[i] = Before(ss, i - 1)
  BY <1>2, OffsetsType
<1>4. OffsetsOf(ss) \in Seq(Int)
  <2>1. Nat \subseteq Int
    OBVIOUS
  <2> QED
    BY <1>3, <2>1, SeqMonotonic
<1>5. /\ TableLength(ss) \in 0..(INT - 1) /\ DataLength(is) \in 0..(INT - 1)
      /\ Len(ss) \in 0..(INT - 1) /\ Len(is) \in 0..(INT - 1)
      /\ \A i \in 1..Len(ss) : Before(ss, i - 1) \in 0..(INT - 1)
  BY <1>1, <1>2, SizesFit
<1> QED
  BY <1>1, <1>2, <1>3, <1>4, <1>5

\* What the compiler has counted is what it would write.
LEMMA CompiledAddsUp ==
  ASSUME Compiled
  PROVE  /\ Len(TableBytes) = tlength
         /\ Len(DataBytes) = dlength + 4 * Cardinality({i \in DOMAIN insts : insts[i].op = "LD_DOUBLE"})
<1>1. Sound(strings, insts) /\ offsets = OffsetsOf(strings)
      /\ tlength = TableLength(strings) /\ dlength = DataLength(insts)
  BY DEF Compiled
<1>2. PICK ss, is : ss = strings /\ is = insts
  OBVIOUS
<1>3. Sound(ss, is)
  BY <1>1, <1>2
<1>4. /\ ss \in Seq(Seq(Nat)) /\ is \in Seq(Program) /\ Len(ss) \in Nat /\ Len(is) \in Nat
      /\ OffsetsOf(ss) \in Seq(Int) /\ Len(OffsetsOf(ss)) = Len(ss)
      /\ TableLength(ss) \in Int /\ DataLength(is) \in Int
  BY <1>3, LengthsOf
<1>5. Byte \subseteq Nat
  BY Bases DEF Byte
<1>6. Len(Table(ss, OffsetsOf(ss), TableLength(ss))) = TableLength(ss)
  BY <1>4, <1>5, TableLayout
<1>7. Len(Data(is, DataLength(is))) = 8 + Len(FlattenSeq(Pieces(is)))
  BY <1>4, DataLayout
<1>8. {i \in DOMAIN is : is[i].op = "LD_DOUBLE"} = Doubles(is, Len(is))
  BY <1>4, LenProperties DEF Doubles
<1>9. /\ Len(FlattenSeq(Pieces(is))) =
           Len(FlattenSeq(Counted(is))) + 4 * Cardinality(Doubles(is, Len(is)))
      /\ Len(FlattenSeq(Counted(is))) \in Nat /\ Cardinality(Doubles(is, Len(is))) \in Nat
  BY <1>4, DataAddsUp
<1>10. Len(Data(is, DataLength(is))) = DataLength(is) + 4 * Cardinality(Doubles(is, Len(is)))
  <2>1. PICK a \in Nat, b \in Nat :
          a = Len(FlattenSeq(Counted(is))) /\ b = Cardinality(Doubles(is, Len(is)))
    BY <1>9
  <2>2. Len(Data(is, DataLength(is))) = 8 + (a + 4 * b) /\ DataLength(is) = 8 + a
    BY <1>7, <1>9, <2>1 DEF DataLength
  <2>3. 8 + (a + 4 * b) = (8 + a) + 4 * b
    OBVIOUS
  <2> QED
    BY <2>1, <2>2, <2>3
<1> QED
  BY <1>1, <1>2, <1>6, <1>8, <1>10, SectionsAre

\* Strings without a character too large are sequences of bytes.
LEMMA WordsAreBytes ==
  ASSUME NEW ss \in Seq(Seq(Nat)), \A i \in DOMAIN ss : \A j \in DOMAIN ss[i] : ss[i][j] < BYTE
  PROVE  ss \in Seq(Seq(Byte))
<1>1. Len(ss) \in Nat /\ DOMAIN ss = 1..Len(ss) /\ \A i \in 1..Len(ss) : ss[i] \in Seq(Nat)
  BY LenProperties, ElementOfSeq
<1>2. ASSUME NEW i \in 1..Len(ss) PROVE ss[i] \in Seq(Byte)
  <2>1. PICK t \in Seq(Nat) : t = ss[i]
    BY <1>1
  <2>2. Len(t) \in Nat /\ DOMAIN t = 1..Len(t) /\ \A j \in 1..Len(t) : t[j] \in Nat
    BY LenProperties, ElementOfSeq
  <2>3. \A j \in 1..Len(t) : t[j] < BYTE
    BY <1>1, <2>1, <2>2
  <2>4. \A j \in 1..Len(t) : t[j] \in Byte
    BY <2>2, <2>3, Bases DEF Byte
  <2>5. t = [j \in 1..Len(t) |-> t[j]]
    BY <2>2
  <2>6. t \in [1..Len(t) -> Byte]
    BY <2>4, <2>5
  <2>7. t \in Seq(Byte)
    BY ONLY <2>2, <2>6, FunctionIsSeq
  <2> QED
    BY <2>1, <2>7
<1>3. ss = [i \in 1..Len(ss) |-> ss[i]]
  BY <1>1
<1>4. ss \in [1..Len(ss) -> Seq(Byte)]
  BY <1>2, <1>3
<1> QED
  BY ONLY <1>1, <1>4, FunctionIsSeq

\* Where everything is in a file that was written from ss and is.
LEMMA FileLayout ==
  ASSUME NEW ss, NEW is, Sound(ss, is), WritableParts(ss, is), file.bytes = Bytes(ss, is)
  PROVE  /\ file.bytes \in Seq(Byte)
         /\ READ_U32(0) = TableLength(ss) /\ Count = Len(ss)
         /\ \A i \in 1..Len(ss) :
              /\ OffsetOf(i) = Before(ss, i - 1)
              /\ Holds(file.bytes, (8 + 4 * Len(ss)) + Before(ss, i - 1), ss[i])
         /\ Holds(file.bytes, 8 + 4 * Len(ss), FlattenSeq(ss))
         /\ READ_U32(TableLength(ss)) = DataLength(is)
         /\ READ_U32(TableLength(ss) + 4) = Len(is)
         /\ \A i \in 1..Len(is) :
              Holds(file.bytes, (TableLength(ss) + 8) + Before(Pieces(is), i - 1), InstBytes(is[i]))
         /\ Len(file.bytes) = (TableLength(ss) + 8) + Len(FlattenSeq(Pieces(is)))
         /\ ss \in Seq(Seq(Byte))
<1> DEFINE os == OffsetsOf(ss)
           tl == TableLength(ss)
           dl == DataLength(is)
           t == Table(ss, os, tl)
           d == Data(is, dl)
<1>1. /\ ss \in Seq(Seq(Nat)) /\ is \in Seq(Program) /\ Len(ss) \in Nat /\ Len(is) \in Nat
      /\ os \in Seq(Int) /\ Len(os) = Len(ss)
      /\ tl \in 0..(INT - 1) /\ dl \in 0..(INT - 1)
      /\ Len(ss) \in 0..(INT - 1) /\ Len(is) \in 0..(INT - 1)
      /\ \A i \in 1..Len(ss) : os[i] = Before(ss, i - 1) /\ Before(ss, i - 1) \in 0..(INT - 1)
  BY LengthsOf
<1>2. ss \in Seq(Seq(Byte))
  BY <1>1, WordsAreBytes DEF WritableParts
<1>3. tl \in Int /\ dl \in Int /\ tl \in Nat
  BY <1>1, Bases
<1> HIDE DEF os, tl, dl, t
<1>4. /\ t \in Seq(Byte) /\ Len(t) = TableLength(ss)
      /\ Holds(t, 0, LittleEndian(tl, 4)) /\ Holds(t, 4, LittleEndian(Len(ss), 4))
      /\ \A i \in 1..Len(ss) :
           /\ Holds(t, 8 + 4 * (i - 1), LittleEndian(os[i], 4))
           /\ Holds(t, 8 + 4 * Len(ss) + Before(ss, i - 1), ss[i])
      /\ Holds(t, 8 + 4 * Len(ss), FlattenSeq(ss))
  <2>1. /\ Byte \subseteq Byte /\ t = Table(ss, os, tl) /\ tl \in Int
        /\ os \in Seq(Int) /\ Len(os) = Len(ss) /\ ss \in Seq(Seq(Byte))
    BY <1>1, <1>2, <1>3 DEF t
  <2> QED
    BY ONLY <2>1, TableLayout
<1>5. /\ d \in Seq(Byte) /\ Len(d) = 8 + Len(FlattenSeq(Pieces(is)))
      /\ Holds(d, 0, LittleEndian(dl, 4)) /\ Holds(d, 4, LittleEndian(Len(is), 4))
      /\ \A i \in 1..Len(is) : /\ Holds(d, 8 + Before(Pieces(is), i - 1), InstBytes(is[i]))
                               /\ InstBytes(is[i]) \in Seq(Byte)
      /\ Len(FlattenSeq(Pieces(is))) \in Nat
  BY <1>1, <1>3, DataLayout
<1>6. file.bytes = t \o d
  BY DEF Bytes, os, tl, dl, t
<1> HIDE DEF d
<1> DEFINE f == file.bytes
<1>7. /\ f \in Seq(Byte) /\ Len(f) = Len(t) + Len(d)
      /\ Holds(f, 0, t) /\ Holds(f, Len(t), d) /\ Len(t) = tl
  BY <1>4, <1>5, <1>6, ConcatProperties, HoldsFirst, HoldsSecond DEF tl
<1> HIDE DEF f
<1>8. ASSUME NEW u \in Seq(Byte), NEW p \in Int, Holds(t, p, u)
      PROVE  Holds(f, p, u)
  <2>1. Holds(f, 0 + p, u)
    BY <1>4, <1>7, <1>8, HoldsInside
  <2> QED
    BY <2>1
<1>9. ASSUME NEW u \in Seq(Byte), NEW p \in Int, Holds(d, p, u)
      PROVE  Holds(f, tl + p, u)
  BY <1>5, <1>7, <1>9, HoldsInside
<1>10. \A n \in Int : LittleEndian(n, 4) \in Seq(Byte)
  <2>1. 4 \in {2, 4}
    OBVIOUS
  <2> QED
    BY <2>1, LittleEndianType
<1>11. /\ Holds(f, 0, LittleEndian(tl, 4)) /\ Holds(f, 4, LittleEndian(Len(ss), 4))
       /\ Holds(f, tl + 0, LittleEndian(dl, 4)) /\ Holds(f, tl + 4, LittleEndian(Len(is), 4))
  <2>1. PICK zero \in Int, four \in Int : zero = 0 /\ four = 4
    OBVIOUS
  <2>2. PICK n \in Int, m \in Int : n = Len(ss) /\ m = Len(is)
    BY <1>1
  <2>3. Holds(f, zero, LittleEndian(tl, 4)) /\ Holds(f, four, LittleEndian(n, 4))
    BY <1>3, <1>4, <1>8, <1>10, <2>1, <2>2
  <2>4. Holds(f, tl + zero, LittleEndian(dl, 4)) /\ Holds(f, tl + four, LittleEndian(m, 4))
    BY <1>3, <1>5, <1>9, <1>10, <2>1, <2>2
  <2> QED
    BY <2>1, <2>2, <2>3, <2>4
<1>12. tl + 0 = tl
  BY <1>3
<1>13. /\ READ_U32(0) = tl /\ READ_U32(4) = Len(ss)
       /\ READ_U32(tl) = dl /\ READ_U32(tl + 4) = Len(is)
  BY <1>1, <1>11, <1>12, ReadInt DEF f, tl, dl
<1>14. ASSUME NEW i \in 1..Len(ss)
       PROVE  /\ OffsetOf(i) = Before(ss, i - 1)
              /\ Holds(f, (8 + 4 * Len(ss)) + Before(ss, i - 1), ss[i])
  <2>1. PICK b \in 0..(INT - 1) : b = Before(ss, i - 1) /\ b = os[i] /\ b \in Int
    <3>1. PICK b : b = Before(ss, i - 1)
      OBVIOUS
    <3>2. b \in 0..(INT - 1) /\ b = os[i]
      BY <1>1, <3>1
    <3>3. b \in Int
      BY <3>2
    <3> QED
      BY <3>1, <3>2, <3>3
  <2>2. ss[i] \in Seq(Byte)
    BY <1>2, ElementOfSeq
  <2>3. 8 + 4 * (i - 1) \in Int /\ (8 + 4 * Len(ss)) + b \in Int
    BY <1>1, <2>1
  <2>4. Holds(f, 8 + 4 * (i - 1), LittleEndian(b, 4))
    BY <1>4, <1>8, <1>10, <2>1, <2>3
  <2>5. Holds(f, (8 + 4 * Len(ss)) + b, ss[i])
    BY <1>4, <1>8, <2>1, <2>2, <2>3
  <2>6. READ_U32(8 + 4 * (i - 1)) = b
    BY <2>4, ReadInt DEF f
  <2> QED
    BY <2>1, <2>5, <2>6 DEF OffsetOf
<1>15. Holds(f, 8 + 4 * Len(ss), FlattenSeq(ss))
  <2>1. FlattenSeq(ss) \in Seq(Byte) /\ 8 + 4 * Len(ss) \in Int
    BY <1>1, <1>2, FlattenType
  <2> QED
    BY <1>4, <1>8, <2>1
<1>16. ASSUME NEW i \in 1..Len(is)
       PROVE  Holds(f, (tl + 8) + Before(Pieces(is), i - 1), InstBytes(is[i]))
  <2>1. PICK b \in Nat : b = Before(Pieces(is), i - 1)
    <3>1. Pieces(is) \in Seq(Seq(Byte)) /\ Len(Pieces(is)) = Len(is)
      BY <1>1, PiecesType
    <3>2. i - 1 \in 0..Len(Pieces(is))
      BY <1>1, <3>1
    <3> QED
      BY <3>1, <3>2, BeforeSteps
  <2>2. Holds(f, tl + (8 + b), InstBytes(is[i]))
    BY <1>5, <1>9, <2>1
  <2>3. tl + (8 + b) = (tl + 8) + b
    BY <1>3
  <2> QED
    BY <2>1, <2>2, <2>3
<1>17. Len(f) = (tl + 8) + Len(FlattenSeq(Pieces(is)))
  BY <1>3, <1>5, <1>7
<1> QED
  BY <1>2, <1>7, <1>13, <1>14, <1>15, <1>16, <1>17 DEF f, tl, dl, Count

\* The end of a string is the beginning of the next, or that of the data section.
LEMMA StringEnds ==
  ASSUME NEW ss \in Seq(Seq(Nat)), NEW i \in 1..Len(ss)
  PROVE  /\ Before(ss, i - 1) \in Nat /\ Len(ss[i]) \in Nat
         /\ Before(ss, i - 1) + Len(ss[i]) = Before(ss, i)
         /\ i = Len(ss) => Before(ss, i) = TableLength(ss) - (8 + 4 * Len(ss))
         /\ Holds(FlattenSeq(ss), Before(ss, i - 1), ss[i])
<1>1. Len(ss) \in Nat /\ i - 1 \in 0..Len(ss)
  BY LenProperties
<1>2. /\ Before(ss, i - 1) \in Nat /\ Len(ss[i]) \in Nat
      /\ Before(ss, i) = Before(ss, i - 1) + Len(ss[i])
      /\ Before(ss, Len(ss)) = Len(FlattenSeq(ss))
  BY <1>1, BeforeSteps
<1>3. i = Len(ss) => Before(ss, i) = TableLength(ss) - (8 + 4 * Len(ss))
  BY <1>1, <1>2 DEF TableLength
<1> QED
  BY <1>2, <1>3, FlattenHolds

-----------------------------------------------------------------------------
(* What atomixc bundle makes of a string, and the readers of the instructions.*)

\* toString gives characters, and leaves a string in ASCII as it is.
LEMMA Decoding ==
  ASSUME NEW b \in Seq(Byte)
  PROVE  /\ toString(b) \in Seq(Nat)
         /\ IsAscii(b) => toString(b) = b
<1> DEFINE Pair(i) == i \in DOMAIN b /\ i < Len(b) /\ b[i] \in {Lead, Lead + 1}
                       /\ Continues(b[i + 1])
           Char(i) == CASE Pair(i) -> b[i + 1] + (b[i] - Lead) * (BYTE \div 4)
                        [] b[i] < BYTE \div 2 -> b[i]
                        [] OTHER -> REPLACEMENT
           cs == [i \in DOMAIN b |-> IF Pair(i - 1) THEN <<>> ELSE <<Char(i)>>]
<1>1. /\ Len(b) \in Nat /\ DOMAIN b = 1..Len(b)
      /\ \A i \in 1..Len(b) : b[i] \in Byte /\ b[i] \in Nat
  BY LenProperties, ElementOfSeq, Bases DEF Byte
<1>2. toString(b) = FlattenSeq(cs)
  BY DEF toString
<1>3. BYTE \div 4 \in Nat /\ BYTE \div 2 \in Nat /\ Lead \in Nat /\ Lead > BYTE \div 2
      /\ REPLACEMENT \in Nat
  <2>1. BYTE \in Nat /\ BYTE >= 53
    BY Bases
  <2>2. BYTE \div 4 \in Nat /\ BYTE \div 2 \in Nat /\ 3 * (BYTE \div 4) + 2 > BYTE \div 2
    BY ONLY <2>1
  <2>3. SHORT >= 53
    <3>1. PICK x \in Nat : BYTE = 53 + x
      BY <2>1
    <3>2. (53 + x) * (53 + x) = 53 * 53 + (106 * x + x * x) /\ x * x >= 0
      OBVIOUS
    <3> QED
      BY <3>1, <3>2 DEF SHORT
  <2> QED
    BY <2>2, <2>3, Bases DEF Lead, REPLACEMENT
<1>4. ASSUME NEW i \in 1..Len(b) PROVE Char(i) \in Nat
  <2>1. CASE Pair(i)
    <3>1. i + 1 \in 1..Len(b) /\ b[i] - Lead \in {0, 1}
      BY <1>1, <1>3, <2>1
    <3>2. PICK c \in Nat, e \in {0, 1}, q \in Nat : c = b[i + 1] /\ e = b[i] - Lead /\ q = BYTE \div 4
      BY <1>1, <1>3, <3>1
    <3>3. c + e * q \in Nat
      OBVIOUS
    <3>4. ~(b[i] < BYTE \div 2)
      <4>1. PICK a \in Nat : a = b[i]
        BY <1>1
      <4>2. a = Lead \/ a = Lead + 1
        BY <2>1, <4>1
      <4>3. PICK h \in Nat : h = BYTE \div 2
        BY <1>3
      <4> QED
        BY <1>3, <4>1, <4>2, <4>3
    <3>5. Char(i) = b[i + 1] + (b[i] - Lead) * (BYTE \div 4)
      <4> HIDE DEF Pair
      <4> QED
        BY <2>1, <3>4
    <3>6. Char(i) = c + e * q
      BY ONLY <3>2, <3>5
    <3> QED
      BY <3>3, <3>6
  <2>2. CASE ~Pair(i)
    BY <1>1, <1>3, <2>2
  <2> QED
    BY <2>1, <2>2
<1> HIDE DEF Pair, Char
<1>5. cs \in [1..Len(b) -> Seq(Nat)]
  <2>1. \A i \in 1..Len(b) : <<Char(i)>> \in Seq(Nat) /\ <<>> \in Seq(Nat)
    BY <1>4
  <2> QED
    BY <1>1, <2>1
<1>6. cs \in Seq(Seq(Nat)) /\ Len(cs) = Len(b)
  BY <1>1, <1>5, FunctionIsSeq
<1>7. ASSUME IsAscii(b) PROVE FlattenSeq(cs) = b
  <2>1. \A i \in 1..Len(b) : b[i] < BYTE \div 2
    BY <1>1, <1>7 DEF IsAscii
  <2>2. \A i \in Int : ~Pair(i)
    <3> SUFFICES ASSUME NEW i \in Int, Pair(i) PROVE FALSE
      OBVIOUS
    <3>1. i \in 1..Len(b) /\ b[i] \in {Lead, Lead + 1}
      BY <1>1 DEF Pair
    <3> QED
      BY <1>1, <1>3, <2>1, <3>1
  <2>3. ASSUME NEW i \in 1..Len(b) PROVE cs[i] = <<b[i]>>
    <3>1. ~Pair(i) /\ ~Pair(i - 1)
      BY <2>2
    <3>2. Char(i) = b[i]
      BY <1>1, <2>1, <3>1 DEF Char
    <3> QED
      BY <1>1, <3>1, <3>2
  <2>4. \A i \in 1..Len(cs) : Len(cs[i]) = 1
    <3> TAKE i \in 1..Len(cs)
    <3>1. cs[i] = <<b[i]>>
      BY <1>6, <2>3
    <3>2. \A x : Len(<<x>>) = 1
      OBVIOUS
    <3> HIDE DEF cs
    <3> QED
      BY <3>1, <3>2
  <2> HIDE DEF cs
  <2>5. PICK one \in Nat : one = 1
    OBVIOUS
  <2>6. \A i \in 0..Len(cs) : Before(cs, i) = one * i
    <3>1. \A i \in 1..Len(cs) : Len(cs[i]) = one
      BY <2>4, <2>5
    <3> QED
      BY <1>6, <3>1, BeforeEven
  <2>7. \A i \in 0..Len(cs) : Before(cs, i) = i
    BY <1>1, <1>6, <2>5, <2>6
  <2>8. FlattenSeq(cs) \in Seq(Nat) /\ Len(FlattenSeq(cs)) = Len(b)
    <3>1. Len(cs) \in 0..Len(cs)
      BY <1>1, <1>6
    <3> QED
      BY <1>6, <2>7, <3>1, FlattenType, BeforeSteps
  <2>9. ASSUME NEW i \in 1..Len(b) PROVE FlattenSeq(cs)[i] = b[i]
    <3>1. Holds(FlattenSeq(cs), Before(cs, i - 1), cs[i])
      BY <1>6, FlattenHolds
    <3>2. i - 1 \in 0..Len(cs) /\ i \in 1..Len(cs)
      BY <1>1, <1>6
    <3>3. Before(cs, i - 1) = i - 1 /\ cs[i] = <<b[i]>>
      BY <2>3, <2>7, <3>2
    <3>4. Len(<<b[i]>>) = 1 /\ <<b[i]>>[1] = b[i] /\ (i - 1) + 1 = i /\ 1 \in 1..1
      OBVIOUS
    <3> QED
      BY <3>1, <3>3, <3>4 DEF Holds
  <2>10. b \in Seq(Nat)
    <3>1. Byte \subseteq Nat
      BY Bases DEF Byte
    <3> QED
      BY <3>1, SeqMonotonic
  <2> QED
    BY <2>8, <2>9, <2>10, SeqEqual
<1> QED
  BY <1>2, <1>6, <1>7, FlattenType

\* What readFrom and load_data_section make of the instructions.
NormalsOf(is) == [i \in DOMAIN is |-> Normal(is[i])]

MachineOf(is) == [i \in DOMAIN is |-> InMachine(is[i])]

MachineInstruction == {InMachine(inst) : inst \in Program}

\* Both sections together are a sequence of bytes.
LEMMA SectionsType ==
  ASSUME NEW ss \in Seq(Seq(Byte)), NEW os \in Seq(Int), Len(os) = Len(ss), NEW n \in Int,
         NEW is \in Seq(Program), NEW m \in Int
  PROVE  Table(ss, os, n) \o Data(is, m) \in Seq(Byte)
<1>1. PICK t, d : t = Table(ss, os, n) /\ d = Data(is, m)
  OBVIOUS
<1>2. Byte \subseteq Byte
  OBVIOUS
<1>3. t \in Seq(Byte)
  BY <1>1, <1>2, TableLayout
<1>4. d \in Seq(Byte)
  BY <1>1, DataLayout
<1> QED
  BY <1>1, <1>3, <1>4, ConcatProperties

\* The instructions read back are written as the same bytes.
LEMMA NormalsType ==
  ASSUME NEW is \in Seq(Program)
  PROVE  /\ NormalsOf(is) \in Seq(Program) /\ Len(NormalsOf(is)) = Len(is)
         /\ \A i \in 1..Len(is) : NormalsOf(is)[i] = Normal(is[i])
         /\ Pieces(NormalsOf(is)) = Pieces(is)
         /\ \A i \in 1..Len(is) : WritableInst(NormalsOf(is)[i]) <=> WritableInst(is[i])
<1>1. /\ Len(is) \in Nat /\ DOMAIN is = 1..Len(is) /\ \A i \in 1..Len(is) : is[i] \in Program
  BY LenProperties, ElementOfSeq
<1>2. \A i \in 1..Len(is) : Normal(is[i]) \in Program
  BY <1>1, NormalKeeps
<1>3. /\ NormalsOf(is) \in [1..Len(is) -> Program]
      /\ \A i \in 1..Len(is) : NormalsOf(is)[i] = Normal(is[i])
      /\ DOMAIN NormalsOf(is) = 1..Len(is)
  BY <1>1, <1>2 DEF NormalsOf
<1>4. NormalsOf(is) \in Seq(Program) /\ Len(NormalsOf(is)) = Len(is)
  BY ONLY <1>1, <1>3, FunctionIsSeq
<1>5. \A i \in 1..Len(is) : InstBytes(NormalsOf(is)[i]) = InstBytes(is[i])
  BY <1>1, <1>3, NormalKeeps
<1>6. Pieces(NormalsOf(is)) = Pieces(is)
  BY <1>1, <1>3, <1>5 DEF Pieces
<1>7. ASSUME NEW i \in 1..Len(is)
      PROVE  WritableInst(NormalsOf(is)[i]) <=> WritableInst(is[i])
  <2>1. PICK inst \in Program : inst = is[i]
    BY <1>1
  <2>2. /\ \A j \in DOMAIN inst.operands :
              Unwritable(Normal(inst).operands[j]) <=> Unwritable(inst.operands[j])
        /\ DOMAIN Normal(inst).operands = DOMAIN inst.operands
    BY NormalKeeps
  <2>3. WritableInst(Normal(inst)) <=> WritableInst(inst)
    BY <2>2 DEF WritableInst
  <2> QED
    BY <1>3, <2>1, <2>3
<1> QED
  BY <1>3, <1>4, <1>6, <1>7

\* The loaded instructions correspond to those of the program.
LEMMA MachineType ==
  ASSUME NEW is \in Seq(Program)
  PROVE  /\ MachineOf(is) \in Seq(MachineInstruction) /\ Len(MachineOf(is)) = Len(is)
         /\ \A i \in 1..Len(is) : MachineOf(is)[i] = InMachine(is[i])
<1>1. /\ Len(is) \in Nat /\ DOMAIN is = 1..Len(is) /\ \A i \in 1..Len(is) : is[i] \in Program
  BY LenProperties, ElementOfSeq
<1>2. \A i \in 1..Len(is) : InMachine(is[i]) \in MachineInstruction
  BY <1>1 DEF MachineInstruction
<1>3. /\ MachineOf(is) \in [1..Len(is) -> MachineInstruction]
      /\ \A i \in 1..Len(is) : MachineOf(is)[i] = InMachine(is[i])
  BY <1>1, <1>2 DEF MachineOf
<1> QED
  BY ONLY <1>1, <1>3, FunctionIsSeq

\* The width of the operands the machine reads, whatever the opcode.
LEMMA WidthType == \A op : WidthOf(InstUnits(op)) \in Nat /\ WidthOf(operandDictionary(op)) \in Nat
<1> TAKE op
<1>1. PICK S : S = operandDictionary(op)
  OBVIOUS
<1>2. S \in {<<>>, <<"int">>, <<"double">>, <<"short">>, <<"short", "short">>}
      /\ InstUnits(op) = S
  BY <1>1, UnitsOfOpcodes
<1>3. WidthOf(S) \in Nat
  <2>1. CASE S = <<>>
    <3>1. DOMAIN S = {}
      <4>1. \A u : u = <<>> => DOMAIN u = {}
        OBVIOUS
      <4> QED
        BY <2>1, <4>1
    <3>2. WidthOf(S) = TwoSum([i \in DOMAIN S |-> Width(S[i])], 0)
      <4>1. DOMAIN S \in {{}, {1}, {1, 2}}
        BY <3>1
      <4> QED
        BY ONLY <4>1, WidthOfIsSum
    <3>3. PICK v : v = [i \in DOMAIN S |-> Width(S[i])]
      OBVIOUS
    <3>4. DOMAIN v = {}
      BY <3>1, <3>3
    <3>5. TwoSum(v, 0) = 0
      BY <3>4, TwoSums
    <3> QED
      BY <3>2, <3>3, <3>5
  <2>2. CASE S \in {<<"int">>, <<"double">>, <<"short">>}
    <3>1. DOMAIN S = {1} /\ Width(S[1]) \in Nat
      <4>1. \A x : DOMAIN <<x>> = {1} /\ <<x>>[1] = x
        OBVIOUS
      <4>2. Width("int") \in Nat /\ Width("double") \in Nat /\ Width("short") \in Nat
        BY DEF Width
      <4> QED
        BY <2>2, <4>1, <4>2
    <3>2. WidthOf(S) = TwoSum([i \in DOMAIN S |-> Width(S[i])], 0)
      BY <3>1, WidthOfIsSum
    <3>3. PICK v : v = [i \in DOMAIN S |-> Width(S[i])]
      OBVIOUS
    <3>4. DOMAIN v = {1} /\ v[1] = Width(S[1])
      BY <3>1, <3>3
    <3>5. TwoSum(v, 0) = 0 + v[1]
      BY <3>4, TwoSums
    <3> QED
      BY <3>1, <3>2, <3>3, <3>4, <3>5
  <2>3. CASE S = <<"short", "short">>
    <3>1. DOMAIN S = {1, 2} /\ Width(S[1]) = 2 /\ Width(S[2]) = 2
      BY <2>3 DEF Width
    <3>2. WidthOf(S) = TwoSum([i \in DOMAIN S |-> Width(S[i])], 0)
      BY <3>1, WidthOfIsSum
    <3>3. PICK v : v = [i \in DOMAIN S |-> Width(S[i])]
      OBVIOUS
    <3>4. DOMAIN v = {1, 2} /\ v[1] = 2 /\ v[2] = 2
      BY <3>1, <3>3
    <3>5. TwoSum(v, 0) = (0 + v[1]) + v[2]
      BY <3>4, TwoSums
    <3> QED
      BY <3>2, <3>3, <3>4, <3>5
  <2> QED
    BY <1>2, <2>1, <2>2, <2>3
<1> QED
  BY <1>1, <1>2, <1>3

-----------------------------------------------------------------------------
(* The invariant.                                                          *)

Phases == {"compiling", "written", "reading", "loading", "loaded", "rejected", "overrun"}

\* The types of the variables.
Kinds ==
  /\ file \in [data : Nat, bytes : Seq(Byte)]
  /\ Len(offsets) = Len(strings)
  /\ tlength \in Nat /\ dlength \in Nat /\ position \in Nat
  /\ bundled \in BOOLEAN
  /\ phase \in Phases

\* The file is that of the program, unless bundling has misread a string.
Filed ==
  /\ Sound(source.strings, source.insts)
  /\ WritableParts(source.strings, source.insts)
  /\ file.data = TableLength(source.strings)
  /\ (bundled => Ascii) => file.bytes = Bytes(source.strings, source.insts)

\* Where n instructions have been read.
ReadUpTo(n) ==
  /\ insts = SubSeq(NormalsOf(source.insts), 1, n)
  /\ position = (tlength + 8) + Before(Pieces(source.insts), n)

\* atomixc bundle has taken the sections apart: it has the lengths and offsets of the
\* compiler, the strings if they are ASCII, and some of the instructions.
Reading ==
  /\ ~bundled
  /\ tlength = TableLength(source.strings)
  /\ offsets = OffsetsOf(source.strings)
  /\ dlength = DataLength(source.insts)
  /\ strings \in Seq(Seq(Nat)) /\ Len(strings) = Len(source.strings)
  /\ Ascii => strings = source.strings
  /\ \E n \in 0..Len(source.insts) : ReadUpTo(n)

\* Where n instructions have been loaded.
LoadedUpTo(n) ==
  /\ loaded = SubSeq(MachineOf(source.insts), 1, n)
  /\ position = (file.data + 8) + Before(Pieces(source.insts), n)
  /\ phase = "loaded" => n = Len(source.insts)

\* The virtual machine has the string table, and some of the instructions.
Loading ==
  /\ phase # "overrun"
  /\ table = [length |-> TableLength(source.strings), count |-> Len(source.strings),
              offsets |-> OffsetsOf(source.strings),
              strings |-> FlattenSeq(source.strings)]
  /\ \E n \in 0..Len(source.insts) : LoadedUpTo(n)

\* The inductive invariant: in each phase the sections, the file and the table are
\* what the strings and instructions of the compiler determine.
FileInv ==
  /\ Kinds
  /\ phase = "compiling" => Compiled
  /\ phase \in Phases \ {"compiling", "rejected"} => Filed
  /\ phase = "reading" => Reading
  /\ phase \in {"loading", "loaded", "overrun"} /\ (bundled => Ascii) => Loading
  /\ RejectedForAReason

-----------------------------------------------------------------------------
(* Compiling keeps it.                                                     *)

\* Nothing is registered yet.
LEMMA InitInv == Init => FileInv
<1> SUFFICES ASSUME Init PROVE FileInv
  OBVIOUS
<1>1. \A X : <<>> \in Seq(X) /\ Len(<<>>) = 0
  OBVIOUS
<1>2. Kinds
  <2>1. file = [data |-> 0, bytes |-> <<>>] /\ 0 \in Nat /\ 8 \in Nat
    BY DEF Init
  <2>2. file \in [data : Nat, bytes : Seq(Byte)]
    BY <1>1, <2>1
  <2>3. Len(offsets) = Len(strings)
    BY DEF Init
  <2>4. tlength \in Nat /\ dlength \in Nat /\ position \in Nat /\ bundled \in BOOLEAN
        /\ phase \in Phases
    BY <2>1 DEF Init, Phases
  <2> QED
    BY <2>2, <2>3, <2>4 DEF Kinds
<1>3. Compiled
  <2>1. strings = <<>> /\ insts = <<>> /\ offsets = <<>> /\ tlength = 8 /\ dlength = 8
    BY DEF Init
  <2>2. Sound(strings, insts)
    BY <1>1, <2>1, FileAssumption DEF Sound
  <2>3. OffsetsOf(<<>>) = <<>> /\ Counted(<<>>) = <<>>
    BY DEF OffsetsOf, Counted
  <2>4. TableLength(<<>>) = 8 /\ DataLength(<<>>) = 8
    BY <1>1, <2>3, FlattenEmpty DEF TableLength, DataLength
  <2> QED
    BY <2>1, <2>2, <2>3, <2>4 DEF Compiled
<1>4. phase = "compiling"
  BY DEF Init
<1> QED
  BY <1>2, <1>3, <1>4 DEF FileInv, RejectedForAReason

\* While the program is compiled only Kinds and Compiled are at stake.
LEMMA StillCompiling ==
  ASSUME Kinds', Compiled', phase' = "compiling"
  PROVE  FileInv'
BY DEF FileInv, RejectedForAReason

\* registerString.
LEMMA registerStringInv ==
  ASSUME FileInv, NEW x \in Strings, registerString(x)
  PROVE  FileInv'
<1>1. /\ Compiled /\ Kinds /\ phase = "compiling" /\ Len(strings) + Len(insts) < MaxParts
      /\ strings' = Append(strings, x)
      /\ offsets' = Append(offsets, IF strings = <<>> THEN 0
                                    ELSE Last(offsets) + Len(Last(strings)))
      /\ tlength' = tlength + 4 + Len(x)
      /\ UNCHANGED <<insts, dlength, file, bundled, position, phase>>
  BY DEF FileInv, registerString, HasRoom, machine
<1>2. PICK ss, is : ss = strings /\ is = insts
  OBVIOUS
<1>3. /\ ss \in Seq(Word) /\ is \in Seq(Program) /\ offsets = OffsetsOf(ss)
      /\ tlength = TableLength(ss) /\ dlength = DataLength(is)
  BY <1>1, <1>2 DEF Compiled, Sound
<1>4. x \in Word /\ Len(x) \in Nat
  <2>1. x \in Seq(Nat) /\ Len(x) <= MaxLength
    BY FileAssumption
  <2> QED
    BY <2>1, LenProperties DEF Word
<1>5. PICK tt : tt = Append(ss, x)
  OBVIOUS
<1>6. /\ tt \in Seq(Word) /\ Len(tt) = Len(ss) + 1
      /\ OffsetsOf(tt) = offsets' /\ TableLength(tt) = tlength'
  BY <1>1, <1>2, <1>3, <1>4, <1>5, StringAdded
<1>7. strings' = tt /\ insts' = is
  BY <1>1, <1>2, <1>5
<1>8. Sound(tt, is)
  <2>1. Len(ss) \in Nat /\ Len(is) \in Nat /\ MaxParts \in Nat /\ Len(ss) + Len(is) < MaxParts
    BY <1>1, <1>2, <1>3, LenProperties, FileAssumption
  <2> QED
    BY <1>3, <1>6, <2>1 DEF Sound
<1>9. Compiled'
  BY <1>1, <1>3, <1>6, <1>7, <1>8 DEF Compiled
<1>10. Kinds'
  <2>1. tlength' \in Nat
    <3>1. tlength \in Nat
      BY <1>1 DEF Kinds
    <3> QED
      BY <1>1, <1>4, <3>1
  <2>2. Len(offsets') = Len(strings')
    <3>1. tt \in Seq(Seq(Nat))
      BY <1>6, Words
    <3> QED
      BY <1>6, <1>7, <3>1, OffsetsType
  <2> QED
    BY <1>1, <2>1, <2>2 DEF Kinds
<1> QED
  BY <1>1, <1>9, <1>10, StillCompiling

\* addInstruction.
LEMMA addInstructionInv ==
  ASSUME FileInv, NEW inst \in Insts, addInstruction(inst)
  PROVE  FileInv'
<1>1. /\ Compiled /\ Kinds /\ phase = "compiling" /\ Len(strings) + Len(insts) < MaxParts
      /\ insts' = Append(insts, inst)
      /\ dlength' = Total(inst.operands, dlength + 1)
      /\ UNCHANGED <<strings, offsets, tlength, file, bundled, position, phase>>
  BY DEF FileInv, addInstruction, HasRoom, machine
<1>2. PICK ss, is : ss = strings /\ is = insts
  OBVIOUS
<1>3. /\ ss \in Seq(Word) /\ is \in Seq(Program) /\ offsets = OffsetsOf(ss)
      /\ tlength = TableLength(ss) /\ dlength = DataLength(is)
  BY <1>1, <1>2 DEF Compiled, Sound
<1>4. inst \in Program
  BY EmittedInstructions
<1>5. PICK js : js = Append(is, inst)
  OBVIOUS
<1>6. js \in Seq(Program) /\ Len(js) = Len(is) + 1 /\ DataLength(js) = dlength'
  BY <1>1, <1>3, <1>4, <1>5, InstructionAdded
<1>7. strings' = ss /\ insts' = js
  BY <1>1, <1>2, <1>5
<1>8. Sound(ss, js)
  <2>1. Len(ss) \in Nat /\ Len(is) \in Nat /\ MaxParts \in Nat /\ Len(ss) + Len(is) < MaxParts
    BY <1>1, <1>2, <1>3, LenProperties, FileAssumption
  <2> QED
    BY <1>3, <1>6, <2>1 DEF Sound
<1>9. Compiled'
  BY <1>1, <1>3, <1>6, <1>7, <1>8 DEF Compiled
<1>10. Kinds'
  <2>1. dlength' \in Nat
    BY <1>6, <1>8, LengthsOf
  <2> QED
    BY <1>1, <2>1 DEF Kinds
<1> QED
  BY <1>1, <1>9, <1>10, StillCompiling

\* replaceInstruction.
LEMMA replaceInstructionInv ==
  ASSUME FileInv, NEW k \in DOMAIN insts, NEW inst \in Patches, replaceInstruction(k, inst)
  PROVE  FileInv'
<1>1. /\ Compiled /\ Kinds /\ phase = "compiling" /\ insts[k].op = "NOP"
      /\ insts' = [insts EXCEPT ![k] = inst]
      /\ dlength' = Total(inst.operands, dlength)
      /\ UNCHANGED <<strings, offsets, tlength, file, bundled, position, phase>>
  BY DEF FileInv, replaceInstruction, machine
<1>2. PICK ss, is : ss = strings /\ is = insts
  OBVIOUS
<1>3. /\ ss \in Seq(Word) /\ is \in Seq(Program) /\ offsets = OffsetsOf(ss)
      /\ tlength = TableLength(ss) /\ dlength = DataLength(is)
      /\ Len(ss) + Len(is) <= MaxParts
  BY <1>1, <1>2 DEF Compiled, Sound
<1>4. inst \in Program /\ k \in 1..Len(is) /\ is[k].op = "NOP"
  BY <1>1, <1>2, <1>3, EmittedInstructions, LenProperties
<1>5. PICK js : js = [is EXCEPT ![k] = inst]
  OBVIOUS
<1>6. js \in Seq(Program) /\ Len(js) = Len(is) /\ DataLength(js) = dlength'
  BY <1>1, <1>3, <1>4, <1>5, InstructionReplaced
<1>7. strings' = ss /\ insts' = js
  BY <1>1, <1>2, <1>5
<1>8. Sound(ss, js)
  BY <1>3, <1>6 DEF Sound
<1>9. Compiled'
  BY <1>1, <1>3, <1>6, <1>7, <1>8 DEF Compiled
<1>10. Kinds'
  <2>1. dlength' \in Nat
    BY <1>6, <1>8, LengthsOf
  <2> QED
    BY <1>1, <2>1 DEF Kinds
<1> QED
  BY <1>1, <1>9, <1>10, StillCompiling

-----------------------------------------------------------------------------
(* Writing, and bundling.                                                  *)

\* The file is untouched: so is what is known of it.
LEMMA FiledStays ==
  ASSUME Filed, UNCHANGED <<source, file, bundled>>
  PROVE  Filed'
<1>1. Ascii' <=> Ascii
  BY DEF Ascii
<1> QED
  BY <1>1 DEF Filed

\* What cannot be written has a character or an operand that is too large.
LEMMA TooLarge ==
  ASSUME NEW ss \in Seq(Seq(Nat)), NEW is, ~WritableParts(ss, is)
  PROVE  \/ \E i \in DOMAIN ss : \E j \in DOMAIN ss[i] : ss[i][j] >= BYTE
         \/ \E i \in DOMAIN is : \E j \in DOMAIN is[i].operands : Unwritable(is[i].operands[j])
<1>1. CASE \E i \in DOMAIN is : ~WritableInst(is[i])
  BY <1>1 DEF WritableInst
<1>2. CASE \E i \in DOMAIN ss : \E j \in DOMAIN ss[i] : ~(ss[i][j] < BYTE)
  <2>1. PICK i \in DOMAIN ss : \E j \in DOMAIN ss[i] : ~(ss[i][j] < BYTE)
    BY <1>2
  <2>2. PICK t \in Seq(Nat) : t = ss[i]
    <3>1. i \in 1..Len(ss)
      BY LenProperties
    <3> QED
      BY <3>1, ElementOfSeq
  <2>3. PICK j \in DOMAIN t : ~(t[j] < BYTE)
    BY <2>1, <2>2
  <2>4. t[j] \in Nat
    <3>1. j \in 1..Len(t)
      BY LenProperties
    <3> QED
      BY <3>1, ElementOfSeq
  <2>5. PICK c \in Nat : c = t[j]
    BY <2>4
  <2>6. c >= BYTE
    BY <2>3, <2>5, Bases
  <2> QED
    BY <2>2, <2>5, <2>6
<1> QED
  BY <1>1, <1>2 DEF WritableParts

\* write: the file is that of the program, or something in it is too large.
LEMMA writeInv ==
  ASSUME FileInv, write
  PROVE  FileInv'
<1>1. /\ Kinds /\ Compiled /\ phase = "compiling"
      /\ source' = [strings |-> strings, insts |-> insts]
      /\ UNCHANGED <<strings, offsets, tlength, insts, dlength, bundled, position>>
  BY DEF FileInv, write, sections, machine
<1>2. PICK ss, is : ss = strings /\ is = insts
  OBVIOUS
<1>3. /\ Sound(ss, is) /\ offsets = OffsetsOf(ss)
      /\ tlength = TableLength(ss) /\ dlength = DataLength(is)
  BY <1>1, <1>2 DEF Compiled
<1>4. source'.strings = ss /\ source'.insts = is
  BY <1>1, <1>2
<1>5. CASE Writable
  <2>1. file' = [data |-> tlength, bytes |-> TableBytes \o DataBytes] /\ phase' = "written"
    BY <1>5 DEF write
  <2>2. WritableParts(ss, is)
    BY <1>2, <1>5, WritableIs
  <2>3. TableBytes \o DataBytes = Bytes(ss, is)
    BY <1>2, <1>3, SectionsAre DEF Bytes
  <2>4. Bytes(ss, is) \in Seq(Byte)
    <3>1. /\ ss \in Seq(Seq(Nat)) /\ is \in Seq(Program)
          /\ OffsetsOf(ss) \in Seq(Int) /\ Len(OffsetsOf(ss)) = Len(ss)
          /\ TableLength(ss) \in Int /\ DataLength(is) \in Int
      BY <1>3, LengthsOf
    <3>2. ss \in Seq(Seq(Byte))
      BY <2>2, <3>1, WordsAreBytes DEF WritableParts
    <3> QED
      BY <3>1, <3>2, SectionsType DEF Bytes
  <2>5. file'.bytes = Bytes(ss, is) /\ file'.data = tlength
    BY <2>1, <2>3
  <2>6. Filed'
    BY <1>3, <1>4, <2>2, <2>5 DEF Filed
  <2>7. Kinds'
    <3>1. tlength \in Nat
      BY <1>1 DEF Kinds
    <3>2. file' \in [data : Nat, bytes : Seq(Byte)]
      BY <2>1, <2>3, <2>4, <3>1
    <3> QED
      BY <1>1, <2>1, <3>2 DEF Kinds, Phases
  <2> QED
    BY <2>1, <2>6, <2>7 DEF FileInv, RejectedForAReason
<1>6. CASE ~Writable
  <2>1. phase' = "rejected" /\ file' = file
    BY <1>6 DEF write
  <2>2. Kinds'
    BY <1>1, <2>1 DEF Kinds, Phases
  <2>3. ~WritableParts(ss, is)
    BY <1>2, <1>6, WritableIs
  <2>4. ss \in Seq(Seq(Nat))
    BY <1>3, LengthsOf
  <2>5. \/ \E i \in DOMAIN ss : \E j \in DOMAIN ss[i] : ss[i][j] >= BYTE
        \/ \E i \in DOMAIN is : \E j \in DOMAIN is[i].operands : Unwritable(is[i].operands[j])
    BY <2>3, <2>4, TooLarge
  <2>6. RejectedForAReason'
    BY <1>4, <2>5 DEF RejectedForAReason, Unwritable
  <2> QED
    BY <2>1, <2>2, <2>6 DEF FileInv
<1> QED
  BY <1>5, <1>6

\* The string between its offset and that of the next one, in the file.
LEMMA StringRead ==
  ASSUME NEW ss, NEW is, Sound(ss, is), WritableParts(ss, is), file.bytes = Bytes(ss, is),
         NEW i \in 1..Len(ss)
  PROVE  SubSeq(file.bytes, Texts + OffsetOf(i) + 1, Texts + EndOf(i)) = ss[i]
<1>1. /\ file.bytes \in Seq(Byte) /\ ss \in Seq(Seq(Byte)) /\ ss \in Seq(Seq(Nat))
      /\ READ_U32(0) = TableLength(ss) /\ Count = Len(ss) /\ Len(ss) \in Nat
      /\ \A j \in 1..Len(ss) : OffsetOf(j) = Before(ss, j - 1)
      /\ Holds(file.bytes, (8 + 4 * Len(ss)) + Before(ss, i - 1), ss[i])
  BY FileLayout, LengthsOf
<1>2. /\ Before(ss, i - 1) \in Nat /\ Len(ss[i]) \in Nat
      /\ Before(ss, i - 1) + Len(ss[i]) = Before(ss, i)
      /\ i = Len(ss) => Before(ss, i) = TableLength(ss) - (8 + 4 * Len(ss))
  BY <1>1, StringEnds
<1>3. EndOf(i) = Before(ss, i)
  <2>1. CASE i < Count
    <3>1. i + 1 \in 1..Len(ss) /\ (i + 1) - 1 = i
      BY <1>1, <2>1
    <3> QED
      BY <1>1, <2>1, <3>1 DEF EndOf
  <2>2. CASE ~(i < Count)
    <3>1. i = Len(ss)
      BY <1>1, <2>2
    <3> QED
      BY <1>1, <1>2, <2>2, <3>1 DEF EndOf, Texts
  <2> QED
    BY <2>1, <2>2
<1>4. PICK p \in Nat : p = (8 + 4 * Len(ss)) + Before(ss, i - 1)
  BY <1>1, <1>2
<1>5. SubSeq(file.bytes, p + 1, p + Len(ss[i])) = ss[i]
  <2>1. ss[i] \in Seq(Byte)
    BY <1>1, ElementOfSeq
  <2> QED
    BY <1>1, <1>4, <2>1, HoldsIsSubSeq
<1>6. Texts + OffsetOf(i) + 1 = p + 1 /\ Texts + EndOf(i) = p + Len(ss[i])
  BY <1>1, <1>2, <1>3, <1>4 DEF Texts
<1> QED
  BY <1>5, <1>6

\* readTable.
LEMMA readTableInv ==
  ASSUME FileInv, readTable
  PROVE  FileInv'
<1>1. /\ Kinds /\ Filed /\ phase = "written" /\ ~bundled /\ phase' = "reading"
      /\ tlength' = READ_U32(0)
      /\ offsets' = [i \in 1..Count |-> OffsetOf(i)]
      /\ strings' = [i \in 1..Count |->
                       toString(SubSeq(file.bytes, Texts + OffsetOf(i) + 1, Texts + EndOf(i)))]
      /\ dlength' = READ_U32(READ_U32(0))
      /\ insts' = <<>>
      /\ position' = READ_U32(0) + 8
      /\ UNCHANGED <<source, file, bundled>>
  BY DEF FileInv, readTable, Phases
<1>2. PICK ss, is : ss = source.strings /\ is = source.insts
  OBVIOUS
<1>3. Sound(ss, is) /\ WritableParts(ss, is) /\ file.bytes = Bytes(ss, is)
  BY <1>1, <1>2 DEF Filed
<1>4. /\ READ_U32(0) = TableLength(ss) /\ Count = Len(ss)
      /\ \A i \in 1..Len(ss) : OffsetOf(i) = Before(ss, i - 1)
      /\ READ_U32(TableLength(ss)) = DataLength(is)
      /\ ss \in Seq(Seq(Byte))
  BY <1>3, FileLayout
<1>5. /\ Len(ss) \in Nat /\ DOMAIN ss = 1..Len(ss) /\ is \in Seq(Program)
      /\ TableLength(ss) \in Nat /\ DataLength(is) \in Nat
      /\ OffsetsOf(ss) \in Seq(Int) /\ Len(OffsetsOf(ss)) = Len(ss)
  BY <1>3, <1>4, LengthsOf, LenProperties
<1>6. offsets' = OffsetsOf(ss)
  BY <1>1, <1>4, <1>5 DEF OffsetsOf
<1>7. strings' = [i \in 1..Len(ss) |-> toString(ss[i])]
  <2>1. \A i \in 1..Len(ss) : SubSeq(file.bytes, Texts + OffsetOf(i) + 1, Texts + EndOf(i)) = ss[i]
    BY <1>3, StringRead
  <2> QED
    BY <1>1, <1>4, <2>1
<1>8. /\ strings' \in Seq(Seq(Nat)) /\ Len(strings') = Len(ss)
      /\ (\A i \in 1..Len(ss) : IsAscii(ss[i])) => strings' = ss
  <2>1. \A i \in 1..Len(ss) : toString(ss[i]) \in Seq(Nat) /\ (IsAscii(ss[i]) => toString(ss[i]) = ss[i])
    <3> TAKE i \in 1..Len(ss)
    <3>1. ss[i] \in Seq(Byte)
      BY <1>4, ElementOfSeq
    <3> QED
      BY <3>1, Decoding
  <2>2. strings' \in [1..Len(ss) -> Seq(Nat)]
    BY <1>7, <2>1
  <2>3. strings' \in Seq(Seq(Nat)) /\ Len(strings') = Len(ss)
    BY ONLY <1>5, <2>2, FunctionIsSeq
  <2>4. ASSUME \A i \in 1..Len(ss) : IsAscii(ss[i]) PROVE strings' = ss
    <3>1. ss = [i \in 1..Len(ss) |-> ss[i]]
      BY <1>4, <1>5
    <3> QED
      BY <1>7, <2>1, <2>4, <3>1
  <2> QED
    BY <2>3, <2>4
<1>9. Ascii' => strings' = ss
  BY <1>1, <1>2, <1>5, <1>8 DEF Ascii, IsAscii
<1>10. /\ NormalsOf(is) \in Seq(Program) /\ Pieces(is) \in Seq(Seq(Byte))
       /\ Len(is) \in Nat
  BY <1>5, NormalsType, PiecesType, LenProperties
<1>11. SubSeq(NormalsOf(is), 1, 0) = <<>> /\ Before(Pieces(is), 0) = 0
  BY <1>10, PrefixLaws, BeforeSteps
<1>12. ReadUpTo(0)'
  <2>1. position' = (tlength' + 8) + 0
    BY <1>1, <1>4, <1>5
  <2> QED
    BY <1>1, <1>2, <1>11, <2>1 DEF ReadUpTo
<1>13. Reading'
  <2>1. 0 \in 0..Len(is)
    BY <1>10
  <2>2. source'.strings = ss /\ source'.insts = is
    BY <1>1, <1>2
  <2> QED
    BY <1>1, <1>4, <1>6, <1>8, <1>9, <1>12, <2>1, <2>2 DEF Reading
<1>14. Kinds'
  <2>1. Len(offsets') = Len(strings')
    BY <1>5, <1>6, <1>8
  <2>2. tlength' \in Nat /\ dlength' \in Nat /\ position' \in Nat
    BY <1>1, <1>4, <1>5
  <2>3. file' \in [data : Nat, bytes : Seq(Byte)] /\ bundled' \in BOOLEAN
    BY <1>1 DEF Kinds
  <2>4. phase' \in Phases
    BY <1>1 DEF Phases
  <2> QED
    BY <2>1, <2>2, <2>3, <2>4 DEF Kinds
<1>15. Filed'
  BY <1>1, FiledStays
<1> QED
  BY <1>1, <1>13, <1>14, <1>15 DEF FileInv, RejectedForAReason

\* One instruction further in the data section.
LEMMA NextInstruction ==
  ASSUME NEW ss, NEW is, Sound(ss, is), WritableParts(ss, is), file.bytes = Bytes(ss, is),
         NEW n \in 0..Len(is), n < Len(is),
         NEW p, p = (TableLength(ss) + 8) + Before(Pieces(is), n),
         NEW inst, inst = is[n + 1]
  PROVE  /\ inst \in Program /\ WritableInst(inst) /\ n + 1 \in 0..Len(is)
         /\ file.bytes \in Seq(Byte)
         /\ Holds(file.bytes, p, InstBytes(inst))
         /\ p \in Nat
         /\ p + 1 + WidthOf(operandDictionary(inst.op)) =
              (TableLength(ss) + 8) + Before(Pieces(is), n + 1)
<1>1. /\ is \in Seq(Program) /\ Len(is) \in Nat /\ TableLength(ss) \in Nat
  BY LengthsOf
<1>2. n + 1 \in 1..Len(is) /\ (n + 1) - 1 = n /\ n + 1 \in 0..Len(is)
  BY <1>1
<1>3. inst \in Program
  BY <1>1, <1>2, ElementOfSeq
<1>4. WritableInst(inst)
  <2>1. n + 1 \in DOMAIN is
    BY <1>1, <1>2, LenProperties
  <2> QED
    BY <2>1 DEF WritableParts
<1>5. file.bytes \in Seq(Byte) /\ Holds(file.bytes, p, InstBytes(inst))
  BY <1>2, FileLayout
<1>6. /\ Pieces(is) \in Seq(Seq(Byte)) /\ Len(Pieces(is)) = Len(is)
      /\ Pieces(is)[n + 1] = InstBytes(inst)
  BY <1>1, <1>2, PiecesType
<1>7. /\ Before(Pieces(is), n) \in Nat
      /\ Before(Pieces(is), n + 1) = Before(Pieces(is), n) + Len(InstBytes(inst))
  BY <1>2, <1>6, BeforeSteps
<1>8. /\ Len(InstBytes(inst)) = 1 + WidthOf(operandDictionary(inst.op))
      /\ WidthOf(operandDictionary(inst.op)) \in Nat
  BY <1>3, InstLayout
<1>9. p \in Nat
  BY <1>1, <1>7
<1>10. p + 1 + WidthOf(operandDictionary(inst.op)) =
         (TableLength(ss) + 8) + Before(Pieces(is), n + 1)
  <2>1. PICK t \in Nat, b \in Nat, w \in Nat :
          /\ t = TableLength(ss) /\ b = Before(Pieces(is), n)
          /\ w = WidthOf(operandDictionary(inst.op))
    BY <1>1, <1>7, <1>8
  <2>2. Before(Pieces(is), n + 1) = b + (1 + w)
    BY <1>7, <1>8, <2>1
  <2>3. p = (t + 8) + b
    BY <2>1
  <2>4. p + 1 + w = (t + 8) + (b + (1 + w))
    BY ONLY <2>3, t \in Nat, b \in Nat, w \in Nat
  <2> QED
    BY ONLY <2>1, <2>2, <2>4
<1> QED
  BY <1>2, <1>3, <1>4, <1>5, <1>9, <1>10

\* readInstruction.
LEMMA readInstructionInv ==
  ASSUME FileInv, readInstruction
  PROVE  FileInv'
<1>1. /\ Kinds /\ Filed /\ Reading /\ phase = "reading"
      /\ Len(insts) < READ_U32(tlength + 4)
      /\ UNCHANGED <<strings, offsets, tlength, dlength, source, file, bundled, phase>>
  BY DEF FileInv, readInstruction, Phases
<1>2. PICK ss, is : ss = source.strings /\ is = source.insts
  OBVIOUS
<1>3. Sound(ss, is) /\ WritableParts(ss, is) /\ file.bytes = Bytes(ss, is)
      /\ tlength = TableLength(ss) /\ ~bundled
  BY <1>1, <1>2 DEF Filed, Reading
<1>4. PICK n \in 0..Len(is) :
        /\ insts = SubSeq(NormalsOf(is), 1, n)
        /\ position = (TableLength(ss) + 8) + Before(Pieces(is), n)
  BY <1>1, <1>2, <1>3 DEF Reading, ReadUpTo
<1>5. /\ is \in Seq(Program) /\ Len(is) \in Nat
      /\ NormalsOf(is) \in Seq(Program) /\ Len(NormalsOf(is)) = Len(is)
      /\ READ_U32(TableLength(ss) + 4) = Len(is)
  BY <1>3, LengthsOf, NormalsType, FileLayout
<1>6. Len(insts) = n /\ n < Len(is)
  <2>1. Len(insts) = n
    BY <1>4, <1>5, PrefixLength
  <2> QED
    BY <1>1, <1>3, <1>5, <2>1
<1>7. PICK inst : inst = is[n + 1]
  OBVIOUS
<1>8. /\ inst \in Program /\ WritableInst(inst) /\ n + 1 \in 0..Len(is)
      /\ file.bytes \in Seq(Byte) /\ Holds(file.bytes, position, InstBytes(inst))
      /\ position \in Nat
      /\ position + 1 + WidthOf(operandDictionary(inst.op)) =
           (TableLength(ss) + 8) + Before(Pieces(is), n + 1)
  BY <1>3, <1>4, <1>6, <1>7, NextInstruction
<1>9. /\ Opcodes[file.bytes[position + 1] + 1] = inst.op
      /\ Operands(operandDictionary(inst.op), position + 1) = Normal(inst).operands
  BY <1>8, ReadInstruction
<1>10. /\ insts' = Append(insts, Normal(inst))
       /\ position' = position + 1 + WidthOf(operandDictionary(inst.op))
  <2>1. Normal(inst) = [op |-> inst.op, operands |-> Normal(inst).operands]
    BY DEF Normal
  <2> QED
    BY <1>9, <2>1 DEF readInstruction
<1>11. insts' = SubSeq(NormalsOf(is), 1, n + 1)
  <2>1. n + 1 \in 1..Len(NormalsOf(is)) /\ (n + 1) - 1 = n
    BY <1>5, <1>6
  <2>2. SubSeq(NormalsOf(is), 1, n + 1) = Append(SubSeq(NormalsOf(is), 1, n), NormalsOf(is)[n + 1])
    BY <1>5, <2>1, PrefixLaws
  <2>3. NormalsOf(is)[n + 1] = Normal(inst)
    BY <1>5, <1>7, <2>1, NormalsType
  <2> QED
    BY <1>4, <1>10, <2>2, <2>3
<1>12. source'.strings = ss /\ source'.insts = is
  BY <1>1, <1>2
<1>13. ReadUpTo(n + 1)'
  <2>1. position' = (tlength' + 8) + Before(Pieces(is), n + 1)
    BY <1>1, <1>3, <1>8, <1>10
  <2> QED
    BY <1>11, <1>12, <2>1 DEF ReadUpTo
<1>14. Reading'
  <2>1. Ascii' <=> Ascii
    BY <1>1 DEF Ascii
  <2> QED
    BY <1>1, <1>2, <1>8, <1>12, <1>13, <2>1 DEF Reading
<1>15. Kinds'
  <2>1. position' \in Nat
    BY <1>8, <1>10, WidthType
  <2> QED
    BY <1>1, <2>1 DEF Kinds
<1>16. Filed'
  BY <1>1, FiledStays
<1> QED
  BY <1>1, <1>14, <1>15, <1>16 DEF FileInv, RejectedForAReason

\* What bundling has read, when it has read everything, and what it writes.
LEMMA ReadToTheEnd ==
  ASSUME FileInv, phase = "reading", Len(insts) = READ_U32(tlength + 4),
         NEW ss, ss = source.strings, NEW is, is = source.insts
  PROVE  /\ insts \in Seq(Program) /\ \A i \in DOMAIN insts : WritableInst(insts[i])
         /\ Sound(ss, is) /\ WritableParts(ss, is) /\ file.data = TableLength(ss)
         /\ file.bytes = Bytes(ss, is) /\ ~bundled
         /\ strings \in Seq(Seq(Nat)) /\ offsets \in Seq(Int) /\ Len(offsets) = Len(strings)
         /\ Ascii => strings = ss /\ TableBytes \o DataBytes = Bytes(ss, is)
<1>1. Kinds /\ Filed /\ Reading
  BY DEF FileInv, Phases
<1>2. /\ Sound(ss, is) /\ WritableParts(ss, is) /\ file.bytes = Bytes(ss, is)
      /\ tlength = TableLength(ss) /\ dlength = DataLength(is) /\ offsets = OffsetsOf(ss)
      /\ file.data = TableLength(ss) /\ ~bundled
      /\ strings \in Seq(Seq(Nat)) /\ Len(strings) = Len(ss) /\ (Ascii => strings = ss)
  BY <1>1 DEF Filed, Reading
<1>3. PICK n \in 0..Len(is) : insts = SubSeq(NormalsOf(is), 1, n)
  BY <1>1 DEF Reading, ReadUpTo
<1>4. /\ is \in Seq(Program) /\ Len(is) \in Nat
      /\ NormalsOf(is) \in Seq(Program) /\ Len(NormalsOf(is)) = Len(is)
      /\ Pieces(NormalsOf(is)) = Pieces(is)
      /\ \A i \in 1..Len(is) : WritableInst(NormalsOf(is)[i]) <=> WritableInst(is[i])
      /\ READ_U32(TableLength(ss) + 4) = Len(is)
      /\ OffsetsOf(ss) \in Seq(Int) /\ Len(OffsetsOf(ss)) = Len(ss)
  BY <1>2, LengthsOf, NormalsType, FileLayout
<1>5. n = Len(is)
  <2>1. Len(insts) = n
    BY <1>3, <1>4, PrefixLength
  <2> QED
    BY <1>2, <1>4, <2>1
<1>6. insts = NormalsOf(is)
  <2>1. SubSeq(NormalsOf(is), 1, Len(NormalsOf(is))) = NormalsOf(is)
    BY <1>4, PrefixLaws
  <2> QED
    BY <1>3, <1>4, <1>5, <2>1
<1>7. \A i \in DOMAIN insts : WritableInst(insts[i])
  <2>1. DOMAIN insts = 1..Len(is) /\ DOMAIN is = 1..Len(is)
    BY <1>4, <1>6, LenProperties
  <2>2. \A i \in 1..Len(is) : WritableInst(is[i])
    BY <1>2, <2>1 DEF WritableParts
  <2> QED
    BY <1>4, <1>6, <2>1, <2>2
<1>8. Data(NormalsOf(is), DataLength(is)) = Data(is, DataLength(is))
  BY <1>4 DEF Data
<1>9. Ascii => TableBytes \o DataBytes = Bytes(ss, is)
  BY <1>2, <1>6, <1>8, SectionsAre DEF Bytes
<1> QED
  BY <1>2, <1>4, <1>6, <1>7, <1>9

\* rewrite: in ASCII the same file; otherwise one of bytes at least.
LEMMA rewriteInv ==
  ASSUME FileInv, rewrite
  PROVE  FileInv'
<1>1. /\ Kinds /\ phase = "reading" /\ Len(insts) = READ_U32(tlength + 4)
      /\ bundled' = TRUE
      /\ UNCHANGED <<strings, offsets, tlength, insts, dlength, source, position>>
  BY DEF FileInv, rewrite, sections, machine
<1>2. PICK ss, is : ss = source.strings /\ is = source.insts
  OBVIOUS
<1>3. /\ insts \in Seq(Program) /\ \A i \in DOMAIN insts : WritableInst(insts[i])
      /\ Sound(ss, is) /\ WritableParts(ss, is) /\ file.data = TableLength(ss)
      /\ strings \in Seq(Seq(Nat)) /\ offsets \in Seq(Int) /\ Len(offsets) = Len(strings)
      /\ (Ascii => strings = ss /\ TableBytes \o DataBytes = Bytes(ss, is))
  BY <1>1, <1>2, ReadToTheEnd
<1>4. Ascii' <=> Ascii
  BY <1>1 DEF Ascii
<1>5. source'.strings = ss /\ source'.insts = is
  BY <1>1, <1>2
<1>6. CASE Writable
  <2>1. file' = [file EXCEPT !.bytes = TableBytes \o DataBytes] /\ phase' = "written"
    BY <1>6 DEF rewrite
  <2>2. TableBytes \o DataBytes \in Seq(Byte)
    <3>1. strings \in Seq(Seq(Byte))
      BY <1>3, <1>6, WordsAreBytes DEF Writable
    <3>2. tlength \in Int /\ dlength \in Int
      BY <1>1 DEF Kinds
    <3> QED
      BY <1>3, <3>1, <3>2, SectionsAre, SectionsType
  <2>3. /\ file' \in [data : Nat, bytes : Seq(Byte)]
        /\ file'.data = file.data /\ file'.bytes = TableBytes \o DataBytes
    <3>1. file \in [data : Nat, bytes : Seq(Byte)]
      BY <1>1 DEF Kinds
    <3> QED
      BY <2>1, <2>2, <3>1
  <2>4. Kinds'
    BY <1>1, <2>1, <2>3 DEF Kinds, Phases
  <2>5. Filed'
    BY <1>1, <1>3, <1>4, <1>5, <2>3 DEF Filed
  <2> QED
    BY <2>1, <2>4, <2>5 DEF FileInv, RejectedForAReason
<1>7. CASE ~Writable
  <2>1. phase' = "rejected" /\ file' = file
    BY <1>7 DEF rewrite
  <2>2. Kinds'
    BY <1>1, <2>1 DEF Kinds, Phases
  <2>3. ~Ascii
    <3>1. \E i \in DOMAIN strings : \E j \in DOMAIN strings[i] : ~(strings[i][j] < BYTE)
      BY <1>3, <1>7, WritableIs DEF WritableParts
    <3> QED
      BY <1>3, <3>1 DEF WritableParts
  <2>4. RejectedForAReason'
    BY <1>1, <1>4, <2>3 DEF RejectedForAReason
  <2> QED
    BY <2>1, <2>2, <2>4 DEF FileInv
<1> QED
  BY <1>6, <1>7

-----------------------------------------------------------------------------
(* Loading.                                                                *)

\* load_string_table.
LEMMA load_string_tableInv ==
  ASSUME FileInv, load_string_table
  PROVE  FileInv'
<1>1. /\ Kinds /\ Filed /\ phase = "written" /\ phase' = "loading"
      /\ table' = [length |-> READ_U32(0), count |-> Count,
                   offsets |-> [i \in 1..Count |-> OffsetOf(i)],
                   strings |-> SubSeq(file.bytes, Texts + 1, READ_U32(0))]
      /\ position' = file.data + 8
      /\ loaded' = <<>>
      /\ UNCHANGED <<strings, offsets, tlength, insts, dlength, source, file, bundled>>
  BY DEF FileInv, load_string_table, Phases, sections
<1>2. Kinds'
  <2>1. file.data + 8 \in Nat
    BY <1>1 DEF Kinds
  <2> QED
    BY <1>1, <2>1 DEF Kinds, Phases
<1>3. Filed'
  BY <1>1, FiledStays
<1>4. Ascii' <=> Ascii
  BY <1>1 DEF Ascii
<1>5. ASSUME bundled => Ascii PROVE Loading'
  <2>1. PICK ss, is : ss = source.strings /\ is = source.insts
    OBVIOUS
  <2>2. Sound(ss, is) /\ WritableParts(ss, is) /\ file.bytes = Bytes(ss, is)
    BY <1>1, <1>5, <2>1 DEF Filed
  <2>3. /\ READ_U32(0) = TableLength(ss) /\ Count = Len(ss)
        /\ \A i \in 1..Len(ss) : OffsetOf(i) = Before(ss, i - 1)
        /\ Holds(file.bytes, 8 + 4 * Len(ss), FlattenSeq(ss))
        /\ file.bytes \in Seq(Byte) /\ ss \in Seq(Seq(Byte))
    BY <2>2, FileLayout
  <2>4. Len(ss) \in Nat /\ DOMAIN ss = 1..Len(ss) /\ is \in Seq(Program)
    BY <2>2, <2>3, LengthsOf, LenProperties
  <2>5. [i \in 1..Count |-> OffsetOf(i)] = OffsetsOf(ss)
    BY <2>3, <2>4 DEF OffsetsOf
  <2>6. SubSeq(file.bytes, Texts + 1, READ_U32(0)) = FlattenSeq(ss)
    <3>1. PICK p \in Nat : p = 8 + 4 * Len(ss)
      BY <2>4
    <3>2. FlattenSeq(ss) \in Seq(Byte) /\ Len(FlattenSeq(ss)) \in Nat
      BY <2>3, FlattenType, LenProperties
    <3>3. SubSeq(file.bytes, p + 1, p + Len(FlattenSeq(ss))) = FlattenSeq(ss)
      BY <2>3, <3>1, <3>2, HoldsIsSubSeq
    <3>4. Texts + 1 = p + 1 /\ READ_U32(0) = p + Len(FlattenSeq(ss))
      BY <2>3, <3>1 DEF Texts, TableLength
    <3> QED
      BY <3>3, <3>4
  <2>7. /\ MachineOf(is) \in Seq(MachineInstruction) /\ Pieces(is) \in Seq(Seq(Byte))
        /\ Len(is) \in Nat
    BY <2>4, MachineType, PiecesType, LenProperties
  <2>8. SubSeq(MachineOf(is), 1, 0) = <<>> /\ Before(Pieces(is), 0) = 0
    BY <2>7, PrefixLaws, BeforeSteps
  <2>9. source'.strings = ss /\ source'.insts = is
    BY <1>1, <2>1
  <2>10. LoadedUpTo(0)'
    <3>1. position' = (file'.data + 8) + 0
      BY <1>1 DEF Kinds
    <3> QED
      BY <1>1, <2>8, <2>9, <3>1 DEF LoadedUpTo
  <2>11. 0 \in 0..Len(is)
    BY <2>7
  <2>12. table' = [length |-> TableLength(ss), count |-> Len(ss),
                   offsets |-> OffsetsOf(ss), strings |-> FlattenSeq(ss)]
    BY <1>1, <2>3, <2>5, <2>6
  <2> QED
    BY <1>1, <2>9, <2>10, <2>11, <2>12 DEF Loading
<1> QED
  BY <1>1, <1>2, <1>3, <1>4, <1>5 DEF FileInv, RejectedForAReason

\* A file that is the program's: what load_data_section finds in it.
LEMMA LoadingFrom ==
  ASSUME FileInv, phase = "loading", bundled => Ascii,
         NEW ss, ss = source.strings, NEW is, is = source.insts
  PROVE  \E n \in 0..Len(is) :
           /\ loaded = SubSeq(MachineOf(is), 1, n) /\ Len(loaded) = n
           /\ position = (TableLength(ss) + 8) + Before(Pieces(is), n)
           /\ Sound(ss, is) /\ WritableParts(ss, is) /\ file.bytes = Bytes(ss, is)
           /\ file.data = TableLength(ss) /\ HasCount
           /\ More <=> n < Len(is)
           /\ n < Len(is) => InstInFile
<1>1. Kinds /\ Filed /\ Loading
  BY DEF FileInv, Phases
<1>2. /\ Sound(ss, is) /\ WritableParts(ss, is) /\ file.bytes = Bytes(ss, is)
      /\ file.data = TableLength(ss)
  BY <1>1 DEF Filed
<1>3. PICK n \in 0..Len(is) :
        /\ loaded = SubSeq(MachineOf(is), 1, n)
        /\ position = (TableLength(ss) + 8) + Before(Pieces(is), n)
  BY <1>1, <1>2 DEF Loading, LoadedUpTo
<1>4. /\ is \in Seq(Program) /\ Len(is) \in Nat /\ TableLength(ss) \in Nat
      /\ MachineOf(is) \in Seq(MachineInstruction) /\ Len(MachineOf(is)) = Len(is)
      /\ READ_U32(TableLength(ss) + 4) = Len(is)
      /\ Len(file.bytes) = (TableLength(ss) + 8) + Len(FlattenSeq(Pieces(is)))
      /\ file.bytes \in Seq(Byte)
  BY <1>2, LengthsOf, MachineType, FileLayout
<1>5. Len(loaded) = n
  BY <1>3, <1>4, PrefixLength
<1>6. More <=> n < Len(is)
  BY <1>2, <1>4, <1>5 DEF More
<1>7. HasCount
  <2>1. Len(FlattenSeq(Pieces(is))) \in Nat
    <3>1. FlattenSeq(Pieces(is)) \in Seq(Byte)
      BY <1>4, PiecesType, FlattenType
    <3> QED
      BY <3>1, LenProperties
  <2> QED
    BY <1>2, <1>4, <2>1 DEF HasCount, InFile
<1>8. ASSUME n < Len(is) PROVE InstInFile
  <2>1. PICK inst : inst = is[n + 1]
    OBVIOUS
  <2>2. /\ inst \in Program /\ WritableInst(inst) /\ file.bytes \in Seq(Byte)
        /\ Holds(file.bytes, position, InstBytes(inst)) /\ position \in Nat
    BY <1>2, <1>3, <1>8, <2>1, NextInstruction
  <2>3. OpAt(position) = IF inst.op = "NOP" THEN "NULL" ELSE inst.op
    BY <2>2, ReadInstruction
  <2>4. InstUnits(OpAt(position)) = operandDictionary(inst.op)
    BY <2>3, UnitsOfOpcodes, NoUnits
  <2>5. PICK w \in Nat, l \in Nat, m \in Nat :
          /\ w = WidthOf(operandDictionary(inst.op)) /\ l = Len(InstBytes(inst)) /\ l = 1 + w
          /\ m = Len(file.bytes)
    <3>1. /\ Len(InstBytes(inst)) = 1 + WidthOf(operandDictionary(inst.op))
          /\ WidthOf(operandDictionary(inst.op)) \in Nat
      BY <2>2, InstLayout
    <3>2. Len(file.bytes) \in Nat
      BY <1>4, LenProperties
    <3> QED
      BY <3>1, <3>2
  <2>6. position + l <= m
    BY <2>2, <2>5 DEF Holds
  <2>7. position + 1 <= m /\ position + 1 + w <= m
    BY <2>2, <2>5, <2>6
  <2> QED
    BY <2>4, <2>5, <2>7 DEF InstInFile, InFile
<1> QED
  BY <1>2, <1>3, <1>5, <1>6, <1>7, <1>8

\* load_instruction.
LEMMA load_instructionInv ==
  ASSUME FileInv, load_instruction
  PROVE  FileInv'
<1>1. /\ Kinds /\ Filed /\ phase = "loading" /\ More
      /\ UNCHANGED <<strings, offsets, tlength, insts, dlength, source, file, bundled, table, phase>>
  BY DEF FileInv, load_instruction, Phases, sections
<1>2. PICK op : op = OpAt(position)
  OBVIOUS
<1>3. /\ loaded' = Append(loaded, [op |-> op,
                                   operands |-> Operands(InstUnits(op), position + 1)])
      /\ position' = position + 1 + WidthOf(InstUnits(op))
  BY <1>2 DEF load_instruction
<1>4. Kinds'
  <2>1. position' \in Nat
    <3>1. position \in Nat /\ WidthOf(InstUnits(op)) \in Nat
      BY <1>1, WidthType DEF Kinds
    <3> QED
      BY <1>3, <3>1
  <2> QED
    BY <1>1, <2>1 DEF Kinds
<1>5. Filed'
  BY <1>1, FiledStays
<1>6. Ascii' <=> Ascii
  BY <1>1 DEF Ascii
<1>7. ASSUME bundled => Ascii PROVE Loading'
  <2>1. PICK ss, is : ss = source.strings /\ is = source.insts
    OBVIOUS
  <2>2. PICK n \in 0..Len(is) :
          /\ loaded = SubSeq(MachineOf(is), 1, n)
          /\ position = (TableLength(ss) + 8) + Before(Pieces(is), n)
          /\ Sound(ss, is) /\ WritableParts(ss, is) /\ file.bytes = Bytes(ss, is)
          /\ file.data = TableLength(ss) /\ n < Len(is)
    BY <1>1, <1>7, <2>1, LoadingFrom
  <2>3. PICK inst : inst = is[n + 1]
    OBVIOUS
  <2>4. /\ inst \in Program /\ WritableInst(inst) /\ n + 1 \in 0..Len(is)
        /\ file.bytes \in Seq(Byte) /\ Holds(file.bytes, position, InstBytes(inst))
        /\ position + 1 + WidthOf(operandDictionary(inst.op)) =
             (TableLength(ss) + 8) + Before(Pieces(is), n + 1)
    BY <2>2, <2>3, NextInstruction
  <2>5. /\ op = IF inst.op = "NOP" THEN "NULL" ELSE inst.op
        /\ Operands(operandDictionary(inst.op), position + 1) = Normal(inst).operands
    BY <1>2, <2>4, ReadInstruction
  <2>6. InstUnits(op) = operandDictionary(inst.op)
    BY <2>5, UnitsOfOpcodes, NoUnits
  <2>7. loaded' = Append(loaded, InMachine(inst))
    <3>1. InMachine(inst) = [op |-> op, operands |-> Normal(inst).operands]
      BY <2>5 DEF InMachine, Normal, NormalOperand
    <3> QED
      BY <1>3, <2>5, <2>6, <3>1
  <2>8. loaded' = SubSeq(MachineOf(is), 1, n + 1)
    <3>1. is \in Seq(Program) /\ Len(is) \in Nat
      BY <2>2, LengthsOf
    <3>2. MachineOf(is) \in Seq(MachineInstruction) /\ Len(MachineOf(is)) = Len(is)
      BY <3>1, MachineType
    <3>3. n + 1 \in 1..Len(MachineOf(is)) /\ (n + 1) - 1 = n
      BY <2>2, <3>1, <3>2
    <3>4. SubSeq(MachineOf(is), 1, n + 1) = Append(SubSeq(MachineOf(is), 1, n), MachineOf(is)[n + 1])
      BY <3>2, <3>3, PrefixLaws
    <3>5. MachineOf(is)[n + 1] = InMachine(inst)
      BY <2>3, <3>1, <3>2, <3>3, MachineType
    <3> QED
      BY <2>2, <2>7, <3>4, <3>5
  <2>9. source'.strings = ss /\ source'.insts = is
    BY <1>1, <2>1
  <2>10. LoadedUpTo(n + 1)'
    <3>1. position' = (file'.data + 8) + Before(Pieces(is), n + 1)
      BY <1>1, <1>3, <2>2, <2>4, <2>6
    <3>2. phase' # "loaded"
      BY <1>1
    <3> QED
      BY <2>8, <2>9, <3>1, <3>2 DEF LoadedUpTo
  <2>11. Loading
    BY <1>1, <1>7 DEF FileInv
  <2> QED
    BY <1>1, <2>1, <2>4, <2>9, <2>10, <2>11 DEF Loading
<1> QED
  BY <1>1, <1>4, <1>5, <1>6, <1>7 DEF FileInv, RejectedForAReason

\* Overrun: only a file that bundling has garbled is read past its end.
LEMMA OverrunInv ==
  ASSUME FileInv, Overrun
  PROVE  FileInv'
<1>1. /\ Kinds /\ Filed /\ phase = "loading" /\ phase' = "overrun"
      /\ (HasCount => More /\ ~InstInFile)
      /\ UNCHANGED <<strings, offsets, tlength, insts, dlength, source, file, bundled, position>>
  BY DEF FileInv, Overrun, Phases, sections, machine
<1>2. ASSUME bundled => Ascii PROVE FALSE
  BY <1>1, <1>2, LoadingFrom
<1>3. Kinds'
  BY <1>1 DEF Kinds, Phases
<1>4. Filed'
  BY <1>1, FiledStays
<1>5. Ascii' <=> Ascii
  BY <1>1 DEF Ascii
<1> QED
  BY <1>1, <1>2, <1>3, <1>4, <1>5 DEF FileInv, RejectedForAReason

\* Loaded.
LEMMA LoadedInv ==
  ASSUME FileInv, Loaded
  PROVE  FileInv'
<1>1. /\ Kinds /\ Filed /\ phase = "loading" /\ phase' = "loaded" /\ ~More
      /\ UNCHANGED <<strings, offsets, tlength, insts, dlength, source, file, bundled,
                     table, loaded, position>>
  BY DEF FileInv, Loaded, Phases, sections, machine
<1>2. Kinds'
  BY <1>1 DEF Kinds, Phases
<1>3. Filed'
  BY <1>1, FiledStays
<1>4. Ascii' <=> Ascii
  BY <1>1 DEF Ascii
<1>5. ASSUME bundled => Ascii PROVE Loading'
  <2>1. PICK ss, is : ss = source.strings /\ is = source.insts
    OBVIOUS
  <2>2. PICK n \in 0..Len(is) :
          /\ loaded = SubSeq(MachineOf(is), 1, n)
          /\ position = (file.data + 8) + Before(Pieces(is), n)
          /\ is \in Seq(Program) /\ ~(n < Len(is))
    BY <1>1, <1>5, <2>1, LoadingFrom DEF Sound
  <2>3. n = Len(is)
    <3>1. Len(is) \in Nat
      BY <2>2, LenProperties
    <3> QED
      BY <2>2, <3>1
  <2>4. source'.insts = is
    BY <1>1, <2>1
  <2>5. LoadedUpTo(n)'
    BY <1>1, <2>2, <2>3, <2>4 DEF LoadedUpTo
  <2>6. Loading
    BY <1>1, <1>5 DEF FileInv
  <2> QED
    BY <1>1, <2>1, <2>4, <2>5, <2>6 DEF Loading
<1> QED
  BY <1>1, <1>2, <1>3, <1>4, <1>5 DEF FileInv, RejectedForAReason

-----------------------------------------------------------------------------
(* The theorems.                                                           *)

\* Every step keeps the invariant.
LEMMA FileNext == FileInv /\ [Next]_vars => FileInv'
<1> SUFFICES ASSUME FileInv, [Next]_vars PROVE FileInv'
  OBVIOUS
<1>1. CASE \E x \in Strings : registerString(x)
  BY <1>1, registerStringInv
<1>2. CASE \E inst \in Insts : addInstruction(inst)
  BY <1>2, addInstructionInv
<1>3. CASE \E i \in DOMAIN insts, inst \in Patches : replaceInstruction(i, inst)
  BY <1>3, replaceInstructionInv
<1>4. CASE write
  BY <1>4, writeInv
<1>5. CASE readTable
  BY <1>5, readTableInv
<1>6. CASE readInstruction
  BY <1>6, readInstructionInv
<1>7. CASE rewrite
  BY <1>7, rewriteInv
<1>8. CASE load_string_table
  BY <1>8, load_string_tableInv
<1>9. CASE load_instruction
  BY <1>9, load_instructionInv
<1>10. CASE Overrun
  BY <1>10, OverrunInv
<1>11. CASE Loaded
  BY <1>11, LoadedInv
<1>12. CASE UNCHANGED vars
  BY <1>12 DEF vars, sections, machine, FileInv, Kinds, Compiled, Filed, Reading, ReadUpTo,
    Loading, LoadedUpTo, Ascii, RejectedForAReason
<1> QED
  BY <1>1, <1>2, <1>3, <1>4, <1>5, <1>6, <1>7, <1>8, <1>9, <1>10, <1>11, <1>12
  DEF Next, Stopped

\* FileInv holds in every state: the compiler, the file, atomixc bundle and the
\* virtual machine agree on every byte. (STableSection, DataSection, loader.c.)
THEOREM FileInvariant == Spec => []FileInv
<1>1. Init => FileInv
  BY InitInv
<1>2. FileInv /\ [Next]_vars => FileInv'
  BY FileNext
<1> QED
  BY <1>1, <1>2, PTL DEF Spec

\* The file consists of bytes, whichever way it was written. (writeTo of both
\* sections, buildModule, readFrom.)
THEOREM TypeCorrect == Spec => []TypeOK
<1>1. FileInv => TypeOK
  <2> SUFFICES ASSUME FileInv PROVE TypeOK
    OBVIOUS
  <2>1. Kinds
    BY DEF FileInv
  <2>2. PICK b \in Seq(Byte) : b = file.bytes
    BY <2>1 DEF Kinds
  <2>3. \A i \in DOMAIN b : b[i] \in 0..(BYTE - 1)
    BY LenProperties, ElementOfSeq DEF Byte
  <2> QED
    BY <2>1, <2>2, <2>3 DEF TypeOK, Kinds, Phases
<1> QED
  BY <1>1, FileInvariant, PTL

\* The lengths counted while compiling are those of the bytes written, for every
\* program: the data section begins where the header says. (registerString,
\* addInstruction, replaceInstruction, writeTo.)
THEOREM LengthsAlwaysAddUp == Spec => []LengthsAddUp
<1>1. FileInv => LengthsAddUp
  BY CompiledAddsUp DEF FileInv, LengthsAddUp
<1> QED
  BY <1>1, FileInvariant, PTL

\* No program is rejected without a character or an operand that does not fit, or, at
\* bundling, a character outside ASCII. (The range checks of Buffer.write*.)
THEOREM RejectionIsJustified == Spec => []RejectedForAReason
<1>1. FileInv => RejectedForAReason
  BY DEF FileInv
<1> QED
  BY <1>1, FileInvariant, PTL

\* The virtual machine loads every program as it was compiled, never reads past the
\* end of the file, and finds every string, bundled or not as long as the strings
\* are ASCII. (writeTo, readFrom, load_instruction, string_table_load_str.)
THEOREM WhatWasCompiledIsLoaded == Spec => []LoadsWhatWasCompiled
<1>1. FileInv => LoadsWhatWasCompiled
  <2> SUFFICES ASSUME FileInv, phase \in {"loading", "loaded", "overrun"}, bundled => Ascii
               PROVE  /\ phase # "overrun"
                      /\ IsPrefix(loaded, [i \in DOMAIN source.insts |-> InMachine(source.insts[i])])
                      /\ phase = "loaded" => Len(loaded) = Len(source.insts)
                      /\ table.count = Len(source.strings)
                      /\ \A i \in DOMAIN source.strings :
                           string_table_load_str(i) = source.strings[i]
    BY DEF LoadsWhatWasCompiled
  <2>1. Loading /\ Filed
    BY DEF FileInv, Phases
  <2>2. PICK ss, is : ss = source.strings /\ is = source.insts
    OBVIOUS
  <2>3. PICK n \in 0..Len(is) :
          loaded = SubSeq(MachineOf(is), 1, n) /\ (phase = "loaded" => n = Len(is))
    BY <2>1, <2>2 DEF Loading, LoadedUpTo
  <2>4. /\ is \in Seq(Program) /\ ss \in Seq(Seq(Nat)) /\ Len(ss) \in Nat
        /\ DOMAIN ss = 1..Len(ss) /\ Len(is) \in Nat
        /\ Len(OffsetsOf(ss)) = Len(ss)
        /\ \A i \in 1..Len(ss) : OffsetsOf(ss)[i] = Before(ss, i - 1)
    BY <2>1, <2>2, LengthsOf, LenProperties DEF Filed
  <2>5. MachineOf(is) \in Seq(MachineInstruction) /\ Len(MachineOf(is)) = Len(is)
    BY <2>4, MachineType
  <2>6. Len(loaded) = n
    BY <2>3, <2>5, PrefixLength
  <2>7. IsPrefix(loaded, MachineOf(is))
    <3>1. PICK s : s = MachineOf(is)
      OBVIOUS
    <3>2. s \in Seq(MachineInstruction) /\ n \in 0..Len(s) /\ loaded = SubSeq(s, 1, n)
      BY <2>3, <2>5, <3>1
    <3>3. loaded \in Seq(MachineInstruction)
      BY <3>2, PrefixLaws
    <3>4. SubSeq(loaded, 1, Len(loaded)) = loaded
      BY <3>3, PrefixLaws
    <3>5. Len(loaded) <= Len(s)
      BY <2>4, <2>5, <2>6, <3>1
    <3> QED
      BY <2>6, <3>1, <3>2, <3>4, <3>5 DEF IsPrefix
  <2>8. ASSUME NEW i \in DOMAIN ss PROVE string_table_load_str(i) = ss[i]
    <3>1. i \in 1..Len(ss) /\ i - 1 + 1 = i
      BY <2>4
    <3>2. /\ table.length = TableLength(ss) /\ table.count = Len(ss)
          /\ table.offsets = OffsetsOf(ss) /\ table.strings = FlattenSeq(ss)
      BY <2>1, <2>2 DEF Loading
    <3>3. /\ Before(ss, i - 1) \in Nat /\ Len(ss[i]) \in Nat
          /\ Before(ss, i - 1) + Len(ss[i]) = Before(ss, i)
          /\ i = Len(ss) => Before(ss, i) = TableLength(ss) - (8 + 4 * Len(ss))
          /\ Holds(FlattenSeq(ss), Before(ss, i - 1), ss[i])
      BY <2>4, <3>1, StringEnds
    <3>4. PICK b \in Nat, l \in Nat :
            b = Before(ss, i - 1) /\ l = Len(ss[i])
      BY <3>3
    <3> DEFINE t == FlattenSeq(ss)
    <3>5. t \in Seq(Nat) /\ ss[i] \in Seq(Nat)
      BY <2>4, <3>1, FlattenType, ElementOfSeq
    <3> HIDE DEF t
    <3>6. SubSeq(t, b + 1, b + l) = ss[i]
      BY <3>3, <3>4, <3>5, HoldsIsSubSeq DEF t
    <3>7. table.offsets[i] = b
      BY <2>4, <3>1, <3>2, <3>4
    <3>8. CASE i = Len(ss)
      <4>1. PICK tl \in Int : tl = TableLength(ss) /\ Before(ss, i) = tl - (8 + 4 * Len(ss))
        <5>1. TableLength(ss) \in Int
          BY <2>1, <2>2, LengthsOf DEF Filed
        <5> QED
          BY <3>3, <3>8, <5>1
      <4>2. b + l = tl - (8 + 4 * Len(ss))
        BY <3>3, <3>4, <4>1
      <4>3. tl - (b + 8 + 4 * Len(ss)) = l
        BY <2>4, <4>2
      <4>4. string_table_load_str(i) = SubSeq(t, b + 1, b + (tl - (b + 8 + 4 * Len(ss))))
        BY <3>2, <3>4, <3>7, <3>8, <4>1 DEF string_table_load_str, t
      <4> QED
        BY <3>6, <4>3, <4>4
    <3>9. CASE i # Len(ss)
      <4>1. i + 1 \in 1..Len(ss) /\ (i + 1) - 1 = i
        BY <2>4, <3>1, <3>9
      <4>2. table.offsets[i + 1] = b + l
        BY <2>4, <3>2, <3>3, <3>4, <4>1
      <4>3. (b + l) - b = l
        OBVIOUS
      <4>4. string_table_load_str(i) = SubSeq(t, b + 1, b + ((b + l) - b))
        BY <3>2, <3>4, <3>7, <3>9, <4>2 DEF string_table_load_str, t
      <4> QED
        BY <3>6, <4>3, <4>4
    <3> QED
      BY <3>8, <3>9
  <2>9. phase # "overrun" /\ table.count = Len(source.strings)
    BY <2>1 DEF Loading
  <2> QED
    BY <2>2, <2>3, <2>6, <2>7, <2>8, <2>9 DEF MachineOf
<1> QED
  BY <1>1, FileInvariant, PTL

\* Bundling copies every module in ASCII byte for byte. (readFrom and writeTo of
\* both sections.)
THEOREM BundlingKeepsTheFile == Spec => BundlingKeepsFile
<1>1. FileInv /\ [Next]_vars
        => [phase = "reading" /\ phase' = "written" /\ Ascii => file' = file]_vars
  <2> SUFFICES ASSUME FileInv, Next, phase = "reading", phase' = "written", Ascii
               PROVE  file' = file
    OBVIOUS
  <2>1. rewrite
    BY DEF Next, registerString, HasRoom, addInstruction, replaceInstruction, write, readTable,
      readInstruction, load_string_table, load_instruction, Overrun, Loaded, Stopped
  <2>2. /\ Len(insts) = READ_U32(tlength + 4)
        /\ file' = [file EXCEPT !.bytes = TableBytes \o DataBytes]
    BY <2>1 DEF rewrite
  <2>3. PICK ss, is : ss = source.strings /\ is = source.insts
    OBVIOUS
  <2>4. file.bytes = Bytes(ss, is) /\ TableBytes \o DataBytes = Bytes(ss, is)
    BY <2>2, <2>3, ReadToTheEnd
  <2>5. file \in [data : Nat, bytes : Seq(Byte)]
    BY DEF FileInv, Kinds
  <2> QED
    BY <2>2, <2>4, <2>5
<1> QED
  BY <1>1, FileInvariant, PTL DEF Spec, BundlingKeepsFile

=============================================================================
