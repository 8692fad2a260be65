----------------------------- MODULE OpsProofs -----------------------------
(***************************************************************************)
(* What the bench shows of the value instructions on a small word and some *)
(* operands, for every width of int32_t and all operands: results are      *)
(* well-formed, the comparisons agree with each other, truth agrees with   *)
(* equality, the two builds differ only where C lets them, the bitwise     *)
(* instructions are two's complement and the arithmetic ones undo each     *)
(* other.                                                                  *)
(***************************************************************************)
EXTENDS OpsBench, OpsLemmas, FiniteSetTheorems

-----------------------------------------------------------------------------
(* Well-formed results.                                                    *)

Proper(o) == IsOutcome(o) /\ Canonical(o.value)

LEMMA IntBounds ==
  /\ IntMin \in Int /\ IntMax \in Int /\ IntMax = -IntMin - 1
  /\ IntMin < 0 /\ 2^W = -2 * IntMin
  /\ 0 \in IntRange /\ -1 \in IntRange
  /\ \A n \in Int : n \in IntRange <=> IntMin <= n /\ n <= IntMax
<1>1. PICK p \in Nat \ {0} : p = 2^(W - 1)
  BY Powers
<1>2. IntMin = -p /\ IntMax = p - 1 /\ 2^W = 2 * p
  BY <1>1, Powers DEF IntMin, IntMax
<1> QED
  BY <1>2 DEF IntRange

LEMMA CanonicalForms ==
  /\ \A n \in IntRange : Canonical(JSInt(n))
  /\ \A b : Canonical(JSBool(b))
  /\ \A n \in Int : Canonical(JSString(n))
  /\ Canonical(JSUndefined) /\ Canonical(JSNaN)
  /\ \A n \in Int, d \in Nat : Canonical(JSDouble(n, d))
<1>1. \A n \in Int : Sgn(n) \in {-1, 0, 1}
  BY DEF Sgn
<1>2. \A n \in Int, d \in Nat : Canonical(JSDouble(n, d))
  BY <1>1 DEF JSDouble, Canonical
<1>3. Canonical(JSNaN)
  BY <1>2 DEF JSNaN
<1>4. \A b : Canonical(JSBool(b))
  BY DEF JSBool, Tagged, Canonical
<1> QED
  BY <1>2, <1>3, <1>4 DEF JSInt, JSString, JSUndefined, Tagged, Canonical

LEMMA ProperForms ==
  /\ \A v \in Value : Canonical(v) => Proper(Pushed(v)) /\ Proper(Kept(v))
  /\ Proper(Panicked) /\ Proper(Trapped)
BY OutcomeForms, CanonicalForms DEF Proper, Pushed, Kept, Panicked, Trapped, Outcome

LEMMA ProperConstants ==
  /\ \A n \in IntRange : Proper(Pushed(JSInt(n)))
  /\ \A b : Proper(Pushed(JSBool(b)))
  /\ \A n \in Int : Proper(Pushed(JSString(n)))
  /\ Proper(Pushed(JSNaN)) /\ Proper(Kept(JSNaN))
  /\ \A n \in Int, d \in Nat : Proper(Pushed(JSDouble(n, d)))
BY ProperForms, CanonicalForms, ConstantValues, JSDoubleIsValue, Powers

LEMMA WrapInRange == \A n \in Int : Wrap(n) \in IntRange
<1> SUFFICES ASSUME NEW n \in Int PROVE Wrap(n) \in IntRange
  OBVIOUS
<1>1. PICK p \in Nat \ {0} : p = 2^W
  BY Powers
<1>2. (n - IntMin) % p \in 0..(p - 1)
  BY <1>1, IntBounds
<1> QED
  BY <1>1, <1>2, IntBounds DEF Wrap

\* Signed overflow leaves an int32_t all the same.
LEMMA IntResultIsProper == \A n \in Int : Proper(IntResult(n))
<1> SUFFICES ASSUME NEW n \in Int PROVE Proper(IntResult(n))
  OBVIOUS
<1>1. \/ n \in IntRange /\ IntResult(n) = Pushed(JSInt(n))
      \/ IntResult(n) \in {Trapped, Pushed(JSInt(Wrap(n)))}
  BY DEF IntResult
<1> QED
  BY <1>1, WrapInRange, ProperForms, ProperConstants

LEMMA CastToIntInRange == \A x \in Value : CastToInt(x) \in IntRange
BY WidthAssumption DEF CastToInt, UndefinedCast

LEMMA CollapsedIsProper == \A x \in Value : Canonical(x) => Proper(Pushed(Collapsed(x)))
BY CastToIntInRange, ProperConstants, ProperForms DEF Collapsed

LEMMA CastingIsProper == \A vs, out : Proper(out) => Proper(Casting(vs, out))
<1> SUFFICES ASSUME NEW vs, NEW out, Proper(out) PROVE Proper(Casting(vs, out))
  OBVIOUS
<1>1. Casting(vs, out) \in {Trapped, out}
  BY CastingForms
<1> QED
  BY <1>1, ProperForms

LEMMA PushCollapsedIsProper == \A x \in Value : Canonical(x) => Proper(PushCollapsed(x))
BY CollapsedIsProper, CastingIsProper DEF PushCollapsed

LEMMA DoubleOpsAreCanonical ==
  ASSUME NEW x \in Value, NEW y \in Value, Canonical(x)
  PROVE  /\ Canonical(DSum(x, y))
         /\ Canonical(DNeg(x))
         /\ Canonical(DProduct(x, y))
         /\ Canonical(DQuotient(x, y))
         /\ ~DIsZero(y) => Canonical(DRemainder(x, y))
<1>1. x.num \in Int /\ x.den \in Nat /\ y.num \in Int /\ y.den \in Nat
  BY ValueFields
<1>2. Canonical(DSum(x, y))
  <2>1. x.num * y.den + y.num * x.den \in Int /\ x.den * y.den \in Nat
    BY <1>1, Products
  <2> QED
    BY <2>1, CanonicalForms DEF DSum
<1>3. Canonical(DNeg(x))
  BY <1>1, CanonicalForms DEF DNeg
<1>4. Canonical(DProduct(x, y))
  BY <1>1, Products, CanonicalForms DEF DProduct
<1>5. Canonical(DQuotient(x, y))
  <2>1. x.num * y.den * Sgn(y.num) \in Int /\ x.den * Abs(y.num) \in Nat
    BY <1>1, Products, SgnAbs
  <2> QED
    BY <2>1, CanonicalForms DEF DQuotient
<1>6. ASSUME ~DIsZero(y) PROVE Canonical(DRemainder(x, y))
  <2>1. CASE x.den = 0 \/ IsNaN(y)
    BY <2>1, CanonicalForms DEF DRemainder
  <2>2. CASE x.den # 0 /\ y.den = 0 /\ ~IsNaN(y)
    BY <2>2 DEF DRemainder
  <2>3. CASE x.den # 0 /\ y.den # 0
    <3>1. y.num * x.den # 0 /\ x.num * y.den \in Int /\ y.num * x.den \in Int
      BY <1>1, <1>6, <2>3, NonZeroProduct, Products DEF DIsZero
    <3>2. CRem(x.num * y.den, y.num * x.den) \in Int
      BY ONLY <3>1, CQuotIsInt, Zenon
    <3>3. DRemainder(x, y) = JSDouble(CRem(x.num * y.den, y.num * x.den), x.den * y.den)
      BY <2>3 DEF DRemainder, IsNaN
    <3> QED
      BY <1>1, <3>2, <3>3, Products, CanonicalForms
  <2> QED
    BY <2>1, <2>2, <2>3
<1> QED
  BY <1>2, <1>3, <1>4, <1>5, <1>6

\* Division by a positive number moves towards zero, or to -1.
LEMMA Quotient ==
  ASSUME NEW a \in Int, NEW p \in Nat \ {0}
  PROVE  /\ a \div p \in Int /\ a % p \in Int
         /\ a = p * (a \div p) + (a % p) /\ 0 <= a % p /\ a % p < p
         /\ a >= 0 => 0 <= a \div p /\ a \div p <= a /\ a % p <= a
         /\ a < 0 => a <= a \div p /\ a \div p < 0
<1>1. PICK q \in Int, m \in Int : q = a \div p /\ m = a % p
  OBVIOUS
<1>2. a = p * q + m /\ 0 <= m /\ m < p
  BY <1>1
<1>3. ASSUME a >= 0 PROVE 0 <= q /\ q <= a /\ m <= a
  <2>1. 0 <= q
    <3> SUFFICES ASSUME q <= -1 PROVE FALSE
      OBVIOUS
    <3>1. p * q <= p * (-1)
      OBVIOUS
    <3> QED
      BY <1>2, <1>3, <3>1
  <2>2. q <= p * q
    BY <2>1
  <2> QED
    BY <1>2, <2>1, <2>2
<1>4. ASSUME a < 0 PROVE a <= q /\ q < 0
  <2>1. q < 0
    <3> SUFFICES ASSUME q >= 0 PROVE FALSE
      OBVIOUS
    <3>1. p * q >= 0
      OBVIOUS
    <3> QED
      BY <1>2, <1>4, <3>1
  <2>2. a <= q
    <3> SUFFICES ASSUME q + 1 <= a PROVE FALSE
      OBVIOUS
    <3>1. p * (q + 1) <= q + 1
      BY <1>4
    <3>2. p * (q + 1) = p * q + p
      OBVIOUS
    <3> QED
      BY <1>2, <3>1, <3>2
  <2> QED
    BY <2>1, <2>2
<1> QED
  BY <1>1, <1>2, <1>3, <1>4

\* C's remainder is smaller than the divisor and has the sign of the dividend.
LEMMA Remainder ==
  ASSUME NEW a \in Int, NEW b \in Int, b # 0
  PROVE  /\ CRem(a, b) \in Int
         /\ a >= 0 => 0 <= CRem(a, b) /\ CRem(a, b) <= a
         /\ a <= 0 => a <= CRem(a, b) /\ CRem(a, b) <= 0
         /\ -Abs(b) < CRem(a, b) /\ CRem(a, b) < Abs(b)
<1>1. PICK n \in Nat, d \in Nat \ {0} : n = Abs(a) /\ d = Abs(b)
  BY SgnAbs
<1>2. PICK q \in Int, m \in Int : q = n \div d /\ m = n % d
  BY <1>1
<1>3. n = d * q + m /\ 0 <= m /\ m < d /\ m <= n
  BY <1>2, Quotient
<1>4. CRem(a, b) = a - b * (Sgn(a) * Sgn(b) * q)
  BY <1>1, <1>2 DEF CRem, CQuot
<1>5. b * (Sgn(a) * Sgn(b) * q) = Sgn(a) * (d * q)
  <2>1. CASE b > 0
    <3>1. Sgn(b) = 1 /\ d = b
      BY <1>1, <2>1 DEF Sgn, Abs
    <3> QED
      BY <3>1, SgnAbs
  <2>2. CASE b < 0
    <3>1. Sgn(b) = -1 /\ d = -b
      BY <1>1, <2>2 DEF Sgn, Abs
    <3> QED
      BY <3>1, SgnAbs
  <2> QED
    BY <2>1, <2>2
<1>6. PICK e \in Int : e = d * q
  OBVIOUS
<1>7. CRem(a, b) = a - Sgn(a) * e /\ n = e + m
  BY <1>3, <1>4, <1>5, <1>6
<1>8. CASE a >= 0
  <2>1. CRem(a, b) = m
    BY <1>1, <1>7, <1>8, <1>3 DEF Sgn, Abs
  <2> QED
    BY <1>1, <1>3, <1>8, <2>1 DEF Abs
<1>9. CASE a < 0
  <2>1. CRem(a, b) = -m
    BY <1>1, <1>7, <1>9 DEF Sgn, Abs
  <2> QED
    BY <1>1, <1>3, <1>9, <2>1 DEF Abs
<1> QED
  BY <1>8, <1>9

\* The arithmetic instructions: an integer, a boolean (0 or 1) or null (0) on
\* either side.
LEMMA CoercedIsCanonical ==
  ASSUME NEW v \in Value, Canonical(v)
  PROVE  /\ Coerced(v) \in Value /\ Coerced(v).num \in Int
         /\ Coerced(v).type = "integer" => Coerced(v).num \in IntRange \cup {1}
         /\ Coerced(v).type = "double" => Coerced(v) = v
         /\ AsDouble(Coerced(v)) \in Value /\ Canonical(AsDouble(Coerced(v)))
<1>1. Coerced(v) \in Value /\ Coerced(v).num \in Int /\ AsDouble(Coerced(v)) \in Value
  BY CoercedIsValue, AsDoubleIsValue, ValueFields
<1>2. Coerced(v).type = "integer" => Coerced(v).num \in IntRange \cup {1}
  BY IntBounds DEF Coerced, Canonical, JSInt, Tagged
<1>3. Coerced(v).type = "double" => Coerced(v) = v
  BY DEF Coerced, JSInt, Tagged
<1>4. Canonical(AsDouble(Coerced(v)))
  BY <1>1, <1>3, CanonicalForms DEF AsDouble
<1> QED
  BY <1>1, <1>2, <1>3, <1>4

LEMMA IntModIsProper ==
  ASSUME NEW a \in IntRange \cup {1}, NEW b \in IntRange \cup {1}
  PROVE  Proper(IntMod(a, b))
<1>1. a \in Int /\ b \in Int
  BY Powers
<1>2. CASE b = 0
  BY <1>2, ProperConstants DEF IntMod
<1>3. CASE b # 0
  <2>1. PICK m \in Int : m = CRem(a, b)
    BY <1>1, <1>3, Remainder
  <2>2. /\ a >= 0 => 0 <= m /\ m <= a
        /\ a <= 0 => a <= m /\ m <= 0
        /\ -Abs(b) < m /\ m < Abs(b)
    BY <1>1, <1>3, <2>1, Remainder
  <2>3. m \in IntRange
    <3>1. CASE a \in IntRange
      BY <1>1, <2>2, <3>1, IntBounds
    <3>2. CASE a = 1 /\ b = 1
      BY <2>2, <3>2, IntBounds DEF Abs
    <3>3. CASE a = 1 /\ b \in IntRange
      BY <1>1, <2>2, <3>3, IntBounds DEF Abs
    <3> QED
      BY <3>1, <3>2, <3>3
  <2>4. IntMod(a, b) \in {Trapped, Pushed(JSInt(m))}
    BY <1>3, <2>1 DEF IntMod
  <2> QED
    BY <2>3, <2>4, ProperForms, ProperConstants
<1> QED
  BY <1>2, <1>3

LEMMA DoubleDivIsProper ==
  ASSUME NEW x \in Value, NEW y \in Value, Canonical(x)
  PROVE  Proper(DoubleDiv(x, y))
<1> DEFINE sign == IF DLess(JSDouble(0, 1), x) THEN 1 ELSE -1
<1>1. DoubleDiv(x, y) \in {Pushed(JSNaN), Pushed(JSDouble(sign, 0)),
                           PushCollapsed(DQuotient(x, y))}
  BY DEF DoubleDiv, JSInfinity
<1>2. sign \in Int
  OBVIOUS
<1>3. Proper(PushCollapsed(DQuotient(x, y)))
  BY DoubleOpsAreValues, DoubleOpsAreCanonical, PushCollapsedIsProper
<1> HIDE DEF sign
<1> QED
  BY <1>1, <1>2, <1>3, ProperConstants

LEMMA DoublesAreProper ==
  ASSUME NEW x \in Value, NEW y \in Value, Canonical(x), Canonical(y)
  PROVE  /\ Proper(DoubleAdd(x, y)) /\ Proper(DoubleMinus(x, y))
         /\ Proper(DoubleMul(x, y)) /\ Proper(DoubleDiv(x, y))
         /\ Proper(DoubleMod(x, y))
<1>1. Proper(DoubleAdd(x, y))
  BY DoubleOpsAreValues, DoubleOpsAreCanonical, ProperForms DEF DoubleAdd
<1>2. Proper(DoubleMinus(x, y))
  BY DoubleOpsAreValues, DoubleOpsAreCanonical, ProperForms DEF DoubleMinus
<1>3. Proper(DoubleMul(x, y))
  BY DoubleOpsAreValues, DoubleOpsAreCanonical, PushCollapsedIsProper DEF DoubleMul
<1>4. Proper(DoubleMod(x, y))
  BY DRemainderIsValue, DoubleOpsAreCanonical, PushCollapsedIsProper, ProperConstants
  DEF DoubleMod
<1> QED
  BY <1>1, <1>2, <1>3, <1>4, DoubleDivIsProper

LEMMA IntegersAreProper ==
  ASSUME NEW a \in Int, NEW b \in Int
  PROVE  /\ Proper(IntAdd(a, b)) /\ Proper(IntMinus(a, b))
         /\ Proper(IntMul(a, b))
<1>1. a + b \in Int /\ a - b \in Int /\ a * b \in Int
  OBVIOUS
<1> QED
  BY <1>1, IntResultIsProper DEF IntAdd, IntMinus, IntMul

\* inst_div reads null as 0 and a boolean as 0 or 1, as the others do.
LEMMA DivOperandForms ==
  ASSUME NEW v \in Value, Canonical(v)
  PROVE  /\ AsDouble(DivOperand(v)) = AsDouble(Coerced(v))
         /\ DivOperand(v).type = "double" <=> Coerced(v).type \in {"integer", "double"}
<1>1. JSDouble(0, 1).type = "double" /\ JSDouble(v.num, 1).type = "double"
  BY DEF JSDouble
<1>2. CASE v.type = "null"
  <2>1. v.num = 0
    BY <1>2 DEF Canonical
  <2> QED
    BY <1>1, <1>2, <2>1 DEF DivOperand, Coerced, JSInt, Tagged, AsDouble
<1>3. CASE v.type \in {"integer", "boolean"}
  BY <1>1, <1>3 DEF DivOperand, Coerced, JSInt, Tagged, AsDouble
<1>4. CASE v.type \notin {"null", "integer", "boolean"}
  BY <1>4 DEF DivOperand, Coerced
<1> QED
  BY <1>2, <1>3, <1>4

LEMMA ArithmeticIsProper ==
  ASSUME NEW l \in Value, NEW r \in Value, Canonical(l), Canonical(r)
  PROVE  /\ Proper(inst_add(l, r)) /\ Proper(inst_minus(l, r)) /\ Proper(inst_mul(l, r))
         /\ Proper(inst_div(l, r)) /\ Proper(inst_mod(l, r))
<1> DEFINE a == Coerced(l).num
           b == Coerced(r).num
           x == AsDouble(Coerced(l))
           y == AsDouble(Coerced(r))
<1>1. /\ a \in Int /\ b \in Int /\ x \in Value /\ y \in Value
      /\ Canonical(x) /\ Canonical(y)
  BY CoercedIsCanonical
<1>2. inst_add(l, r) \in {Kept(JSNaN), Panicked, IntAdd(a, b), DoubleAdd(x, y)}
  BY DEF inst_add, Arithmetic
<1>3. inst_minus(l, r) \in {Kept(JSNaN), Panicked, IntMinus(a, b), DoubleMinus(x, y)}
  BY DEF inst_minus, Arithmetic
<1>4. inst_mul(l, r) \in {Kept(JSNaN), Panicked, IntMul(a, b), DoubleMul(x, y)}
  BY DEF inst_mul, Arithmetic
<1>5. inst_div(l, r) \in {Kept(JSNaN), Panicked, DoubleDiv(x, y)}
  BY DivOperandForms DEF inst_div
<1>6. \/ inst_mod(l, r) \in {Kept(JSNaN), Panicked, DoubleMod(x, y)}
      \/ /\ a \in IntRange \cup {1} /\ b \in IntRange \cup {1}
         /\ inst_mod(l, r) = IntMod(a, b)
  <2>1. CASE Coerced(l).type = "integer" /\ Coerced(r).type = "integer"
    <3>1. a \in IntRange \cup {1} /\ b \in IntRange \cup {1}
      BY <2>1, CoercedIsCanonical
    <3> QED
      BY <2>1, <3>1 DEF inst_mod, Arithmetic
  <2>2. CASE ~(Coerced(l).type = "integer" /\ Coerced(r).type = "integer")
    BY <2>2 DEF inst_mod, Arithmetic
  <2> QED
    BY <2>1, <2>2
<1> HIDE DEF a, b, x, y
<1>7. Proper(IntMod(a, b)) \/ inst_mod(l, r) \in {Kept(JSNaN), Panicked, DoubleMod(x, y)}
  BY <1>6, IntModIsProper
<1> QED
  BY <1>1, <1>2, <1>3, <1>4, <1>5, <1>6, <1>7, ProperForms, ProperConstants,
     IntegersAreProper, DoublesAreProper

LEMMA ToIntInRange == \A v \in Value : Canonical(v) /\ IsNumber(v) => ToInt(v) \in IntRange
BY CastToIntInRange DEF ToInt, IsNumber, Canonical

LEMMA FromBitsIsProper == \A S \in SUBSET BitPositions : Proper(Pushed(JSInt(FromBits(S))))
BY FromBitsIsInverse, ProperConstants

LEMMA BitwiseIsProper ==
  ASSUME NEW l \in Value, NEW r \in Value, Canonical(l), Canonical(r)
  PROVE  /\ Proper(inst_binary_and(l, r)) /\ Proper(inst_binary_or(l, r))
         /\ Proper(inst_binary_xor(l, r))
<1>1. Proper(Pushed(JSInt(0)))
  BY IntBounds, ProperConstants
<1>2. Proper(OneNumber(l, r))
  <2>1. \/ IsNumber(l) /\ OneNumber(l, r) = Casting({l}, Pushed(JSInt(ToInt(l))))
        \/ IsNumber(r) /\ OneNumber(l, r) = Casting({r}, Pushed(JSInt(ToInt(r))))
        \/ OneNumber(l, r) = Pushed(JSInt(0))
    BY DEF OneNumber
  <2> QED
    BY <1>1, <2>1, ToIntInRange, ProperConstants, CastingIsProper
<1> QED
  BY <1>1, <1>2, BitsIsSet, FromBitsIsProper, CastingIsProper
  DEF inst_binary_and, inst_binary_or, inst_binary_xor

LEMMA RightShiftIsProper == \A a \in IntRange, k \in Int : Proper(RightShift(a, k))
<1> SUFFICES ASSUME NEW a \in IntRange, NEW k \in Int PROVE Proper(RightShift(a, k))
  OBVIOUS
<1>1. Count(k) \in 0..W
  BY WidthAssumption DEF Count
<1>2. PICK p \in Nat \ {0} : p = 2^Count(k)
  BY <1>1, PowersOfTwo
<1>3. PICK q \in Int : q = a \div p
  BY Powers, Quotient
<1>4. a \in Int /\ (a >= 0 => 0 <= q /\ q <= a) /\ (a < 0 => a <= q /\ q < 0)
  BY <1>3, Powers, Quotient
<1>5. q \in IntRange
  BY <1>4, IntBounds
<1>6. RightShift(a, k) \in {Trapped, Pushed(JSInt(q))}
  BY <1>2, <1>3 DEF RightShift
<1> QED
  BY <1>5, <1>6, ProperForms, ProperConstants

LEMMA ShiftsAreProper ==
  ASSUME NEW l \in Value, NEW r \in Value, Canonical(l), Canonical(r)
  PROVE  /\ Proper(inst_binary_lshft(l, r)) /\ Proper(inst_binary_rshft(l, r))
         /\ Proper(inst_binary_zrshft(l, r))
<1>1. Proper(Pushed(JSInt(0))) /\ Proper(Pushed(Truncated(l)))
  <2>1. CASE l.type = "double"
    BY <2>1, IntBounds, CastToIntIsInt, ProperConstants DEF Truncated
  <2>2. CASE l.type # "double"
    BY <2>2, IntBounds, ProperConstants, ProperForms DEF Truncated
  <2> QED
    BY <2>1, <2>2
<1>2. ToInt(l) \in Int /\ ToInt(r) \in Int
  BY ToIntIsInt
<1>3. Proper(LeftShift(ToInt(l), ToInt(r))) /\ Proper(ZeroRightShift(ToInt(l), ToInt(r)))
  <2>1. \A S : S \cap BitPositions \in SUBSET BitPositions
    OBVIOUS
  <2> QED
    BY <2>1, FromBitsIsProper, ProperForms DEF LeftShift, ZeroRightShift
<1>4. IsNumber(l) => Proper(RightShift(ToInt(l), ToInt(r)))
  BY <1>2, ToIntInRange, RightShiftIsProper
<1>5. inst_binary_lshft(l, r) \in
        {Pushed(JSInt(0)), Casting({l}, Pushed(Truncated(l))),
         Casting({l, r}, LeftShift(ToInt(l), ToInt(r)))}
  BY DEF inst_binary_lshft, Shift
<1>6. inst_binary_zrshft(l, r) \in
        {Pushed(JSInt(0)), Casting({l}, Pushed(Truncated(l))),
         Casting({l, r}, ZeroRightShift(ToInt(l), ToInt(r)))}
  BY DEF inst_binary_zrshft, Shift
<1>7. \/ inst_binary_rshft(l, r) \in {Pushed(JSInt(0)), Casting({l}, Pushed(Truncated(l)))}
      \/ /\ IsNumber(l)
         /\ inst_binary_rshft(l, r) = Casting({l, r}, RightShift(ToInt(l), ToInt(r)))
  BY DEF inst_binary_rshft, Shift
<1> QED
  BY <1>1, <1>3, <1>4, <1>5, <1>6, <1>7, CastingIsProper

LEMMA EqualityIsProper ==
  ASSUME NEW l, NEW r, NEW same
  PROVE  Proper(Equality(l, r, same))
<1>1. Equality(l, r, same) \in
        {Pushed(JSBool(DEqual(AsDouble(l), AsDouble(r)) = same)),
         Pushed(JSBool(FALSE = same)), Pushed(JSBool(TRUE = same)),
         Pushed(JSBool((l.num = r.num) = same)), Panicked}
  BY DEF Equality
<1> QED
  BY <1>1, ProperForms, ProperConstants

LEMMA RelationsAreProper ==
  ASSUME NEW l, NEW r
  PROVE  /\ Proper(inst_gt(l, r)) /\ Proper(inst_geq(l, r))
         /\ Proper(inst_lt(l, r)) /\ Proper(inst_leq(l, r))
<1> DEFINE x == AsDouble(Coerced(l))
           y == AsDouble(Coerced(r))
<1>1. inst_gt(l, r) \in {Pushed(JSBool(FALSE)), Panicked, Pushed(JSBool(Greater(x, y)))}
  BY DEF inst_gt, Relational
<1>2. inst_geq(l, r) \in {Pushed(JSBool(FALSE)), Panicked, Pushed(JSBool(GreaterEqual(x, y)))}
  BY DEF inst_geq, Relational
<1>3. inst_lt(l, r) \in {Pushed(JSBool(FALSE)), Panicked, Pushed(JSBool(DLess(x, y)))}
  BY DEF inst_lt, Relational
<1>4. inst_leq(l, r) \in {Pushed(JSBool(FALSE)), Panicked, Pushed(JSBool(LessEqual(x, y)))}
  BY DEF inst_leq, Relational
<1> QED
  BY <1>1, <1>2, <1>3, <1>4, ProperForms, ProperConstants

LEMMA BinaryIsProper ==
  ASSUME NEW o \in BinaryOpcodes, NEW l \in Value, NEW r \in Value,
         Canonical(l), Canonical(r)
  PROVE  Proper(Binary(o, l, r))
<1>1. Binary(o, l, r) \in
        {inst_add(l, r), inst_minus(l, r), inst_mul(l, r), inst_div(l, r), inst_mod(l, r),
         inst_binary_and(l, r), inst_binary_or(l, r), inst_binary_xor(l, r),
         inst_binary_lshft(l, r), inst_binary_rshft(l, r), inst_binary_zrshft(l, r),
         inst_teq(l, r), inst_nteq(l, r), inst_gt(l, r), inst_geq(l, r),
         inst_lt(l, r), inst_leq(l, r)}
  BY Zenon DEF Binary, BinaryOpcodes
<1>2. Proper(inst_teq(l, r)) /\ Proper(inst_nteq(l, r))
  BY EqualityIsProper DEF inst_teq, inst_nteq
<1> QED
  BY <1>1, <1>2, ArithmeticIsProper, BitwiseIsProper, ShiftsAreProper, RelationsAreProper

LEMMA UnaryIsProper ==
  ASSUME NEW o \in UnaryOpcodes, NEW v \in Value, Canonical(v)
  PROVE  Proper(Unary(o, v))
<1>1. Unary(o, v) \in {inst_binary_not(v), inst_not(v), inst_negate(v), inst_typeof(v)}
  BY Zenon DEF Unary, UnaryOpcodes
<1>2. Proper(inst_not(v))
  BY ProperConstants DEF inst_not
<1>3. Proper(inst_binary_not(v))
  <2>1. \A S : BitPositions \ S \in SUBSET BitPositions
    OBVIOUS
  <2> QED
    BY <2>1, FromBitsIsProper, IntBounds, ProperConstants, CastingIsProper DEF inst_binary_not
<1>4. Proper(inst_negate(v))
  <2>1. -Coerced(v).num \in Int
    BY CoercedIsCanonical
  <2>2. \/ inst_negate(v) \in {Pushed(JSNaN), IntResult(-Coerced(v).num), Panicked}
        \/ Coerced(v) = v /\ inst_negate(v) = Pushed(DNeg(v))
    BY CoercedIsCanonical DEF inst_negate
  <2>3. Proper(Pushed(DNeg(v)))
    BY DoubleOpsAreValues, DoubleOpsAreCanonical, ProperForms
  <2> QED
    BY <2>1, <2>2, <2>3, IntResultIsProper, ProperForms, ProperConstants
<1>5. Proper(inst_typeof(v))
  <2>1. \A t \in {"number", "object", "string", "function", "undefined", "boolean"} :
          TypeofText[t] \in Int
    BY DEF TypeofText
  <2>2. \/ inst_typeof(v) = Panicked
        \/ \E t \in {"number", "object", "string", "function", "undefined", "boolean"} :
             inst_typeof(v) = Pushed(JSString(TypeofText[t]))
    BY DEF inst_typeof
  <2> QED
    BY <2>1, <2>2, ProperForms, ProperConstants
<1> QED
  BY <1>1, <1>2, <1>3, <1>4, <1>5

-----------------------------------------------------------------------------
(* The bench.                                                              *)

BenchInv ==
  /\ op \in BinaryOpcodes \cup UnaryOpcodes
  /\ left \in Operands /\ right \in Operands
  /\ \/ outcome = Idle
     \/ op \in BinaryOpcodes /\ outcome = Binary(op, left, right)
     \/ op \in UnaryOpcodes /\ outcome = Unary(op, right)

LEMMA BenchInvHolds == Spec => []BenchInv
<1>1. Init => BenchInv
  BY DEF Init, BenchInv
<1>2. BenchInv /\ [Next]_vars => BenchInv'
  BY DEF BenchInv, Next, EvaluateBinary, EvaluateUnary, Rest, vars
<1> QED
  BY <1>1, <1>2, PTL DEF Spec

LEMMA OperandsAreValues ==
  BenchInv => left \in Value /\ Canonical(left) /\ right \in Value /\ Canonical(right)
BY OperandsAssumption DEF BenchInv, Value, IsValue

\* Every instruction leaves a value as the macros JS_VALUE_* make it: an integer
\* that fits int32_t in spite of overflow, shifts and remainders, a boolean that
\* is 0 or 1. (inst_add .. inst_typeof, for every width and all operands.)
THEOREM ResultsAreWellFormed == Spec => []TypeOK
<1>1. BenchInv => TypeOK
  <2> SUFFICES ASSUME BenchInv PROVE TypeOK
    OBVIOUS
  <2>1. CASE outcome = Idle
    <3>1. outcome.effect = "none" /\ outcome.value = JSUndefined
      BY <2>1 DEF Idle, Outcome
    <3>2. IsValue(JSUndefined) /\ Canonical(JSUndefined)
      BY ConstantValues, CanonicalForms DEF Value
    <3> QED
      BY <3>1, <3>2 DEF BenchInv, TypeOK
  <2>2. CASE outcome # Idle
    <3>1. Proper(outcome)
      BY <2>2, OperandsAreValues, BinaryIsProper, UnaryIsProper DEF BenchInv
    <3> QED
      BY <3>1 DEF Proper, IsOutcome, Effects, Value, BenchInv, TypeOK
  <2> QED
    BY <2>1, <2>2
<1> QED
  BY <1>1, BenchInvHolds, PTL

-----------------------------------------------------------------------------
(* Truth.                                                                  *)

LEMMA BooleansDiffer ==
  ASSUME NEW b \in BOOLEAN
  PROVE  /\ Pushed(JSBool(b)) = Pushed(JSBool(TRUE)) <=> b
         /\ value_is_falsy(JSBool(b)) <=> ~b
<1>1. \A n, m : Pushed(Tagged("boolean", n)) = Pushed(Tagged("boolean", m)) => n = m
  BY DEF Pushed, Outcome, Tagged
<1>2. \A n \in {0, 1} : value_is_falsy(Tagged("boolean", n)) <=> n = 0
  BY DEF Tagged, value_is_falsy, DIsZero
<1>3. JSBool(TRUE) = Tagged("boolean", 1)
  BY Zenon DEF JSBool
<1>4. b => JSBool(b) = Tagged("boolean", 1)
  BY Zenon DEF JSBool
<1>5. ~b => JSBool(b) = Tagged("boolean", 0)
  BY Zenon DEF JSBool
<1>6. 0 # 1
  OBVIOUS
<1>7. ASSUME b PROVE Pushed(JSBool(b)) = Pushed(JSBool(TRUE)) /\ ~value_is_falsy(JSBool(b))
  <2>1. JSBool(b) = JSBool(TRUE)
    BY <1>3, <1>4, <1>7, Zenon
  <2>2. ~value_is_falsy(Tagged("boolean", 1))
    BY <1>2, <1>6
  <2> QED
    BY <1>4, <1>7, <2>1, <2>2, Zenon
<1>8. ASSUME ~b PROVE Pushed(JSBool(b)) # Pushed(JSBool(TRUE)) /\ value_is_falsy(JSBool(b))
  <2>1. Pushed(Tagged("boolean", 0)) # Pushed(Tagged("boolean", 1))
    BY <1>1, <1>6
  <2>2. value_is_falsy(Tagged("boolean", 0))
    BY <1>2
  <2> QED
    BY <1>3, <1>5, <1>8, <2>1, <2>2, Zenon
<1> QED
  BY <1>7, <1>8, Zenon

LEMMA SameTruth == \A b, c : (b <=> c) => JSBool(b) = JSBool(c)
BY Zenon DEF JSBool

LEMMA EqualsZero ==
  ASSUME NEW v \in Value, IsNumber(v), Canonical(v)
  PROVE  DEqual(AsDouble(v), AsDouble(JSInt(0))) <=> DIsZero(v)
<1>1. v.num \in Int /\ v.den \in Nat /\ (v.den = 0 => v.num \in {-1, 0, 1})
  BY ValueFields DEF Canonical, IsNumber
<1>2. AsDouble(v).num = v.num /\ AsDouble(v).den = v.den
  BY <1>1 DEF AsDouble, JSDouble, IsNumber, Canonical
<1>3. AsDouble(JSInt(0)).num = 0 /\ AsDouble(JSInt(0)).den = 1
  BY DEF AsDouble, JSDouble, JSInt, Tagged
<1>4. v.num * 1 = v.num /\ 0 * v.den = 0
  BY <1>1
<1> QED
  BY <1>1, <1>2, <1>3, <1>4 DEF DEqual, DLess, IsNaN, DIsZero

\* value_is_falsy agrees with === 0 on numbers and with the constants on the
\* rest, and !!v counts like v, for every value. (JMP_F, JMP_T, inst_not.)
THEOREM TruthIsConsistent == Spec => []TruthAgrees
<1>1. ASSUME BenchInv PROVE TruthAgrees
  <2>1. PICK v \in Value : v = right /\ Canonical(v)
    BY <1>1, OperandsAreValues
  <2>2. v.type \in JSType /\ v.num \in Int /\ v.den \in Nat
        /\ v = [type |-> v.type, num |-> v.num, den |-> v.den]
    BY DEF Value
  <2>3. value_is_falsy(v) \in BOOLEAN
    BY DEF value_is_falsy, DIsZero
  <2>4. IsNumber(v) => value_is_falsy(v) = (inst_teq(v, JSInt(0)) = Pushed(JSBool(TRUE)))
    <3> SUFFICES ASSUME IsNumber(v)
                 PROVE  value_is_falsy(v) = (inst_teq(v, JSInt(0)) = Pushed(JSBool(TRUE)))
      OBVIOUS
    <3> DEFINE b == DEqual(AsDouble(v), AsDouble(JSInt(0)))
    <3>1. b \in BOOLEAN /\ IsNumber(JSInt(0))
      BY DEF DEqual, IsNumber, JSInt, Tagged
    <3>2. inst_teq(v, JSInt(0)) = Pushed(JSBool(b = TRUE))
      BY <3>1 DEF inst_teq, Equality, IsNumber
    <3>3. b <=> DIsZero(v)
      BY <2>1, EqualsZero
    <3>4. value_is_falsy(v) <=> DIsZero(v)
      BY DEF value_is_falsy, IsNumber
    <3> HIDE DEF b
    <3>5. (b = TRUE) = b
      BY <3>1
    <3> QED
      BY <2>3, <3>1, <3>2, <3>3, <3>4, <3>5, BooleansDiffer
  <2>5. IsNaN(v) => ~value_is_falsy(v)
    BY <2>1, <2>2 DEF IsNaN, value_is_falsy, DIsZero, Canonical
  <2>6. ~IsNumber(v) => value_is_falsy(v) = (v \in {JSBool(FALSE), JSUndefined, JSNull})
    <3> SUFFICES ASSUME ~IsNumber(v)
                 PROVE  value_is_falsy(v) = (v \in {JSBool(FALSE), JSUndefined, JSNull})
      OBVIOUS
    <3>1. v.den = 1 /\ v.type # "double" /\ v.type # "integer"
      BY <2>1 DEF IsNumber, Canonical
    <3>2. value_is_falsy(v) <=>
            v.type \in {"undefined", "null"} \/ (v.type = "boolean" /\ v.num = 0)
      BY <3>1 DEF value_is_falsy, DIsZero
    <3>3. v.type \in {"undefined", "null"} => v.num = 0
      BY <2>1 DEF Canonical
    <3> QED
      BY <2>2, <2>3, <3>1, <3>2, <3>3 DEF JSBool, JSUndefined, JSNull, Tagged
  <2>7. inst_not(inst_not(v).value).value = JSBool(~value_is_falsy(v))
    <3>1. \A x : inst_not(x).value = JSBool(value_is_falsy(x))
      BY DEF inst_not, Pushed, Outcome
    <3>2. \A x : inst_not(inst_not(x).value).value = JSBool(value_is_falsy(JSBool(value_is_falsy(x))))
      BY <3>1, Zenon
    <3>3. value_is_falsy(JSBool(value_is_falsy(v))) <=> ~value_is_falsy(v)
      BY <2>3, BooleansDiffer
    <3> QED
      BY <3>2, <3>3, SameTruth, Zenon
  <2> QED
    BY <2>1, <2>4, <2>5, <2>6, <2>7 DEF TruthAgrees
<1> QED
  BY <1>1, BenchInvHolds, PTL

-----------------------------------------------------------------------------
(* Comparisons.                                                            *)

\* Two doubles other than NaN are less, greater or equal, infinities included.
LEMMA Trichotomy ==
  ASSUME NEW x \in Value, NEW y \in Value
  PROVE  /\ DLess(x, y) \in BOOLEAN /\ DEqual(x, y) \in BOOLEAN
         /\ DEqual(x, y) <=> DEqual(y, x)
         /\ ~(DLess(x, y) /\ DLess(y, x))
         /\ DEqual(x, y) => ~DLess(x, y) /\ ~DLess(y, x)
         /\ ~IsNaN(x) /\ ~IsNaN(y) => DLess(x, y) \/ DLess(y, x) \/ DEqual(x, y)
<1>1. x.num \in Int /\ y.num \in Int /\ x.num * y.den \in Int /\ y.num * x.den \in Int
  BY ValueFields, Products
<1>2. ~(DLess(x, y) /\ DLess(y, x))
  BY <1>1 DEF DLess
<1>3. DEqual(x, y) => ~DLess(x, y) /\ ~DLess(y, x)
  BY DEF DEqual
<1>4. ~IsNaN(x) /\ ~IsNaN(y) => DLess(x, y) \/ DLess(y, x) \/ DEqual(x, y)
  BY DEF DEqual
<1>5. DEqual(x, y) <=> DEqual(y, x)
  BY DEF DEqual
<1>6. DLess(x, y) \in BOOLEAN /\ DEqual(x, y) \in BOOLEAN
  BY DEF DLess, DEqual
<1> QED
  BY <1>2, <1>3, <1>4, <1>5, <1>6

Affirms(out) == out.effect = "pop" /\ out.value = JSBool(TRUE)

LEMMA AffirmsForms ==
  /\ \A b \in BOOLEAN : Affirms(Pushed(JSBool(b))) <=> b
  /\ ~Affirms(Panicked) /\ Panicked.effect # "pop"
<1>1. \A v : Pushed(v).effect = "pop" /\ Pushed(v).value = v
  BY DEF Pushed, Outcome
<1>2. Panicked.effect = "panic"
  BY DEF Panicked, Outcome
<1>3. ASSUME NEW b \in BOOLEAN PROVE Affirms(Pushed(JSBool(b))) <=> b
  <2>1. Pushed(JSBool(b)) = Pushed(JSBool(TRUE)) <=> b
    BY BooleansDiffer
  <2>2. b => JSBool(b) = JSBool(TRUE)
    BY SameTruth, Zenon
  <2>3. JSBool(b) = JSBool(TRUE) => Pushed(JSBool(b)) = Pushed(JSBool(TRUE))
    BY Zenon
  <2> QED
    BY <1>1, <2>1, <2>2, <2>3, Zenon DEF Affirms
<1> QED
  BY <1>2, <1>3 DEF Affirms

\* The four relations look at the tags in the same way.
Incomparable(l, r) == "undefined" \in {Coerced(l).type, Coerced(r).type}
Comparable(l, r) == ~Incomparable(l, r) /\ IsNumber(Coerced(l)) /\ IsNumber(Coerced(r))

LEMMA RelationForms ==
  ASSUME NEW l, NEW r, NEW x, NEW y, x = AsDouble(Coerced(l)), y = AsDouble(Coerced(r))
  PROVE  /\ Incomparable(l, r) =>
              /\ inst_lt(l, r) = Pushed(JSBool(FALSE)) /\ inst_gt(l, r) = Pushed(JSBool(FALSE))
              /\ inst_leq(l, r) = Pushed(JSBool(FALSE)) /\ inst_geq(l, r) = Pushed(JSBool(FALSE))
         /\ Comparable(l, r) =>
              /\ inst_lt(l, r) = Pushed(JSBool(DLess(x, y)))
              /\ inst_gt(l, r) = Pushed(JSBool(DLess(y, x)))
              /\ inst_leq(l, r) = Pushed(JSBool(DLess(x, y) \/ DEqual(x, y)))
              /\ inst_geq(l, r) = Pushed(JSBool(DLess(y, x) \/ DEqual(x, y)))
         /\ ~Incomparable(l, r) /\ ~Comparable(l, r) =>
              /\ inst_lt(l, r) = Panicked /\ inst_gt(l, r) = Panicked
              /\ inst_leq(l, r) = Panicked /\ inst_geq(l, r) = Panicked
<1>1. CASE Incomparable(l, r)
  BY <1>1, Zenon DEF Incomparable, Comparable, inst_lt, inst_gt, inst_leq, inst_geq, Relational
<1>2. CASE Comparable(l, r)
  BY <1>2, Zenon
  DEF Incomparable, Comparable, inst_lt, inst_gt, inst_leq, inst_geq, Relational,
      Greater, GreaterEqual, LessEqual
<1>3. CASE ~Incomparable(l, r) /\ ~Comparable(l, r)
  BY <1>3, Zenon DEF Incomparable, Comparable, inst_lt, inst_gt, inst_leq, inst_geq, Relational
<1> QED
  BY <1>1, <1>2, <1>3, Zenon DEF Comparable

LEMMA EqualityForms ==
  ASSUME NEW l \in Value, NEW r \in Value
  PROVE  /\ IsNumber(l) /\ IsNumber(r) =>
              /\ inst_teq(l, r) = Pushed(JSBool(DEqual(AsDouble(l), AsDouble(r)) = TRUE))
              /\ inst_nteq(l, r) = Pushed(JSBool(DEqual(AsDouble(l), AsDouble(r)) = FALSE))
         /\ ~(IsNumber(l) /\ IsNumber(r)) =>
              \/ inst_teq(l, r) = Panicked /\ inst_nteq(l, r) = Panicked
              \/ \E b \in BOOLEAN : /\ inst_teq(l, r) = Pushed(JSBool(b = TRUE))
                                   /\ inst_nteq(l, r) = Pushed(JSBool(b = FALSE))
<1>1. CASE IsNumber(l) /\ IsNumber(r)
  BY <1>1 DEF inst_teq, inst_nteq, Equality, IsNumber
<1>2. CASE ~(IsNumber(l) /\ IsNumber(r)) /\ l.type # r.type
  <2>1. /\ inst_teq(l, r) = Pushed(JSBool(FALSE = TRUE))
        /\ inst_nteq(l, r) = Pushed(JSBool(FALSE = FALSE))
    BY <1>2 DEF inst_teq, inst_nteq, Equality
  <2> QED
    BY <1>2, <2>1, Zenon
<1>3. CASE ~(IsNumber(l) /\ IsNumber(r)) /\ l.type = r.type /\ l.type \in {"null", "undefined"}
  <2>1. /\ inst_teq(l, r) = Pushed(JSBool(TRUE = TRUE))
        /\ inst_nteq(l, r) = Pushed(JSBool(TRUE = FALSE))
    BY <1>3 DEF inst_teq, inst_nteq, Equality
  <2> QED
    BY <1>3, <2>1, Zenon
<1>4. CASE ~(IsNumber(l) /\ IsNumber(r)) /\ l.type = r.type /\ l.type \in {"function", "object"}
  <2>1. /\ inst_teq(l, r) = Pushed(JSBool((l.num = r.num) = TRUE))
        /\ inst_nteq(l, r) = Pushed(JSBool((l.num = r.num) = FALSE))
    BY <1>4 DEF inst_teq, inst_nteq, Equality
  <2>2. (l.num = r.num) \in BOOLEAN
    OBVIOUS
  <2> QED
    BY <1>4, <2>1, <2>2, Zenon
<1>5. CASE /\ ~(IsNumber(l) /\ IsNumber(r)) /\ l.type = r.type
           /\ l.type \notin {"null", "undefined", "function", "object"}
  <2>1. inst_teq(l, r) = Panicked /\ inst_nteq(l, r) = Panicked
    BY <1>5 DEF inst_teq, inst_nteq, Equality
  <2> QED
    BY <1>5, <2>1, Zenon
<1> QED
  BY <1>1, <1>2, <1>3, <1>4, <1>5

LEMMA RelationsMirror ==
  ASSUME NEW l \in Value, NEW r \in Value
  PROVE  inst_lt(l, r) = inst_gt(r, l) /\ inst_leq(l, r) = inst_geq(r, l)
<1>1. PICK x \in Value, y \in Value : x = AsDouble(Coerced(l)) /\ y = AsDouble(Coerced(r))
  BY CoercedIsValue, AsDoubleIsValue
<1>2. /\ Incomparable(l, r) <=> Incomparable(r, l)
      /\ Comparable(l, r) <=> Comparable(r, l)
  BY Zenon DEF Incomparable, Comparable
<1>3. CASE Incomparable(l, r)
  <2>1. inst_lt(l, r) = Pushed(JSBool(FALSE)) /\ inst_leq(l, r) = Pushed(JSBool(FALSE))
    BY <1>1, <1>3, RelationForms, Zenon
  <2>2. inst_gt(r, l) = Pushed(JSBool(FALSE)) /\ inst_geq(r, l) = Pushed(JSBool(FALSE))
    BY <1>1, <1>2, <1>3, RelationForms, Zenon
  <2> QED
    BY <2>1, <2>2, Zenon
<1>4. CASE Comparable(l, r)
  <2>1. DEqual(x, y) <=> DEqual(y, x)
    BY Trichotomy
  <2>2. JSBool(DLess(x, y) \/ DEqual(x, y)) = JSBool(DLess(x, y) \/ DEqual(y, x))
    BY <2>1, SameTruth, Zenon
  <2>3. /\ inst_lt(l, r) = Pushed(JSBool(DLess(x, y)))
        /\ inst_leq(l, r) = Pushed(JSBool(DLess(x, y) \/ DEqual(x, y)))
    BY <1>1, <1>4, RelationForms, Zenon
  <2>4. /\ inst_gt(r, l) = Pushed(JSBool(DLess(x, y)))
        /\ inst_geq(r, l) = Pushed(JSBool(DLess(x, y) \/ DEqual(y, x)))
    BY <1>1, <1>2, <1>4, RelationForms, Zenon
  <2> QED
    BY <2>2, <2>3, <2>4, Zenon
<1>5. CASE ~Incomparable(l, r) /\ ~Comparable(l, r)
  BY <1>2, <1>5, RelationForms, Zenon
<1> QED
  BY <1>3, <1>4, <1>5

\* inst_nteq answers the opposite of inst_teq whenever that answers.
LEMMA EqualityComplements ==
  ASSUME NEW l \in Value, NEW r \in Value, inst_teq(l, r).effect = "pop"
  PROVE  Affirms(inst_nteq(l, r)) <=> ~Affirms(inst_teq(l, r))
<1>1. ASSUME NEW b \in BOOLEAN, inst_teq(l, r) = Pushed(JSBool(b = TRUE)),
             inst_nteq(l, r) = Pushed(JSBool(b = FALSE))
      PROVE  Affirms(inst_nteq(l, r)) <=> ~Affirms(inst_teq(l, r))
  <2>1. (b = TRUE) \in BOOLEAN /\ (b = FALSE) \in BOOLEAN /\ ((b = FALSE) <=> ~(b = TRUE))
    OBVIOUS
  <2>2. Affirms(inst_teq(l, r)) <=> (b = TRUE)
    BY <1>1, <2>1, AffirmsForms, Zenon
  <2>3. Affirms(inst_nteq(l, r)) <=> (b = FALSE)
    BY <1>1, <2>1, AffirmsForms, Zenon
  <2> QED
    BY <2>1, <2>2, <2>3, Zenon
<1>2. CASE IsNumber(l) /\ IsNumber(r)
  <2>1. DEqual(AsDouble(l), AsDouble(r)) \in BOOLEAN
    BY AsDoubleIsValue, Trichotomy
  <2> QED
    BY <1>1, <1>2, <2>1, EqualityForms, Zenon
<1>3. CASE ~(IsNumber(l) /\ IsNumber(r))
  <2>1. inst_teq(l, r) # Panicked
    BY AffirmsForms, Zenon
  <2> QED
    BY <1>1, <1>3, <2>1, EqualityForms, Zenon
<1> QED
  BY <1>2, <1>3

LEMMA OneOfThree ==
  ASSUME NEW a, NEW b, NEW c,
         a[2] \/ b[2] \/ c[2], ~(a[2] /\ b[2]), ~(a[2] /\ c[2]), ~(b[2] /\ c[2])
  PROVE  Cardinality({t \in {a, b, c} : t[2]}) = 1
<1>1. \A e : {t \in {a, b, c} : t[2]} = {e} => Cardinality({t \in {a, b, c} : t[2]}) = 1
  BY FS_Singleton
<1>2. CASE a[2]
  BY <1>1, <1>2
<1>3. CASE b[2]
  BY <1>1, <1>3
<1>4. CASE c[2]
  BY <1>1, <1>4
<1> QED
  BY <1>2, <1>3, <1>4

\* The six comparisons agree with each other on any two values.
THEOREM ComparisonsAreConsistent == Spec => []ComparisonsAgree
<1>1. ASSUME NEW l \in Value, NEW r \in Value, IsNumber(l), IsNumber(r)
      PROVE  LET x == AsDouble(l)
                 y == AsDouble(r)
             IN  /\ Affirms(inst_lt(l, r)) <=> DLess(x, y)
                 /\ Affirms(inst_gt(l, r)) <=> DLess(y, x)
                 /\ Affirms(inst_leq(l, r)) <=> DLess(x, y) \/ DEqual(x, y)
                 /\ Affirms(inst_geq(l, r)) <=> DLess(y, x) \/ DEqual(x, y)
                 /\ Affirms(inst_teq(l, r)) <=> DEqual(x, y)
  <2>1. PICK x \in Value, y \in Value : x = AsDouble(l) /\ y = AsDouble(r)
    BY AsDoubleIsValue
  <2>2. Coerced(l) = l /\ Coerced(r) = r /\ Comparable(l, r)
    BY <1>1 DEF Coerced, IsNumber, Comparable, Incomparable
  <2>3. /\ DLess(x, y) \in BOOLEAN /\ DLess(y, x) \in BOOLEAN /\ DEqual(x, y) \in BOOLEAN
        /\ (DLess(x, y) \/ DEqual(x, y)) \in BOOLEAN /\ (DLess(y, x) \/ DEqual(x, y)) \in BOOLEAN
        /\ (DEqual(x, y) = TRUE) \in BOOLEAN /\ ((DEqual(x, y) = TRUE) <=> DEqual(x, y))
    BY Trichotomy
  <2>4. /\ inst_lt(l, r) = Pushed(JSBool(DLess(x, y)))
        /\ inst_gt(l, r) = Pushed(JSBool(DLess(y, x)))
        /\ inst_leq(l, r) = Pushed(JSBool(DLess(x, y) \/ DEqual(x, y)))
        /\ inst_geq(l, r) = Pushed(JSBool(DLess(y, x) \/ DEqual(x, y)))
    <3>1. x = AsDouble(Coerced(l)) /\ y = AsDouble(Coerced(r))
      BY <2>1, <2>2
    <3>2. Comparable(l, r)
      BY <2>2
    <3> QED
      BY <3>1, <3>2, RelationForms, Zenon
  <2>5. inst_teq(l, r) = Pushed(JSBool(DEqual(x, y) = TRUE))
    BY <1>1, <2>1, EqualityForms, Zenon
  <2> QED
    BY <2>1, <2>3, <2>4, <2>5, AffirmsForms, Zenon
<1>2. ASSUME BenchInv PROVE ComparisonsAgree
  <2>1. PICK l \in Value, r \in Value : l = left /\ r = right
    BY <1>2, OperandsAreValues
  <2>2. inst_lt(l, r) = inst_gt(r, l) /\ inst_leq(l, r) = inst_geq(r, l)
    BY RelationsMirror
  <2>3. inst_teq(l, r).effect = "pop" =>
          (Affirms(inst_nteq(l, r)) <=> ~Affirms(inst_teq(l, r)))
    BY EqualityComplements
  <2>4. ASSUME IsNumber(l), IsNumber(r)
        PROVE  /\ Affirms(inst_leq(l, r)) <=> Affirms(inst_lt(l, r)) \/ Affirms(inst_teq(l, r))
               /\ Affirms(inst_geq(l, r)) <=> Affirms(inst_gt(l, r)) \/ Affirms(inst_teq(l, r))
    BY <1>1, <2>4, Zenon
  <2>5. ASSUME IsNumber(l), IsNumber(r), ~IsNaN(AsDouble(l)), ~IsNaN(AsDouble(r))
        PROVE  Cardinality({t \in {<<1, Affirms(inst_lt(l, r))>>, <<2, Affirms(inst_gt(l, r))>>,
                                   <<3, Affirms(inst_teq(l, r))>>} : t[2]}) = 1
    <3>1. PICK x \in Value, y \in Value : x = AsDouble(l) /\ y = AsDouble(r)
      BY AsDoubleIsValue
    <3>2. /\ Affirms(inst_lt(l, r)) <=> DLess(x, y)
          /\ Affirms(inst_gt(l, r)) <=> DLess(y, x)
          /\ Affirms(inst_teq(l, r)) <=> DEqual(x, y)
      BY <1>1, <2>5, <3>1, Zenon
    <3>3. /\ DLess(x, y) \/ DLess(y, x) \/ DEqual(x, y)
          /\ ~(DLess(x, y) /\ DLess(y, x)) /\ ~(DLess(x, y) /\ DEqual(x, y))
          /\ ~(DLess(y, x) /\ DEqual(x, y))
      BY <2>5, <3>1, Trichotomy
    <3>4. \A n, b : <<n, b>>[2] = b
      OBVIOUS
    <3> QED
      BY ZenonT(30), <3>2, <3>3, <3>4, OneOfThree
  <2> QED
    BY <2>1, <2>2, <2>3, <2>4, <2>5, Zenon DEF ComparisonsAgree, Affirms, Left, Right
<1> QED
  BY <1>2, BenchInvHolds, PTL

-----------------------------------------------------------------------------
(* The two builds. Most operators do not look at TrapOnUB.                 *)

LEMMA SameForms ==
  /\ Debug!IntRange = IntRange /\ Debug!IntMin = IntMin /\ Debug!IntMax = IntMax
  /\ Debug!BitPositions = BitPositions /\ Debug!NotNumeric = NotNumeric
  /\ Debug!JSNaN = JSNaN /\ Debug!Panicked = Panicked /\ Debug!Trapped = Trapped
  /\ \A v : Debug!Pushed(v) = Pushed(v) /\ Debug!Kept(v) = Kept(v)
  /\ \A v : Debug!Coerced(v) = Coerced(v) /\ Debug!AsDouble(v) = AsDouble(v)
  /\ \A n : Debug!JSInt(n) = JSInt(n)
  /\ \A n, d : Debug!JSDouble(n, d) = JSDouble(n, d)
BY SMT
DEF JSInt, Tagged, Pushed, Outcome, Kept, Panicked, JSUndefined, Trapped, JSNaN, JSDouble,
    Sgn, Coerced, AsDouble, NotNumeric, IntRange, IntMax, IntMin, BitPositions,
    Debug!JSInt, Debug!Tagged, Debug!Pushed, Debug!Outcome, Debug!Kept, Debug!Panicked,
    Debug!JSUndefined, Debug!Trapped, Debug!JSNaN, Debug!JSDouble, Debug!Sgn,
    Debug!Coerced, Debug!AsDouble, Debug!NotNumeric, Debug!IntRange, Debug!IntMax,
    Debug!IntMin, Debug!BitPositions

LEMMA SameDoubles ==
  /\ \A x : (Debug!IsNaN(x) <=> IsNaN(x)) /\ (Debug!DIsZero(x) <=> DIsZero(x))
  /\ \A x, y : (Debug!DLess(x, y) <=> DLess(x, y)) /\ (Debug!DEqual(x, y) <=> DEqual(x, y))
  /\ \A a, b : Debug!CQuot(a, b) = CQuot(a, b) /\ Debug!CRem(a, b) = CRem(a, b)
  /\ \A x, y : Debug!DSum(x, y) = DSum(x, y) /\ Debug!DProduct(x, y) = DProduct(x, y)
  /\ \A x, y : Debug!DQuotient(x, y) = DQuotient(x, y)
  /\ \A x : Debug!DNeg(x) = DNeg(x) /\ Debug!CastToInt(x) = CastToInt(x)
  /\ \A x : Debug!UndefinedCast(x) <=> UndefinedCast(x)
  /\ \A x, y : Debug!DRemainder(x, y) = DRemainder(x, y)
  /\ \A x : Debug!Collapsed(x) = Collapsed(x)
<1>1. /\ \A x : (Debug!IsNaN(x) <=> IsNaN(x)) /\ (Debug!DIsZero(x) <=> DIsZero(x))
      /\ \A x, y : (Debug!DLess(x, y) <=> DLess(x, y)) /\ (Debug!DEqual(x, y) <=> DEqual(x, y))
      /\ \A a, b : Debug!CQuot(a, b) = CQuot(a, b) /\ Debug!CRem(a, b) = CRem(a, b)
  BY SMT
  DEF IsNaN, DIsZero, DLess, DEqual, CQuot, Abs, Sgn, CRem, Debug!IsNaN, Debug!DIsZero,
      Debug!DLess, Debug!DEqual, Debug!CQuot, Debug!Abs, Debug!Sgn, Debug!CRem
<1>2. /\ \A x, y : Debug!DSum(x, y) = DSum(x, y) /\ Debug!DProduct(x, y) = DProduct(x, y)
      /\ \A x, y : Debug!DQuotient(x, y) = DQuotient(x, y)
      /\ \A x : Debug!DNeg(x) = DNeg(x) /\ Debug!CastToInt(x) = CastToInt(x)
      /\ \A x : Debug!UndefinedCast(x) <=> UndefinedCast(x)
  BY SMT
  DEF DSum, JSDouble, Sgn, JSNaN, DProduct, DQuotient, Abs, DNeg, CastToInt, CQuot, UndefinedCast,
      IntRange, IntMax, IntMin, Debug!DSum, Debug!JSDouble, Debug!Sgn, Debug!JSNaN,
      Debug!DProduct, Debug!DQuotient, Debug!Abs, Debug!DNeg, Debug!CastToInt, Debug!UndefinedCast,
      Debug!CQuot, Debug!IntRange, Debug!IntMax, Debug!IntMin
<1>3. \A x, y : Debug!DRemainder(x, y) = DRemainder(x, y)
  BY SMT, <1>1, SameForms DEF DRemainder, Debug!DRemainder
<1>4. \A x : Debug!Collapsed(x) = Collapsed(x)
  BY SMT, <1>1, <1>2, SameForms DEF Collapsed, Debug!Collapsed
<1> QED
  BY <1>1, <1>2, <1>3, <1>4

LEMMA SameDivisions ==
  /\ \A v : Debug!DivOperand(v) = DivOperand(v)
  /\ \A n : Debug!JSInfinity(n) = JSInfinity(n)
  /\ \A a, b : Debug!IntMod(a, b) = IntMod(a, b)
BY SMT, SameForms, SameDoubles
DEF DivOperand, IntMod, JSInfinity, Debug!DivOperand, Debug!IntMod, Debug!JSInfinity

LEMMA SameBits ==
  /\ \A i : Debug!Bits(i) = Bits(i)
  /\ \A S : Debug!FromBits(S) = FromBits(S)
  /\ \A v : (Debug!IsNumber(v) <=> IsNumber(v)) /\ Debug!ToInt(v) = ToInt(v)
  /\ \A v : Debug!Truncated(v) = Truncated(v)
  /\ \A k : Debug!Count(k) = Count(k)
BY SMT, SameForms, SameDoubles
DEF Bits, FromBits, IsNumber, ToInt, Truncated, Count, BitPositions, IntRange, IntMin, IntMax,
    Debug!Bits, Debug!FromBits, Debug!IsNumber, Debug!ToInt, Debug!Truncated, Debug!Count,
    Debug!BitPositions, Debug!IntRange, Debug!IntMin, Debug!IntMax

LEMMA SameComparisons ==
  \A l, r : /\ Debug!inst_teq(l, r) = inst_teq(l, r) /\ Debug!inst_nteq(l, r) = inst_nteq(l, r)
           /\ Debug!inst_gt(l, r) = inst_gt(l, r) /\ Debug!inst_geq(l, r) = inst_geq(l, r)
           /\ Debug!inst_lt(l, r) = inst_lt(l, r) /\ Debug!inst_leq(l, r) = inst_leq(l, r)
BY SMT, SameForms, SameDoubles, SameBits
DEF inst_teq, inst_nteq, Equality, JSBool, Tagged, inst_gt, inst_geq, inst_lt, inst_leq,
    Relational, Greater, GreaterEqual, LessEqual, Debug!inst_teq, Debug!inst_nteq,
    Debug!Equality, Debug!JSBool, Debug!Tagged, Debug!inst_gt, Debug!inst_geq,
    Debug!inst_lt, Debug!inst_leq, Debug!Relational, Debug!Greater, Debug!GreaterEqual,
    Debug!LessEqual

LEMMA SameNames ==
  \A v : Debug!inst_not(v) = inst_not(v) /\ Debug!inst_typeof(v) = inst_typeof(v)
BY SMT, SameForms, SameDoubles, SameBits
DEF inst_not, inst_typeof, value_is_falsy, JSBool, JSString, Tagged, TypeofText,
    Debug!inst_not, Debug!inst_typeof, Debug!value_is_falsy, Debug!JSBool, Debug!JSString,
    Debug!Tagged, Debug!TypeofText

\* The outcomes d and e of the debug and the release build differ where the
\* operands are undefined, and there the debug build traps.
AgreeUnless(undefined, d, e) ==
  (d.effect = "trap" <=> undefined) /\ (~undefined => d = e) /\ e.effect # "trap"

LEMMA EffectForms ==
  /\ \A v : Pushed(v).effect = "pop" /\ Kept(v).effect = "keep"
  /\ Panicked.effect = "panic" /\ Trapped.effect = "trap"
BY DEF Pushed, Kept, Panicked, Trapped, Outcome

LEMMA IntResultsAgree ==
  ASSUME ~TrapOnUB, NEW n \in Int
  PROVE  AgreeUnless(n \notin IntRange, Debug!IntResult(n), IntResult(n))
<1>1. Debug!IntResult(n) = IF n \in IntRange THEN Pushed(JSInt(n)) ELSE Trapped
  BY SameForms DEF Debug!IntResult
<1>2. IntResult(n) = IF n \in IntRange THEN Pushed(JSInt(n)) ELSE Pushed(JSInt(Wrap(n)))
  BY DEF IntResult
<1>3. CASE n \in IntRange
  BY <1>1, <1>2, <1>3, EffectForms DEF AgreeUnless
<1>4. CASE n \notin IntRange
  BY <1>1, <1>2, <1>4, EffectForms DEF AgreeUnless
<1> QED
  BY <1>3, <1>4

TwoIntegers(l, r) == Coerced(l).type = "integer" /\ Coerced(r).type = "integer"

LEMMA CoercedTypes ==
  \A v : Coerced(v).type = "integer" => v.type \in {"integer", "boolean", "null"}
BY DEF Coerced, JSInt, Tagged

\* An instruction that casts: the debug build traps on an operand without an int.
LEMMA CastingsAgree ==
  ASSUME ~TrapOnUB, NEW vs, NEW u, NEW d, NEW e, AgreeUnless(u, d, e)
  PROVE  AgreeUnless((\E v \in vs : v.type = "double" /\ UndefinedCast(v)) \/ u,
                     Debug!Casting(vs, d), Casting(vs, e))
<1> DEFINE w == \E v \in vs : v.type = "double" /\ UndefinedCast(v)
<1>1. Casting(vs, e) = e
  BY DEF Casting
<1>2. Debug!Casting(vs, d) = IF w THEN Trapped ELSE d
  BY SameForms, SameDoubles DEF Debug!Casting
<1> HIDE DEF w
<1>3. AgreeUnless(w \/ u, Debug!Casting(vs, d), Casting(vs, e))
  BY <1>1, <1>2, EffectForms, Zenon DEF AgreeUnless
<1> QED
  BY <1>3 DEF w

LEMMA PushesAgree ==
  ASSUME NEW v
  PROVE  AgreeUnless(FALSE, Pushed(v), Pushed(v))
BY EffectForms DEF AgreeUnless

LEMMA PositiveProduct == \A a, b \in Nat \ {0} : a * b \in Nat \ {0}
OBVIOUS

\* A cast is undefined on the doubles outside the range of int.
LEMMA CastBounds ==
  ASSUME NEW n \in Int, NEW d \in Nat \ {0}
  PROVE  CQuot(n, d) \in IntRange <=> (IntMin - 1) * d < n /\ n < (IntMax + 1) * d
<1>1. PICK m \in Int, k \in Int : m = IntMin /\ k = IntMax /\ m < 0 /\ k >= 0
  BY IntBounds
<1>2. PICK a \in Nat : a = Abs(n)
  BY SgnAbs
<1>3. PICK q \in Nat, e \in Nat : q = a \div d /\ a = d * q + e /\ e < d
  BY Quotient
<1>4. Sgn(d) = 1 /\ Abs(d) = d
  BY DEF Sgn, Abs
<1>5. \A c \in Nat : q <= c <=> a < (c + 1) * d
  <2> SUFFICES ASSUME NEW c \in Nat PROVE q <= c <=> a < (c + 1) * d
    OBVIOUS
  <2>1. CASE q <= c
    <3>1. PICK f \in Nat : c = q + f
      BY <2>1
    <3>2. (c + 1) * d = d * q + f * d + d /\ f * d \in Nat
      BY <3>1
    <3> QED
      BY <1>3, <2>1, <3>2
  <2>2. CASE ~(q <= c)
    <3>1. PICK f \in Nat : q = c + 1 + f
      BY <2>2
    <3>2. d * q = (c + 1) * d + f * d /\ f * d \in Nat
      BY <3>1
    <3>3. (c + 1) * d \in Nat
      OBVIOUS
    <3> QED
      BY <1>3, <2>2, <3>2, <3>3
  <2> QED
    BY <2>1, <2>2
<1>6. (m - 1) * d = -((-m + 1) * d) /\ (m - 1) * d < 0 /\ (k + 1) * d > 0
  <2>1. PICK c \in Nat : c = -m /\ c > 0
    BY <1>1
  <2>2. (m - 1) * d = -((c + 1) * d) /\ (c + 1) * d > 0
    BY <2>1, PositiveProduct
  <2>3. (k + 1) * d > 0
    BY <1>1, PositiveProduct
  <2> QED
    BY <2>1, <2>2, <2>3
<1>7. CASE n >= 0
  <2>1. a = n /\ CQuot(n, d) = q
    BY <1>2, <1>3, <1>4, <1>7 DEF CQuot, Sgn, Abs
  <2>2. q <= k <=> n < (k + 1) * d
    BY <1>1, <1>5, <2>1
  <2> QED
    BY <1>1, <1>6, <1>7, <2>1, <2>2, IntBounds
<1>8. CASE n < 0
  <2>1. a = -n /\ CQuot(n, d) = -q
    BY <1>2, <1>3, <1>4, <1>8 DEF CQuot, Sgn, Abs
  <2>2. q <= -m <=> a < (-m + 1) * d
    BY <1>1, <1>5
  <2>3. m <= -q <=> (m - 1) * d < n
    BY <1>1, <1>6, <2>1, <2>2
  <2> QED
    BY <1>1, <1>6, <1>8, <2>1, <2>3, IntBounds
<1> QED
  BY <1>7, <1>8

LEMMA NoIntIsUndefined ==
  ASSUME NEW x \in Value, x.type = "double"
  PROVE  NoInt(x) <=> UndefinedCast(x)
<1>1. x.num \in Int /\ x.den \in Nat
  BY ValueFields
<1>2. PICK m \in Int, k \in Int : m = IntMin - 1 /\ k = IntMax + 1
  BY IntBounds
<1>3. /\ JSDouble(m, 1).num = m /\ JSDouble(m, 1).den = 1
      /\ JSDouble(k, 1).num = k /\ JSDouble(k, 1).den = 1
  BY DEF JSDouble
<1>4. ~IsNaN(JSDouble(m, 1)) /\ ~IsNaN(JSDouble(k, 1))
  BY <1>3 DEF IsNaN
<1>5. DLess(JSDouble(m, 1), x) <=> ~IsNaN(x) /\ m * x.den < x.num
  BY <1>1, <1>3, <1>4 DEF DLess
<1>6. DLess(x, JSDouble(k, 1)) <=> ~IsNaN(x) /\ x.num < k * x.den
  BY <1>1, <1>3, <1>4 DEF DLess
<1>7. CASE x.den = 0
  <2>1. m * x.den = 0 /\ k * x.den = 0
    BY <1>7
  <2> QED
    BY <1>1, <1>2, <1>5, <1>6, <1>7, <2>1 DEF NoInt, UndefinedCast
<1>8. CASE x.den # 0
  <2>1. CQuot(x.num, x.den) \in IntRange <=> m * x.den < x.num /\ x.num < k * x.den
    BY <1>1, <1>2, <1>8, CastBounds
  <2> QED
    BY <1>2, <1>5, <1>6, <1>8, <2>1 DEF NoInt, UndefinedCast, IsNaN
<1> QED
  BY <1>7, <1>8

\* The int collapse: the debug build traps on a result without an int.
LEMMA CollapsesAgree ==
  ASSUME ~TrapOnUB, NEW x \in Value, x.type = "double"
  PROVE  AgreeUnless(NoInt(x), Debug!PushCollapsed(x), PushCollapsed(x))
<1>1. PICK e : e = Pushed(Collapsed(x))
  OBVIOUS
<1>2. PushCollapsed(x) = Casting({x}, e) /\ Debug!PushCollapsed(x) = Debug!Casting({x}, e)
  BY <1>1, SameForms, SameDoubles DEF PushCollapsed, Debug!PushCollapsed
<1>3. AgreeUnless((\E v \in {x} : v.type = "double" /\ UndefinedCast(v)) \/ FALSE,
                  Debug!Casting({x}, e), Casting({x}, e))
  BY <1>1, PushesAgree, CastingsAgree
<1>4. (\E v \in {x} : v.type = "double" /\ UndefinedCast(v)) <=> NoInt(x)
  BY NoIntIsUndefined
<1> QED
  BY <1>2, <1>3, <1>4, Zenon DEF AgreeUnless

\* One operand is a double and neither of the kinds that make NaN.
OneDouble(l, r) ==
  /\ "double" \in {Coerced(l).type, Coerced(r).type}
  /\ {Coerced(l).type, Coerced(r).type} \cap NotNumeric = {}

LEMMA CoercedKinds ==
  \A v : /\ Coerced(v).type \in NotNumeric <=> v.type \in NotNumeric
         /\ Coerced(v).type = "undefined" <=> v.type = "undefined"
BY DEF Coerced, JSInt, Tagged, NotNumeric

\* + and -: the exact result does not fit.
LEMMA SumsAgree ==
  ASSUME ~TrapOnUB, NEW l \in Value, NEW r \in Value,
         NEW a, NEW b, a = Coerced(l).num, b = Coerced(r).num
  PROVE  /\ AgreeUnless(TwoIntegers(l, r) /\ a + b \notin IntRange,
                        Debug!inst_add(l, r), inst_add(l, r))
         /\ AgreeUnless(TwoIntegers(l, r) /\ a - b \notin IntRange,
                        Debug!inst_minus(l, r), inst_minus(l, r))
<1>1. a \in Int /\ b \in Int
  BY CoercedIsValue, ValueFields
<1>2. a + b \in Int /\ a - b \in Int
  BY <1>1
<1>3. CASE TwoIntegers(l, r)
  <2>1. /\ l.type # "undefined" /\ r.type # "undefined"
        /\ l.type \notin NotNumeric /\ r.type \notin NotNumeric
    BY <1>3, CoercedTypes DEF TwoIntegers, NotNumeric
  <2>2. inst_add(l, r) = IntResult(a + b) /\ inst_minus(l, r) = IntResult(a - b)
    BY <1>3, <2>1 DEF TwoIntegers, inst_add, inst_minus, Arithmetic, IntAdd, IntMinus
  <2>3. /\ Debug!inst_add(l, r) = Debug!IntResult(a + b)
        /\ Debug!inst_minus(l, r) = Debug!IntResult(a - b)
    BY <1>3, <2>1, SameForms
    DEF TwoIntegers, Debug!inst_add, Debug!inst_minus, Debug!Arithmetic,
        Debug!IntAdd, Debug!IntMinus
  <2> QED
    BY <1>2, <1>3, <2>2, <2>3, IntResultsAgree DEF AgreeUnless
<1>4. CASE ~TwoIntegers(l, r)
  <2>1. Debug!inst_add(l, r) = inst_add(l, r) /\ Debug!inst_minus(l, r) = inst_minus(l, r)
    BY <1>4, SameForms, SameDoubles
    DEF TwoIntegers, inst_add, inst_minus, Arithmetic, DoubleAdd, DoubleMinus,
        Debug!inst_add, Debug!inst_minus, Debug!Arithmetic, Debug!DoubleAdd, Debug!DoubleMinus
  <2>2. inst_add(l, r).effect # "trap" /\ inst_minus(l, r).effect # "trap"
    BY <1>4, EffectForms
    DEF TwoIntegers, inst_add, inst_minus, Arithmetic, DoubleAdd, DoubleMinus
  <2> QED
    BY <1>4, <2>1, <2>2 DEF AgreeUnless
<1> QED
  BY <1>3, <1>4

\* *: the exact result of integers does not fit, or that of doubles has no int.
LEMMA ProductsAgree ==
  ASSUME ~TrapOnUB, NEW l \in Value, NEW r \in Value,
         NEW a, NEW b, a = Coerced(l).num, b = Coerced(r).num,
         NEW p, p = DProduct(AsDouble(Coerced(l)), AsDouble(Coerced(r)))
  PROVE  AgreeUnless(\/ TwoIntegers(l, r) /\ a * b \notin IntRange
                     \/ OneDouble(l, r) /\ NoInt(p),
                     Debug!inst_mul(l, r), inst_mul(l, r))
<1>1. a * b \in Int
  BY CoercedIsValue, ValueFields, Products
<1>2. p \in Value /\ p.type = "double"
  BY CoercedIsValue, AsDoubleIsValue, DoubleOpsAreValues DEF DProduct, JSDouble
<1>3. CASE TwoIntegers(l, r)
  <2>1. l.type \notin NotNumeric /\ r.type \notin NotNumeric /\ ~OneDouble(l, r)
    BY <1>3, CoercedTypes DEF TwoIntegers, NotNumeric, OneDouble
  <2>2. inst_mul(l, r) = IntResult(a * b)
    BY <1>3, <2>1 DEF TwoIntegers, inst_mul, Arithmetic, IntMul
  <2>3. Debug!inst_mul(l, r) = Debug!IntResult(a * b)
    BY <1>3, <2>1, SameForms DEF TwoIntegers, Debug!inst_mul, Debug!Arithmetic, Debug!IntMul
  <2> QED
    BY <1>1, <1>3, <2>1, <2>2, <2>3, IntResultsAgree DEF AgreeUnless
<1>4. CASE OneDouble(l, r)
  <2>1. l.type \notin NotNumeric /\ r.type \notin NotNumeric /\ ~TwoIntegers(l, r)
        /\ (Coerced(l).type = "double" \/ Coerced(r).type = "double")
    BY <1>4, CoercedKinds DEF TwoIntegers, OneDouble
  <2>2. inst_mul(l, r) = PushCollapsed(p)
    BY <2>1 DEF TwoIntegers, inst_mul, Arithmetic, DoubleMul
  <2>3. Debug!inst_mul(l, r) = Debug!PushCollapsed(p)
    BY <2>1, SameForms, SameDoubles
    DEF TwoIntegers, Debug!inst_mul, Debug!Arithmetic, Debug!DoubleMul
  <2> QED
    BY <1>2, <1>4, <2>1, <2>2, <2>3, CollapsesAgree DEF AgreeUnless
<1>5. CASE ~TwoIntegers(l, r) /\ ~OneDouble(l, r)
  <2>1. \/ l.type \in NotNumeric \/ r.type \in NotNumeric
        \/ Coerced(l).type # "double" /\ Coerced(r).type # "double"
    BY <1>5, CoercedKinds DEF OneDouble
  <2>2. /\ Debug!inst_mul(l, r) = inst_mul(l, r)
        /\ inst_mul(l, r) \in {Kept(JSNaN), Panicked}
    BY <1>5, <2>1, SameForms
    DEF TwoIntegers, inst_mul, Arithmetic, Debug!inst_mul, Debug!Arithmetic
  <2> QED
    BY <1>5, <2>2, EffectForms DEF AgreeUnless
<1> QED
  BY <1>3, <1>4, <1>5

\* Operands that inst_div divides: a number among them, and the divisor not 0.
Divides(l, r) ==
  /\ {Coerced(l).type, Coerced(r).type} \cap {"integer", "double"} # {}
  /\ {Coerced(l).type, Coerced(r).type} \cap NotNumeric = {}
  /\ r.type # "null" /\ ~DIsZero(AsDouble(Coerced(r)))

\* /: the quotient has no int, be it that of integers.
LEMMA QuotientsAgree ==
  ASSUME ~TrapOnUB, NEW l \in Value, NEW r \in Value, Canonical(l), Canonical(r),
         NEW x, NEW y, x = AsDouble(Coerced(l)), y = AsDouble(Coerced(r))
  PROVE  AgreeUnless(Divides(l, r) /\ NoInt(DQuotient(x, y)),
                     Debug!inst_div(l, r), inst_div(l, r))
<1>1. x \in Value /\ y \in Value
  BY CoercedIsValue, AsDoubleIsValue
<1>2. PICK q \in Value : q = DQuotient(x, y) /\ q.type = "double"
  <2>1. DQuotient(x, y) \in Value
    BY <1>1, DoubleOpsAreValues
  <2>2. DQuotient(x, y).type = "double"
    BY DEF DQuotient, JSDouble
  <2> QED
    BY <2>1, <2>2
<1>3. CASE l.type \in NotNumeric \/ r.type \in NotNumeric \cup {"null"}
  <2>1. ~Divides(l, r)
    BY <1>3, CoercedKinds DEF Divides
  <2>2. inst_div(l, r) = Kept(JSNaN) /\ Debug!inst_div(l, r) = Kept(JSNaN)
    BY <1>3, SameForms DEF inst_div, Debug!inst_div
  <2> QED
    BY <2>1, <2>2, EffectForms DEF AgreeUnless
<1>4. CASE /\ l.type \notin NotNumeric /\ r.type \notin NotNumeric \cup {"null"}
           /\ DivOperand(l).type # "double" /\ DivOperand(r).type # "double"
  <2>1. ~Divides(l, r)
    BY <1>4, DivOperandForms DEF Divides
  <2>2. inst_div(l, r) = Panicked /\ Debug!inst_div(l, r) = Panicked
    BY <1>4, SameForms, SameDivisions DEF inst_div, Debug!inst_div
  <2> QED
    BY <2>1, <2>2, EffectForms DEF AgreeUnless
<1>5. CASE /\ l.type \notin NotNumeric /\ r.type \notin NotNumeric \cup {"null"}
           /\ DivOperand(l).type = "double" \/ DivOperand(r).type = "double"
  <2>1. Divides(l, r) <=> ~DIsZero(y)
    <3>1. Coerced(l).type \notin NotNumeric /\ Coerced(r).type \notin NotNumeric
      BY <1>5, CoercedKinds
    <3>2. \/ Coerced(l).type \in {"integer", "double"}
          \/ Coerced(r).type \in {"integer", "double"}
      BY <1>5, DivOperandForms
    <3> QED
      BY <1>5, <3>1, <3>2 DEF Divides
  <2>2. AsDouble(DivOperand(l)) = x /\ AsDouble(DivOperand(r)) = y
    BY DivOperandForms
  <2>3. inst_div(l, r) = DoubleDiv(x, y)
    BY <1>5, <2>2 DEF inst_div
  <2>4. Debug!inst_div(l, r) = Debug!DoubleDiv(x, y)
    BY <1>5, <2>2, SameForms, SameDivisions DEF Debug!inst_div
  <2>5. CASE ~DIsZero(y)
    <3>1. DoubleDiv(x, y) = PushCollapsed(q) /\ Debug!DoubleDiv(x, y) = Debug!PushCollapsed(q)
      BY <1>2, <2>5, SameDoubles DEF DoubleDiv, Debug!DoubleDiv
    <3> QED
      BY <1>2, <2>1, <2>3, <2>4, <2>5, <3>1, CollapsesAgree DEF AgreeUnless
  <2>6. CASE DIsZero(y)
    <3>1. PICK n : n = IF DLess(JSDouble(0, 1), x) THEN 1 ELSE -1
      OBVIOUS
    <3>2. DoubleDiv(x, y) = IF DIsZero(x) THEN Pushed(JSNaN) ELSE Pushed(JSInfinity(n))
      BY <2>6, <3>1 DEF DoubleDiv
    <3>3. Debug!DoubleDiv(x, y) = IF DIsZero(x) THEN Pushed(JSNaN) ELSE Pushed(JSInfinity(n))
      BY <2>6, <3>1, SameForms, SameDoubles, SameDivisions DEF Debug!DoubleDiv
    <3> QED
      BY <2>1, <2>3, <2>4, <2>6, <3>2, <3>3, EffectForms DEF AgreeUnless
  <2> QED
    BY <2>5, <2>6
<1> QED
  BY <1>3, <1>4, <1>5

Settled(o, u, d, e) ==
  /\ d.effect = "trap" <=> u
  /\ ~u => d = e
  /\ e.effect = "trap" => o = "MOD" /\ u

LEMMA AgreeSettles ==
  ASSUME NEW o, NEW u, NEW w, NEW d, NEW e, u <=> w, AgreeUnless(w, d, e)
  PROVE  Settled(o, u, d, e)
BY Zenon DEF AgreeUnless, Settled

LEMMA SameSettles ==
  ASSUME NEW o, NEW u, NEW d, NEW e, ~u, d = e, e.effect # "trap"
  PROVE  Settled(o, u, d, e)
BY Zenon DEF Settled

\* %: the release build dies of INT_MIN % -1 as well; the remainder of doubles
\* may have no int.
LEMMA RemaindersAgree ==
  ASSUME ~TrapOnUB, NEW l \in Value, NEW r \in Value, Canonical(r),
         NEW x, NEW y, x = AsDouble(Coerced(l)), y = AsDouble(Coerced(r)),
         NEW u, u <=> \/ TwoIntegers(l, r) /\ Coerced(l).num = IntMin /\ Coerced(r).num = -1
                      \/ OneDouble(l, r) /\ Divides(l, r) /\ NoInt(DRemainder(x, y))
  PROVE  Settled("MOD", u, Debug!inst_mod(l, r), inst_mod(l, r))
<1>1. CASE l.type \in NotNumeric \/ r.type \in NotNumeric \cup {"null"}
  <2>1. ~OneDouble(l, r) \/ ~Divides(l, r)
    BY <1>1, CoercedKinds DEF OneDouble, Divides
  <2>2. ~(TwoIntegers(l, r) /\ Coerced(r).num = -1)
    BY <1>1, CoercedTypes DEF TwoIntegers, Coerced, JSInt, Tagged, Canonical, NotNumeric
  <2>3. inst_mod(l, r) = Kept(JSNaN) /\ Debug!inst_mod(l, r) = Kept(JSNaN)
    BY <1>1, SameForms DEF inst_mod, Debug!inst_mod, Arithmetic, Debug!Arithmetic
  <2> QED
    BY <2>1, <2>2, <2>3, EffectForms, SameSettles
<1>2. CASE /\ l.type \notin NotNumeric /\ r.type \notin NotNumeric \cup {"null"}
           /\ TwoIntegers(l, r)
  <2>1. ~OneDouble(l, r)
    BY <1>2 DEF TwoIntegers, OneDouble
  <2>2. PICK e : e = IntMod(Coerced(l).num, Coerced(r).num)
    OBVIOUS
  <2>3. inst_mod(l, r) = e /\ Debug!inst_mod(l, r) = e
    BY <1>2, <2>2, SameForms, SameDivisions
    DEF TwoIntegers, inst_mod, Arithmetic, Debug!inst_mod, Debug!Arithmetic
  <2>4. e.effect = "trap" <=> u
    BY <1>2, <2>1, <2>2, EffectForms DEF IntMod
  <2> QED
    BY <2>3, <2>4, Zenon DEF Settled
<1>3. CASE /\ l.type \notin NotNumeric /\ r.type \notin NotNumeric \cup {"null"}
           /\ ~TwoIntegers(l, r) /\ Coerced(l).type # "double" /\ Coerced(r).type # "double"
  <2>1. ~u
    BY <1>3 DEF OneDouble
  <2>2. inst_mod(l, r) = Panicked /\ Debug!inst_mod(l, r) = Panicked
    BY <1>3, SameForms DEF TwoIntegers, inst_mod, Arithmetic, Debug!inst_mod, Debug!Arithmetic
  <2> QED
    BY <2>1, <2>2, EffectForms, SameSettles
<1>4. CASE /\ l.type \notin NotNumeric /\ r.type \notin NotNumeric \cup {"null"}
           /\ Coerced(l).type = "double" \/ Coerced(r).type = "double"
  <2>1. ~TwoIntegers(l, r) /\ OneDouble(l, r) /\ (Divides(l, r) <=> ~DIsZero(y))
    <3>1. Coerced(l).type \notin NotNumeric /\ Coerced(r).type \notin NotNumeric
      BY <1>4, CoercedKinds
    <3>2. ~TwoIntegers(l, r)
      BY <1>4 DEF TwoIntegers
    <3>3. OneDouble(l, r)
      BY <1>4, <3>1 DEF OneDouble
    <3>4. Divides(l, r) <=> ~DIsZero(y)
      BY <1>4, <3>1 DEF Divides
    <3> QED
      BY <3>2, <3>3, <3>4
  <2>2. inst_mod(l, r) = DoubleMod(x, y)
    BY <1>4, <2>1 DEF TwoIntegers, inst_mod, Arithmetic
  <2>3. Debug!inst_mod(l, r) = Debug!DoubleMod(x, y)
    BY <1>4, <2>1, SameForms DEF TwoIntegers, Debug!inst_mod, Debug!Arithmetic
  <2>4. CASE DIsZero(y)
    <3>1. DoubleMod(x, y) = Pushed(JSNaN) /\ Debug!DoubleMod(x, y) = Pushed(JSNaN)
      BY <2>4, SameForms, SameDoubles DEF DoubleMod, Debug!DoubleMod
    <3> QED
      BY <2>1, <2>2, <2>3, <2>4, <3>1, EffectForms, SameSettles
  <2>5. CASE ~DIsZero(y)
    <3>1. x \in Value /\ y \in Value /\ x.type = "double"
      BY CoercedIsValue, AsDoubleIsValue DEF AsDouble, JSDouble
    <3>2. PICK e \in Value : e = DRemainder(x, y) /\ e.type = "double"
      BY <2>5, <3>1, DRemainderIsValue DEF DRemainder, JSNaN, JSDouble
    <3>3. DoubleMod(x, y) = PushCollapsed(e) /\ Debug!DoubleMod(x, y) = Debug!PushCollapsed(e)
      BY <2>5, <3>2, SameDoubles DEF DoubleMod, Debug!DoubleMod
    <3>4. u <=> NoInt(e)
      BY <2>1, <2>5, <3>2
    <3> QED
      BY <2>2, <2>3, <3>2, <3>3, <3>4, CollapsesAgree, AgreeSettles
  <2> QED
    BY <2>4, <2>5
<1> QED
  BY <1>1, <1>2, <1>3, <1>4

LEMMA NegationsAgree ==
  ASSUME ~TrapOnUB, NEW v \in Value, NEW n, n = Coerced(v).num
  PROVE  AgreeUnless(Coerced(v).type = "integer" /\ -n \notin IntRange,
                     Debug!inst_negate(v), inst_negate(v))
<1>1. n \in Int /\ -n \in Int
  BY CoercedIsValue, ValueFields
<1>2. CASE Coerced(v).type = "integer"
  <2>1. inst_negate(v) = IntResult(-n)
    BY <1>2 DEF inst_negate, NotNumeric
  <2>2. Debug!inst_negate(v) = Debug!IntResult(-n)
    BY <1>2, SameForms DEF Debug!inst_negate, NotNumeric
  <2> QED
    BY <1>1, <1>2, <2>1, <2>2, IntResultsAgree DEF AgreeUnless
<1>3. CASE Coerced(v).type # "integer"
  <2>1. Debug!inst_negate(v) = inst_negate(v)
    BY <1>3, SameForms, SameDoubles DEF inst_negate, Debug!inst_negate
  <2>2. inst_negate(v).effect # "trap"
    BY <1>3, EffectForms DEF inst_negate
  <2> QED
    BY <1>3, <2>1, <2>2 DEF AgreeUnless
<1> QED
  BY <1>2, <1>3

\* A count in range is taken as it is.
LEMMA CountInRange ==
  ASSUME NEW k \in BitPositions
  PROVE  Count(k) = k /\ 2^k \in Nat \ {0}
<1>1. k \in Int /\ 0 <= k /\ k < W /\ W \in Nat \ {0} /\ k \in 0..W
  BY WidthAssumption DEF BitPositions
<1>2. k % W = k
  BY <1>1
<1> QED
  BY <1>1, <1>2, PowersOfTwo DEF Count

LEMMA LeftShiftsAgree ==
  ASSUME ~TrapOnUB, NEW a \in Int, NEW k \in Int
  PROVE  AgreeUnless(k \notin BitPositions \/ a < 0 \/ a * 2^k \notin IntRange,
                     Debug!LeftShift(a, k), LeftShift(a, k))
<1> DEFINE shifted == Pushed(JSInt(FromBits({b + Count(k) : b \in Bits(a)} \cap BitPositions)))
           undefined == k \notin BitPositions \/ a < 0 \/ a * 2^k \notin IntRange
<1>1. LeftShift(a, k) = shifted
  BY DEF LeftShift
<1>2. Debug!LeftShift(a, k) =
        IF k \notin BitPositions \/ a < 0 \/ a * 2^Count(k) > IntMax THEN Trapped ELSE shifted
  <2>1. /\ Debug!Bits(a) = Bits(a) /\ Debug!Count(k) = Count(k)
        /\ Debug!BitPositions = BitPositions /\ Debug!IntMax = IntMax
        /\ Debug!Trapped = Trapped /\ (\A v : Debug!Pushed(v) = Pushed(v))
        /\ (\A n : Debug!JSInt(n) = JSInt(n)) /\ (\A S : Debug!FromBits(S) = FromBits(S))
    BY SameForms, SameBits
  <2> QED
    BY <2>1 DEF Debug!LeftShift
<1>3. undefined <=> (k \notin BitPositions \/ a < 0 \/ a * 2^Count(k) > IntMax)
  <2>1. CASE k \notin BitPositions \/ a < 0
    BY <2>1
  <2>2. CASE k \in BitPositions /\ a >= 0
    <3>1. PICK p \in Nat \ {0} : p = 2^k /\ p = 2^Count(k)
      BY <2>2, CountInRange
    <3>2. PICK n \in Int : n = a * p /\ n >= 0
      BY <2>2
    <3>3. n \in IntRange <=> n <= IntMax
      BY <3>2, IntBounds
    <3> QED
      BY <2>2, <3>1, <3>2, <3>3, IntBounds
  <2> QED
    BY <2>1, <2>2
<1>4. shifted.effect = "pop"
  BY EffectForms
<1> HIDE DEF shifted, undefined
<1>5. AgreeUnless(undefined, Debug!LeftShift(a, k), LeftShift(a, k))
  BY <1>1, <1>2, <1>3, <1>4, EffectForms DEF AgreeUnless
<1> QED
  BY <1>5 DEF undefined

LEMMA RightShiftsAgree ==
  ASSUME ~TrapOnUB, NEW a \in Int, NEW k \in Int
  PROVE  /\ AgreeUnless(k \notin BitPositions, Debug!RightShift(a, k), RightShift(a, k))
         /\ AgreeUnless(k \notin BitPositions, Debug!ZeroRightShift(a, k), ZeroRightShift(a, k))
<1> DEFINE signed == Pushed(JSInt(a \div 2^Count(k)))
           zeroed == Pushed(JSInt(FromBits({b - Count(k) : b \in Bits(a)} \cap BitPositions)))
<1>1. RightShift(a, k) = signed /\ ZeroRightShift(a, k) = zeroed
  BY DEF RightShift, ZeroRightShift
<1>2. /\ Debug!RightShift(a, k) = IF k \notin BitPositions THEN Trapped ELSE signed
      /\ Debug!ZeroRightShift(a, k) = IF k \notin BitPositions THEN Trapped ELSE zeroed
  <2>1. /\ Debug!Bits(a) = Bits(a) /\ Debug!Count(k) = Count(k)
        /\ Debug!BitPositions = BitPositions
        /\ Debug!Trapped = Trapped /\ (\A v : Debug!Pushed(v) = Pushed(v))
        /\ (\A n : Debug!JSInt(n) = JSInt(n)) /\ (\A S : Debug!FromBits(S) = FromBits(S))
    BY SameForms, SameBits
  <2> QED
    BY <2>1 DEF Debug!RightShift, Debug!ZeroRightShift
<1>3. signed.effect = "pop" /\ zeroed.effect = "pop"
  BY EffectForms
<1> HIDE DEF signed, zeroed
<1> QED
  BY <1>1, <1>2, <1>3, EffectForms DEF AgreeUnless

LEMMA CastOperands ==
  ASSUME NEW l \in Value, NEW r \in Value
  PROVE  /\ (\E v \in {l, r} : v.type = "double" /\ UndefinedCast(v)) <=> NoInt(l) \/ NoInt(r)
         /\ (\E v \in {l} : v.type = "double" /\ UndefinedCast(v)) <=> NoInt(l)
<1>1. \A v \in Value : v.type = "double" /\ UndefinedCast(v) <=> NoInt(v)
  <2>1. \A v : NoInt(v) => v.type = "double"
    BY DEF NoInt
  <2> QED
    BY <2>1, NoIntIsUndefined
<1> QED
  BY <1>1

LEMMA PairCastsAgree ==
  ASSUME ~TrapOnUB, NEW l \in Value, NEW r \in Value,
         NEW u, NEW d, NEW e, AgreeUnless(u, d, e)
  PROVE  /\ AgreeUnless(NoInt(l) \/ NoInt(r) \/ u,
                        Debug!Casting({l, r}, d), Casting({l, r}, e))
         /\ AgreeUnless(NoInt(l) \/ u, Debug!Casting({l}, d), Casting({l}, e))
<1>1. PICK v \in BOOLEAN, w \in BOOLEAN :
        /\ v = \E x \in {l, r} : x.type = "double" /\ UndefinedCast(x)
        /\ w = \E x \in {l} : x.type = "double" /\ UndefinedCast(x)
  OBVIOUS
<1>2. /\ AgreeUnless(v \/ u, Debug!Casting({l, r}, d), Casting({l, r}, e))
      /\ AgreeUnless(w \/ u, Debug!Casting({l}, d), Casting({l}, e))
  BY <1>1, CastingsAgree
<1>3. (v <=> NoInt(l) \/ NoInt(r)) /\ (w <=> NoInt(l))
  BY <1>1, CastOperands
<1> QED
  BY <1>2, <1>3, Zenon DEF AgreeUnless

\* The shifts: a double has no int, the count is out of range, or << moves bits
\* into the sign.
LEMMA ShiftsAgree ==
  ASSUME ~TrapOnUB, NEW l \in Value, NEW r \in Value,
         NEW a, NEW k, a = ToInt(l), k = ToInt(r)
  PROVE  /\ AgreeUnless(\/ (NoInt(l) \/ NoInt(r)) /\ IsNumber(l)
                        \/ /\ IsNumber(l) /\ IsNumber(r)
                           /\ k \notin BitPositions \/ a < 0 \/ a * 2^k \notin IntRange,
                        Debug!inst_binary_lshft(l, r), inst_binary_lshft(l, r))
         /\ AgreeUnless(\/ (NoInt(l) \/ NoInt(r)) /\ IsNumber(l)
                        \/ IsNumber(l) /\ IsNumber(r) /\ k \notin BitPositions,
                        Debug!inst_binary_rshft(l, r), inst_binary_rshft(l, r))
         /\ AgreeUnless(\/ (NoInt(l) \/ NoInt(r)) /\ IsNumber(l)
                        \/ IsNumber(l) /\ IsNumber(r) /\ k \notin BitPositions,
                        Debug!inst_binary_zrshft(l, r), inst_binary_zrshft(l, r))
<1>1. a \in Int /\ k \in Int
  BY ToIntIsInt
<1>2. CASE IsNumber(l) /\ IsNumber(r)
  <2>1. /\ inst_binary_lshft(l, r) = Casting({l, r}, LeftShift(a, k))
        /\ inst_binary_rshft(l, r) = Casting({l, r}, RightShift(a, k))
        /\ inst_binary_zrshft(l, r) = Casting({l, r}, ZeroRightShift(a, k))
    BY <1>2 DEF inst_binary_lshft, inst_binary_rshft, inst_binary_zrshft, Shift
  <2>2. /\ Debug!inst_binary_lshft(l, r) = Debug!Casting({l, r}, Debug!LeftShift(a, k))
        /\ Debug!inst_binary_rshft(l, r) = Debug!Casting({l, r}, Debug!RightShift(a, k))
        /\ Debug!inst_binary_zrshft(l, r) = Debug!Casting({l, r}, Debug!ZeroRightShift(a, k))
    BY <1>2, SameBits
    DEF Debug!inst_binary_lshft, Debug!inst_binary_rshft, Debug!inst_binary_zrshft, Debug!Shift
  <2>3. /\ AgreeUnless(k \notin BitPositions \/ a < 0 \/ a * 2^k \notin IntRange,
                       Debug!LeftShift(a, k), LeftShift(a, k))
        /\ AgreeUnless(k \notin BitPositions, Debug!RightShift(a, k), RightShift(a, k))
        /\ AgreeUnless(k \notin BitPositions, Debug!ZeroRightShift(a, k), ZeroRightShift(a, k))
    BY <1>1, LeftShiftsAgree, RightShiftsAgree
  <2>4. PICK d1, d2, d3, e1, e2, e3 :
          /\ d1 = Debug!LeftShift(a, k) /\ d2 = Debug!RightShift(a, k)
          /\ d3 = Debug!ZeroRightShift(a, k)
          /\ e1 = LeftShift(a, k) /\ e2 = RightShift(a, k) /\ e3 = ZeroRightShift(a, k)
    OBVIOUS
  <2>5. /\ AgreeUnless(NoInt(l) \/ NoInt(r) \/ (k \notin BitPositions \/ a < 0 \/ a * 2^k \notin IntRange),
                       Debug!Casting({l, r}, d1), Casting({l, r}, e1))
        /\ AgreeUnless(NoInt(l) \/ NoInt(r) \/ k \notin BitPositions,
                       Debug!Casting({l, r}, d2), Casting({l, r}, e2))
        /\ AgreeUnless(NoInt(l) \/ NoInt(r) \/ k \notin BitPositions,
                       Debug!Casting({l, r}, d3), Casting({l, r}, e3))
    BY <2>3, <2>4, PairCastsAgree, Zenon
  <2> QED
    BY <1>2, <2>1, <2>2, <2>4, <2>5, Zenon DEF AgreeUnless
<1>3. CASE IsNumber(l) /\ ~IsNumber(r)
  <2>1. PICK e : e = Pushed(Truncated(l))
    OBVIOUS
  <2>2. PICK f : f = Casting({l}, e)
    OBVIOUS
  <2>3. PICK d : d = Debug!Casting({l}, e)
    OBVIOUS
  <2>4. f = inst_binary_lshft(l, r) /\ f = inst_binary_rshft(l, r) /\ f = inst_binary_zrshft(l, r)
    BY <1>3, <2>1, <2>2 DEF inst_binary_lshft, inst_binary_rshft, inst_binary_zrshft, Shift
  <2>5. /\ d = Debug!inst_binary_lshft(l, r) /\ d = Debug!inst_binary_rshft(l, r)
        /\ d = Debug!inst_binary_zrshft(l, r)
    BY <1>3, <2>1, <2>3, SameForms, SameBits
    DEF Debug!inst_binary_lshft, Debug!inst_binary_rshft, Debug!inst_binary_zrshft, Debug!Shift
  <2>6. AgreeUnless(NoInt(l) \/ FALSE, d, f)
    BY <2>1, <2>2, <2>3, PushesAgree, PairCastsAgree
  <2>7. ~NoInt(r)
    BY <1>3 DEF NoInt, IsNumber
  <2> QED
    BY <1>3, <2>4, <2>5, <2>6, <2>7, Zenon DEF AgreeUnless
<1>4. CASE ~IsNumber(l)
  <2>1. PICK e : e = Pushed(JSInt(0))
    OBVIOUS
  <2>2. e = inst_binary_lshft(l, r) /\ e = inst_binary_rshft(l, r) /\ e = inst_binary_zrshft(l, r)
    BY <1>4, <2>1 DEF inst_binary_lshft, inst_binary_rshft, inst_binary_zrshft, Shift
  <2>3. /\ e = Debug!inst_binary_lshft(l, r) /\ e = Debug!inst_binary_rshft(l, r)
        /\ e = Debug!inst_binary_zrshft(l, r)
    BY <1>4, <2>1, SameForms, SameBits
    DEF Debug!inst_binary_lshft, Debug!inst_binary_rshft, Debug!inst_binary_zrshft, Debug!Shift
  <2>4. e.effect = "pop"
    BY <2>1, EffectForms
  <2> QED
    BY <1>4, <2>2, <2>3, <2>4 DEF AgreeUnless
<1> QED
  BY <1>2, <1>3, <1>4

LEMMA NotAgrees ==
  ASSUME ~TrapOnUB, NEW v \in Value
  PROVE  AgreeUnless(NoInt(v), Debug!inst_binary_not(v), inst_binary_not(v))
<1>1. CASE v.type \in NotNumeric
  <2>1. ~NoInt(v)
    BY <1>1 DEF NoInt, NotNumeric
  <2>2. PICK e : e = Pushed(JSInt(-1))
    OBVIOUS
  <2>3. inst_binary_not(v) = e /\ Debug!inst_binary_not(v) = e /\ e.effect = "pop"
    BY <1>1, <2>2, SameForms, EffectForms DEF inst_binary_not, Debug!inst_binary_not
  <2> QED
    BY <2>1, <2>3 DEF AgreeUnless
<1>2. CASE v.type \notin NotNumeric
  <2>1. PICK e : e = Pushed(JSInt(FromBits(BitPositions \ Bits(ToInt(v)))))
    OBVIOUS
  <2>2. inst_binary_not(v) = Casting({v}, e) /\ Debug!inst_binary_not(v) = Debug!Casting({v}, e)
    BY <1>2, <2>1, SameForms, SameBits DEF inst_binary_not, Debug!inst_binary_not
  <2>3. AgreeUnless(NoInt(v) \/ FALSE, Debug!Casting({v}, e), Casting({v}, e))
    BY <2>1, PushesAgree, PairCastsAgree
  <2> QED
    BY <2>2, <2>3, Zenon DEF AgreeUnless
<1> QED
  BY <1>1, <1>2

\* &, | and ^: a double that is cast has no int.
LEMMA BitwiseAgrees ==
  ASSUME ~TrapOnUB, NEW l \in Value, NEW r \in Value
  PROVE  /\ AgreeUnless((NoInt(l) \/ NoInt(r)) /\ IsNumber(l) /\ IsNumber(r),
                        Debug!inst_binary_and(l, r), inst_binary_and(l, r))
         /\ AgreeUnless(NoInt(l) \/ NoInt(r), Debug!inst_binary_or(l, r), inst_binary_or(l, r))
         /\ AgreeUnless(NoInt(l) \/ NoInt(r), Debug!inst_binary_xor(l, r), inst_binary_xor(l, r))
<1>1. (~IsNumber(l) => ~NoInt(l)) /\ (~IsNumber(r) => ~NoInt(r))
  BY DEF NoInt, IsNumber
<1>2. CASE IsNumber(l) /\ IsNumber(r)
  <2>1. PICK a, b, c : /\ a = Pushed(JSInt(FromBits(Bits(ToInt(l)) \cap Bits(ToInt(r)))))
                       /\ b = Pushed(JSInt(FromBits(Bits(ToInt(l)) \cup Bits(ToInt(r)))))
                       /\ c = Pushed(JSInt(FromBits((Bits(ToInt(l)) \ Bits(ToInt(r)))
                                                    \cup (Bits(ToInt(r)) \ Bits(ToInt(l))))))
    OBVIOUS
  <2>2. /\ inst_binary_and(l, r) = Casting({l, r}, a) /\ inst_binary_or(l, r) = Casting({l, r}, b)
        /\ inst_binary_xor(l, r) = Casting({l, r}, c)
    BY <1>2, <2>1 DEF inst_binary_and, inst_binary_or, inst_binary_xor
  <2>3. /\ Debug!inst_binary_and(l, r) = Debug!Casting({l, r}, a)
        /\ Debug!inst_binary_or(l, r) = Debug!Casting({l, r}, b)
        /\ Debug!inst_binary_xor(l, r) = Debug!Casting({l, r}, c)
    BY <1>2, <2>1, SameForms, SameBits
    DEF Debug!inst_binary_and, Debug!inst_binary_or, Debug!inst_binary_xor
  <2>4. \A e \in {a, b, c} :
          AgreeUnless(NoInt(l) \/ NoInt(r) \/ FALSE,
                      Debug!Casting({l, r}, e), Casting({l, r}, e))
    BY <2>1, PushesAgree, PairCastsAgree
  <2> QED
    BY <1>2, <2>2, <2>3, <2>4 DEF AgreeUnless
<1>3. CASE ~(IsNumber(l) /\ IsNumber(r))
  <2>1. PICK zero : zero = Pushed(JSInt(0))
    OBVIOUS
  <2>2. inst_binary_and(l, r) = zero /\ Debug!inst_binary_and(l, r) = zero
    BY <1>3, <2>1, SameForms, SameBits DEF inst_binary_and, Debug!inst_binary_and
  <2>3. /\ inst_binary_or(l, r) = OneNumber(l, r) /\ inst_binary_xor(l, r) = OneNumber(l, r)
        /\ Debug!inst_binary_or(l, r) = Debug!OneNumber(l, r)
        /\ Debug!inst_binary_xor(l, r) = Debug!OneNumber(l, r)
    BY <1>3, SameBits
    DEF inst_binary_or, inst_binary_xor, Debug!inst_binary_or, Debug!inst_binary_xor
  <2>4. AgreeUnless(NoInt(l) \/ NoInt(r), Debug!OneNumber(l, r), OneNumber(l, r))
    <3>1. PICK a, b : a = Pushed(JSInt(ToInt(l))) /\ b = Pushed(JSInt(ToInt(r)))
      OBVIOUS
    <3>2. /\ AgreeUnless(NoInt(l) \/ FALSE, Debug!Casting({l}, a), Casting({l}, a))
          /\ AgreeUnless(NoInt(r) \/ FALSE, Debug!Casting({r}, b), Casting({r}, b))
      BY <3>1, PushesAgree, PairCastsAgree
    <3>3. OneNumber(l, r) = IF IsNumber(l) THEN Casting({l}, a)
                            ELSE IF IsNumber(r) THEN Casting({r}, b) ELSE zero
      BY <2>1, <3>1 DEF OneNumber
    <3>4. Debug!OneNumber(l, r) = IF IsNumber(l) THEN Debug!Casting({l}, a)
                                  ELSE IF IsNumber(r) THEN Debug!Casting({r}, b) ELSE zero
      BY <2>1, <3>1, SameForms, SameBits DEF Debug!OneNumber
    <3>5. zero.effect = "pop"
      BY <2>1, EffectForms
    <3> QED
      BY <1>1, <1>3, <3>2, <3>3, <3>4, <3>5 DEF AgreeUnless
  <2>5. AgreeUnless(FALSE, zero, zero)
    BY <2>1, PushesAgree
  <2> QED
    BY <1>3, <2>2, <2>3, <2>4, <2>5 DEF AgreeUnless
<1> QED
  BY <1>2, <1>3

LEMMA OthersNeverTrap ==
  \A l, r : /\ inst_teq(l, r).effect # "trap" /\ inst_nteq(l, r).effect # "trap"
           /\ inst_gt(l, r).effect # "trap" /\ inst_geq(l, r).effect # "trap"
           /\ inst_lt(l, r).effect # "trap" /\ inst_leq(l, r).effect # "trap"
           /\ inst_not(r).effect # "trap" /\ inst_typeof(r).effect # "trap"
<1> SUFFICES ASSUME NEW l, NEW r
             PROVE  /\ inst_teq(l, r).effect # "trap" /\ inst_nteq(l, r).effect # "trap"
                    /\ inst_gt(l, r).effect # "trap" /\ inst_geq(l, r).effect # "trap"
                    /\ inst_lt(l, r).effect # "trap" /\ inst_leq(l, r).effect # "trap"
                    /\ inst_not(r).effect # "trap" /\ inst_typeof(r).effect # "trap"
  OBVIOUS
<1>2. inst_teq(l, r).effect # "trap" /\ inst_nteq(l, r).effect # "trap"
  BY EffectForms DEF inst_teq, inst_nteq, Equality
<1>3. /\ inst_gt(l, r).effect # "trap" /\ inst_geq(l, r).effect # "trap"
      /\ inst_lt(l, r).effect # "trap" /\ inst_leq(l, r).effect # "trap"
  BY EffectForms DEF inst_gt, inst_geq, inst_lt, inst_leq, Relational
<1>4. inst_not(r).effect # "trap" /\ inst_typeof(r).effect # "trap"
  BY EffectForms DEF inst_not, inst_typeof
<1> QED
  BY <1>2, <1>3, <1>4

\* Undefined, for given operands.
UndefinedFor(o, l, r) ==
  LET x == AsDouble(Coerced(l))
      y == AsDouble(Coerced(r))
      a == Coerced(l).num
      b == Coerced(r).num
  IN  \/ o = "ADD" /\ TwoIntegers(l, r) /\ a + b \notin IntRange
      \/ o = "MINUS" /\ TwoIntegers(l, r) /\ a - b \notin IntRange
      \/ o = "MUL" /\ TwoIntegers(l, r) /\ a * b \notin IntRange
      \/ o = "MUL" /\ OneDouble(l, r) /\ NoInt(DProduct(x, y))
      \/ o = "DIV" /\ Divides(l, r) /\ NoInt(DQuotient(x, y))
      \/ o = "MOD" /\ TwoIntegers(l, r) /\ a = IntMin /\ b = -1
      \/ o = "MOD" /\ OneDouble(l, r) /\ Divides(l, r) /\ NoInt(DRemainder(x, y))
      \/ o = "NEGATE" /\ Coerced(r).type = "integer" /\ -b \notin IntRange
      \/ /\ NoInt(l) \/ NoInt(r)
         /\ \/ o \in {"BINARY_OR", "BINARY_XOR"}
            \/ o = "BINARY_AND" /\ IsNumber(l) /\ IsNumber(r)
            \/ o \in ShiftOpcodes /\ IsNumber(l)
      \/ o = "BINARY_NOT" /\ NoInt(r)
      \/ o \in ShiftOpcodes /\ IsNumber(l) /\ IsNumber(r) /\ ToInt(r) \notin BitPositions
      \/ /\ o = "BINARY_LSHFT" /\ IsNumber(l) /\ IsNumber(r)
         /\ ToInt(l) < 0 \/ ToInt(l) * 2^ToInt(r) \notin IntRange

LEMMA BinaryAgrees ==
  ASSUME ~TrapOnUB, NEW o \in BinaryOpcodes,
         NEW l \in Value, NEW r \in Value, Canonical(l), Canonical(r)
  PROVE  Settled(o, UndefinedFor(o, l, r), Debug!Binary(o, l, r), Binary(o, l, r))
<1> DEFINE u == UndefinedFor(o, l, r)
           a == Coerced(l).num
           b == Coerced(r).num
           x == AsDouble(Coerced(l))
           y == AsDouble(Coerced(r))
           i == ToInt(l)
           k == ToInt(r)
<1>1. CASE o = "ADD"
  <2>1. u <=> TwoIntegers(l, r) /\ a + b \notin IntRange
    BY <1>1 DEF UndefinedFor, ShiftOpcodes
  <2>2. Debug!Binary(o, l, r) = Debug!inst_add(l, r) /\ Binary(o, l, r) = inst_add(l, r)
    BY <1>1 DEF Binary, Debug!Binary
  <2> QED
    BY <2>1, <2>2, SumsAgree, AgreeSettles
<1>2. CASE o = "MINUS"
  <2>1. u <=> TwoIntegers(l, r) /\ a - b \notin IntRange
    BY <1>2 DEF UndefinedFor, ShiftOpcodes
  <2>2. Debug!Binary(o, l, r) = Debug!inst_minus(l, r) /\ Binary(o, l, r) = inst_minus(l, r)
    BY <1>2 DEF Binary, Debug!Binary
  <2> QED
    BY <2>1, <2>2, SumsAgree, AgreeSettles
<1>3. CASE o = "MUL"
  <2>1. u <=> \/ TwoIntegers(l, r) /\ a * b \notin IntRange
              \/ OneDouble(l, r) /\ NoInt(DProduct(x, y))
    BY <1>3 DEF UndefinedFor, ShiftOpcodes
  <2>2. Debug!Binary(o, l, r) = Debug!inst_mul(l, r) /\ Binary(o, l, r) = inst_mul(l, r)
    BY <1>3 DEF Binary, Debug!Binary
  <2> QED
    BY <2>1, <2>2, ProductsAgree, AgreeSettles
<1>4. CASE o = "DIV"
  <2>1. u <=> Divides(l, r) /\ NoInt(DQuotient(x, y))
    BY <1>4 DEF UndefinedFor, ShiftOpcodes
  <2>2. Debug!Binary(o, l, r) = Debug!inst_div(l, r) /\ Binary(o, l, r) = inst_div(l, r)
    BY <1>4 DEF Binary, Debug!Binary
  <2> QED
    BY <2>1, <2>2, QuotientsAgree, AgreeSettles
<1>5. CASE o = "MOD"
  <2>1. u <=> \/ TwoIntegers(l, r) /\ a = IntMin /\ b = -1
              \/ OneDouble(l, r) /\ Divides(l, r) /\ NoInt(DRemainder(x, y))
    BY <1>5 DEF UndefinedFor, ShiftOpcodes
  <2>2. Debug!Binary(o, l, r) = Debug!inst_mod(l, r) /\ Binary(o, l, r) = inst_mod(l, r)
    BY <1>5 DEF Binary, Debug!Binary
  <2> QED
    BY <1>5, <2>1, <2>2, RemaindersAgree
<1>6. CASE o = "BINARY_LSHFT"
  <2>1. u <=> \/ (NoInt(l) \/ NoInt(r)) /\ IsNumber(l)
              \/ /\ IsNumber(l) /\ IsNumber(r)
                 /\ k \notin BitPositions \/ i < 0 \/ i * 2^k \notin IntRange
    BY <1>6 DEF UndefinedFor, ShiftOpcodes
  <2>2. /\ Debug!Binary(o, l, r) = Debug!inst_binary_lshft(l, r)
        /\ Binary(o, l, r) = inst_binary_lshft(l, r)
    BY <1>6 DEF Binary, Debug!Binary
  <2> QED
    BY <2>1, <2>2, ShiftsAgree, AgreeSettles
<1>7. CASE o \in {"BINARY_RSHFT", "BINARY_ZRSHFT"}
  <2>1. u <=> \/ (NoInt(l) \/ NoInt(r)) /\ IsNumber(l)
              \/ IsNumber(l) /\ IsNumber(r) /\ k \notin BitPositions
    BY <1>7 DEF UndefinedFor, ShiftOpcodes
  <2>2. \/ /\ Debug!Binary(o, l, r) = Debug!inst_binary_rshft(l, r)
           /\ Binary(o, l, r) = inst_binary_rshft(l, r)
        \/ /\ Debug!Binary(o, l, r) = Debug!inst_binary_zrshft(l, r)
           /\ Binary(o, l, r) = inst_binary_zrshft(l, r)
    BY <1>7 DEF Binary, Debug!Binary
  <2> QED
    BY <2>1, <2>2, ShiftsAgree, AgreeSettles
<1>8. CASE o = "BINARY_AND"
  <2>1. u <=> (NoInt(l) \/ NoInt(r)) /\ IsNumber(l) /\ IsNumber(r)
    BY <1>8 DEF UndefinedFor, ShiftOpcodes
  <2>2. /\ Debug!Binary(o, l, r) = Debug!inst_binary_and(l, r)
        /\ Binary(o, l, r) = inst_binary_and(l, r)
    BY <1>8 DEF Binary, Debug!Binary
  <2> QED
    BY <2>1, <2>2, BitwiseAgrees, AgreeSettles
<1>9. CASE o \in {"BINARY_OR", "BINARY_XOR"}
  <2>1. u <=> NoInt(l) \/ NoInt(r)
    BY <1>9 DEF UndefinedFor, ShiftOpcodes
  <2>2. \/ /\ Debug!Binary(o, l, r) = Debug!inst_binary_or(l, r)
           /\ Binary(o, l, r) = inst_binary_or(l, r)
        \/ /\ Debug!Binary(o, l, r) = Debug!inst_binary_xor(l, r)
           /\ Binary(o, l, r) = inst_binary_xor(l, r)
    BY <1>9 DEF Binary, Debug!Binary
  <2> QED
    BY <2>1, <2>2, BitwiseAgrees, AgreeSettles
<1>10. CASE o \in {"TEQ", "NTEQ", "GT", "GEQ", "LT", "LEQ"}
  <2>1. ~u
    BY <1>10 DEF UndefinedFor, ShiftOpcodes
  <2>2. /\ Debug!Binary(o, l, r) = Binary(o, l, r)
        /\ Binary(o, l, r) \in
             {inst_teq(l, r), inst_nteq(l, r), inst_gt(l, r), inst_geq(l, r),
              inst_lt(l, r), inst_leq(l, r)}
    BY <1>10, SameComparisons DEF Binary, Debug!Binary
  <2>3. Binary(o, l, r).effect # "trap"
    BY <2>2, OthersNeverTrap
  <2> QED
    BY <2>1, <2>2, <2>3, SameSettles
<1> QED
  BY <1>1, <1>2, <1>3, <1>4, <1>5, <1>6, <1>7, <1>8, <1>9, <1>10 DEF BinaryOpcodes

LEMMA UnaryAgrees ==
  ASSUME ~TrapOnUB, NEW o \in UnaryOpcodes, NEW l, NEW r \in Value
  PROVE  Settled(o, UndefinedFor(o, l, r), Debug!Unary(o, r), Unary(o, r))
<1> DEFINE u == UndefinedFor(o, l, r)
<1>1. CASE o = "NEGATE"
  <2>1. u <=> Coerced(r).type = "integer" /\ -Coerced(r).num \notin IntRange
    BY <1>1 DEF UndefinedFor, ShiftOpcodes
  <2>2. Debug!Unary(o, r) = Debug!inst_negate(r) /\ Unary(o, r) = inst_negate(r)
    BY <1>1 DEF Unary, Debug!Unary
  <2> QED
    BY <2>1, <2>2, NegationsAgree, AgreeSettles
<1>2. CASE o = "BINARY_NOT"
  <2>1. u <=> NoInt(r)
    BY <1>2 DEF UndefinedFor, ShiftOpcodes
  <2>2. Debug!Unary(o, r) = Debug!inst_binary_not(r) /\ Unary(o, r) = inst_binary_not(r)
    BY <1>2 DEF Unary, Debug!Unary
  <2> QED
    BY <2>1, <2>2, NotAgrees, AgreeSettles
<1>3. CASE o \in {"NOT", "TYPEOF"}
  <2>1. ~u
    BY <1>3 DEF UndefinedFor, ShiftOpcodes
  <2>2. /\ Debug!Unary(o, r) = Unary(o, r)
        /\ Unary(o, r) \in {inst_not(r), inst_typeof(r)}
    BY <1>3, SameNames DEF Unary, Debug!Unary
  <2>3. Unary(o, r).effect # "trap"
    BY <2>2, OthersNeverTrap
  <2> QED
    BY <2>1, <2>2, <2>3, SameSettles
<1> QED
  BY <1>1, <1>2, <1>3 DEF UnaryOpcodes

\* The two builds differ only where C leaves an operation undefined, be it an
\* overflow, a shift count or the cast of a double that has no int: there the
\* debug build traps, everywhere else the two answer alike, and the release build
\* dies of INT_MIN % -1 alone; for every width of int32_t and all operands. (The
\* arithmetic, casts and shifts of core/execution.c in both builds.)
THEOREM BuildsDifferOnlyWhereUndefined ==
  ASSUME ~TrapOnUB
  PROVE  Spec => []BuildsAgree
<1>1. ASSUME BenchInv PROVE BuildsAgree
  <2>1. UndefinedFor(op, left, right) <=> Undefined
    BY Zenon DEF UndefinedFor, Undefined, TwoIntegers, OneDouble, Divides
  <2>2. left \in Value /\ right \in Value /\ Canonical(left) /\ Canonical(right)
    BY <1>1, OperandsAreValues
  <2>3. CASE op \in BinaryOpcodes /\ outcome = Binary(op, left, right)
    <3>1. op \notin UnaryOpcodes
      BY <2>3 DEF BinaryOpcodes, UnaryOpcodes
    <3>2. Settled(op, UndefinedFor(op, left, right), Debug!Binary(op, left, right), outcome)
      BY <2>2, <2>3, BinaryAgrees
    <3> QED
      BY <2>1, <3>1, <3>2, Zenon DEF BuildsAgree, Settled
  <2>4. CASE op \in UnaryOpcodes /\ outcome = Unary(op, right)
    <3>1. Settled(op, UndefinedFor(op, left, right), Debug!Unary(op, right), outcome)
      BY <2>2, <2>4, UnaryAgrees
    <3> QED
      BY <2>1, <2>4, <3>1, Zenon DEF BuildsAgree, Settled
  <2>5. CASE outcome = Idle
    BY <2>5, Zenon DEF BuildsAgree
  <2> QED
    BY <1>1, <2>3, <2>4, <2>5 DEF BenchInv
<1> QED
  BY <1>1, BenchInvHolds, PTL

-----------------------------------------------------------------------------
(* Ints as words of bits.                                                  *)

\* An int and the word that holds it: they differ by 2^W when the top bit is set.
LEMMA WordOfInt ==
  ASSUME NEW i \in IntRange
  PROVE  i \in Int /\ i % 2^W = i + Bit(i, W - 1) * 2^W
<1>1. PICK h \in Nat \ {0} : h = 2^(W - 1)
  BY Powers
<1>2. PICK p \in Nat \ {0} : p = 2^W
  BY Powers
<1>3. i \in Int /\ -h <= i /\ i <= h - 1 /\ p = 2 * h
  BY <1>1, <1>2, Powers DEF IntRange, IntMin, IntMax
<1>4. CASE i >= 0
  <2>1. i = h * 0 + i /\ i = p * 0 + i /\ i < h /\ i < p
    BY <1>3, <1>4
  <2>2. i \div h = 0 /\ i % p = i
    BY <1>3, <1>4, <2>1, DivisionIsUnique
  <2>3. Bit(i, W - 1) = 0
    BY <1>1, <2>2 DEF Bit
  <2> QED
    BY <1>2, <1>3, <2>2, <2>3
<1>5. CASE i < 0
  <2>1. PICK u \in Int, v \in Int : u = i + h /\ v = i + p
    BY <1>3
  <2>2. /\ i = h * (-1) + u /\ 0 <= u /\ u < h
        /\ i = p * (-1) + v /\ 0 <= v /\ v < p
    BY <1>3, <1>5, <2>1
  <2>3. i \div h = -1 /\ i % p = v
    BY <2>2, DivisionIsUnique
  <2>4. (-1) % 2 = 1
    <3>1. PICK two \in Nat \ {0}, m \in Int, one \in Nat : two = 2 /\ m = -1 /\ one = 1
      OBVIOUS
    <3>2. 0 <= one /\ one < two
      BY <3>1
    <3>3. (two * m + one) % two = one
      BY ONLY <3>2, DivisionIsUnique, two \in Nat \ {0}, m \in Int, one \in Int
    <3>4. two * m + one = -1
      BY <3>1
    <3> QED
      BY <3>1, <3>3, <3>4
  <2>5. Bit(i, W - 1) = 1
    BY <1>1, <2>3, <2>4 DEF Bit
  <2> QED
    BY <1>2, <1>3, <2>1, <2>3, <2>5
<1> QED
  BY <1>3, <1>4, <1>5

AddUp(x, y, a, b, m, e) ==
  \A k \in BitPositions : Bit(x, k) + m * Bit(y, k) = Bit(a, k) + Bit(b, k) + e

\* Sums of bits are sums of ints, because they are sums of sign bits too.
LEMMA SumOfInts ==
  ASSUME NEW x \in IntRange, NEW y \in IntRange, NEW a \in IntRange, NEW b \in IntRange,
         NEW m \in Nat, NEW e \in Int,
         AddUp(x, y, a, b, m, e)
  PROVE  x + m * y = a + b - e
<1>1. x \in Int /\ y \in Int /\ a \in Int /\ b \in Int
  BY WordOfInt
<1>2. (x % 2^W) + m * (y % 2^W) = (a % 2^W) + (b % 2^W) + e * (2^W - 1)
  BY <1>1, SumOfBits DEF AddUp
<1>3. PICK p \in Nat \ {0} : p = 2^W
  BY Powers
<1>4. W - 1 \in BitPositions /\ W - 1 \in 0..W
  BY Doubling DEF BitPositions
<1>5. PICK x1 \in Int, y1 \in Int, a1 \in Int, b1 \in Int :
        /\ x1 = Bit(x, W - 1) /\ y1 = Bit(y, W - 1)
        /\ a1 = Bit(a, W - 1) /\ b1 = Bit(b, W - 1)
  BY <1>1, <1>4, BitIsBinary
<1>6. x1 + m * y1 = a1 + b1 + e
  BY <1>4, <1>5 DEF AddUp
<1>7. /\ x % p = x + x1 * p /\ y % p = y + y1 * p
      /\ a % p = a + a1 * p /\ b % p = b + b1 * p
  BY <1>3, <1>5, WordOfInt
<1>8. (x + x1 * p) + m * (y + y1 * p) = (a + a1 * p) + (b + b1 * p) + e * (p - 1)
  BY <1>2, <1>3, <1>7
<1>9. p * (x1 + m * y1) = p * (a1 + b1 + e)
  BY <1>6
<1> QED
  BY ONLY <1>1, <1>8, <1>9, x1 \in Int, y1 \in Int, a1 \in Int, b1 \in Int, p \in Int,
     m \in Int, e \in Int

LEMMA ResidueOfDifference ==
  ASSUME NEW x \in Int, NEW a \in Int, x % 2^W = a % 2^W
  PROVE  (x - a) % 2^W = 0
<1>1. PICK p \in Nat \ {0} : p = 2^W
  BY Powers
<1>2. PICK q \in Int, u \in Int, r \in Int : q = x \div p /\ u = a \div p /\ r = x % p /\ r = a % p
  BY <1>1, Division
<1>3. x = p * q + r /\ a = p * u + r
  BY <1>2, Division
<1>4. PICK d \in Int : d = q - u
  OBVIOUS
<1>5. x - a = p * d + 0
  BY <1>3, <1>4
<1>6. (x - a) % p = 0
  <2>1. (p * d + 0) % p = 0
    BY DivisionIsUnique
  <2> QED
    BY <1>5, <2>1
<1> QED
  BY <1>1, <1>6

-----------------------------------------------------------------------------
(* The bitwise instructions on two integers.                               *)

LEMMA ConjunctionAndDisjunction ==
  ASSUME NEW a \in IntRange, NEW b \in IntRange,
         NEW c, c = FromBits(Bits(a) \cap Bits(b)),
         NEW d, d = FromBits(Bits(a) \cup Bits(b)),
         NEW x, x = FromBits((Bits(a) \ Bits(b)) \cup (Bits(b) \ Bits(a)))
  PROVE  c + d = a + b /\ x + 2 * c = a + b
<1>1. Bits(a) \in SUBSET BitPositions /\ Bits(b) \in SUBSET BitPositions
  BY DEF Bits
<1>2. /\ c \in IntRange /\ Bits(c) = Bits(a) \cap Bits(b)
      /\ d \in IntRange /\ Bits(d) = Bits(a) \cup Bits(b)
      /\ x \in IntRange /\ Bits(x) = (Bits(a) \ Bits(b)) \cup (Bits(b) \ Bits(a))
  BY <1>1, FromBitsIsInverse
<1>3. a \in Int /\ b \in Int /\ c \in Int /\ d \in Int /\ x \in Int
  BY <1>2, WordOfInt
<1>4. ASSUME NEW k \in BitPositions
      PROVE  /\ Bit(c, k) + 1 * Bit(d, k) = Bit(a, k) + Bit(b, k) + 0
             /\ Bit(x, k) + 2 * Bit(c, k) = Bit(a, k) + Bit(b, k) + 0
  <2>1. k \in 0..W
    BY Doubling DEF BitPositions
  <2>2. /\ Bit(a, k) \in {0, 1} /\ Bit(b, k) \in {0, 1} /\ Bit(c, k) \in {0, 1}
        /\ Bit(d, k) \in {0, 1} /\ Bit(x, k) \in {0, 1}
    BY <1>3, <2>1, BitIsBinary
  <2>3. /\ Bit(c, k) = 1 <=> Bit(a, k) = 1 /\ Bit(b, k) = 1
        /\ Bit(d, k) = 1 <=> Bit(a, k) = 1 \/ Bit(b, k) = 1
        /\ Bit(x, k) = 1 <=> ~(Bit(a, k) = 1 <=> Bit(b, k) = 1)
    <3>1. \A i \in {a, b, c, d, x} : k \in Bits(i) <=> Bit(i, k) = 1
      BY <1>3, InBits
    <3> QED
      BY <1>2, <3>1
  <2> QED
    BY <2>2, <2>3
<1>5. PICK one \in Nat, two \in Nat, zero \in Int : one = 1 /\ two = 2 /\ zero = 0
  OBVIOUS
<1>6. AddUp(c, d, a, b, one, zero) /\ AddUp(x, c, a, b, two, zero)
  BY <1>4, <1>5 DEF AddUp
<1>7. c + one * d = a + b - zero
  BY <1>2, <1>6, SumOfInts
<1>8. x + two * c = a + b - zero
  BY <1>2, <1>6, SumOfInts
<1> QED
  BY <1>3, <1>5, <1>7, <1>8

LEMMA Complement ==
  ASSUME NEW a \in IntRange, NEW c, c = FromBits(BitPositions \ Bits(a))
  PROVE  c = -a - 1
<1>1. c \in IntRange /\ Bits(c) = BitPositions \ Bits(a)
  BY FromBitsIsInverse
<1>2. a \in Int /\ c \in Int
  BY <1>1, WordOfInt
<1>3. ASSUME NEW k \in BitPositions
      PROVE  Bit(c, k) + 1 * Bit(a, k) = Bit(0, k) + Bit(0, k) + 1
  <2>1. k \in 0..W
    BY Doubling DEF BitPositions
  <2>2. Bit(a, k) \in {0, 1} /\ Bit(c, k) \in {0, 1}
    BY <1>2, <2>1, BitIsBinary
  <2>3. Bit(c, k) = 1 <=> ~(Bit(a, k) = 1)
    BY <1>1, <1>2, InBits
  <2> QED
    BY <2>2, <2>3, ZeroBits
<1>4. 0 \in IntRange
  BY Powers DEF IntRange, IntMin, IntMax
<1>5. PICK one \in Nat, zero \in Int : one = 1 /\ zero = 0
  OBVIOUS
<1>6. AddUp(c, a, zero, zero, one, one)
  BY <1>3, <1>5 DEF AddUp
<1>7. one \in Int /\ zero \in IntRange
  BY <1>4, <1>5
<1>8. c + one * a = zero + zero - one
  BY <1>1, <1>6, <1>7, SumOfInts
<1> QED
  BY <1>2, <1>5, <1>8

LEMMA LeftShiftMultiplies ==
  ASSUME NEW a \in IntRange, NEW k \in BitPositions,
         NEW z, z = FromBits({b + k : b \in Bits(a)} \cap BitPositions)
  PROVE  (z - a * 2^k) % 2^W = 0
<1> DEFINE S == {b + k : b \in Bits(a)} \cap BitPositions
<1>1. z \in IntRange /\ Bits(z) = S
  BY FromBitsIsInverse
<1>2. a \in Int /\ z \in Int /\ k \in 0..W /\ k \in Nat
  <2>1. a \in Int /\ z \in Int
    BY <1>1, WordOfInt
  <2> QED
    BY <2>1, Doubling DEF BitPositions
<1>3. PICK p \in Nat \ {0} : p = 2^k
  BY <1>2, PowersOfTwo
<1>4. PICK n \in Int : n = a * p
  BY <1>2
<1>5. ASSUME NEW b \in BitPositions PROVE Bit(z, b) = Bit(n, b)
  <2>1. b \in Nat /\ b \in 0..W /\ b <= W
    BY Doubling DEF BitPositions
  <2>2. Bit(z, b) \in {0, 1} /\ Bit(n, b) \in {0, 1}
    BY <1>2, <2>1, BitIsBinary
  <2>3. Bit(z, b) = 1 <=> b \in S
    BY <1>1, <1>2, InBits
  <2>4. CASE b < k
    <3>1. b \notin S
      BY <1>2, <2>1, <2>4 DEF Bits, BitPositions
    <3>2. /\ b + 1 \in Nat /\ k - (b + 1) \in Nat /\ (b + 1) + (k - (b + 1)) = k
          /\ b + 1 \in 0..W /\ k - (b + 1) \in 0..W /\ k <= W
      BY <1>2, <2>1, <2>4, Doubling
    <3>3. PICK u \in Nat \ {0}, v \in Nat \ {0} : u = 2^(b + 1) /\ v = 2^(k - (b + 1))
      BY <3>2, PowersOfTwo
    <3>4. p = u * v
      BY <1>3, <3>2, <3>3, PowerOfSum
    <3>5. PICK t \in Int : t = a * v
      BY <1>2
    <3>6. n = 0 + u * t
      BY <1>2, <1>4, <3>4, <3>5
    <3>7. Bit(n, b) = 0
      BY <3>3, <3>6, BitKept, ZeroBits
    <3> QED
      BY <2>2, <2>3, <3>1, <3>7
  <2>5. CASE b >= k
    <3>1. PICK j \in Nat : j = b - k
      BY <1>2, <2>1, <2>5
    <3>2. j \in BitPositions /\ j \in 0..W /\ k + j = b /\ k + j <= W
      BY <1>2, <2>1, <3>1, Doubling DEF BitPositions
    <3>3. b \in S <=> Bit(a, j) = 1
      <4>1. b \in S <=> j \in Bits(a)
        BY <1>2, <2>1, <3>1, <3>2 DEF Bits, BitPositions
      <4> QED
        BY <1>2, <3>2, <4>1, InBits
    <3>4. PICK u \in Nat \ {0} : u = 2^j
      BY <3>2, PowersOfTwo
    <3>5. 2^b = p * u
      BY <1>2, <1>3, <3>2, <3>4, PowerOfSum
    <3>6. PICK q \in Int, r \in Int : q = a \div u /\ r = a % u
      BY <1>2, Division
    <3>7. a = u * q + r /\ 0 <= r /\ r < u
      BY <1>2, <3>6, Division
    <3>8. PICK d \in Nat \ {0}, s \in Int : d = p * u /\ s = p * r
      <4>1. p * u # 0 /\ p * u >= 0
        OBVIOUS
      <4> QED
        BY <4>1
    <3>9. n = d * q + s /\ 0 <= s /\ s < d
      <4>1. n = d * q + s
        BY <1>2, <1>4, <3>7, <3>8
      <4>2. 0 <= p * r /\ p * r < p * u
        BY <3>7
      <4> QED
        BY <3>8, <4>1, <4>2
    <3>10. n \div d = q
      BY <3>9, DivisionIsUnique
    <3>11. Bit(n, b) = Bit(a, j)
      BY <3>4, <3>5, <3>6, <3>8, <3>10 DEF Bit
    <3> QED
      BY <2>2, <2>3, <3>3, <3>11
  <2> QED
    BY <1>2, <2>1, <2>4, <2>5
<1>6. z % 2^W = n % 2^W
  BY <1>2, <1>5, SameBitsSameResidue
<1> QED
  BY <1>2, <1>3, <1>4, <1>6, ResidueOfDifference

\* Dividing twice.
LEMMA DivisionTwice ==
  ASSUME NEW a \in Int, NEW p \in Nat \ {0}, NEW u \in Nat \ {0}
  PROVE  (a \div p) \div u = a \div (p * u)
<1>1. PICK q \in Int, r \in Int : q = a \div p /\ r = a % p
  BY Division
<1>2. PICK h \in Int, s \in Int : h = q \div u /\ s = q % u
  BY Division
<1>3. a = p * q + r /\ 0 <= r /\ r < p
  BY <1>1, Division
<1>4. q = u * h + s /\ 0 <= s /\ s < u
  BY <1>2, Division
<1>5. PICK d \in Nat \ {0}, t \in Int : d = p * u /\ t = p * s + r
  <2>1. p * u # 0 /\ p * u >= 0
    OBVIOUS
  <2> QED
    BY <2>1
<1>6. a = d * h + t
  BY <1>3, <1>4, <1>5
<1>7. 0 <= t /\ t < d
  <2>1. p * s >= 0
    BY <1>4
  <2>2. p * (s + 1) <= p * u
    BY <1>4
  <2>3. p * (s + 1) = p * s + p
    BY <1>4
  <2> QED
    BY <1>3, <1>5, <2>1, <2>2, <2>3
<1>8. a \div d = h
  BY <1>6, <1>7, DivisionIsUnique
<1> QED
  BY <1>1, <1>2, <1>5, <1>8

LEMMA ZeroRightShiftDivides ==
  ASSUME NEW a \in IntRange, NEW k \in BitPositions,
         NEW z, z = FromBits({b - k : b \in Bits(a)} \cap BitPositions)
  PROVE  (z - (a % 2^W) \div 2^k) % 2^W = 0
<1> DEFINE S == {b - k : b \in Bits(a)} \cap BitPositions
<1>1. z \in IntRange /\ Bits(z) = S
  BY FromBitsIsInverse
<1>2. a \in Int /\ z \in Int /\ k \in 0..W /\ k \in Nat
  <2>1. a \in Int /\ z \in Int
    BY <1>1, WordOfInt
  <2> QED
    BY <2>1, Doubling DEF BitPositions
<1>3. PICK p \in Nat \ {0} : p = 2^k
  BY <1>2, PowersOfTwo
<1>4. PICK w \in Int : w = a % 2^W /\ 0 <= w /\ w < 2^W
  BY <1>2, Powers, Division
<1>5. PICK n \in Int, r \in Int : n = w \div p /\ r = w % p
  BY Division
<1>6. ASSUME NEW b \in BitPositions PROVE Bit(z, b) = Bit(n, b)
  <2>1. b \in Nat /\ b \in 0..W /\ b <= W
    BY Doubling DEF BitPositions
  <2>2. Bit(z, b) \in {0, 1} /\ Bit(n, b) \in {0, 1}
    BY <1>2, <2>1, BitIsBinary
  <2>3. Bit(z, b) = 1 <=> b \in S
    BY <1>1, <1>2, InBits
  <2>4. PICK u \in Nat \ {0} : u = 2^b
    BY <2>1, PowersOfTwo
  <2>5. PICK j \in Nat : j = b + k
    BY <1>2, <2>1
  <2>6. b \in S <=> j \in Bits(a)
    BY <1>2, <2>1, <2>5 DEF Bits, BitPositions
  <2>7. CASE j < W
    <3>1. j \in BitPositions /\ k + b = j /\ k + b <= W
      BY <1>2, <2>1, <2>5, <2>7, Doubling DEF BitPositions
    <3>2. 2^j = p * u
      BY <1>2, <1>3, <2>1, <2>4, <3>1, PowerOfSum
    <3>3. n \div u = w \div (p * u)
      BY <1>5, DivisionTwice
    <3>4. Bit(n, b) = Bit(w, j)
      BY <2>4, <3>2, <3>3 DEF Bit
    <3>5. Bit(w, j) = Bit(a, j)
      BY <1>2, <1>4, <3>1, BitModuloWord
    <3> QED
      BY <1>2, <2>2, <2>3, <2>6, <3>1, <3>4, <3>5, InBits
  <2>8. CASE j >= W
    <3>1. j \notin Bits(a)
      BY <2>5, <2>8, Doubling DEF Bits, BitPositions
    <3>2. PICK i \in Nat, h \in Nat : i = W - k /\ h = b - i
      BY <1>2, <2>1, <2>5, <2>8, Doubling
    <3>3. /\ i \in 0..W /\ h \in 0..W /\ k + i = W /\ i + h = b
          /\ k + i <= W /\ i + h <= W
      BY <1>2, <2>1, <3>2, Doubling
    <3>4. PICK v \in Nat \ {0}, g \in Nat \ {0} : v = 2^i /\ g = 2^h
      BY <3>3, PowersOfTwo
    <3>5. 2^W = p * v
      BY <1>2, <1>3, <3>3, <3>4, PowerOfSum
    <3>6. u = v * g
      BY <2>4, <3>3, <3>4, PowerOfSum
    <3>7. w = p * n + r /\ 0 <= r /\ r < p
      BY <1>5, Division
    <3>8. 0 <= n /\ n < v
      <4>1. n <= -1 => p * n <= -p
        OBVIOUS
      <4>2. n >= v => p * n >= p * v
        OBVIOUS
      <4> QED
        BY <1>4, <3>5, <3>7, <4>1, <4>2
    <3>9. v <= u
      BY <3>6
    <3>10. n = u * 0 + n /\ n < u
      BY <3>8, <3>9
    <3>11. n \div u = 0
      BY <3>8, <3>10, DivisionIsUnique
    <3>12. Bit(n, b) = 0
      BY <2>4, <3>11 DEF Bit
    <3> QED
      BY <2>2, <2>3, <2>6, <3>1, <3>12
  <2> QED
    BY <2>5, <2>7, <2>8, Doubling
<1>7. z % 2^W = n % 2^W
  BY <1>2, <1>6, SameBitsSameResidue
<1>8. (z - n) % 2^W = 0
  BY <1>2, <1>7, ResidueOfDifference
<1> QED
  BY <1>3, <1>4, <1>5, <1>8

-----------------------------------------------------------------------------
(* The bitwise instructions are two's complement arithmetic.               *)

LEMMA IntegerForms ==
  ASSUME NEW v \in Value, Canonical(v), v.type = "integer"
  PROVE  /\ v.num \in IntRange /\ IsNumber(v) /\ ToInt(v) = v.num
         /\ v.type \notin NotNumeric
BY DEF Canonical, IsNumber, ToInt, NotNumeric

\* (l & r) + (l | r) = l + r, (l ^ r) + 2 (l & r) = l + r, ~l = -l - 1; << k
\* multiplies by 2^k modulo 2^W, >> k divides rounding down, >>> k does so on
\* the unsigned operand: for every width of int32_t and any two integers.
\* (inst_binary_and .. inst_binary_not.)
THEOREM BitsAreTwosComplement == Spec => []BitwiseIsTwosComplement
<1>1. ASSUME BenchInv PROVE BitwiseIsTwosComplement
  <2> SUFFICES ASSUME left.type = "integer", right.type = "integer"
               PROVE  BitwiseIsTwosComplement
    BY DEF BitwiseIsTwosComplement
  <2>1. PICK l \in Value, r \in Value : l = left /\ r = right /\ Canonical(l) /\ Canonical(r)
    BY <1>1, OperandsAreValues
  <2>2. PICK a \in IntRange, b \in IntRange : a = l.num /\ b = r.num
    BY <2>1, IntegerForms
  <2>3. /\ IsNumber(l) /\ IsNumber(r) /\ ToInt(l) = a /\ ToInt(r) = b
        /\ l.type \notin NotNumeric
    BY <2>1, <2>2, IntegerForms
  <2>4. \A n : Pushed(JSInt(n)).value.num = n
    BY DEF Pushed, Outcome, JSInt, Tagged
  <2>11. \A out : Casting({l, r}, out) = out /\ Casting({l}, out) = out
    BY <2>1 DEF Casting
  <2>5. PICK c, d, x : /\ c = FromBits(Bits(a) \cap Bits(b))
                       /\ d = FromBits(Bits(a) \cup Bits(b))
                       /\ x = FromBits((Bits(a) \ Bits(b)) \cup (Bits(b) \ Bits(a)))
    OBVIOUS
  <2>6. /\ inst_binary_and(l, r).value.num = c
        /\ inst_binary_or(l, r).value.num = d
        /\ inst_binary_xor(l, r).value.num = x
    BY <2>3, <2>4, <2>5, <2>11 DEF inst_binary_and, inst_binary_or, inst_binary_xor
  <2>7. c + d = a + b /\ x + 2 * c = a + b
    BY <2>5, ConjunctionAndDisjunction
  <2>8. (x + 2 * c - a - b) % 2^W = 0
    <3>1. c \in Int /\ x \in Int /\ a \in Int /\ b \in Int
      <4>1. c \in IntRange /\ x \in IntRange
        BY <2>5, BitsIsSet, FromBitsIsInverse
      <4> QED
        BY <4>1, Powers
    <3>2. x + 2 * c - a - b = 0
      BY <2>7, <3>1
    <3> QED
      BY <3>2, Powers
  <2>9. inst_binary_not(l).value.num = -a - 1
    BY <2>3, <2>4, <2>11, Complement DEF inst_binary_not
  <2>10. ASSUME b \in BitPositions
         PROVE  /\ inst_binary_lshft(l, r).effect = "pop" =>
                     (inst_binary_lshft(l, r).value.num - a * 2^b) % 2^W = 0
                /\ inst_binary_rshft(l, r).value.num = a \div 2^b
                /\ inst_binary_zrshft(l, r).effect = "pop" =>
                     (inst_binary_zrshft(l, r).value.num - (a % 2^W) \div 2^b) % 2^W = 0
    <3>1. /\ inst_binary_lshft(l, r) = LeftShift(a, b)
          /\ inst_binary_rshft(l, r) = RightShift(a, b)
          /\ inst_binary_zrshft(l, r) = ZeroRightShift(a, b)
      BY <2>3, <2>11 DEF inst_binary_lshft, inst_binary_rshft, inst_binary_zrshft, Shift
    <3>2. Count(b) = b
      BY <2>10, CountInRange
    <3>3. PICK y, z : /\ y = FromBits({k + b : k \in Bits(a)} \cap BitPositions)
                      /\ z = FromBits({k - b : k \in Bits(a)} \cap BitPositions)
      OBVIOUS
    <3>4. /\ LeftShift(a, b) \in {Trapped, Pushed(JSInt(y))}
          /\ RightShift(a, b) = Pushed(JSInt(a \div 2^b))
          /\ ZeroRightShift(a, b) = Pushed(JSInt(z))
      BY <2>10, <3>2, <3>3 DEF LeftShift, RightShift, ZeroRightShift
    <3>5. Trapped.effect # "pop"
      BY DEF Trapped, Outcome
    <3>6. (y - a * 2^b) % 2^W = 0 /\ (z - (a % 2^W) \div 2^b) % 2^W = 0
      BY <2>10, <3>3, LeftShiftMultiplies, ZeroRightShiftDivides
    <3> QED
      BY <2>4, <3>1, <3>4, <3>5, <3>6
  <2> QED
    BY <2>1, <2>2, <2>6, <2>7, <2>8, <2>9, <2>10 DEF BitwiseIsTwosComplement
<1> QED
  BY <1>1, BenchInvHolds, PTL

-----------------------------------------------------------------------------
(* Arithmetic undoes itself. A finite double is a quotient of integers, so *)
(* that equations of doubles are equations of products.                    *)

\* The finite doubles.
IsFinite(x) == x \in Value /\ x.type = "double" /\ x.den # 0

LEMMA FiniteFields ==
  ASSUME NEW x, IsFinite(x)
  PROVE  x \in Value /\ x.num \in Int /\ x.den \in Nat \ {0} /\ x.den > 0
BY ValueFields DEF IsFinite

LEMMA SignAndMagnitude ==
  ASSUME NEW c \in Int, c # 0
  PROVE  /\ Sgn(c) \in {1, -1} /\ Sgn(c) \in Int /\ Abs(c) \in Nat \ {0} /\ Abs(c) > 0
         /\ Abs(c) = Sgn(c) * c /\ c = Sgn(c) * Abs(c)
         /\ Sgn(c) * Sgn(c) = 1
BY DEF Sgn, Abs

LEMMA FiniteDouble ==
  ASSUME NEW n \in Int, NEW d \in Nat \ {0}
  PROVE  IsFinite(JSDouble(n, d)) /\ JSDouble(n, d).num = n /\ JSDouble(n, d).den = d
BY JSDoubleIsValue DEF JSDouble, IsFinite

LEMMA FiniteResults ==
  ASSUME NEW x, IsFinite(x), NEW y, IsFinite(y)
  PROVE  /\ IsFinite(DSum(x, y))
         /\ DSum(x, y).num = x.num * y.den + y.num * x.den
         /\ DSum(x, y).den = x.den * y.den
         /\ IsFinite(DNeg(x)) /\ DNeg(x).num = -x.num /\ DNeg(x).den = x.den
         /\ IsFinite(DProduct(x, y))
         /\ DProduct(x, y).num = x.num * y.num /\ DProduct(x, y).den = x.den * y.den
         /\ y.num # 0 => /\ IsFinite(DQuotient(x, y))
                         /\ DQuotient(x, y).num = x.num * y.den * Sgn(y.num)
                         /\ DQuotient(x, y).den = x.den * Abs(y.num)
         /\ DEqual(x, y) <=> x.num * y.den = y.num * x.den
<1>1. /\ x.num \in Int /\ x.den \in Nat \ {0} /\ y.num \in Int /\ y.den \in Nat \ {0}
      /\ x.den * y.den \in Nat \ {0}
  BY FiniteFields, PositiveProduct
<1>2. /\ IsFinite(DSum(x, y))
      /\ DSum(x, y).num = x.num * y.den + y.num * x.den
      /\ DSum(x, y).den = x.den * y.den
  <2>1. DSum(x, y) = JSDouble(x.num * y.den + y.num * x.den, x.den * y.den)
    BY <1>1 DEF DSum
  <2>2. x.num * y.den + y.num * x.den \in Int
    BY <1>1
  <2> QED
    BY <1>1, <2>1, <2>2, FiniteDouble
<1>3. IsFinite(DNeg(x)) /\ DNeg(x).num = -x.num /\ DNeg(x).den = x.den
  BY <1>1, FiniteDouble DEF DNeg
<1>4. /\ IsFinite(DProduct(x, y))
      /\ DProduct(x, y).num = x.num * y.num /\ DProduct(x, y).den = x.den * y.den
  <2>1. x.num * y.num \in Int
    BY <1>1
  <2> QED
    BY <1>1, <2>1, FiniteDouble DEF DProduct
<1>5. ASSUME y.num # 0
      PROVE  /\ IsFinite(DQuotient(x, y))
             /\ DQuotient(x, y).num = x.num * y.den * Sgn(y.num)
             /\ DQuotient(x, y).den = x.den * Abs(y.num)
  <2>1. Sgn(y.num) \in Int /\ Abs(y.num) \in Nat \ {0}
    BY <1>1, <1>5, SignAndMagnitude
  <2>2. x.num * y.den * Sgn(y.num) \in Int /\ x.den * Abs(y.num) \in Nat \ {0}
    BY <1>1, <2>1, Products, PositiveProduct
  <2> QED
    BY <2>2, FiniteDouble DEF DQuotient
<1>6. DEqual(x, y) <=> x.num * y.den = y.num * x.den
  <2>1. PICK n \in Int, m \in Int : n = x.num * y.den /\ m = y.num * x.den
    BY <1>1
  <2> QED
    BY <1>1, <2>1 DEF DEqual, DLess, IsNaN
<1> QED
  BY <1>2, <1>3, <1>4, <1>5, <1>6

\* A double that is collapsed to an int keeps its value.
LEMMA CollapsedIsEqual ==
  ASSUME NEW z, IsFinite(z)
  PROVE  /\ IsFinite(AsDouble(Collapsed(z)))
         /\ AsDouble(Collapsed(z)).num * z.den = z.num * AsDouble(Collapsed(z)).den
<1>1. z \in Value /\ z.num \in Int /\ z.den \in Nat \ {0}
  BY FiniteFields
<1>2. PICK c \in Int : c = CastToInt(z)
  BY <1>1, CastToIntIsInt
<1>3. IsFinite(JSDouble(c, 1)) /\ JSDouble(c, 1).num = c /\ JSDouble(c, 1).den = 1
  BY FiniteDouble
<1>4. CASE DEqual(z, JSDouble(c, 1))
  <2>1. Collapsed(z) = JSInt(c)
    BY <1>2, <1>4 DEF Collapsed
  <2>2. AsDouble(JSInt(c)) = JSDouble(c, 1)
    BY DEF AsDouble, JSInt, Tagged
  <2>3. z.num * 1 = c * z.den
    BY <1>3, <1>4, FiniteResults
  <2> QED
    BY <1>1, <1>3, <2>1, <2>2, <2>3
<1>5. CASE ~DEqual(z, JSDouble(c, 1))
  <2>1. Collapsed(z) = z
    BY <1>2, <1>5 DEF Collapsed
  <2>2. AsDouble(z) = z
    BY DEF AsDouble, IsFinite
  <2> QED
    BY <1>1, <2>1, <2>2
<1> QED
  BY <1>4, <1>5

LEMMA SumIdentities ==
  ASSUME NEW a \in Int, NEW b \in Int, NEW c \in Int, NEW d \in Int
  PROVE  /\ ((a * d + c * b) * d + (-c) * (b * d)) * b = a * ((b * d) * d)
         /\ ((a * d + (-c) * b) * d + c * (b * d)) * b = a * ((b * d) * d)
OBVIOUS

LEMMA SumsUndone ==
  ASSUME NEW x, IsFinite(x), NEW y, IsFinite(y)
  PROVE  /\ DEqual(DSum(DSum(x, y), DNeg(y)), x)
         /\ DEqual(DSum(DSum(x, DNeg(y)), y), x)
<1>1. PICK a \in Int, b \in Nat \ {0}, c \in Int, d \in Nat \ {0} :
        a = x.num /\ b = x.den /\ c = y.num /\ d = y.den
  BY FiniteFields
<1>2. IsFinite(DNeg(y)) /\ DNeg(y).num = -c /\ DNeg(y).den = d
  BY <1>1, FiniteResults
<1>3. PICK p : p = DSum(x, y)
  OBVIOUS
<1>4. IsFinite(p) /\ p.num = a * d + c * b /\ p.den = b * d
  BY <1>1, <1>3, FiniteResults
<1>5. PICK q : q = DSum(p, DNeg(y))
  OBVIOUS
<1>6. IsFinite(q) /\ q.num = (a * d + c * b) * d + (-c) * (b * d) /\ q.den = (b * d) * d
  BY <1>2, <1>4, <1>5, FiniteResults
<1>7. q.num * b = a * q.den
  BY <1>6, SumIdentities
<1>8. DEqual(q, x)
  BY <1>1, <1>6, <1>7, FiniteResults
<1>9. PICK f : f = DSum(x, DNeg(y))
  OBVIOUS
<1>10. IsFinite(f) /\ f.num = a * d + (-c) * b /\ f.den = b * d
  BY <1>1, <1>2, <1>9, FiniteResults
<1>11. PICK g : g = DSum(f, y)
  OBVIOUS
<1>12. IsFinite(g) /\ g.num = (a * d + (-c) * b) * d + c * (b * d) /\ g.den = (b * d) * d
  BY <1>1, <1>10, <1>11, FiniteResults
<1>13. g.num * b = a * g.den
  BY <1>12, SumIdentities
<1>14. DEqual(g, x)
  BY <1>1, <1>12, <1>13, FiniteResults
<1> QED
  BY <1>3, <1>5, <1>8, <1>9, <1>11, <1>14

LEMMA ProductUndone ==
  ASSUME NEW x, IsFinite(x), NEW y, IsFinite(y),
         NEW z, z = AsDouble(Collapsed(DProduct(x, y)))
  PROVE  /\ IsFinite(z)
         /\ y.num = 0 => z.num = 0
         /\ y.num # 0 => DEqual(DQuotient(z, y), x)
<1>1. PICK a \in Int, b \in Nat \ {0}, c \in Int, d \in Nat \ {0} :
        a = x.num /\ b = x.den /\ c = y.num /\ d = y.den
  BY FiniteFields
<1>2. IsFinite(DProduct(x, y)) /\ DProduct(x, y).num = a * c /\ DProduct(x, y).den = b * d
  BY <1>1, FiniteResults
<1>3. IsFinite(z) /\ z.num * (b * d) = (a * c) * z.den
  BY <1>2, CollapsedIsEqual
<1>4. PICK u \in Int, v \in Nat \ {0} : u = z.num /\ v = z.den
  BY <1>3, FiniteFields
<1>5. u * (b * d) = (a * c) * v
  BY <1>3, <1>4
<1>6. ASSUME c = 0 PROVE u = 0
  <2>1. u * (b * d) = 0
    BY <1>5, <1>6
  <2>2. b * d \in Nat \ {0}
    BY PositiveProduct
  <2> QED
    BY <2>1, <2>2, NonZeroProduct
<1>7. ASSUME c # 0 PROVE DEqual(DQuotient(z, y), x)
  <2>1. PICK m \in Nat \ {0}, s \in Int : m = Abs(c) /\ s = Sgn(c) /\ m = s * c
    BY <1>7, SignAndMagnitude
  <2>2. PICK q : q = DQuotient(z, y)
    OBVIOUS
  <2>3. IsFinite(q) /\ q.num = u * d * s /\ q.den = v * m
    <3>1. y.num # 0 /\ IsFinite(z)
      BY <1>1, <1>3, <1>7
    <3>2. /\ IsFinite(q) /\ q.num = z.num * y.den * Sgn(y.num)
          /\ q.den = z.den * Abs(y.num)
      BY <2>2, <3>1, FiniteResults
    <3> QED
      BY <1>1, <1>4, <2>1, <3>2
  <2>4. (u * d * s) * b = a * (v * m)
    <3>1. (u * d * s) * b = s * (u * (b * d))
      OBVIOUS
    <3>2. a * (v * m) = s * ((a * c) * v)
      BY <2>1
    <3> QED
      BY ONLY <1>5, <3>1, <3>2
  <2>5. q.num * b = a * q.den
    BY <2>3, <2>4
  <2> QED
    BY <1>1, <2>2, <2>3, <2>5, FiniteResults
<1> QED
  BY <1>1, <1>3, <1>4, <1>6, <1>7

LEMMA QuotientUndone ==
  ASSUME NEW x, IsFinite(x), NEW y, IsFinite(y), y.num # 0,
         NEW z, z = AsDouble(Collapsed(DQuotient(x, y)))
  PROVE  DEqual(DProduct(z, y), x)
<1>1. PICK a \in Int, b \in Nat \ {0}, c \in Int, d \in Nat \ {0} :
        a = x.num /\ b = x.den /\ c = y.num /\ d = y.den
  BY FiniteFields
<1>2. PICK m \in Nat \ {0}, s \in Int :
        m = Abs(c) /\ s = Sgn(c) /\ c = s * m /\ s * s = 1
  <2>1. c # 0
    BY <1>1
  <2>2. PICK m \in Nat \ {0}, s \in Int : m = Abs(c) /\ s = Sgn(c)
    BY <2>1, SignAndMagnitude
  <2>3. c = Sgn(c) * Abs(c) /\ Sgn(c) * Sgn(c) = 1
    BY <2>1, SignAndMagnitude
  <2> QED
    BY <2>2, <2>3
<1>3. /\ IsFinite(DQuotient(x, y))
      /\ DQuotient(x, y).num = a * d * s /\ DQuotient(x, y).den = b * m
  BY <1>1, <1>2, FiniteResults
<1>4. IsFinite(z) /\ z.num * (b * m) = (a * d * s) * z.den
  BY <1>3, CollapsedIsEqual
<1>5. PICK u \in Int, v \in Nat \ {0} : u = z.num /\ v = z.den
  BY <1>4, FiniteFields
<1>6. u * (b * m) = (a * d * s) * v
  BY <1>4, <1>5
<1>7. PICK q : q = DProduct(z, y)
  OBVIOUS
<1>8. IsFinite(q) /\ q.num = u * c /\ q.den = v * d
  BY <1>1, <1>4, <1>5, <1>7, FiniteResults
<1>9. (u * c) * b = a * (v * d)
  <2>1. (u * c) * b = s * (u * (b * m))
    BY <1>2
  <2>2. s * ((a * d * s) * v) = (s * s) * (a * (v * d))
    OBVIOUS
  <2>3. (s * s) * (a * (v * d)) = a * (v * d)
    BY <1>2
  <2> QED
    BY ONLY <1>6, <2>1, <2>2, <2>3
<1>10. q.num * b = a * q.den
  BY <1>8, <1>9
<1> QED
  BY <1>1, <1>7, <1>8, <1>10, FiniteResults

\* What the machine leaves for the remainder of x by y, as an equation: its value
\* is the truncated remainder over the product of the denominators.
LEMMA RemainderIsLawful ==
  ASSUME NEW x, IsFinite(x), NEW y, IsFinite(y), y.num # 0, NEW z, IsFinite(z),
         z.num * (x.den * y.den) = CRem(x.num * y.den, y.num * x.den) * z.den
  PROVE  IsRemainder(z, x, y)
<1>1. PICK a \in Int, b \in Nat \ {0}, c \in Int, d \in Nat \ {0}, u \in Int, v \in Nat \ {0} :
        a = x.num /\ b = x.den /\ c = y.num /\ d = y.den /\ u = z.num /\ v = z.den
  BY FiniteFields
<1>2. c # 0
  BY <1>1
<1>3. PICK m \in Nat \ {0}, s \in Int : m = Abs(c) /\ s = Sgn(c)
  BY <1>2, SignAndMagnitude
<1>4. m = s * c
  BY <1>2, <1>3, SignAndMagnitude
<1>5. PICK n \in Int, g \in Int, f \in Nat \ {0} : n = a * d /\ g = c * b /\ f = b * d
  BY PositiveProduct
<1>6. g # 0
  BY <1>2, <1>5, NonZeroProduct
<1>7. PICK q \in Int, r \in Int : q = CQuot(n, g) /\ r = CRem(n, g)
  BY <1>6, CQuotIsInt
<1>8. r = n - g * q
  BY <1>7 DEF CRem
<1>9. /\ n >= 0 => 0 <= r
      /\ n <= 0 => r <= 0
      /\ -Abs(g) < r /\ r < Abs(g)
  BY <1>6, <1>7, Remainder
<1>10. u * f = r * v
  BY <1>1, <1>5, <1>7
\* The difference is a multiple of y.
<1>11. PICK e : e = DSum(x, DNeg(z))
  OBVIOUS
<1>12. IsFinite(DNeg(z)) /\ DNeg(z).num = -u /\ DNeg(z).den = v
  BY <1>1, FiniteResults
<1>13. IsFinite(e) /\ e.num = a * v + (-u) * b /\ e.den = b * v
  BY <1>1, <1>11, <1>12, FiniteResults
<1>14. PICK k : k = DQuotient(e, y)
  OBVIOUS
<1>15. IsFinite(k) /\ k.num = (a * v + (-u) * b) * d * s /\ k.den = (b * v) * m
  <2>1. /\ IsFinite(k) /\ k.num = e.num * y.den * Sgn(y.num) /\ k.den = e.den * Abs(y.num)
    BY <1>13, <1>14, FiniteResults
  <2> QED
    BY <1>1, <1>3, <1>13, <2>1
<1>16. k.num % k.den = 0
  <2>1. (a * v + (-u) * b) * d * s = s * (n * v - u * f)
    BY <1>5
  <2>2. n * v - u * f = g * q * v
    <3>1. n * v - r * v = (n - r) * v
      OBVIOUS
    <3>2. n - r = g * q
      BY <1>8
    <3> QED
      BY <1>10, <3>1, <3>2
  <2>3. s * (g * q * v) = ((b * v) * m) * q
    BY <1>4, <1>5
  <2>4. PICK h \in Nat \ {0} : h = (b * v) * m
    BY PositiveProduct
  <2>5. k.num = h * q + 0 /\ k.den = h
    BY <1>15, <2>1, <2>2, <2>3, <2>4
  <2>6. (h * q + 0) % h = 0
    BY DivisionIsUnique
  <2> QED
    BY <2>5, <2>6
\* It is smaller than y.
<1>17. PICK w \in Nat : w = Abs(u)
  BY SgnAbs
<1>18. w * d < m * v
  <2>1. PICK t \in Nat : t = Abs(r)
    BY SgnAbs
  <2>2. w * f = t * v
    <3>1. CASE u >= 0
      <4>1. u * f >= 0
        BY <3>1
      <4>2. r >= 0
        <5>1. r < 0 => r * v < 0
          OBVIOUS
        <5> QED
          BY <1>10, <4>1, <5>1
      <4> QED
        BY <1>10, <1>17, <2>1, <3>1, <4>2 DEF Abs
    <3>2. CASE u < 0
      <4>1. u * f < 0
        BY <3>2
      <4>2. r < 0
        <5>1. r >= 0 => r * v >= 0
          OBVIOUS
        <5> QED
          BY <1>10, <4>1, <5>1
      <4>3. w = -u /\ t = -r
        BY <1>17, <2>1, <3>2, <4>2 DEF Abs
      <4>4. (-u) * f = -(u * f) /\ (-r) * v = -(r * v)
        OBVIOUS
      <4> QED
        BY <1>10, <4>3, <4>4
    <3> QED
      BY <3>1, <3>2
  <2>3. t < m * b
    <3>1. Abs(g) = m * b
      <4>1. CASE c > 0
        <5>1. g > 0 /\ m = c
          BY <1>3, <1>5, <4>1 DEF Abs
        <5> QED
          BY <1>5, <5>1 DEF Abs
      <4>2. CASE c < 0
        <5>1. g < 0 /\ m = -c
          BY <1>3, <1>5, <4>2 DEF Abs
        <5>2. (-c) * b = -(c * b)
          OBVIOUS
        <5> QED
          BY <1>5, <5>1, <5>2 DEF Abs
      <4> QED
        BY <1>2, <4>1, <4>2
    <3> QED
      BY <1>9, <2>1, <3>1 DEF Abs
  <2>4. t * v < (m * b) * v
    <3>1. PICK mb \in Nat : mb = m * b
      OBVIOUS
    <3>2. t < mb => t * v < mb * v
      OBVIOUS
    <3> QED
      BY <2>3, <3>1, <3>2
  <2>5. b * (w * d) < b * (m * v)
    <3>1. b * (w * d) = w * f
      BY <1>5
    <3>2. b * (m * v) = (m * b) * v
      OBVIOUS
    <3> QED
      BY <2>2, <2>4, <3>1, <3>2
  <2>6. PICK i \in Nat, j \in Nat : i = w * d /\ j = m * v
    OBVIOUS
  <2>7. i >= j => b * i >= b * j
    OBVIOUS
  <2> QED
    BY <2>5, <2>6, <2>7
<1>19. DLess(JSDouble(w, v), JSDouble(m, d))
  <2>1. /\ JSDouble(w, v).num = w /\ JSDouble(w, v).den = v
        /\ JSDouble(m, d).num = m /\ JSDouble(m, d).den = d
    BY FiniteDouble
  <2> QED
    BY <1>18, <2>1 DEF DLess, IsNaN
\* It has the sign of x.
<1>20. u # 0 => Sgn(u) = Sgn(a)
  <2>1. a >= 0 => u >= 0
    <3> SUFFICES ASSUME a >= 0, u < 0 PROVE FALSE
      OBVIOUS
    <3>1. n >= 0
      BY <1>5
    <3>2. r * v >= 0
      BY <1>9, <3>1
    <3>3. u * f < 0
      OBVIOUS
    <3> QED
      BY <1>10, <3>2, <3>3
  <2>2. a <= 0 => u <= 0
    <3> SUFFICES ASSUME a <= 0, u > 0 PROVE FALSE
      OBVIOUS
    <3>1. n <= 0
      BY <1>5
    <3>2. r <= 0
      BY <1>9, <3>1
    <3>3. r * v <= 0
      BY <3>2
    <3>4. u * f > 0
      OBVIOUS
    <3> QED
      BY <1>10, <3>3, <3>4
  <2> QED
    BY <2>1, <2>2 DEF Sgn
<1> QED
  BY <1>1, <1>3, <1>11, <1>14, <1>16, <1>17, <1>19, <1>20 DEF IsRemainder

-----------------------------------------------------------------------------
(* The instructions.                                                       *)

\* An integer or a finite double.
LEMMA NumberForms ==
  ASSUME NEW v \in Value, Canonical(v), IsNumber(v), v.den # 0
  PROVE  /\ IsFinite(AsDouble(v)) /\ AsDouble(v).num = v.num /\ AsDouble(v).den = v.den
         /\ Coerced(v) = v
         /\ v.type \notin NotNumeric \cup {"null", "undefined"}
         /\ v.type = "integer" => v.den = 1 /\ v.num \in Int /\ AsDouble(v) = JSDouble(v.num, 1)
         /\ v.type # "integer" => v.type = "double"
<1>1. v.num \in Int /\ v.den \in Nat
  BY ValueFields
<1>2. CASE v.type = "integer"
  <2>1. v.den = 1 /\ AsDouble(v) = JSDouble(v.num, 1)
    BY <1>2 DEF Canonical, AsDouble
  <2> QED
    BY <1>1, <1>2, <2>1, FiniteDouble DEF Coerced, NotNumeric
<1>3. CASE v.type = "double"
  BY <1>1, <1>3 DEF AsDouble, IsFinite, Coerced, NotNumeric
<1> QED
  BY <1>2, <1>3 DEF IsNumber

\* Two integers take the int path, other numbers the double path.
LEMMA ArithmeticPaths ==
  ASSUME NEW l \in Value, Canonical(l), IsNumber(l), l.den # 0,
         NEW r \in Value, Canonical(r), IsNumber(r), r.den # 0
  PROVE  /\ l.type = "integer" /\ r.type = "integer" =>
              /\ inst_add(l, r) = IntAdd(l.num, r.num)
              /\ inst_minus(l, r) = IntMinus(l.num, r.num)
              /\ inst_mul(l, r) = IntMul(l.num, r.num)
              /\ inst_div(l, r) = DoubleDiv(AsDouble(l), AsDouble(r))
              /\ inst_mod(l, r) = IntMod(l.num, r.num)
         /\ ~(l.type = "integer" /\ r.type = "integer") =>
              /\ inst_add(l, r) = DoubleAdd(AsDouble(l), AsDouble(r))
              /\ inst_minus(l, r) = DoubleMinus(AsDouble(l), AsDouble(r))
              /\ inst_mul(l, r) = DoubleMul(AsDouble(l), AsDouble(r))
              /\ inst_div(l, r) = DoubleDiv(AsDouble(l), AsDouble(r))
              /\ inst_mod(l, r) = DoubleMod(AsDouble(l), AsDouble(r))
<1>1. Coerced(l) = l /\ Coerced(r) = r
      /\ l.type \notin NotNumeric \cup {"null", "undefined"}
      /\ r.type \notin NotNumeric \cup {"null", "undefined"}
  BY NumberForms
<1>2. /\ l.type # "integer" => l.type = "double"
      /\ r.type # "integer" => r.type = "double"
  BY NumberForms
<1>4. ASSUME l.type = "integer", r.type = "integer"
      PROVE  /\ inst_add(l, r) = IntAdd(l.num, r.num)
             /\ inst_minus(l, r) = IntMinus(l.num, r.num)
             /\ inst_mul(l, r) = IntMul(l.num, r.num)
             /\ inst_mod(l, r) = IntMod(l.num, r.num)
  BY <1>1, <1>4 DEF inst_add, inst_minus, inst_mul, inst_mod, Arithmetic
<1>5. ASSUME ~(l.type = "integer" /\ r.type = "integer")
      PROVE  /\ inst_add(l, r) = DoubleAdd(AsDouble(l), AsDouble(r))
             /\ inst_minus(l, r) = DoubleMinus(AsDouble(l), AsDouble(r))
             /\ inst_mul(l, r) = DoubleMul(AsDouble(l), AsDouble(r))
             /\ inst_mod(l, r) = DoubleMod(AsDouble(l), AsDouble(r))
  BY <1>1, <1>2, <1>5 DEF inst_add, inst_minus, inst_mul, inst_mod, Arithmetic
<1>6. inst_div(l, r) = DoubleDiv(AsDouble(l), AsDouble(r))
  <2>1. DivOperand(l).type = "double"
    BY <1>1, DivOperandForms DEF IsNumber
  <2>2. inst_div(l, r) = DoubleDiv(AsDouble(DivOperand(l)), AsDouble(DivOperand(r)))
    BY <1>1, <2>1 DEF inst_div
  <2> QED
    BY <1>1, <2>2, DivOperandForms
<1> QED
  BY <1>4, <1>5, <1>6

\* Overflow changes an int by a multiple of 2^W.
LEMMA IntResultIsCongruent ==
  ASSUME NEW n \in Int
  PROVE  \/ IntResult(n) = Trapped
         \/ \E m \in Int : IntResult(n) = Pushed(JSInt(m)) /\ (m - n) % 2^W = 0
<1>1. PICK p \in Nat \ {0} : p = 2^W
  BY Powers
<1>2. (n - n) % p = 0
  BY <1>1
<1>3. PICK t \in Int : t = n - IntMin
  BY Powers
<1>4. PICK q \in Int, r \in Int : q = t \div p /\ r = t % p
  BY Division
<1>5. t = p * q + r /\ Wrap(n) = r + IntMin
  BY <1>1, <1>3, <1>4, Division DEF Wrap
<1>6. PICK k \in Int : k = -q
  OBVIOUS
<1>7. Wrap(n) \in Int /\ Wrap(n) - n = p * k + 0
  BY <1>3, <1>5, <1>6, Powers
<1>8. (p * k + 0) % p = 0
  BY DivisionIsUnique
<1>9. (Wrap(n) - n) % p = 0
  BY <1>7, <1>8
<1>10. \/ IntResult(n) = Trapped \/ IntResult(n) = Pushed(JSInt(n))
       \/ IntResult(n) = Pushed(JSInt(Wrap(n)))
  BY DEF IntResult
<1> QED
  BY <1>1, <1>2, <1>7, <1>9, <1>10

IsFiniteNumber(v) == v \in Value /\ Canonical(v) /\ Finite(v)

\* Congruent, for any operands.
Matches(l, r, x, y) ==
  \/ DEqual(x, y)
  \/ /\ l.type = "integer" /\ r.type = "integer"
     /\ x.den = 1 /\ y.den = 1
     /\ (x.num - y.num) % 2^W = 0

LEMMA PushedForms ==
  /\ \A v : Pushed(v).effect = "pop" /\ Pushed(v).value = v
  /\ Trapped.effect = "trap"
  /\ \A n : AsDouble(JSInt(n)) = JSDouble(n, 1)
BY DEF Pushed, Trapped, Outcome, AsDouble, JSInt, Tagged

LEMMA FiniteNumber ==
  ASSUME NEW v, IsFiniteNumber(v)
  PROVE  /\ v \in Value /\ Canonical(v) /\ IsNumber(v) /\ v.den # 0
         /\ IsFinite(AsDouble(v)) /\ AsDouble(v).num = v.num
         /\ v.type = "integer" => v.num \in Int /\ AsDouble(v) = JSDouble(v.num, 1)
BY NumberForms DEF IsFiniteNumber, Finite

LEMMA AdditionUndone ==
  ASSUME NEW l, IsFiniteNumber(l), NEW r, IsFiniteNumber(r),
         NEW o, o = inst_add(l, r), o.effect # "trap"
  PROVE  /\ o.effect = "pop"
         /\ Matches(l, r, DSum(AsDouble(o.value), DNeg(AsDouble(r))), AsDouble(l))
<1>1. CASE l.type = "integer" /\ r.type = "integer"
  <2>1. PICK a \in Int, b \in Int : a = l.num /\ b = r.num
    BY <1>1, FiniteNumber
  <2>2. o = IntResult(a + b)
    BY <1>1, <2>1, FiniteNumber, ArithmeticPaths DEF IntAdd
  <2>3. PICK m \in Int : o = Pushed(JSInt(m)) /\ (m - (a + b)) % 2^W = 0
    BY <2>2, IntResultIsCongruent, PushedForms
  <2>4. /\ AsDouble(o.value) = JSDouble(m, 1)
        /\ AsDouble(l) = JSDouble(a, 1) /\ AsDouble(r) = JSDouble(b, 1)
    BY <1>1, <2>1, <2>3, FiniteNumber, PushedForms
  <2>5. PICK z : z = DSum(JSDouble(m, 1), DNeg(JSDouble(b, 1)))
    OBVIOUS
  <2>6. /\ IsFinite(JSDouble(m, 1)) /\ JSDouble(m, 1).num = m /\ JSDouble(m, 1).den = 1
        /\ IsFinite(JSDouble(b, 1)) /\ JSDouble(b, 1).num = b /\ JSDouble(b, 1).den = 1
        /\ JSDouble(a, 1).num = a /\ JSDouble(a, 1).den = 1
    BY FiniteDouble
  <2>7. /\ IsFinite(DNeg(JSDouble(b, 1))) /\ DNeg(JSDouble(b, 1)).num = -b
        /\ DNeg(JSDouble(b, 1)).den = 1
    BY <2>6, FiniteResults
  <2>8. z.num = m * 1 + (-b) * 1 /\ z.den = 1 * 1
    BY <2>5, <2>6, <2>7, FiniteResults
  <2>9. z.num - a = m - (a + b) /\ z.den = 1
    BY <2>8
  <2> QED
    BY <1>1, <2>3, <2>4, <2>5, <2>6, <2>9, PushedForms DEF Matches
<1>2. CASE ~(l.type = "integer" /\ r.type = "integer")
  <2>1. PICK x, y : x = AsDouble(l) /\ y = AsDouble(r) /\ IsFinite(x) /\ IsFinite(y)
    BY FiniteNumber
  <2>2. o = Pushed(DSum(x, y))
    BY <1>2, <2>1, FiniteNumber, ArithmeticPaths DEF DoubleAdd
  <2>3. AsDouble(o.value) = DSum(x, y) /\ o.effect = "pop"
    BY <2>1, <2>2, PushedForms, FiniteResults DEF AsDouble, IsFinite
  <2>4. DEqual(DSum(DSum(x, y), DNeg(y)), x)
    BY <2>1, SumsUndone
  <2> QED
    BY <2>1, <2>3, <2>4 DEF Matches
<1> QED
  BY <1>1, <1>2

LEMMA SubtractionUndone ==
  ASSUME NEW l, IsFiniteNumber(l), NEW r, IsFiniteNumber(r),
         NEW o, o = inst_minus(l, r), o.effect # "trap"
  PROVE  /\ o.effect = "pop"
         /\ Matches(l, r, DSum(AsDouble(o.value), AsDouble(r)), AsDouble(l))
<1>1. CASE l.type = "integer" /\ r.type = "integer"
  <2>1. PICK a \in Int, b \in Int : a = l.num /\ b = r.num
    BY <1>1, FiniteNumber
  <2>2. o = IntResult(a - b)
    BY <1>1, <2>1, FiniteNumber, ArithmeticPaths DEF IntMinus
  <2>3. PICK m \in Int : o = Pushed(JSInt(m)) /\ (m - (a - b)) % 2^W = 0
    BY <2>2, IntResultIsCongruent, PushedForms
  <2>4. /\ AsDouble(o.value) = JSDouble(m, 1)
        /\ AsDouble(l) = JSDouble(a, 1) /\ AsDouble(r) = JSDouble(b, 1)
    BY <1>1, <2>1, <2>3, FiniteNumber, PushedForms
  <2>5. PICK z : z = DSum(JSDouble(m, 1), JSDouble(b, 1))
    OBVIOUS
  <2>6. /\ IsFinite(JSDouble(m, 1)) /\ JSDouble(m, 1).num = m /\ JSDouble(m, 1).den = 1
        /\ IsFinite(JSDouble(b, 1)) /\ JSDouble(b, 1).num = b /\ JSDouble(b, 1).den = 1
        /\ JSDouble(a, 1).num = a /\ JSDouble(a, 1).den = 1
    BY FiniteDouble
  <2>7. z.num = m * 1 + b * 1 /\ z.den = 1 * 1
    BY <2>5, <2>6, FiniteResults
  <2>8. z.num - a = m - (a - b) /\ z.den = 1
    BY <2>7
  <2> QED
    BY <1>1, <2>3, <2>4, <2>5, <2>6, <2>8, PushedForms DEF Matches
<1>2. CASE ~(l.type = "integer" /\ r.type = "integer")
  <2>1. PICK x, y : x = AsDouble(l) /\ y = AsDouble(r) /\ IsFinite(x) /\ IsFinite(y)
    BY FiniteNumber
  <2>2. o = Pushed(DSum(x, DNeg(y)))
    BY <1>2, <2>1, FiniteNumber, ArithmeticPaths DEF DoubleMinus
  <2>3. IsFinite(DNeg(y))
    BY <2>1, FiniteResults
  <2>4. AsDouble(o.value) = DSum(x, DNeg(y)) /\ o.effect = "pop"
    BY <2>1, <2>2, <2>3, PushedForms, FiniteResults DEF AsDouble, IsFinite
  <2>5. DEqual(DSum(DSum(x, DNeg(y)), y), x)
    BY <2>1, SumsUndone
  <2> QED
    BY <2>1, <2>4, <2>5 DEF Matches
<1> QED
  BY <1>1, <1>2

LEMMA Untrapped ==
  \A x : PushCollapsed(x).effect # "trap" => PushCollapsed(x) = Pushed(Collapsed(x))
BY CastingForms, EffectForms DEF PushCollapsed

LEMMA MultiplicationUndone ==
  ASSUME NEW l, IsFiniteNumber(l), NEW r, IsFiniteNumber(r),
         NEW o, o = inst_mul(l, r), o.effect # "trap"
  PROVE  /\ o.effect = "pop"
         /\ IF l.type = "integer" /\ r.type = "integer"
            THEN Matches(l, r, AsDouble(o.value), JSDouble(l.num * r.num, 1))
            ELSE IF DIsZero(AsDouble(r)) THEN DIsZero(AsDouble(o.value))
                 ELSE DEqual(DQuotient(AsDouble(o.value), AsDouble(r)), AsDouble(l))
<1>1. CASE l.type = "integer" /\ r.type = "integer"
  <2>1. PICK a \in Int, b \in Int : a = l.num /\ b = r.num
    BY <1>1, FiniteNumber
  <2>2. PICK n \in Int : n = a * b
    OBVIOUS
  <2>3. o = IntResult(n)
    BY <1>1, <2>1, <2>2, FiniteNumber, ArithmeticPaths DEF IntMul
  <2>4. PICK m \in Int : o = Pushed(JSInt(m)) /\ (m - n) % 2^W = 0
    BY <2>3, IntResultIsCongruent, PushedForms
  <2>5. AsDouble(o.value) = JSDouble(m, 1) /\ JSDouble(l.num * r.num, 1) = JSDouble(n, 1)
    BY <2>1, <2>2, <2>4, PushedForms
  <2>6. /\ JSDouble(m, 1).num = m /\ JSDouble(m, 1).den = 1
        /\ JSDouble(n, 1).num = n /\ JSDouble(n, 1).den = 1
    BY FiniteDouble
  <2> QED
    BY <1>1, <2>4, <2>5, <2>6, PushedForms DEF Matches
<1>2. CASE ~(l.type = "integer" /\ r.type = "integer")
  <2>1. PICK x, y : x = AsDouble(l) /\ y = AsDouble(r) /\ IsFinite(x) /\ IsFinite(y)
    BY FiniteNumber
  <2>2. o = Pushed(Collapsed(DProduct(x, y)))
    BY <1>2, <2>1, FiniteNumber, ArithmeticPaths, Untrapped DEF DoubleMul
  <2>3. PICK z : z = AsDouble(Collapsed(DProduct(x, y)))
    OBVIOUS
  <2>4. AsDouble(o.value) = z /\ o.effect = "pop"
    BY <2>2, <2>3, PushedForms
  <2>5. /\ IsFinite(z)
        /\ y.num = 0 => z.num = 0
        /\ y.num # 0 => DEqual(DQuotient(z, y), x)
    BY <2>1, <2>3, ProductUndone
  <2>6. /\ DIsZero(y) <=> y.num = 0
        /\ DIsZero(z) <=> z.num = 0
    BY <2>1, <2>5 DEF DIsZero, IsFinite
  <2> QED
    BY <1>2, <2>1, <2>4, <2>5, <2>6
<1> QED
  BY <1>1, <1>2

LEMMA DivisionUndone ==
  ASSUME NEW l, IsFiniteNumber(l), NEW r, IsFiniteNumber(r),
         NEW o, o = inst_div(l, r), o.effect # "trap"
  PROVE  /\ o.effect = "pop"
         /\ ~DIsZero(AsDouble(r)) =>
              DEqual(DProduct(AsDouble(o.value), AsDouble(r)), AsDouble(l))
         /\ DIsZero(AsDouble(r)) /\ DIsZero(AsDouble(l)) => IsNaN(AsDouble(o.value))
         /\ DIsZero(AsDouble(r)) /\ ~DIsZero(AsDouble(l)) =>
              AsDouble(o.value) = JSInfinity(Sgn(l.num))
<1>1. PICK x, y : x = AsDouble(l) /\ y = AsDouble(r) /\ IsFinite(x) /\ IsFinite(y)
                  /\ x.num = l.num
  BY FiniteNumber
<1>2. o = DoubleDiv(x, y)
  BY <1>1, FiniteNumber, ArithmeticPaths
<1>3. x.num \in Int /\ x.den \in Nat \ {0} /\ y.num \in Int /\ y.den \in Nat \ {0}
  BY <1>1, FiniteFields
<1>4. /\ DIsZero(y) <=> y.num = 0
      /\ DIsZero(x) <=> x.num = 0
  BY <1>3 DEF DIsZero
<1>5. CASE ~DIsZero(y)
  <2>1. o = Pushed(Collapsed(DQuotient(x, y)))
    BY <1>2, <1>5, Untrapped DEF DoubleDiv
  <2>2. PICK z : z = AsDouble(Collapsed(DQuotient(x, y)))
    OBVIOUS
  <2>3. AsDouble(o.value) = z /\ o.effect = "pop"
    BY <2>1, <2>2, PushedForms
  <2>4. DEqual(DProduct(z, y), x)
    BY <1>1, <1>4, <1>5, <2>2, QuotientUndone
  <2> QED
    BY <1>1, <1>5, <2>3, <2>4
<1>6. CASE DIsZero(y) /\ DIsZero(x)
  <2>1. o = Pushed(JSNaN)
    BY <1>2, <1>6 DEF DoubleDiv
  <2>2. IsNaN(AsDouble(JSNaN))
    BY DEF IsNaN, AsDouble, JSNaN, JSDouble, Sgn
  <2> QED
    BY <1>1, <1>6, <2>1, <2>2, PushedForms
<1>7. CASE DIsZero(y) /\ ~DIsZero(x)
  <2>1. o = Pushed(JSInfinity(IF DLess(JSDouble(0, 1), x) THEN 1 ELSE -1))
    BY <1>2, <1>7 DEF DoubleDiv
  <2>2. DLess(JSDouble(0, 1), x) <=> x.num > 0
    <3>1. JSDouble(0, 1).num = 0 /\ JSDouble(0, 1).den = 1
      BY FiniteDouble
    <3>2. 0 * x.den = 0 /\ x.num * 1 = x.num
      BY <1>3
    <3> QED
      BY <1>3, <3>1, <3>2 DEF DLess, IsNaN
  <2>3. o = Pushed(JSInfinity(Sgn(x.num)))
    BY <1>3, <1>4, <1>7, <2>1, <2>2 DEF Sgn
  <2>4. AsDouble(JSInfinity(Sgn(x.num))) = JSInfinity(Sgn(x.num))
    BY DEF AsDouble, JSInfinity, JSDouble
  <2> QED
    BY <1>1, <1>7, <2>3, <2>4, PushedForms
<1> QED
  BY <1>5, <1>6, <1>7

LEMMA ModuloObeysItsLaw ==
  ASSUME NEW l, IsFiniteNumber(l), NEW r, IsFiniteNumber(r),
         NEW o, o = inst_mod(l, r), o.effect # "trap"
  PROVE  /\ o.effect = "pop"
         /\ IF DIsZero(AsDouble(r)) THEN IsNaN(AsDouble(o.value))
            ELSE IsRemainder(AsDouble(o.value), AsDouble(l), AsDouble(r))
<1>1. PICK x, y : x = AsDouble(l) /\ y = AsDouble(r) /\ IsFinite(x) /\ IsFinite(y)
                  /\ x.num = l.num /\ y.num = r.num
  BY FiniteNumber
<1>2. x.num \in Int /\ x.den \in Nat \ {0} /\ y.num \in Int /\ y.den \in Nat \ {0}
  BY <1>1, FiniteFields
<1>3. DIsZero(y) <=> y.num = 0
  BY <1>2 DEF DIsZero
<1>4. IsNaN(AsDouble(JSNaN))
  BY DEF IsNaN, AsDouble, JSNaN, JSDouble, Sgn
<1>5. CASE l.type = "integer" /\ r.type = "integer"
  <2>1. PICK a \in Int, b \in Int : a = l.num /\ b = r.num
    BY <1>5, FiniteNumber
  <2>2. o = IntMod(a, b)
    BY <1>5, <2>1, FiniteNumber, ArithmeticPaths
  <2>3. CASE b = 0
    <3>1. o = Pushed(JSNaN)
      BY <2>2, <2>3 DEF IntMod
    <3> QED
      BY <1>1, <1>3, <1>4, <2>1, <2>3, <3>1, PushedForms
  <2>4. CASE b # 0
    <3>1. PICK m \in Int : m = CRem(a, b)
      BY <2>4, CQuotIsInt
    <3>2. o = Pushed(JSInt(m))
      BY <2>2, <2>4, <3>1, PushedForms DEF IntMod
    <3>3. PICK z : z = JSDouble(m, 1)
      OBVIOUS
    <3>4. IsFinite(z) /\ z.num = m /\ z.den = 1
      BY <3>3, FiniteDouble
    <3>5. x.num = a /\ x.den = 1 /\ y.num = b /\ y.den = 1
      BY <1>1, <1>5, <2>1, FiniteNumber, FiniteDouble
    <3>6. z.num * (x.den * y.den) = CRem(x.num * y.den, y.num * x.den) * z.den
      <4>1. a * 1 = a /\ b * 1 = b /\ m * (1 * 1) = m /\ m * 1 = m
        OBVIOUS
      <4> QED
        BY <3>1, <3>4, <3>5, <4>1
    <3>7. IsRemainder(z, x, y)
      BY <1>1, <2>4, <3>4, <3>5, <3>6, RemainderIsLawful
    <3> QED
      BY <1>1, <1>3, <2>1, <2>4, <3>2, <3>3, <3>7, PushedForms
  <2> QED
    BY <2>3, <2>4
<1>6. CASE ~(l.type = "integer" /\ r.type = "integer")
  <2>1. o = DoubleMod(x, y)
    BY <1>1, <1>6, FiniteNumber, ArithmeticPaths
  <2>2. CASE DIsZero(y)
    <3>1. o = Pushed(JSNaN)
      BY <2>1, <2>2 DEF DoubleMod
    <3> QED
      BY <1>1, <1>4, <2>2, <3>1, PushedForms
  <2>3. CASE ~DIsZero(y)
    <3>1. o = Pushed(Collapsed(DRemainder(x, y)))
      BY <2>1, <2>3, Untrapped DEF DoubleMod
    <3>2. y.num * x.den # 0 /\ x.num * y.den \in Int /\ y.num * x.den \in Int
          /\ x.den * y.den \in Nat \ {0}
      BY <1>2, <1>3, <2>3, NonZeroProduct, Products, PositiveProduct
    <3>3. PICK m \in Int : m = CRem(x.num * y.den, y.num * x.den)
      BY ONLY <3>2, CQuotIsInt, Zenon
    <3>4. PICK e : e = DRemainder(x, y)
      OBVIOUS
    <3>5. e = JSDouble(m, x.den * y.den)
      BY <1>2, <3>3, <3>4 DEF DRemainder, IsNaN
    <3>6. IsFinite(e) /\ e.num = m /\ e.den = x.den * y.den
      BY <3>2, <3>5, FiniteDouble
    <3>7. PICK z : z = AsDouble(Collapsed(e))
      OBVIOUS
    <3>8. IsFinite(z) /\ z.num * (x.den * y.den) = m * z.den
      BY <3>6, <3>7, CollapsedIsEqual
    <3>9. IsRemainder(z, x, y)
      BY <1>1, <1>3, <2>3, <3>3, <3>8, RemainderIsLawful
    <3> QED
      BY <1>1, <2>3, <3>1, <3>4, <3>7, <3>9, PushedForms
  <2> QED
    BY <2>2, <2>3
<1> QED
  BY <1>5, <1>6

\* On any two finite numbers and for every width of int32_t, each arithmetic
\* instruction answers with the number that undoes it (modulo 2^W where integers
\* overflow), x / 0 and x % 0 with the infinities and NaN JavaScript prescribes,
\* and % obeys the law of the truncated remainder. (inst_add, inst_minus,
\* inst_mul, inst_div, inst_mod with their int and double paths and the int
\* collapse.)
THEOREM ArithmeticIsLawful == Spec => []ArithmeticIsInvertible
<1>1. ASSUME BenchInv PROVE ArithmeticIsInvertible
  <2> SUFFICES ASSUME Numbers(left, right), outcome.effect \notin {"none", "trap"}
               PROVE  ArithmeticIsInvertible
    BY DEF ArithmeticIsInvertible
  <2>1. IsFiniteNumber(left) /\ IsFiniteNumber(right)
    BY <1>1, OperandsAreValues DEF IsFiniteNumber, Numbers
  <2>2. outcome # Idle
    BY DEF Idle, Outcome
  <2>3. ASSUME op \in {"ADD", "MINUS", "MUL", "DIV", "MOD"}
        PROVE  outcome = Binary(op, left, right)
    <3>1. op \notin UnaryOpcodes
      BY <2>3 DEF UnaryOpcodes
    <3> QED
      BY <1>1, <2>2, <3>1 DEF BenchInv
  <2>4. ASSUME op = "ADD"
        PROVE  outcome.effect = "pop" /\ Congruent(DSum(Result, DNeg(Right)), Left)
    <3>1. outcome = inst_add(left, right)
      BY <2>3, <2>4 DEF Binary
    <3>2. /\ outcome.effect = "pop"
          /\ Matches(left, right, DSum(AsDouble(outcome.value), DNeg(AsDouble(right))), AsDouble(left))
      BY <2>1, <3>1, AdditionUndone
    <3> QED
      BY <3>2 DEF Matches, Congruent, Result, Left, Right
  <2>5. ASSUME op = "MINUS"
        PROVE  outcome.effect = "pop" /\ Congruent(DSum(Result, Right), Left)
    <3>1. outcome = inst_minus(left, right)
      BY <2>3, <2>5 DEF Binary
    <3>2. /\ outcome.effect = "pop"
          /\ Matches(left, right, DSum(AsDouble(outcome.value), AsDouble(right)), AsDouble(left))
      BY <2>1, <3>1, SubtractionUndone
    <3> QED
      BY <3>2 DEF Matches, Congruent, Result, Left, Right
  <2>6. ASSUME op = "MUL"
        PROVE  /\ outcome.effect = "pop"
               /\ IF left.type = "integer" /\ right.type = "integer"
                  THEN Congruent(Result, JSDouble(left.num * right.num, 1))
                  ELSE IF DIsZero(Right) THEN DIsZero(Result)
                       ELSE DEqual(DQuotient(Result, Right), Left)
    <3>1. outcome = inst_mul(left, right)
      BY <2>3, <2>6 DEF Binary
    <3>2. /\ outcome.effect = "pop"
          /\ IF left.type = "integer" /\ right.type = "integer"
             THEN Matches(left, right, AsDouble(outcome.value), JSDouble(left.num * right.num, 1))
             ELSE IF DIsZero(AsDouble(right)) THEN DIsZero(AsDouble(outcome.value))
                  ELSE DEqual(DQuotient(AsDouble(outcome.value), AsDouble(right)), AsDouble(left))
      BY <2>1, <3>1, MultiplicationUndone
    <3> QED
      BY <3>2 DEF Matches, Congruent, Result, Left, Right
  <2>7. ASSUME op = "DIV"
        PROVE  /\ outcome.effect = "pop"
               /\ CASE ~DIsZero(Right) -> DEqual(DProduct(Result, Right), Left)
                    [] DIsZero(Right) /\ DIsZero(Left) -> IsNaN(Result)
                    [] OTHER -> Result = JSInfinity(Sgn(left.num))
    <3>1. outcome = inst_div(left, right)
      BY <2>3, <2>7 DEF Binary
    <3>2. /\ outcome.effect = "pop"
          /\ ~DIsZero(Right) => DEqual(DProduct(Result, Right), Left)
          /\ DIsZero(Right) /\ DIsZero(Left) => IsNaN(Result)
          /\ DIsZero(Right) /\ ~DIsZero(Left) => Result = JSInfinity(Sgn(left.num))
      BY <2>1, <3>1, DivisionUndone DEF Result, Left, Right
    <3>3. CASE ~DIsZero(Right)
      BY <3>2, <3>3
    <3>4. CASE DIsZero(Right) /\ DIsZero(Left)
      BY <3>2, <3>4
    <3>5. CASE DIsZero(Right) /\ ~DIsZero(Left)
      BY <3>2, <3>5
    <3> QED
      BY <3>3, <3>4, <3>5
  <2>8. ASSUME op = "MOD"
        PROVE  /\ outcome.effect = "pop"
               /\ IF DIsZero(Right) THEN IsNaN(Result) ELSE IsRemainder(Result, Left, Right)
    <3>1. outcome = inst_mod(left, right)
      BY <2>3, <2>8 DEF Binary
    <3> QED
      BY <2>1, <3>1, ModuloObeysItsLaw DEF Result, Left, Right
  <2> QED
    BY <2>4, <2>5, <2>6, <2>7, <2>8 DEF ArithmeticIsInvertible, Evaluated
<1> QED
  BY <1>1, BenchInvHolds, PTL

=============================================================================
