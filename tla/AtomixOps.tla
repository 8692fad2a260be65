----------------------------- MODULE AtomixOps -----------------------------
(***************************************************************************)
(* The JavaScript values of the virtual machine and its arithmetic,        *)
(* bitwise and comparison instructions as pure operators (the functions    *)
(* inst_add .. inst_leq of core/execution.c and value_is_falsy of          *)
(* core/value.c).                                                          *)
(*                                                                         *)
(* A JSValue is a tagged union: the tag says how to read the payload.      *)
(*   - integer, boolean, null, undefined: as_int is num;                   *)
(*   - double: the rational num/den; den = 0 is NaN (num = 0) or an        *)
(*     infinity (num = 1 or -1). Rounding and the sign of zero are not     *)
(*     modelled;                                                           *)
(*   - string, object, function, symbol: num stands for the address.       *)
(*     Reading it through as_int gives num, whatever the address is.       *)
(***************************************************************************)
EXTENDS Integers

CONSTANTS
  W,         \* width of int32_t in bits
  BadCast,   \* what (int)d yields in the release build when it is undefined
  TrapOnUB,  \* TRUE: the debug build, where zig cc traps on undefined behaviour
  ObjIds,    \* addresses of objects
  FuncIds    \* addresses of functions

IntMin == -(2^(W - 1))
IntMax == 2^(W - 1) - 1
IntRange == IntMin..IntMax
BitPositions == 0..(W - 1)

\* The bits of the two's complement representation of i.
Bits(i) == {b \in BitPositions : ((i % 2^W) \div 2^b) % 2 = 1}
FromBits(S) == CHOOSE i \in IntRange : Bits(i) = S

ASSUME WidthAssumption ==
  /\ W \in Nat \ {0}
  /\ 2^0 = 1
  /\ \A k \in BitPositions : 2^(k + 1) = 2 * 2^k
  /\ TrapOnUB \in BOOLEAN
  /\ BadCast \in IntRange

ASSUME AddressAssumption == ObjIds \subseteq Int /\ FuncIds \subseteq Int

-----------------------------------------------------------------------------
(* Values.                                                                 *)

JSType == {"integer", "double", "string", "object", "function", "undefined",
           "null", "boolean", "symbol"}

IsValue(v) ==
  /\ v \in [type : JSType, num : Int, den : Nat]
  /\ v.type = "function" => v.num \in FuncIds
  /\ v.type \in {"object", "symbol"} => v.num \in ObjIds

Value == {v \in [type : JSType, num : Int, den : Nat] : IsValue(v)}

Sgn(n) == IF n > 0 THEN 1 ELSE IF n < 0 THEN -1 ELSE 0
Abs(n) == IF n < 0 THEN -n ELSE n

Tagged(type, num) == [type |-> type, num |-> num, den |-> 1]
JSInt(n) == Tagged("integer", n)
JSBool(b) == Tagged("boolean", IF b THEN 1 ELSE 0)
JSString(s) == Tagged("string", s)
JSObject(o) == Tagged("object", o)
JSFunc(f) == Tagged("function", f)
JSUndefined == Tagged("undefined", 0)
JSNull == Tagged("null", 0)
JSDouble(n, d) ==
  [type |-> "double", num |-> IF d = 0 THEN Sgn(n) ELSE n, den |-> d]
JSNaN == JSDouble(0, 0)
JSInfinity(sign) == JSDouble(sign, 0)

\* The strings typeof pushes, as indices of the string pool.
TypeofText == [number |-> 1, string |-> 2, object |-> 3, function |-> 4,
               undefined |-> 5, boolean |-> 6]

-----------------------------------------------------------------------------
(* Doubles and the C conversions between int and double.                   *)

AsDouble(v) == IF v.type = "double" THEN v ELSE JSDouble(v.num, 1)
IsNaN(x) == x.den = 0 /\ x.num = 0

\* C's / and % on integers round towards zero.
CQuot(a, b) == Sgn(a) * Sgn(b) * (Abs(a) \div Abs(b))
\* Mutant: the remainder of a floored division.
CRemFloored(a, b) == a % Abs(b)
CRem(a, b) == a - b * CQuot(a, b)

\* (int)d, which C leaves undefined for NaN, the infinities and a double whose
\* integral part does not fit.
UndefinedCast(x) == x.den = 0 \/ CQuot(x.num, x.den) \notin IntRange
CastToInt(x) == IF UndefinedCast(x) THEN BadCast ELSE CQuot(x.num, x.den)

DSum(x, y) ==
  IF x.den = 0 /\ y.den = 0
  THEN IF x = y THEN x ELSE JSNaN
  ELSE JSDouble(x.num * y.den + y.num * x.den, x.den * y.den)
DNeg(x) == JSDouble(-x.num, x.den)
DProduct(x, y) == JSDouble(x.num * y.num, x.den * y.den)
DQuotient(x, y) ==
  JSDouble(x.num * y.den * Sgn(y.num), x.den * Abs(y.num))
DRemainder(x, y) ==
  CASE x.den = 0 \/ IsNaN(y) -> JSNaN
    [] x.den # 0 /\ y.den = 0 /\ ~IsNaN(y) -> x
    [] OTHER -> JSDouble(CRem(x.num * y.den, y.num * x.den), x.den * y.den)

DLess(x, y) ==
  /\ ~IsNaN(x)
  /\ ~IsNaN(y)
  /\ IF x.den = 0 /\ y.den = 0
     THEN x.num < y.num
     ELSE x.num * y.den < y.num * x.den
DEqual(x, y) == ~IsNaN(x) /\ ~IsNaN(y) /\ ~DLess(x, y) /\ ~DLess(y, x)
DIsZero(x) == x.num = 0 /\ x.den # 0

-----------------------------------------------------------------------------
(* Outcomes. A binary instruction replaces its two operands by its result  *)
(* ("pop"), or overwrites only the top of the stack ("keep"), or ends the  *)
(* process ("panic", "trap"). A unary one replaces the top ("pop").        *)

Outcome(effect, value) == [effect |-> effect, value |-> value]
Pushed(v) == Outcome("pop", v)
Kept(v) == Outcome("keep", v)
Panicked == Outcome("panic", JSUndefined)
Trapped == Outcome("trap", JSUndefined)

\* Signed overflow: the release build wraps, the debug build traps.
Wrap(n) == ((n - IntMin) % 2^W) + IntMin
\* Mutant: an integer wider than int32_t.
IntResultWide(n) == Pushed(JSInt(n))
IntResult(n) ==
  CASE n \in IntRange -> Pushed(JSInt(n))
    [] n \notin IntRange /\ TrapOnUB -> Trapped
    [] OTHER -> Pushed(JSInt(Wrap(n)))

\* The outcome of an instruction that casts the doubles among vs to int.
Casting(vs, out) ==
  IF TrapOnUB /\ \E v \in vs : v.type = "double" /\ UndefinedCast(v)
  THEN Trapped
  ELSE out

\* r == (int)r ? JS_VALUE_INT((int)r) : JS_VALUE_DOUBLE(r)
Collapsed(x) ==
  IF DEqual(x, JSDouble(CastToInt(x), 1)) THEN JSInt(CastToInt(x)) ELSE x
PushCollapsed(x) == Casting({x}, Pushed(Collapsed(x)))

-----------------------------------------------------------------------------
(* Arithmetic.                                                             *)

\* The code overwrites the tag of a boolean or null operand.
Coerced(v) == IF v.type \in {"boolean", "null"} THEN JSInt(v.num) ELSE v

Arithmetic(left, right, leftNaN, rightNaN, IntOp(_, _), DoubleOp(_, _)) ==
  LET l == Coerced(left)
      r == Coerced(right)
  IN  CASE left.type \in leftNaN \/ right.type \in rightNaN -> Kept(JSNaN)
        [] OTHER ->
             IF l.type = "integer" /\ r.type = "integer"
             THEN IntOp(l.num, r.num)
             ELSE IF l.type = "double" \/ r.type = "double"
                  THEN DoubleOp(AsDouble(l), AsDouble(r))
                  ELSE Panicked

NotNumeric == {"undefined", "object", "function"}

IntAdd(a, b) == IntResult(a + b)
DoubleAdd(x, y) == Pushed(DSum(x, y))
inst_add(l, r) ==
  Arithmetic(l, r, {"undefined"}, {"undefined"}, IntAdd, DoubleAdd)

IntMinus(a, b) == IntResult(a - b)
DoubleMinus(x, y) == Pushed(DSum(x, DNeg(y)))
inst_minus(l, r) ==
  Arithmetic(l, r, NotNumeric, NotNumeric, IntMinus, DoubleMinus)

IntMul(a, b) == IntResult(a * b)
DoubleMul(x, y) == PushCollapsed(DProduct(x, y))
inst_mul(l, r) == Arithmetic(l, r, NotNumeric, NotNumeric, IntMul, DoubleMul)

\* Mutant: the quotient is formed before the divisor is looked at.
DoubleDivEager(x, y) == PushCollapsed(DQuotient(x, y))
DoubleDiv(x, y) ==
  CASE DIsZero(y) /\ DIsZero(x) -> Pushed(JSNaN)
    [] DIsZero(y) /\ ~DIsZero(x) ->
         Pushed(JSInfinity(IF DLess(JSDouble(0, 1), x) THEN 1 ELSE -1))
    [] OTHER -> PushCollapsed(DQuotient(x, y))

\* inst_div makes doubles of its operands before it looks for one, so that a
\* string or symbol is divided as soon as the other operand is a number.
DivOperand(v) ==
  CASE v.type = "null" -> JSDouble(0, 1)
    [] v.type \in {"integer", "boolean"} -> AsDouble(v)
    [] OTHER -> v
inst_div(left, right) ==
  LET l == DivOperand(left)
      r == DivOperand(right)
  IN  CASE left.type \in NotNumeric \/ right.type \in NotNumeric \cup {"null"} ->
             Kept(JSNaN)
        [] OTHER -> IF l.type = "double" \/ r.type = "double"
                    THEN DoubleDiv(AsDouble(l), AsDouble(r))
                    ELSE Panicked

\* INT_MIN % -1 is a hardware trap on x86-64 in both builds.
IntMod(a, b) ==
  CASE b = 0 -> Pushed(JSNaN)
    [] a = IntMin /\ b = -1 -> Trapped
    [] OTHER -> Pushed(JSInt(CRem(a, b)))
DoubleMod(x, y) ==
  IF DIsZero(y) THEN Pushed(JSNaN) ELSE PushCollapsed(DRemainder(x, y))
inst_mod(l, r) ==
  Arithmetic(l, r, NotNumeric, NotNumeric \cup {"null"}, IntMod, DoubleMod)

-----------------------------------------------------------------------------
(* Bitwise operators: only integers and doubles count as numbers here.     *)

IsNumber(v) == v.type \in {"integer", "double"}
ToInt(v) == IF v.type = "double" THEN CastToInt(v) ELSE v.num

inst_binary_and(l, r) ==
  IF IsNumber(l) /\ IsNumber(r)
  THEN Casting({l, r}, Pushed(JSInt(FromBits(Bits(ToInt(l)) \cap Bits(ToInt(r))))))
  ELSE Pushed(JSInt(0))

\* With one number only, | and ^ yield that number.
OneNumber(l, r) ==
  CASE IsNumber(l) -> Casting({l}, Pushed(JSInt(ToInt(l))))
    [] ~IsNumber(l) /\ IsNumber(r) -> Casting({r}, Pushed(JSInt(ToInt(r))))
    [] OTHER -> Pushed(JSInt(0))

inst_binary_or(l, r) ==
  IF IsNumber(l) /\ IsNumber(r)
  THEN Casting({l, r}, Pushed(JSInt(FromBits(Bits(ToInt(l)) \cup Bits(ToInt(r))))))
  ELSE OneNumber(l, r)

inst_binary_xor(l, r) ==
  LET a == Bits(ToInt(l))
      b == Bits(ToInt(r))
  IN  IF IsNumber(l) /\ IsNumber(r)
      THEN Casting({l, r}, Pushed(JSInt(FromBits((a \ b) \cup (b \ a)))))
      ELSE OneNumber(l, r)

\* JS_VALUE_DOUBLE((int)left.value.as_double)
Truncated(v) == IF v.type = "double" THEN JSDouble(CastToInt(v), 1) ELSE v

\* A non-number shifts as 0 on the left; on the right it leaves the left
\* operand as it is, a double truncated but still a double.
Shift(l, r, ShiftOp(_, _)) ==
  CASE ~IsNumber(l) -> Pushed(JSInt(0))
    [] IsNumber(l) /\ ~IsNumber(r) -> Casting({l}, Pushed(Truncated(l)))
    [] OTHER -> Casting({l, r}, ShiftOp(ToInt(l), ToInt(r)))

\* A count outside 0..W-1 is undefined: the debug build traps, the release
\* build uses the shift instruction, which takes the count modulo W.
Count(k) == k % W
LeftShift(a, k) ==
  IF TrapOnUB /\ (k \notin BitPositions \/ a < 0 \/ a * 2^Count(k) > IntMax)
  THEN Trapped
  ELSE Pushed(JSInt(FromBits({b + Count(k) : b \in Bits(a)} \cap BitPositions)))
\* Mutant: >> on the unsigned operand.
RightShiftUnsigned(a, k) ==
  Pushed(JSInt(FromBits({b - Count(k) : b \in Bits(a)} \cap BitPositions)))
RightShift(a, k) ==
  IF TrapOnUB /\ k \notin BitPositions
  THEN Trapped
  ELSE Pushed(JSInt(a \div 2^Count(k)))
ZeroRightShift(a, k) ==
  IF TrapOnUB /\ k \notin BitPositions
  THEN Trapped
  ELSE Pushed(JSInt(FromBits({b - Count(k) : b \in Bits(a)} \cap BitPositions)))

inst_binary_lshft(l, r) == Shift(l, r, LeftShift)
inst_binary_rshft(l, r) == Shift(l, r, RightShift)
inst_binary_zrshft(l, r) == Shift(l, r, ZeroRightShift)

-----------------------------------------------------------------------------
(* Comparisons.                                                            *)

\* teq and nteq differ only in the truth value they push.
Equality(l, r, same) ==
  LET Answer(b) == Pushed(JSBool(b = same))
  IN  CASE IsNumber(l) /\ IsNumber(r) -> Answer(DEqual(AsDouble(l), AsDouble(r)))
        [] ~(IsNumber(l) /\ IsNumber(r)) /\ l.type # r.type -> Answer(FALSE)
        [] l.type = r.type /\ l.type \in {"null", "undefined"} -> Answer(TRUE)
        [] l.type = r.type /\ l.type \in {"function", "object"} ->
             Answer(l.num = r.num)
        [] OTHER -> Panicked

inst_teq(l, r) == Equality(l, r, TRUE)
inst_nteq(l, r) == Equality(l, r, FALSE)

Relational(left, right, Rel(_, _)) ==
  LET l == Coerced(left)
      r == Coerced(right)
  IN  CASE "undefined" \in {l.type, r.type} -> Pushed(JSBool(FALSE))
        [] "undefined" \notin {l.type, r.type} /\ IsNumber(l) /\ IsNumber(r) ->
             Pushed(JSBool(Rel(AsDouble(l), AsDouble(r))))
        [] OTHER -> Panicked

Greater(x, y) == DLess(y, x)
GreaterEqual(x, y) == DLess(y, x) \/ DEqual(x, y)
LessEqual(x, y) == DLess(x, y) \/ DEqual(x, y)

inst_gt(l, r) == Relational(l, r, Greater)
\* Mutant: the body of inst_gt, copied.
inst_geq_strict(l, r) == Relational(l, r, Greater)
inst_geq(l, r) == Relational(l, r, GreaterEqual)
inst_lt(l, r) == Relational(l, r, DLess)
inst_leq(l, r) == Relational(l, r, LessEqual)

-----------------------------------------------------------------------------
(* Unary operators and truthiness.                                         *)

\* Mutant: a double is never false.
FalsyIntegers(v) ==
  \/ v.type \in {"undefined", "null"}
  \/ v.type \in {"integer", "boolean"} /\ DIsZero(v)
value_is_falsy(v) ==
  \/ v.type \in {"undefined", "null"}
  \/ v.type \in {"integer", "boolean", "double"} /\ DIsZero(v)

inst_not(v) == Pushed(JSBool(value_is_falsy(v)))

\* A string or symbol operand is complemented through its address.
inst_binary_not(v) ==
  IF v.type \in NotNumeric
  THEN Pushed(JSInt(-1))
  ELSE Casting({v}, Pushed(JSInt(FromBits(BitPositions \ Bits(ToInt(v))))))

inst_negate(v) ==
  LET n == Coerced(v)
  IN  CASE n.type \in NotNumeric -> Pushed(JSNaN)
        [] n.type = "integer" -> IntResult(-n.num)
        [] n.type = "double" -> Pushed(DNeg(n))
        [] OTHER -> Panicked

\* JS_SYMBOL has no return in the switch: the code falls into the panic.
inst_typeof(v) ==
  LET Name(s) == Pushed(JSString(TypeofText[s]))
  IN  CASE IsNumber(v) -> Name("number")
        [] v.type \in {"object", "null"} -> Name("object")
        [] v.type \in {"string", "function", "undefined", "boolean"} ->
             Name(v.type)
        [] OTHER -> Panicked

-----------------------------------------------------------------------------
(* The dispatch table vm->inst_set, as far as these instructions go.       *)

BinaryOpcodes ==
  {"ADD", "MINUS", "MUL", "DIV", "MOD", "BINARY_AND", "BINARY_OR",
   "BINARY_XOR", "BINARY_LSHFT", "BINARY_RSHFT", "BINARY_ZRSHFT",
   "TEQ", "NTEQ", "GT", "GEQ", "LT", "LEQ"}
UnaryOpcodes == {"BINARY_NOT", "NOT", "NEGATE", "TYPEOF"}

Binary(op, l, r) ==
  CASE op = "ADD" -> inst_add(l, r)
    [] op = "MINUS" -> inst_minus(l, r)
    [] op = "MUL" -> inst_mul(l, r)
    [] op = "DIV" -> inst_div(l, r)
    [] op = "MOD" -> inst_mod(l, r)
    [] op = "BINARY_AND" -> inst_binary_and(l, r)
    [] op = "BINARY_OR" -> inst_binary_or(l, r)
    [] op = "BINARY_XOR" -> inst_binary_xor(l, r)
    [] op = "BINARY_LSHFT" -> inst_binary_lshft(l, r)
    [] op = "BINARY_RSHFT" -> inst_binary_rshft(l, r)
    [] op = "BINARY_ZRSHFT" -> inst_binary_zrshft(l, r)
    [] op = "TEQ" -> inst_teq(l, r)
    [] op = "NTEQ" -> inst_nteq(l, r)
    [] op = "GT" -> inst_gt(l, r)
    [] op = "GEQ" -> inst_geq(l, r)
    [] op = "LT" -> inst_lt(l, r)
    [] op = "LEQ" -> inst_leq(l, r)

Unary(op, v) ==
  CASE op = "BINARY_NOT" -> inst_binary_not(v)
    [] op = "NOT" -> inst_not(v)
    [] op = "NEGATE" -> inst_negate(v)
    [] op = "TYPEOF" -> inst_typeof(v)

=============================================================================
