------------------------------ MODULE OpsBench ------------------------------
(***************************************************************************)
(* A bench for the operators of AtomixOps: it applies every instruction to *)
(* every pair of operands of a set and keeps the outcome, which the        *)
(* properties compare with what the operator means in JavaScript.          *)
(***************************************************************************)
EXTENDS AtomixOps, FiniteSets

CONSTANTS Operands   \* the values the instructions are applied to

\* A value as the macros JS_VALUE_* make it: an integer fits int32_t, a boolean
\* is 0 or 1, undefined and null are 0.
Canonical(v) ==
  /\ v.type = "integer" => v.num \in IntRange
  /\ v.type = "boolean" => v.num \in {0, 1}
  /\ v.type \in {"undefined", "null"} => v.num = 0
  /\ IF v.type = "double" THEN v.den = 0 => v.num \in {-1, 0, 1} ELSE v.den = 1

ASSUME OperandsAssumption == \A v \in Operands : IsValue(v) /\ Canonical(v)

VARIABLES op, left, right, outcome

vars == <<op, left, right, outcome>>

Idle == Outcome("none", JSUndefined)

TypeOK ==
  /\ op \in BinaryOpcodes \cup UnaryOpcodes
  /\ left \in Operands
  /\ right \in Operands
  /\ outcome.effect \in {"none", "pop", "keep", "panic", "trap"}
  /\ IsValue(outcome.value) /\ Canonical(outcome.value)

Init ==
  /\ op \in BinaryOpcodes \cup UnaryOpcodes
  /\ left \in Operands
  /\ right \in Operands
  /\ outcome = Idle

EvaluateBinary ==
  /\ outcome = Idle
  /\ op \in BinaryOpcodes
  /\ outcome' = Binary(op, left, right)
  /\ UNCHANGED <<op, left, right>>

EvaluateUnary ==
  /\ outcome = Idle
  /\ op \in UnaryOpcodes
  /\ outcome' = Unary(op, right)
  /\ UNCHANGED <<op, left, right>>

\* The outcome is kept; the bench rests.
Rest ==
  /\ outcome # Idle
  /\ UNCHANGED vars

Next == EvaluateBinary \/ EvaluateUnary \/ Rest

Spec == Init /\ [][Next]_vars

-----------------------------------------------------------------------------
(* Reference semantics.                                                    *)

Finite(v) == IsNumber(v) /\ v.den # 0
Numbers(l, r) == Finite(l) /\ Finite(r)
Evaluated(o) == op = o /\ outcome # Idle
Result == AsDouble(outcome.value)
Left == AsDouble(left)
Right == AsDouble(right)

\* Equal as numbers, or modulo 2^W when two integers overflowed.
Congruent(x, y) ==
  \/ DEqual(x, y)
  \/ /\ left.type = "integer" /\ right.type = "integer"
     /\ x.den = 1 /\ y.den = 1
     /\ (x.num - y.num) % 2^W = 0

\* x is the remainder of l divided by r: l - x is a multiple of r, x is
\* smaller than r and has the sign of l.
IsRemainder(x, l, r) ==
  LET multiple == DQuotient(DSum(l, DNeg(x)), r)
      Magnitude(d) == JSDouble(Abs(d.num), d.den)
  IN  /\ multiple.num % multiple.den = 0
      /\ DLess(Magnitude(x), Magnitude(r))
      /\ x.num # 0 => Sgn(x.num) = Sgn(l.num)

\* On two finite numbers each arithmetic instruction pops both operands and
\* pushes the number that undoes the operation: (l + r) - r = l,
\* (l - r) + r = l, (l * r) is divided back, (l / r) * r = l, and % obeys the
\* law of the truncated remainder; x / 0 and x % 0 are the infinities and NaN
\* JavaScript prescribes. (inst_add, inst_minus, inst_mul, inst_div, inst_mod
\* with their int and double paths and the int collapse.)
ArithmeticIsInvertible ==
  Numbers(left, right) /\ outcome.effect \notin {"none", "trap"} =>
    /\ op \in {"ADD", "MINUS", "MUL", "DIV", "MOD"} => outcome.effect = "pop"
    /\ Evaluated("ADD") => Congruent(DSum(Result, DNeg(Right)), Left)
    /\ Evaluated("MINUS") => Congruent(DSum(Result, Right), Left)
    /\ Evaluated("MUL") =>
         IF left.type = "integer" /\ right.type = "integer"
         THEN Congruent(Result, JSDouble(left.num * right.num, 1))
         ELSE IF DIsZero(Right) THEN DIsZero(Result)
              ELSE DEqual(DQuotient(Result, Right), Left)
    /\ Evaluated("DIV") =>
         CASE ~DIsZero(Right) -> DEqual(DProduct(Result, Right), Left)
           [] DIsZero(Right) /\ DIsZero(Left) -> IsNaN(Result)
           [] OTHER -> Result = JSInfinity(Sgn(left.num))
    /\ Evaluated("MOD") =>
         IF DIsZero(Right) THEN IsNaN(Result)
         ELSE IsRemainder(Result, Left, Right)

\* (int)v is not defined: the double v is not strictly between INT_MIN - 1 and
\* INT_MAX + 1, like NaN, which compares with nothing.
NoInt(v) ==
  /\ v.type = "double"
  /\ ~(DLess(JSDouble(IntMin - 1, 1), v) /\ DLess(v, JSDouble(IntMax + 1, 1)))

ShiftOpcodes == {"BINARY_LSHFT", "BINARY_RSHFT", "BINARY_ZRSHFT"}

\* The operand pairs on which C leaves the operation undefined: the exact
\* result of an integer operation does not fit an int32_t, INT_MIN % -1, a
\* shift count out of range, bits shifted into or past the sign, a product,
\* quotient or remainder of doubles that is compared with its int though it has
\* none, and a double operand without an int in a bitwise instruction.
Undefined ==
  LET Fits(n) == n \in IntRange
      l == Coerced(left)
      r == Coerced(right)
      ints == l.type = "integer" /\ r.type = "integer"
      doubles == /\ "double" \in {l.type, r.type}
                 /\ {l.type, r.type} \cap NotNumeric = {}
      divides == /\ {l.type, r.type} \cap {"integer", "double"} # {}
                 /\ {l.type, r.type} \cap NotNumeric = {}
                 /\ right.type # "null" /\ ~DIsZero(AsDouble(r))
      bothNumbers == IsNumber(left) /\ IsNumber(right)
  IN  \/ op = "ADD" /\ ints /\ ~Fits(l.num + r.num)
      \/ op = "MINUS" /\ ints /\ ~Fits(l.num - r.num)
      \/ op = "MUL" /\ ints /\ ~Fits(l.num * r.num)
      \/ op = "MUL" /\ doubles /\ NoInt(DProduct(AsDouble(l), AsDouble(r)))
      \/ op = "DIV" /\ divides /\ NoInt(DQuotient(AsDouble(l), AsDouble(r)))
      \/ op = "MOD" /\ ints /\ l.num = IntMin /\ r.num = -1
      \/ /\ op = "MOD" /\ doubles /\ divides
         /\ NoInt(DRemainder(AsDouble(l), AsDouble(r)))
      \/ op = "NEGATE" /\ r.type = "integer" /\ ~Fits(-r.num)
      \/ /\ NoInt(left) \/ NoInt(right)
         /\ \/ op \in {"BINARY_OR", "BINARY_XOR"}
            \/ op = "BINARY_AND" /\ bothNumbers
            \/ op \in ShiftOpcodes /\ IsNumber(left)
      \/ op = "BINARY_NOT" /\ NoInt(right)
      \/ op \in ShiftOpcodes /\ bothNumbers /\ ToInt(right) \notin BitPositions
      \/ /\ op = "BINARY_LSHFT" /\ bothNumbers
         /\ ToInt(left) < 0 \/ ~Fits(ToInt(left) * 2^ToInt(right))

\* The debug build, whose compiler flags turn undefined behaviour into a trap.
Debug == INSTANCE AtomixOps WITH TrapOnUB <- TRUE

\* The two builds differ only where C leaves them the choice: the debug build
\* traps exactly on the undefined operand pairs and answers like the release
\* build on all others; the release build dies on INT_MIN % -1 alone. (The
\* signed int32_t arithmetic of inst_add, inst_minus, inst_mul, inst_mod and
\* inst_negate, the counts of the three shifts, and the casts (int)d of inst_mul,
\* inst_div, inst_mod and the bitwise instructions, in both builds of
\* engine/builder.ts.)
BuildsAgree ==
  LET debug == IF op \in UnaryOpcodes THEN Debug!Unary(op, right)
                                      ELSE Debug!Binary(op, left, right)
  IN  outcome # Idle =>
        /\ debug.effect = "trap" <=> Undefined
        /\ ~Undefined => debug = outcome
        /\ outcome.effect = "trap" => op = "MOD" /\ Undefined

\* The six comparisons are six separate functions that have to agree: < is >
\* with the operands swapped, <= and >= are < and > or equality, === and !==
\* are complements, and two numbers other than NaN satisfy exactly one of <,
\* > and ===. (inst_teq, inst_nteq, inst_gt, inst_geq, inst_lt, inst_leq.)
ComparisonsAgree ==
  LET Says(out) == out.effect = "pop" /\ out.value = JSBool(TRUE)
      lt == Says(inst_lt(left, right))
      gt == Says(inst_gt(left, right))
      eq == Says(inst_teq(left, right))
      comparable == /\ IsNumber(left) /\ IsNumber(right)
                    /\ ~IsNaN(Left) /\ ~IsNaN(Right)
  IN  /\ inst_lt(left, right) = inst_gt(right, left)
      /\ inst_leq(left, right) = inst_geq(right, left)
      /\ inst_teq(left, right).effect = "pop" =>
           Says(inst_nteq(left, right)) = ~eq
      /\ IsNumber(left) /\ IsNumber(right) =>
           /\ Says(inst_leq(left, right)) = (lt \/ eq)
           /\ Says(inst_geq(left, right)) = (gt \/ eq)
      /\ comparable =>
           Cardinality({t \in {<<1, lt>>, <<2, gt>>, <<3, eq>>} : t[2]}) = 1

\* Truth, equality and the logical complement agree: a number counts as false
\* exactly when it === 0, so that NaN counts as true (in JavaScript it is
\* false), a boolean when it is false, undefined and null always, and nothing
\* else; and !!v is a boolean that counts like v. (value_is_falsy, on which
\* JMP_F, JMP_T and inst_not rest, against inst_teq and inst_not.)
TruthAgrees ==
  LET falsy == value_is_falsy(right)
      Negated(v) == inst_not(v).value
  IN  /\ IsNumber(right) => falsy = (inst_teq(right, JSInt(0)) = Pushed(JSBool(TRUE)))
      /\ IsNaN(right) => ~falsy
      /\ ~IsNumber(right) =>
           falsy = (right \in {JSBool(FALSE), JSUndefined, JSNull})
      /\ Negated(Negated(right)) = JSBool(~falsy)

\* On two integers the bitwise instructions are two's complement arithmetic:
\* (l & r) + (l | r) = l + r, (l ^ r) + 2 (l & r) = l + r, ~x = -x - 1, and a
\* shift by k multiplies by 2^k modulo 2^W or divides rounding down, >>> doing
\* so on the unsigned operand. (inst_binary_and .. inst_binary_not.)
BitwiseIsTwosComplement ==
  LET Pair == left.type = "integer" /\ right.type = "integer"
      Num(out) == out.value.num
      conj == Num(inst_binary_and(left, right))
      disj == Num(inst_binary_or(left, right))
      excl == Num(inst_binary_xor(left, right))
      ShiftOK(out, n) == out.effect = "pop" => (Num(out) - n) % 2^W = 0
  IN  Pair =>
        /\ conj + disj = left.num + right.num
        /\ (excl + 2 * conj - left.num - right.num) % 2^W = 0
        /\ Num(inst_binary_not(left)) = -left.num - 1
        /\ right.num \in BitPositions =>
             /\ ShiftOK(inst_binary_lshft(left, right), left.num * 2^right.num)
             /\ inst_binary_rshft(left, right).value.num
                  = left.num \div 2^right.num
             /\ ShiftOK(inst_binary_zrshft(left, right),
                        (left.num % 2^W) \div 2^right.num)

=============================================================================
