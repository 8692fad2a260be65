----------------------------- MODULE MCOpsBench -----------------------------
(* Operands for OpsBench: every type of value, the boundary integers, both  *)
(* infinities and doubles on either side of the ends of the int range.      *)
EXTENDS OpsBench

MCOperands ==
  {JSInt(n) : n \in {IntMin, IntMin + 1, -3, -1, 0, 1, 2, 5, IntMax}}
  \cup {JSDouble(n, 2) : n \in {-3, 0, 1, 2, 5}}
  \cup {JSDouble(n, 2) : n \in {2 * IntMin - 1, 2 * IntMin - 2,
                               2 * IntMax + 1, 2 * IntMax + 2}}
  \cup {JSNaN, JSInfinity(1), JSInfinity(-1), JSUndefined, JSNull,
        JSBool(TRUE), JSBool(FALSE), JSString(1), JSObject(1), JSObject(2),
        JSFunc(1), Tagged("symbol", 1)}

=============================================================================
