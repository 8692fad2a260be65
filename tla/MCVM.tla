-------------------------------- MODULE MCVM --------------------------------
(***************************************************************************)
(* Model checking VM on compiled programs. The bundle holds every program; *)
(* the entry point is chosen initially.                                    *)
(***************************************************************************)
EXTENDS VMProperties, FiniteSets, TLC

P == INSTANCE Programs

\* (module, statements) in the order of the bundle.
MCSources == <<
  P!Numbers, P!ScopesWithGlobal, P!Fib, P!Functions_, P!Arrays, P!Objects,      \* 1..6
  P!This_, P!Classes, P!Symbols, P!Destructuring, P!Natives_, P!Recursion(2),   \* 7..12
  P!Assembled, P!Entry(14, 15), P!Provider(16), P!Cyclic(15, 14),               \* 13..16
  P!Endless, P!Missing,                                                         \* 17..18
  P!Dies(P!Id("x")), P!Dies(P!Assignment("x", P!Null)),                         \* 19..20
  P!Dies(P!CallExpression(P!Null, <<>>)), P!Dies(P!Member(P!Null, "x")),        \* 21..22
  P!Dies(P!Plus(P!String(P!Foo), P!Int32(1))),                                  \* 23
  P!Cycle(P!Member(P!Id("a"), "x")), P!Cycle(P!IsArray(P!Id("a"))),             \* 24..25
  P!MissingArgument, P!Leaves, P!Activations>>                                  \* 26..28

\* TLC evaluates the definition that a cfg gives a CONSTANT at every use, and a
\* function constructor at every application; Compiled, Limits and Depths are
\* evaluated once because \o and @@ make explicit functions of them.
Compiled == <<>> \o [m \in DOMAIN MCSources |-> <<>> \o P!beginPipe(MCSources[m])]
MCCode == Compiled
MCEntries == (DOMAIN MCSources) \ {15, 16, 28}
MissingArgumentEntries == {26}
ActivationsEntries == {28}
MCObjIds == 1..MaxObjs
MCFuncIds == 1..MaxFuncs
MCHash == [m \in DOMAIN MCSources |-> <<P!H(m)[2], P!H(m)[1]>>]
MCNames == P!SourceNames
MCOtherKey == P!NoName

\* value_to_string of the keys the programs compute. Two symbols that are
\* allocated one after the other have different keys.
MCText ==
  [v \in {JSInt(0), JSInt(1)} \cup {Tagged("symbol", o) : o \in ObjIds} |->
     CASE v = JSInt(0) -> "0"
       [] v = JSInt(1) -> "1"
       [] v.type = "symbol" -> IF v.num % 2 = 0 THEN "@0" ELSE "@1"]

\* The output of node: 1..10 and 12 are programs of tests/src, or close to one.
\* Program 28 is the one the machine prints something else for. None calls a function
\* in front of its declaration: node hoists declarations, pipe.ts does not.
Str(i) == JSString(i)
Obj == Tagged("object", 0)
MCExpected ==
  1 :> <<JSInt(50), JSDouble(101, 2), JSInt(3), JSNaN, JSNaN, JSUndefined, Str(1)>> @@
  2 :> <<JSInt(30), JSInt(20), JSInt(40), JSInt(50)>> @@
  3 :> <<JSInt(1), JSInt(2), JSInt(3), JSInt(5)>> @@
  4 :> <<JSInt(30), JSInt(5), JSUndefined>> @@
  5 :> <<JSBool(TRUE), JSBool(TRUE), JSBool(FALSE), JSBool(FALSE), JSBool(TRUE),
         JSUndefined, JSInt(2)>> @@
  6 :> <<Obj, Str(P!John), Str(P!Jane), Str(P!John), JSBool(TRUE), Str(P!John), Obj>> @@
  7 :> <<JSUndefined, Obj, JSUndefined, Obj>> @@
  8 :> <<JSInt(20), Str(P!Bar), JSInt(7), Str(P!Foo), JSInt(20)>> @@
  9 :> <<Str(P!Bar), JSInt(2), Tagged("symbol", 0)>> @@
  10 :> <<JSInt(20), JSInt(30)>> @@
  12 :> <<Str(P!Bar)>> @@
  28 :> <<JSInt(0), JSInt(1)>>

-----------------------------------------------------------------------------
(* The annotation of the compiled code: the smallest function body around  *)
(* an instruction, and the least depth along the paths that reach it.      *)

Least(S) == CHOOSE x \in S : \A y \in S : x <= y
Greatest(S) == CHOOSE x \in S : \A y \in S : x >= y

LimitOf(code) ==
  [i \in 0..Len(code) |->
     Least({Len(code)} \cup
           {f + BodySize(code[f]) : f \in
              {f \in 1..Len(code) : /\ IsFunctionDeclaration(code[f])
                                    /\ i \in f..(f + BodySize(code[f]) - 1)}})]
  @@ <<>>

Unreached == 99
Branches == {"JMP", "JMP_F", "JMP_T", "FUNC_DECL", "FUNC_DECL_E"}

\* Backward jumps lower no depth, so one pass in the order of addresses does:
\* depth[j + 1] is the depth at j, and one turn appends the next.
Turn(code, limit, depth) ==
  LET j == Len(depth)
      Into == {depth[i + 1] - Pops(code[i + 1]) + Pushes(code[i + 1]) :
                 i \in {i \in 0..(j - 1) :
                          /\ i = j - 1 \/ code[i + 1].op \in Branches
                          /\ j \in Successors(code[i + 1], i)
                          /\ j < limit[i]}}
      AtStart == IsFunctionDeclaration(code[j]) /\ BodySize(code[j]) > 0
  IN  Append(depth, Least(Into \cup {IF AtStart THEN 0 ELSE Unreached}))

\* n turns, halved (and the first half evaluated by a comparison) so that TLC's recursion stays shallow.
RECURSIVE Turns(_, _, _, _)
Turns(code, limit, depth, n) ==
  CASE n = 0 -> depth
    [] n = 1 -> Turn(code, limit, depth)
    [] OTHER -> LET half == Turns(code, limit, depth, n \div 2)
                IN  IF half = <<>> THEN half
                    ELSE Turns(code, limit, half, n - n \div 2)

DepthOf(code) ==
  LET limit == LimitOf(code)
      depth == Turns(code, limit, <<0>>, Len(code))
  IN  [i \in 0..Len(code) |-> depth[i + 1]] @@ <<>>

Limits ==
  LET code == Compiled IN <<>> \o [m \in DOMAIN code |-> LimitOf(code[m])]
Depths ==
  LET code == Compiled IN <<>> \o [m \in DOMAIN code |-> DepthOf(code[m])]

\* The blocks around an instruction: what is pushed before it and not yet popped,
\* less that at the start of the function body it belongs to.
Open(code, i) == Cardinality({j \in 1..i : code[j].op = "PUSH_SCOPE"})
                 - Cardinality({j \in 1..i : code[j].op = "POP_SCOPE"})
BodyStart(code, i) ==
  Greatest({0} \cup {f \in 1..i : /\ IsFunctionDeclaration(code[f])
                                  /\ i < f + BodySize(code[f])})
NestingOf(code) ==
  [i \in 0..Len(code) |-> Open(code, i) - Open(code, BodyStart(code, i))] @@ <<>>
Nestings ==
  LET code == Compiled IN <<>> \o [m \in DOMAIN code |-> NestingOf(code[m])]
MCNesting == Nestings
MCLimit == Limits
MCDepth == Depths

=============================================================================
