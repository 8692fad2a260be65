------------------------------ MODULE Programs ------------------------------
(***************************************************************************)
(* Source files as syntax trees for Compiler: programs of tests/src (with  *)
(* small numbers), of the import protocol, and programs the VM stops with  *)
(* a panic. Module m of the bundle is MCSources[m] of MCVM.                *)
(***************************************************************************)
EXTENDS Compiler

SourceNames ==
  {NoName, "this", "prototype", "constructor", "length", "description",
   "print", "Module", "Object", "Array", "Function", "Symbol", "getExportObj",
   "importModule", "instantiate", "create", "setPrototypeOf", "isArray",
   "toPrimitive", "call", "default",
   "a", "b", "c", "i", "f", "g", "n", "p", "x", "0", "1", "A", "B", "@0", "@1"}

\* String literals, after the six texts of typeof.
John == 7
Jane == 8
Foo == 9
Bar == 10

Id(k) == Identifier(k)
Show(e) == ExpressionStatement(CallExpression(Id("print"), <<e>>))
ShowAll(list) == Parts([i \in DOMAIN list |-> Show(list[i])])
Do(e) == ExpressionStatement(e)
Call(k, args) == CallExpression(Id(k), args)
Method(obj, k, args) == CallExpression(Member(obj, k), args)
Set(k, e) == Do(Assignment(k, e))
SetMember(obj, k, e) == Do(MemberAssignment(Member(obj, k), e))
Array(elements) == ArrayExpression(elements)
IsArray(e) == Method(Id("Array"), "isArray", <<e>>)
Plus(l, r) == BinaryExpression("ADD", l, r)
Minus(l, r) == BinaryExpression("MINUS", l, r)
Less(l, r) == BinaryExpression("LT", l, r)
Same(l, r) == BinaryExpression("TEQ", l, r)

-----------------------------------------------------------------------------
\* statements/variables/4.js, divsion/1.js, negate, typeof
Numbers == <<
  Let("a", Int32(20)), Let("b", Double(61, 2)),
  ShowAll(<<Plus(Id("a"), Int32(30)), Plus(Id("a"), Id("b")),
             BinaryExpression("DIV", Double(3, 2), Double(1, 2)),
             BinaryExpression("DIV", Boolean(FALSE), Boolean(FALSE)),
             UnaryExpression("NEGATE", ObjectExpression(<<>>)),
             UnaryExpression("void", Null),
             UnaryExpression("TYPEOF", Id("a"))>>)>>

\* scope/0.js, 1.js, 5.js, statements/if, while/0.js
Scopes == <<
  Let("a", Int32(20)),
  FunctionDeclaration("f", <<>>, Block(<<Let("a", Int32(30)), Show(Id("a"))>>)),
  Do(Call("f", <<>>)),
  Show(Id("a")),
  Block(<<Let("a", Int32(40)), Show(Id("a"))>>),
  If(Int32(0), Show(Int32(1))),
  IfElse(Int32(0), Block(<<Set("a", Int32(1))>>), Block(<<Set("a", Int32(50))>>)),
  If(Int32(1), Set("b", Null)),
  Show(Id("a"))>>
ScopesWithGlobal == <<Let("b", Id("undefined"))>> \o Scopes

\* algo/fib.js, with 4 turns
Fib == <<
  Let("a", Int32(0)), Let("b", Int32(1)),
  For(<<Let("i", Int32(0))>>, Less(Id("i"), Int32(4)),
      CompoundAssignment("ADD", "i", Int32(1)),
      Block(<<Let("c", Plus(Id("a"), Id("b"))), Show(Id("c")),
              Set("a", Id("b")), Set("b", Id("c"))>>))>>

\* statements/functions/4.js, 2.js, return/1.js; a closure over a parameter
Functions_ == <<
  FunctionDeclaration("f", <<"a", "b">>, Block(<<Return(Plus(Id("a"), Id("b")))>>)),
  Show(Call("f", <<Int32(10), Int32(20)>>)),
  Let("g", FunctionExpression(<<"n">>, Block(<<
    Return(FunctionExpression(<<>>, Block(<<Return(Id("n"))>>)))>>))),
  Show(CallExpression(Call("g", <<Int32(5)>>), <<>>)),
  FunctionDeclaration("p", <<>>, Block(<<
    If(Boolean(TRUE), Block(<<ReturnNothing>>)), Show(Null)>>)),
  Show(Call("p", <<>>))>>

\* core/array/0.js, 1.js, 2.js
Arrays == <<
  Let("a", Array(<<Int32(1), Int32(2)>>)),
  Let("b", Call("Array", <<Member(Id("a"), "length")>>)),
  Let("c", Call("Array", <<Computed(Id("a"), Int32(1)), Null>>)),
  ShowAll(<<IsArray(Id("a")), IsArray(Id("b")), IsArray(ObjectExpression(<<>>)),
             IsArray(Id("print")),
             Same(Member(Id("a"), "length"), Member(Id("b"), "length")),
             Computed(Id("b"), Int32(0)), Computed(Id("c"), Int32(0))>>)>>

\* core/object/0.js, 2.js, 3.js, 4.js
Objects == <<
  FunctionDeclaration("p", <<"n">>, Block(<<
    SetMember(This, "a", Id("n")),
    SetMember(This, "f", FunctionExpression(<<>>, Block(<<Show(Member(This, "a"))>>)))>>)),
  Let("a", New(Id("p"), <<String(John)>>)),
  Let("b", Method(Id("Object"), "instantiate", <<Id("p"), String(Jane)>>)),
  ShowAll(<<Id("a"), Member(Id("a"), "a"), Member(Id("b"), "a")>>),
  Do(Method(Id("a"), "f", <<>>)),
  Show(Same(Member(Id("a"), "constructor"), Id("p"))),
  Let("c", Method(Id("Object"), "create", <<Id("a")>>)),
  Show(Member(Id("c"), "a")),
  Show(Method(Id("Object"), "create", <<>>))>>

\* core/object/1.js, core/function/0.js
This_ == <<
  FunctionDeclaration("f", <<>>, Block(<<Show(This)>>)),
  Do(Call("f", <<>>)),
  Do(New(Id("f"), <<>>)),
  Do(Method(Id("f"), "call", <<>>)),
  Do(Method(Id("f"), "call", <<ObjectExpression(<<>>)>>))>>

-----------------------------------------------------------------------------
\* transform/class/6.js, 4.js and 0.js in one
Classes == <<
  ClassDeclaration("A", NoName, <<"x">>, <<SetMember(This, "x", Id("x"))>>,
    <<[key |-> "f", params |-> <<>>, static |-> FALSE,
       body |-> Block(<<Show(Member(This, "x"))>>)],
      [key |-> "g", params |-> <<>>, static |-> TRUE,
       body |-> Block(<<Show(String(Foo))>>)]>>,
    <<<<"n", Int32(20)>>>>, <<Show(Member(Id("A"), "n"))>>),
  ClassDeclaration("B", "A", <<"x">>, <<Do(SuperCall("A", <<Id("x")>>))>>,
    <<[key |-> "f", params |-> <<>>, static |-> FALSE,
       body |-> Block(<<Show(String(Bar)), Do(Method(Super("A", FALSE), "f", <<>>))>>)],
      [key |-> "g", params |-> <<>>, static |-> TRUE,
       body |-> Block(<<Do(Method(Super("A", TRUE), "g", <<>>))>>)]>>,
    <<>>, <<>>),
  Let("b", New(Id("B"), <<Int32(7)>>)),
  Do(Method(Id("b"), "f", <<>>)),
  Do(Method(Id("B"), "g", <<>>)),
  Show(Member(Id("B"), "n"))>>

\* primtive/9.js
Symbols == <<
  Let("a", Call("Symbol", <<String(Foo)>>)),
  Let("b", Call("Symbol", <<Int32(1)>>)),
  Let("c", ObjectExpression(<<>>)),
  Do(MemberAssignment(Computed(Id("c"), Id("a")), String(Bar))),
  Do(MemberAssignment(Computed(Id("c"), Id("b")), Int32(2))),
  ShowAll(<<Computed(Id("c"), Id("a")), Computed(Id("c"), Id("b")), Id("a")>>)>>

\* statements/destruct/0.js
Destructuring == <<
  Let("f", ObjectExpression(<< <<"a", Int32(20)>>, <<"b", Int32(30)>> >>)),
  LetPattern(<< <<"a", "a">>, <<"b", "c">> >>, Id("f")),
  ShowAll(<<Id("a"), Id("c")>>)>>

\* Calls of natives with arguments they do not accept, and of natives by natives.
Natives_ == <<
  ShowAll(<<Call("Object", <<>>), Call("Function", <<>>),
             Call("Array", <<Double(1, 2)>>),
             Method(Id("Object"), "instantiate", <<Int32(1)>>),
             Method(Id("Object"), "setPrototypeOf", <<Null, Null>>),
             Method(Id("Module"), "importModule", <<Null>>),
             Method(Id("Array"), "isArray", <<>>),
             New(Id("Array"), <<>>)>>),
  Do(CallExpression(Id("print"), <<>>)),
  Show(New(Id("Symbol"), <<>>)),
  SetMember(Id("Symbol"), "prototype", Null),
  Show(New(Id("Symbol"), <<>>)),
  Show(Method(Id("Function"), "call", <<Null>>)),
  Let("a", Method(Id("Module"), "getExportObj", <<>>)),
  SetMember(Id("a"), "call", Member(Id("Function"), "call")),
  Show(Method(Id("a"), "call", <<>>)),
  Show(Method(Id("Object"), "create", <<Id("a")>>))>>

-----------------------------------------------------------------------------
\* A function that loops, leaves a loop by return, and recurses.
Recursion(turns) == <<
  FunctionDeclaration("f", <<"n">>, Block(<<
    While(Less(Int32(0), Id("n")), Block(<<
      Return(Call("f", <<Minus(Id("n"), Int32(1))>>))>>)),
    Return(String(Bar))>>)),
  Show(Call("f", <<Int32(turns)>>))>>

Endless == <<
  FunctionDeclaration("f", <<>>, Block(<<Do(Call("f", <<>>))>>)),
  Do(Call("f", <<>>))>>

\* The instructions the compiler does not emit.
Assembled == <<
  Assembler(Plain("NOP")), Boolean(TRUE), Assembler(WithInt("JMP_T", 5)), Show(Int32(0)),
  Assembler(Plain("RETURN")), Null, Assembler(WithInt("JMP_T", -3)), Show(Int32(1)),
  Do(CallExpression(FunctionExpression(<<>>, Block(<<Assembler(Plain("NOP"))>>)), <<>>))>>

\* Import: the entry point E imports P, which imports Q, which imports P and E.
\* An import passes the halves of the hash of the source file, the low one first,
\* and importModule takes the first for the high one (Bundle): it only finds a
\* module whose halves are equal, and that of module 1 are not.
H(m) == IF m = 1 THEN <<0, 1>> ELSE <<m, m>>
Entry(self, p) == <<
  Show(String(John)),
  ImportNamed(<< <<"a", "a">> >>, H(p)),
  ImportNamespace("b", H(p)),
  Exported(<<Let("x", Int32(1))>>, <<<<"x", "x">>>>),
  ShowAll(<<Id("a"), Member(Id("b"), "default")>>)>>
Provider(q) == <<
  Show(String(Jane)),
  ImportBare(H(q)),
  Exported(<<Let("a", Int32(3))>>, <<<<"a", "a">>>>),
  Exported(<<FunctionDeclaration("f", <<>>, Block(<<>>))>>, <<<<"f", "f">>>>),
  Exported(<<>>, <<<<"f", "g">>>>),
  ExportDefault(Int32(4))>>
Cyclic(p, e) == <<
  ImportNamespace("p", H(p)),
  Show(Member(Id("p"), "a")),
  If(Same(Member(Id("p"), "a"), Id("undefined")), ImportBare(H(e)))>>
Missing == <<ImportBare(H(1))>>

Dies(e) == <<Show(Int32(1)), Do(e), Show(Int32(2))>>

Cycle(e) == <<
  Let("a", ObjectExpression(<<>>)),
  Do(Method(Id("Object"), "setPrototypeOf", <<Id("a"), Id("print")>>)),
  Do(Method(Id("Object"), "setPrototypeOf", <<Id("print"), Id("a")>>)),
  Show(Member(Id("a"), "prototype")),
  Do(e)>>

\* function f(a, b) { print(b); }  10 + f(1);
MissingArgument == <<
  FunctionDeclaration("f", <<"a", "b">>, Block(<<Show(Id("b"))>>)),
  Do(Plus(Int32(10), Call("f", <<Int32(1)>>)))>>

\* function f() { const {a} = {a: 1}; }  print(f());
Leaves == <<
  FunctionDeclaration("f", <<>>, Block(<<
    LetPattern(<< <<"a", "a">> >>, ObjectExpression(<< <<"a", Int32(1)>> >>))>>)),
  Show(Call("f", <<>>))>>

\* function f(n) { if (0 < n) { f(n - 1); } print(n); }  f(1);
Activations == <<
  FunctionDeclaration("f", <<"n">>, Block(<<
    If(Less(Int32(0), Id("n")), Block(<<Do(Call("f", <<Minus(Id("n"), Int32(1))>>))>>)),
    Show(Id("n"))>>)),
  Do(Call("f", <<Int32(1)>>))>>

=============================================================================
