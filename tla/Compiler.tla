------------------------------ MODULE Compiler ------------------------------
(***************************************************************************)
(* The compiler: the code generation of pipe.ts and the rewriting of the   *)
(* syntax tree in transform.ts. A node of the tree is a record with its    *)
(* type; pipeNode gives the code pipe.ts emits for it. The operand of a    *)
(* jump counts from the next instruction until beginPipe turns it into an  *)
(* address. Names stand for their index in the string table; a string      *)
(* literal is an index of the string pool.                                 *)
(***************************************************************************)
EXTENDS Integers, SequencesExt

NoName == "*"   \* the operand of an instruction that names nothing

Ins(op, n, m, k) == [op |-> op, n |-> n, m |-> m, k |-> k]

Plain(op) == <<Ins(op, 0, 0, NoName)>>
WithInt(op, n) == <<Ins(op, n, 0, NoName)>>
WithName(op, k) == <<Ins(op, 0, 0, k)>>

RECURSIVE pipeNode(_)

\* The code of a list of nodes, one after the other.
pipeNodes(list) == FlattenSeq([i \in DOMAIN list |-> pipeNode(list[i])])

-----------------------------------------------------------------------------
(* The syntax tree.                                                        *)

\* A node for instructions that stand in the code as they are.
Assembler(code) == [type |-> "Assembler", code |-> code]
Parts(list) == [type |-> "Parts", list |-> list]

Int32(n) == Assembler(WithInt("LD_INT", n))
Double(n, d) == Assembler(<<Ins("LD_DOUBLE", n, d, NoName)>>)
String(i) == Assembler(WithInt("LD_STRING", i))
Boolean(b) == Assembler(Plain(IF b THEN "LD_TRUE" ELSE "LD_FALSE"))
Null == Assembler(Plain("LD_NULL"))
This == Assembler(Plain("LD_THIS"))
Identifier(k) ==
  Assembler(IF k = "undefined" THEN Plain("LD_UNDF") ELSE WithName("LOAD_LOCAL", k))

BinaryExpression(op, l, r) == [type |-> "BinaryExpression", op |-> op, left |-> l, right |-> r]
UnaryExpression(op, e) == [type |-> "UnaryExpression", op |-> op, argument |-> e]
\* isStatic tells super in a static method from super in another.
Super(class, isStatic) == [type |-> "Super", class |-> class, isStatic |-> isStatic]
Member(obj, k) == [type |-> "MemberExpression", object |-> obj, name |-> k]
Computed(obj, e) == [type |-> "MemberExpression", object |-> obj, name |-> NoName, index |-> e]
CallExpression(callee, args) == [type |-> "CallExpression", callee |-> callee, args |-> args]
\* A property is <<name, value>>.
ObjectExpression(properties) == [type |-> "ObjectExpression", properties |-> properties]
ArrayExpression(elements) == [type |-> "ArrayExpression", elements |-> elements]
Assignment(k, e) == [type |-> "AssignmentExpression", name |-> k, right |-> e]
MemberAssignment(target, e) == [type |-> "MemberAssignment", target |-> target, right |-> e]
FunctionDeclaration(name, params, body) ==
  [type |-> "FunctionDeclaration", name |-> name, params |-> params, body |-> body]
FunctionExpression(params, body) ==
  [type |-> "FunctionExpression", name |-> NoName, params |-> params, body |-> body]

ExpressionStatement(e) == [type |-> "ExpressionStatement", expression |-> e]
Let(k, e) == [type |-> "VariableDeclarator", name |-> k, init |-> e]
\* A pattern {key: name, ..} is a sequence of <<key, name>>.
LetPattern(pattern, e) == [type |-> "PatternDeclarator", pattern |-> pattern, init |-> e]
Block(list) == [type |-> "BlockStatement", body |-> list]
Return(e) == [type |-> "ReturnStatement", argument |-> <<e>>]
ReturnNothing == [type |-> "ReturnStatement", argument |-> <<>>]
IfElse(test, consequent, alternate) ==
  [type |-> "IfStatement", test |-> test, consequent |-> consequent, alternate |-> <<alternate>>]
If(test, consequent) ==
  [type |-> "IfStatement", test |-> test, consequent |-> consequent, alternate |-> <<>>]
While(test, body) == [type |-> "WhileStatement", test |-> test, body |-> body]
\* The declaration, and then one EXPORT of each name.
Exported(declaration, specifiers) ==
  [type |-> "ExportNamed", declaration |-> declaration, specifiers |-> specifiers]
ExportDefault(e) == [type |-> "ExportDefault", declaration |-> e]

-----------------------------------------------------------------------------
(* Expressions.                                                            *)

pipeBinaryExpression(node) ==
  pipeNode(node.left) \o pipeNode(node.right) \o Plain(node.op)

pipeUnaryExpression(node) ==
  pipeNode(node.argument)
  \o IF node.op = "void" THEN Plain("POP") \o Plain("LD_UNDF") ELSE Plain(node.op)

pipeSuper(node) ==
  WithName("LOAD_LOCAL", node.class)
  \o IF node.isStatic THEN <<>> ELSE WithName("OBJ_LOAD", "prototype")

\* doubleObject: the object stays below the property, as this of a call.
pipeMemberExpression(node, doubleObject) ==
  (CASE doubleObject /\ node.object.type = "Super" ->
          Plain("LD_THIS") \o pipeNode(node.object)
     [] doubleObject /\ node.object.type # "Super" ->
          pipeNode(node.object) \o Plain("DUP")
     [] OTHER -> pipeNode(node.object))
  \o IF node.name = NoName THEN pipeNode(node.index) \o Plain("OBJ_CLOAD")
                            ELSE WithName("OBJ_LOAD", node.name)

\* Mutant: the arguments are pushed first to last.
pipeCallForward(node) ==
  pipeNodes(node.args)
  \o (IF node.callee.type = "MemberExpression"
       THEN pipeMemberExpression(node.callee, TRUE)
       ELSE Plain("LD_UNDF") \o pipeNode(node.callee))
  \o WithInt("CALL", Len(node.args))

pipeCallExpression(node) ==
  pipeNodes(Reverse(node.args))
  \o (IF node.callee.type = "MemberExpression"
       THEN pipeMemberExpression(node.callee, TRUE)
       ELSE Plain("LD_UNDF") \o pipeNode(node.callee))
  \o WithInt("CALL", Len(node.args))

\* The object stays on the stack while value is stored in it.
StoreProperty(value, k) == Plain("DUP") \o value \o WithName("OBJ_STORE", k)

pipeObjectExpression(node) ==
  Plain("OBJ_ALLOC")
  \o FlattenSeq([i \in DOMAIN node.properties |->
       StoreProperty(pipeNode(node.properties[i][2]), node.properties[i][1])])

\* The names of the two indices the arrays of the programs have.
IndexName(i) == CASE i = 0 -> "0" [] i = 1 -> "1"

pipeArrayExpression(node) ==
  Plain("ARR_ALLOC")
  \o StoreProperty(WithInt("LD_INT", Len(node.elements)), "length")
  \o FlattenSeq([i \in DOMAIN node.elements |->
       StoreProperty(pipeNode(node.elements[i]), IndexName(i - 1))])

pipeAssignmentExpression(node) ==
  pipeNode(node.right) \o Plain("DUP") \o WithName("STORE_LOCAL", node.name)

pipeMemberAssignment(node) ==
  pipeNode(node.right) \o Plain("DUP") \o pipeNode(node.target.object)
  \o IF node.target.name = NoName
      THEN pipeNode(node.target.index) \o Plain("OBJ_CSTORE")
      ELSE Plain("SWAP") \o WithName("OBJ_STORE", node.target.name)

\* Argument 0 is this, so parameter n of the list is argument n.
LoadParams(params) ==
  FlattenSeq([n \in DOMAIN params |->
    WithInt("LOAD_ARG", n) \o WithName("ALLOC_LOCAL", params[n])])

pipeFunction(node) ==
  LET code == LoadParams(node.params) \o pipeNode(node.body)
  IN  <<IF node.name = NoName THEN Ins("FUNC_DECL_E", Len(code), 0, NoName)
                              ELSE Ins("FUNC_DECL", 0, Len(code), node.name)>>
      \o code

-----------------------------------------------------------------------------
(* Statements.                                                             *)

pipeExpressionStatement(node) == pipeNode(node.expression) \o Plain("POP")

pipeVariableDeclarator(node) == pipeNode(node.init) \o WithName("ALLOC_LOCAL", node.name)

\* The object itself is left on the stack.
pipePatternDeclarator(node) ==
  pipeNode(node.init)
  \o FlattenSeq([i \in DOMAIN node.pattern |->
       Plain("DUP") \o WithName("OBJ_LOAD", node.pattern[i][1])
       \o WithName("ALLOC_LOCAL", node.pattern[i][2])])

\* A declared function leaves its value, which a list of statements drops.
pipeStatements(list) ==
  FlattenSeq([i \in DOMAIN list |->
    IF list[i].type = "FunctionDeclaration" THEN pipeNode(list[i]) \o Plain("POP")
                                            ELSE pipeNode(list[i])])

pipeBlockStatement(node) ==
  Plain("PUSH_SCOPE") \o pipeStatements(node.body) \o Plain("POP_SCOPE")

pipeReturnStatement(node) == pipeNodes(node.argument) \o Plain("RETURN")

pipeIfStatement(node) ==
  LET consequent == pipeNode(node.consequent)
      alternate == pipeNodes(node.alternate)
      over == IF node.alternate = <<>> THEN <<>> ELSE WithInt("JMP", Len(alternate))
  IN  pipeNode(node.test) \o WithInt("JMP_F", Len(consequent) + Len(over))
      \o consequent \o over \o alternate

\* Mutant: the loop jumps back behind its test.
pipeWhileUntested(node) ==
  LET test == pipeNode(node.test)
      body == pipeNode(node.body)
  IN  test \o WithInt("JMP_F", Len(body) + 1)
      \o body \o WithInt("JMP", -(Len(body) + 1))

pipeWhileStatement(node) ==
  LET test == pipeNode(node.test)
      body == pipeNode(node.body)
  IN  test \o WithInt("JMP_F", Len(body) + 1)
      \o body \o WithInt("JMP", -(Len(test) + Len(body) + 2))

\* A specifier is <<name, exported name>>. An exported function leaves its
\* value, which the first EXPORT takes.
pipeExportNamed(node) ==
  LET Loaded(s) ==
        IF node.declaration # <<>> /\ node.declaration[1].type = "FunctionDeclaration"
        THEN <<>> ELSE WithName("LOAD_LOCAL", s[1])
  IN  pipeNodes(node.declaration)
      \o FlattenSeq([i \in DOMAIN node.specifiers |->
           Loaded(node.specifiers[i]) \o WithName("EXPORT", node.specifiers[i][2])])

pipeExportDefault(node) == pipeNode(node.declaration) \o WithName("EXPORT", "default")

pipeNode(node) ==
  CASE node.type = "Assembler" -> node.code
    [] node.type = "Parts" -> pipeStatements(node.list)
    [] node.type = "BinaryExpression" -> pipeBinaryExpression(node)
    [] node.type = "UnaryExpression" -> pipeUnaryExpression(node)
    [] node.type = "Super" -> pipeSuper(node)
    [] node.type = "MemberExpression" -> pipeMemberExpression(node, FALSE)
    [] node.type = "CallExpression" -> pipeCallExpression(node)
    [] node.type = "ObjectExpression" -> pipeObjectExpression(node)
    [] node.type = "ArrayExpression" -> pipeArrayExpression(node)
    [] node.type = "AssignmentExpression" -> pipeAssignmentExpression(node)
    [] node.type = "MemberAssignment" -> pipeMemberAssignment(node)
    [] node.type \in {"FunctionDeclaration", "FunctionExpression"} -> pipeFunction(node)
    [] node.type = "ExpressionStatement" -> pipeExpressionStatement(node)
    [] node.type = "VariableDeclarator" -> pipeVariableDeclarator(node)
    [] node.type = "PatternDeclarator" -> pipePatternDeclarator(node)
    [] node.type = "BlockStatement" -> pipeBlockStatement(node)
    [] node.type = "ReturnStatement" -> pipeReturnStatement(node)
    [] node.type = "IfStatement" -> pipeIfStatement(node)
    [] node.type = "WhileStatement" -> pipeWhileStatement(node)
    [] node.type = "ExportNamed" -> pipeExportNamed(node)
    [] node.type = "ExportDefault" -> pipeExportDefault(node)

-----------------------------------------------------------------------------
(* transform.ts: what is rewritten into the nodes above.                   *)

CompoundAssignment(op, k, e) ==
  Assignment(k, BinaryExpression(op, Identifier(k), e))

\* packNodes marks the body as extra.virtual, pipe.ts asks for isVirtual: the
\* pair of body and update gets a scope of its own.
For(init, test, update, body) ==
  Parts(init \o <<While(test, Block(<<body, ExpressionStatement(update)>>))>>)

New(constructor, args) ==
  CallExpression(Member(Identifier("Object"), "instantiate"), <<constructor>> \o args)

SuperCall(class, args) ==
  CallExpression(Member(Identifier(class), "call"), <<This>> \o args)

\* A method is [key, params, body, static]; a static property <<key, value>>.
transformClass(name, superClass, params, body, methods, properties, blocks) ==
  LET class == Identifier(name)
      prototype == Member(class, "prototype")
      Assigned(target, e) == ExpressionStatement(MemberAssignment(target, e))
      extendsNodes ==
        IF superClass = NoName THEN <<>>
        ELSE <<Assigned(prototype,
                 CallExpression(Member(Identifier("Object"), "create"),
                                <<Member(Identifier(superClass), "prototype")>>)),
               ExpressionStatement(
                 CallExpression(Member(Identifier("Object"), "setPrototypeOf"),
                                <<class, Identifier(superClass)>>))>>
      Methods(static) ==
        LET chosen == SelectSeq(methods, LAMBDA m : m.static = static)
        IN  [i \in DOMAIN chosen |->
               Assigned(Member(IF static THEN class ELSE prototype, chosen[i].key),
                        FunctionExpression(chosen[i].params, chosen[i].body))]
  IN  CallExpression(
        FunctionExpression(<<>>, Block(
          <<FunctionDeclaration(name, params, Block(body))>>
          \o extendsNodes
          \o <<Assigned(Member(prototype, "constructor"), class)>>
          \o Methods(FALSE) \o Methods(TRUE)
          \o [i \in DOMAIN properties |->
                Assigned(Member(class, properties[i][1]), properties[i][2])]
          \o blocks
          \o <<Return(class)>>)),
        <<>>)
ClassDeclaration(name, superClass, params, body, methods, properties, blocks) ==
  Let(name, transformClass(name, superClass, params, body, methods, properties, blocks))

ImportCall(hash) ==
  CallExpression(Member(Identifier("Module"), "importModule"),
                 <<Int32(hash[1]), Int32(hash[2])>>)
ImportBare(hash) == ExpressionStatement(ImportCall(hash))
ImportNamespace(k, hash) == Let(k, ImportCall(hash))
ImportNamed(pattern, hash) == LetPattern(pattern, ImportCall(hash))

-----------------------------------------------------------------------------

\* Program: the data section of a source file, jumps resolved to addresses
\* (instruction i of the sequence has address i - 1).
beginPipe(body) ==
  LET code == pipeStatements(body)
  IN  [i \in DOMAIN code |->
         IF code[i].op \in {"JMP", "JMP_F", "JMP_T"}
         THEN [code[i] EXCEPT !.n = @ + i]
         ELSE code[i]]

=============================================================================
