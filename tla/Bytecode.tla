------------------------------ MODULE Bytecode ------------------------------
(***************************************************************************)
(* The instruction set shared by the compiler (pipe.ts) and the virtual    *)
(* machine (execution.c): an instruction, the number of operands it takes  *)
(* from the stack and gives back, and the condition under which an         *)
(* annotation of every instruction with a stack depth is consistent.       *)
(***************************************************************************)
EXTENDS AtomixOps, Sequences

CONSTANTS Names   \* the strings of the string tables used as names

Opcodes ==
  BinaryOpcodes \cup UnaryOpcodes \cup
  {"NOP", "LD_INT", "LD_DOUBLE", "LD_STRING", "LD_UNDF", "LD_NULL", "LD_TRUE",
   "LD_FALSE", "LD_THIS", "POP", "DUP", "SWAP", "ALLOC_LOCAL", "STORE_LOCAL",
   "LOAD_LOCAL", "LOAD_ARG", "FUNC_DECL", "FUNC_DECL_E", "CALL", "ARR_ALLOC",
   "OBJ_ALLOC", "OBJ_STORE", "OBJ_LOAD", "OBJ_CLOAD", "OBJ_CSTORE", "RETURN",
   "PUSH_SCOPE", "POP_SCOPE", "JMP", "JMP_F", "JMP_T", "EXPORT"}

\* n and m are the numeric operands (m is the denominator of a double and the
\* size of a named function), k is the operand that indexes the string table.
Instruction == [op : Opcodes, n : Int, m : Nat, k : Names]

\* Operands an instruction reads, and values it leaves in their place.
Pops(inst) ==
  CASE inst.op \in BinaryOpcodes \cup {"SWAP", "OBJ_STORE", "OBJ_CLOAD"} -> 2
    [] inst.op \in UnaryOpcodes \cup
         {"POP", "DUP", "ALLOC_LOCAL", "STORE_LOCAL", "OBJ_LOAD", "JMP_F",
          "JMP_T", "EXPORT"} -> 1
    [] inst.op = "OBJ_CSTORE" -> 3
    [] inst.op = "CALL" -> inst.n + 2
    [] OTHER -> 0

Pushes(inst) ==
  CASE inst.op \in BinaryOpcodes \cup UnaryOpcodes \cup
         {"LD_INT", "LD_DOUBLE", "LD_STRING", "LD_UNDF", "LD_NULL", "LD_TRUE",
          "LD_FALSE", "LD_THIS", "LOAD_LOCAL", "LOAD_ARG", "FUNC_DECL",
          "FUNC_DECL_E", "CALL", "ARR_ALLOC", "OBJ_ALLOC", "OBJ_LOAD",
          "OBJ_CLOAD"} -> 1
    [] inst.op \in {"DUP", "SWAP"} -> 2
    [] OTHER -> 0

\* Number of instructions of a function body.
BodySize(inst) == IF inst.op = "FUNC_DECL" THEN inst.m ELSE inst.n

IsFunctionDeclaration(inst) == inst.op \in {"FUNC_DECL", "FUNC_DECL_E"}

\* Where execution may continue after instruction i (a RETURN falls through:
\* at module level it does nothing).
Successors(inst, i) ==
  CASE inst.op = "JMP" -> {inst.n}
    [] inst.op \in {"JMP_F", "JMP_T"} -> {i + 1, inst.n}
    [] IsFunctionDeclaration(inst) -> {i + 1 + BodySize(inst)}
    [] OTHER -> {i + 1}

-----------------------------------------------------------------------------
(* What the compiler guarantees of its output, as an annotation of every   *)
(* instruction i: limit[i] is the end of the function body (or module) that *)
(* i belongs to, and at least depth[i] operands lie on the stack, above    *)
(* those of the caller, when i starts.                                     *)

\* Code that belongs to [.., end) may continue at j with d operands.
Fits(depth, limit, j, end, d) ==
  j < end => /\ limit[j] = end
             /\ depth[j] <= d

Consistent(code, depth, limit) ==
  /\ depth \in [0..Len(code) -> Nat]
  /\ limit \in [0..Len(code) -> Nat]
  /\ Fits(depth, limit, 0, Len(code), 0)
  /\ \A i \in 0..(Len(code) - 1) :
       LET inst == code[i + 1]
       IN  /\ Pops(inst) <= depth[i]
           /\ inst.op \in {"CALL", "LOAD_ARG"} => inst.n \in Nat
           /\ \A j \in Successors(inst, i) :
                /\ j \in Nat
                /\ Fits(depth, limit, j, limit[i], depth[i] - Pops(inst) + Pushes(inst))
           /\ IsFunctionDeclaration(inst) =>
                /\ BodySize(inst) \in Nat
                /\ i + 1 + BodySize(inst) <= Len(code)
                /\ Fits(depth, limit, i + 1, i + 1 + BodySize(inst), 0)

\* In the same way, at least nesting[i] of the scopes that the body pushed are
\* open when i starts.
OpenAfter(inst, n) ==
  CASE inst.op = "PUSH_SCOPE" -> n + 1
    [] inst.op = "POP_SCOPE" -> n - 1
    [] OTHER -> n

Balanced(code, limit, nesting) ==
  /\ nesting \in [0..Len(code) -> Nat]
  /\ nesting[0] = 0
  /\ \A i \in 0..(Len(code) - 1) :
       LET inst == code[i + 1]
       IN  /\ inst.op = "POP_SCOPE" => nesting[i] > 0
           /\ \A j \in Successors(inst, i) :
                j < limit[i] => nesting[j] <= OpenAfter(inst, nesting[i])
           /\ IsFunctionDeclaration(inst) /\ BodySize(inst) > 0 => nesting[i + 1] = 0

=============================================================================
