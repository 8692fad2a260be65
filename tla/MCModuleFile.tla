---------------------------- MODULE MCModuleFile ----------------------------
(* Every opcode with its operands, at the boundaries of their widths, and   *)
(* strings of every kind. A byte has 64 values: characters below 32 are     *)
(* ASCII, 32..47 continue a sequence, 50 and 51 begin one.                   *)
EXTENDS ModuleFile

Inst(op, operands) == [op |-> op, operands |-> operands]
Short(n) == [unit |-> "short", value |-> n]
Int32Operand(n) == [unit |-> "int", value |-> n]
Double == [unit |-> "double", value |-> <<1, 0, 63, 2, 50, 40, 7, 31>>]

\* What pipe.ts gives each opcode.
WithShort ==
  {"LD_STRING", "ALLOC_LOCAL", "STORE_LOCAL", "LOAD_LOCAL", "LOAD_ARG", "CALL",
   "OBJ_STORE", "OBJ_LOAD", "EXPORT"}
Jumps == {"JMP", "JMP_F", "JMP_T", "FUNC_DECL_E"}
Plain == ToSet(Opcodes) \ (WithShort \cup Jumps \cup {"LD_INT", "LD_DOUBLE", "FUNC_DECL"})

MCPatches ==
  {Inst(op, <<Short(SHORT - 1)>>) : op \in Jumps}
  \cup {Inst("FUNC_DECL", <<Short(1), Short(n)>>) : n \in {2, SHORT}}
MCInsts ==
  {Inst(op, <<>>) : op \in Plain} \cup {Inst(op, <<Short(65)>>) : op \in WithShort}
  \cup {Inst("LD_INT", <<Int32Operand(n)>>) :
          n \in {0, -1, INT \div 2 - 1, -(INT \div 2), INT \div 2, INT + 5}}
  \cup {Inst("LD_DOUBLE", <<Double>>), Inst("CALL", <<Short(SHORT)>>)}

\* Empty, ASCII, with a NUL, lone bytes of the upper half, a sequence that reads
\* as one character, and a character that is no byte.
MCStrings ==
  {<<>>, <<1, 2>>, <<3, 0, 4>>, <<40>>, <<1, 50>>, <<51, 41, 5>>, <<64>>}

=============================================================================
