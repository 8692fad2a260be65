----------------------------- MODULE ModuleFile -----------------------------
(***************************************************************************)
(* What is inside the file of a module, byte by byte: the compiler fills a *)
(* string table and a data section (format/stable.ts, format/data.ts) and  *)
(* writes them (binary.ts); atomixc bundle may read the file and write it  *)
(* again (readFrom); the virtual machine loads it (core/loader.c) and      *)
(* reads strings out of its table (core/format.c). Headers and hashes are  *)
(* those of Bundle; positions count from the start of the string table.    *)
(*                                                                         *)
(* A byte has BYTE values, so that a uint16_t has BYTE^2 and an int32_t    *)
(* has BYTE^4. A string is a sequence of character codes.                  *)
(***************************************************************************)
EXTENDS Integers, SequencesExt

CONSTANTS
  BYTE,       \* number of values of a byte
  Strings,    \* the names and literals of the program
  Insts,      \* the instructions the compiler emits
  Patches,    \* the instructions that replace a placeholder (jumps, functions)
  MaxInsts, MaxParts,  \* bounds on the instructions, and on both sections
  MaxLength   \* bound on the length of a string

SHORT == BYTE * BYTE
INT == SHORT * SHORT

\* The enumerations of opcodes.ts and of instruction.impl.h: a byte stands for
\* the opcode at its place. DECLARE_FUNC is called FUNC_DECL here.
Opcodes ==
  <<"NOP", "LD_INT", "LD_DOUBLE", "LD_STRING", "LD_UNDF", "LD_NULL", "LD_TRUE",
    "LD_FALSE", "LD_THIS", "ADD", "MINUS", "MUL", "DIV", "MOD", "BINARY_AND",
    "BINARY_OR", "BINARY_XOR", "BINARY_LSHFT", "BINARY_RSHFT", "BINARY_ZRSHFT",
    "BINARY_NOT", "NOT", "NEGATE", "TYPEOF", "TEQ", "NTEQ", "GT", "GEQ", "LT",
    "LEQ", "POP", "DUP", "SWAP", "ALLOC_LOCAL", "STORE_LOCAL", "LOAD_LOCAL",
    "LOAD_ARG", "FUNC_DECL", "FUNC_DECL_E", "CALL", "ARR_ALLOC", "OBJ_ALLOC",
    "OBJ_STORE", "OBJ_LOAD", "OBJ_CLOAD", "OBJ_CSTORE", "RETURN", "PUSH_SCOPE",
    "POP_SCOPE", "JMP", "JMP_F", "JMP_T", "EXPORT">>
Opcode ==
  <<"NOP", "LD_INT", "LD_DOUBLE", "LD_STRING", "LD_UNDF", "LD_NULL", "LD_TRUE",
    "LD_FALSE", "LD_THIS", "ADD", "MINUS", "MUL", "DIV", "MOD", "BINARY_AND",
    "BINARY_OR", "BINARY_XOR", "BINARY_LSHFT", "BINARY_RSHFT", "BINARY_ZRSHFT",
    "BINARY_NOT", "NOT", "NEGATE", "TYPEOF", "TEQ", "NTEQ", "GT", "GEQ", "LT",
    "LEQ", "POP", "DUP", "SWAP", "ALLOC_LOCAL", "STORE_LOCAL", "LOAD_LOCAL",
    "LOAD_ARG", "FUNC_DECL", "FUNC_DECL_E", "CALL", "ARR_ALLOC", "OBJ_ALLOC",
    "OBJ_STORE", "OBJ_LOAD", "OBJ_CLOAD", "OBJ_CSTORE", "RETURN", "PUSH_SCOPE",
    "POP_SCOPE", "JMP", "JMP_F", "JMP_T", "EXPORT">>

\* The operands of each opcode, for pipe.ts that emits them and the readers.
operandDictionary(op) ==
  CASE op = "LD_INT" -> <<"int">>
    [] op = "LD_DOUBLE" -> <<"double">>
    [] op \in {"LD_STRING", "ALLOC_LOCAL", "STORE_LOCAL", "LOAD_LOCAL", "LOAD_ARG",
               "FUNC_DECL_E", "CALL", "OBJ_STORE", "OBJ_LOAD", "JMP", "JMP_F",
               "JMP_T", "EXPORT"} -> <<"short">>
    [] op = "FUNC_DECL" -> <<"short", "short">>
    [] OTHER -> <<>>

Operand ==
  [unit : {"short", "int"}, value : Int]
  \cup [unit : {"double"}, value : [1..8 -> 0..(BYTE - 1)]]
Instruction == [op : ToSet(Opcodes), operands : Seq(Operand)]

\* Sections are shorter than a uint32_t can say. (The second line says what ^ is.)
ASSUME FileAssumption ==
  /\ BYTE \in Nat /\ BYTE >= Len(Opcodes) /\ BYTE % 2 = 0
  /\ BYTE^0 = 1 /\ \A k \in 0..2 : BYTE^(k + 1) = BYTE * BYTE^k
  /\ \A x \in Strings : x \in Seq(Nat) /\ Len(x) <= MaxLength
  /\ \A inst \in Insts \cup Patches :
       /\ inst \in Instruction
       /\ [i \in DOMAIN inst.operands |-> inst.operands[i].unit] = operandDictionary(inst.op)
  /\ MaxInsts \in Nat /\ MaxParts \in Nat /\ MaxLength \in Nat
  /\ 8 + MaxParts * (MaxLength + 8) < INT

VARIABLES
  strings, offsets, tlength,  \* STableSection
  insts, dlength,             \* DataSection
  source,    \* the strings and instructions of the compiler (history)
  file,      \* the bytes written, and the offset of the data section
  bundled,   \* the file went through atomixc bundle
  table,     \* StringTable of the virtual machine
  loaded,    \* data_section.instructions, as far as they are loaded
  position,  \* where load_instruction reads
  phase

sections == <<strings, offsets, tlength, insts, dlength>>
machine == <<table, loaded, position>>
vars == <<sections, source, file, bundled, machine, phase>>

-----------------------------------------------------------------------------
(* binary.ts, size.ts: numbers and operands.                               *)

\* The w bytes of n, the lowest first.
LittleEndian(n, w) == [i \in 1..w |-> (n \div BYTE^(i - 1)) % BYTE]

\* What writeTo puts into the file: writeU16, writeI32(value >> 0), writeDouble.
\* A double is the sequence of its eight bytes.
OperandBytes(x) ==
  CASE x.unit = "short" -> LittleEndian(x.value, 2)
    [] x.unit = "int" -> LittleEndian(x.value % INT, 4)
    [] x.unit = "double" -> x.value

\* operand.length; ConstantDoubleOperand counts one "int".
OperandLength(x) == CASE x.unit = "short" -> 2 [] x.unit \in {"int", "double"} -> 4

Total(S, n) == FoldLeft(LAMBDA sum, x : sum + OperandLength(x), n, S)

\* writeU8 and writeU16 throw on a number that does not fit.
Unwritable(x) == x.unit = "short" /\ x.value \notin 0..(SHORT - 1)

-----------------------------------------------------------------------------
(* The compiler.                                                           *)

HasRoom == phase = "compiling" /\ Len(strings) + Len(insts) < MaxParts

\* registerString: a string that is there already keeps its index.
registerString(x) ==
  /\ HasRoom
  /\ ~Contains(strings, x)
  /\ strings' = Append(strings, x)
  /\ offsets' = Append(offsets, IF strings = <<>> THEN 0
                                ELSE Last(offsets) + Len(Last(strings)))
  /\ tlength' = tlength + 4 + Len(x)
  /\ UNCHANGED <<insts, dlength, source, file, bundled, machine, phase>>

addInstruction(inst) ==
  /\ HasRoom
  /\ Len(insts) < MaxInsts
  /\ insts' = Append(insts, inst)
  /\ dlength' = Total(inst.operands, dlength + 1)
  /\ UNCHANGED <<strings, offsets, tlength, source, file, bundled, machine, phase>>

\* Mutant: the operands of the new instruction are not counted.
ReplaceUncounted(i, inst) ==
  /\ phase = "compiling"
  /\ insts[i].op = "NOP"
  /\ insts' = [insts EXCEPT ![i] = inst]
  /\ UNCHANGED <<strings, offsets, tlength, dlength, source, file, bundled, machine, phase>>

\* pipe.ts puts a NOP where a jump or a function begins and replaces it when
\* the length of the body is known. A NOP has no operands to take off.
replaceInstruction(i, inst) ==
  /\ phase = "compiling"
  /\ insts[i].op = "NOP"
  /\ insts' = [insts EXCEPT ![i] = inst]
  /\ dlength' = Total(inst.operands, dlength)
  /\ UNCHANGED <<strings, offsets, tlength, source, file, bundled, machine, phase>>

-----------------------------------------------------------------------------
(* Writing.                                                                *)

TableBytes ==
  LittleEndian(tlength, 4) \o LittleEndian(Len(strings), 4)
  \o FlattenSeq([i \in DOMAIN offsets |-> LittleEndian(offsets[i], 4)])
  \o FlattenSeq(strings)

InstBytes(inst) ==
  <<SelectInSeq(Opcodes, LAMBDA op : op = inst.op) - 1>>
  \o FlattenSeq([i \in DOMAIN inst.operands |-> OperandBytes(inst.operands[i])])

DataBytes ==
  LittleEndian(dlength, 4) \o LittleEndian(Len(insts), 4)
  \o FlattenSeq([i \in DOMAIN insts |-> InstBytes(insts[i])])

\* Mutant: characters are not checked.
WritableOperands ==
  \A i \in DOMAIN insts : \A j \in DOMAIN insts[i].operands :
    ~Unwritable(insts[i].operands[j])
\* Mutant: a byte of the upper half is refused.
WritableAscii ==
  /\ \A i \in DOMAIN strings : \A j \in DOMAIN strings[i] : strings[i][j] < BYTE \div 2
  /\ WritableOperands

\* writeU8 throws on a character that is not a byte.
Writable ==
  /\ \A i \in DOMAIN strings : \A j \in DOMAIN strings[i] : strings[i][j] < BYTE
  /\ \A i \in DOMAIN insts : \A j \in DOMAIN insts[i].operands :
       ~Unwritable(insts[i].operands[j])

\* buildModule puts the data section behind the length of the string table.
write ==
  /\ phase = "compiling"
  /\ source' = [strings |-> strings, insts |-> insts]
  /\ IF Writable
     THEN /\ file' = [data |-> tlength, bytes |-> TableBytes \o DataBytes]
          /\ phase' = "written"
     ELSE phase' = "rejected" /\ UNCHANGED file
  /\ UNCHANGED <<sections, bundled, machine>>

-----------------------------------------------------------------------------
(* Reading. BinaryReader and the READ macros of the loader agree.          *)

READ_U16(p) == file.bytes[p + 1] + BYTE * file.bytes[p + 2]
READ_U32(p) == READ_U16(p) + SHORT * READ_U16(p + 2)
READ_I32(p) == LET n == READ_U32(p) IN IF n < INT \div 2 THEN n ELSE n - INT

Width(unit) == CASE unit = "short" -> 2 [] unit = "int" -> 4 [] unit = "double" -> 8
WidthOf(units) == FoldLeft(LAMBDA sum, unit : sum + Width(unit), 0, units)

\* Two operands are always shorts.
Operands(units, p) ==
  [i \in DOMAIN units |->
     LET q == p + 2 * (i - 1)
     IN  [unit |-> units[i],
          value |-> CASE units[i] = "short" -> READ_U16(q)
                      [] units[i] = "int" -> READ_I32(q)
                      [] units[i] = "double" -> SubSeq(file.bytes, q + 1, q + 8)]]

\* The string table at the start of the file: where string i begins and ends.
Count == READ_U32(4)
Texts == 8 + 4 * Count
OffsetOf(i) == READ_U32(8 + 4 * (i - 1))
EndOf(i) == IF i < Count THEN OffsetOf(i + 1) ELSE READ_U32(0) - Texts

-----------------------------------------------------------------------------
(* atomixc bundle: readFrom, then writeTo.                                 *)

\* The lead bytes of the two-byte sequences that stand for a character below
\* BYTE, and the bytes that may follow them.
Lead == 3 * (BYTE \div 4) + 2
Continues(b) == b \in (BYTE \div 2)..(3 * (BYTE \div 4) - 1)
REPLACEMENT == SHORT - 3

\* Mutant: the string ends at a NUL.
toStringCut(b) ==
  IF Contains(b, 0) THEN SubSeq(b, 1, SelectInSeq(b, LAMBDA c : c = 0) - 1) ELSE b

\* buffer.toString('utf8'): a byte of the upper half is a character of its own
\* only as part of a sequence. Longer sequences decode to characters that no
\* byte holds, like REPLACEMENT.
toString(b) ==
  LET Pair(i) == i \in DOMAIN b /\ i < Len(b) /\ b[i] \in {Lead, Lead + 1}
                   /\ Continues(b[i + 1])
      Char(i) == CASE Pair(i) -> b[i + 1] + (b[i] - Lead) * (BYTE \div 4)
                   [] b[i] < BYTE \div 2 -> b[i]
                   [] OTHER -> REPLACEMENT
  IN  FlattenSeq([i \in DOMAIN b |-> IF Pair(i - 1) THEN <<>> ELSE <<Char(i)>>])

\* STableSection.readFrom, and the header of the data section.
readTable ==
  /\ phase = "written" /\ ~bundled
  /\ tlength' = READ_U32(0)
  /\ offsets' = [i \in 1..Count |-> OffsetOf(i)]
  /\ strings' = [i \in 1..Count |->
                   toString(SubSeq(file.bytes, Texts + OffsetOf(i) + 1, Texts + EndOf(i)))]
  /\ dlength' = READ_U32(READ_U32(0))
  /\ insts' = <<>>
  /\ position' = READ_U32(0) + 8
  /\ phase' = "reading"
  /\ UNCHANGED <<source, file, bundled, table, loaded>>

\* One turn of the loop in DataSection.readFrom.
readInstruction ==
  /\ phase = "reading"
  /\ Len(insts) < READ_U32(tlength + 4)
  /\ LET op == Opcodes[file.bytes[position + 1] + 1]
         units == operandDictionary(op)
     IN  /\ insts' = Append(insts, [op |-> op, operands |-> Operands(units, position + 1)])
         /\ position' = position + 1 + WidthOf(units)
  /\ UNCHANGED <<strings, offsets, tlength, dlength, source, file, bundled, table,
                 loaded, phase>>

\* The module is written again; its header still names the old data section.
rewrite ==
  /\ phase = "reading"
  /\ Len(insts) = READ_U32(tlength + 4)
  /\ bundled' = TRUE
  /\ IF Writable
     THEN /\ file' = [file EXCEPT !.bytes = TableBytes \o DataBytes]
          /\ phase' = "written"
     ELSE phase' = "rejected" /\ UNCHANGED file
  /\ UNCHANGED <<sections, source, machine>>

-----------------------------------------------------------------------------
(* The virtual machine.                                                    *)

load_string_table ==
  /\ phase = "written"
  /\ table' = [length |-> READ_U32(0), count |-> Count,
               offsets |-> [i \in 1..Count |-> OffsetOf(i)],
               strings |-> SubSeq(file.bytes, Texts + 1, READ_U32(0))]
  /\ position' = file.data + 8
  /\ loaded' = <<>>
  /\ phase' = "loading"
  /\ UNCHANGED <<sections, source, file, bundled>>

\* Mutant: a function declaration is read with one operand.
InstUnitsShort(op) ==
  CASE op = "LD_INT" -> <<"int">>
    [] op = "LD_DOUBLE" -> <<"double">>
    [] op \in {"LD_STRING", "ALLOC_LOCAL", "STORE_LOCAL", "LOAD_LOCAL", "LOAD_ARG",
               "FUNC_DECL", "FUNC_DECL_E", "CALL", "OBJ_STORE", "OBJ_LOAD", "JMP",
               "JMP_F", "JMP_T", "EXPORT"} -> <<"short">>
    [] OTHER -> <<>>

\* The switch of load_instruction.
InstUnits(op) ==
  CASE op = "LD_INT" -> <<"int">>
    [] op = "LD_DOUBLE" -> <<"double">>
    [] op \in {"LD_STRING", "ALLOC_LOCAL", "STORE_LOCAL", "LOAD_LOCAL", "LOAD_ARG",
               "FUNC_DECL_E", "CALL", "OBJ_STORE", "OBJ_LOAD", "JMP", "JMP_F",
               "JMP_T", "EXPORT"} -> <<"short">>
    [] op = "FUNC_DECL" -> <<"short", "short">>
    [] OTHER -> <<>>

\* A NOP and a byte that is no opcode become NULL.
OpAt(p) ==
  LET code == file.bytes[p + 1] + 1
  IN  IF code \in 2..Len(Opcode) THEN Opcode[code] ELSE "NULL"

InFile(p, n) == p + n <= Len(file.bytes)
HasCount == InFile(file.data, 8)
More == Len(loaded) < READ_U32(file.data + 4)
InstInFile ==
  InFile(position, 1) /\ InFile(position + 1, WidthOf(InstUnits(OpAt(position))))

\* One turn of the loop in load_data_section.
load_instruction ==
  /\ phase = "loading"
  /\ HasCount
  /\ More
  /\ InstInFile
  /\ LET op == OpAt(position)
     IN  /\ loaded' = Append(loaded, [op |-> op,
                                      operands |-> Operands(InstUnits(op), position + 1)])
         /\ position' = position + 1 + WidthOf(InstUnits(op))
  /\ UNCHANGED <<sections, source, file, bundled, table, phase>>

\* Reading past the end of the buffer is undefined.
Overrun ==
  /\ phase = "loading"
  /\ HasCount => More /\ ~InstInFile
  /\ phase' = "overrun"
  /\ UNCHANGED <<sections, source, file, bundled, machine>>

Loaded ==
  /\ phase = "loading"
  /\ HasCount
  /\ ~More
  /\ phase' = "loaded"
  /\ UNCHANGED <<sections, source, file, bundled, machine>>

\* The bytes string_table_load_str copies for string i.
string_table_load_str(i) ==
  LET offset == table.offsets[i]
      length == IF i = table.count
                THEN table.length - (offset + 8 + 4 * table.count)
                ELSE table.offsets[i + 1] - offset
  IN  SubSeq(table.strings, offset + 1, offset + length)

-----------------------------------------------------------------------------

Init ==
  /\ strings = <<>> /\ offsets = <<>> /\ tlength = 8
  /\ insts = <<>> /\ dlength = 8
  /\ source = [strings |-> <<>>, insts |-> <<>>]
  /\ file = [data |-> 0, bytes |-> <<>>]
  /\ bundled = FALSE
  /\ table = [length |-> 0, count |-> 0, offsets |-> <<>>, strings |-> <<>>]
  /\ loaded = <<>>
  /\ position = 0
  /\ phase = "compiling"

\* The module is loaded, or one of the tools gave up.
Stopped == phase \in {"loaded", "rejected", "overrun"} /\ UNCHANGED vars

Next ==
  \/ \E x \in Strings : registerString(x)
  \/ \E inst \in Insts : addInstruction(inst)
  \/ \E i \in DOMAIN insts, inst \in Patches : replaceInstruction(i, inst)
  \/ write \/ readTable \/ readInstruction \/ rewrite
  \/ load_string_table \/ load_instruction \/ Overrun
  \/ Loaded \/ Stopped

Spec == Init /\ [][Next]_vars

-----------------------------------------------------------------------------

TypeOK ==
  /\ \A i \in DOMAIN file.bytes : file.bytes[i] \in 0..(BYTE - 1)
  /\ Len(offsets) = Len(strings)
  /\ tlength \in Nat /\ dlength \in Nat /\ position \in Nat
  /\ bundled \in BOOLEAN
  /\ phase \in {"compiling", "written", "reading", "loading", "loaded", "rejected",
                "overrun"}

\* The lengths that are kept up to date with every string, instruction and
\* replacement are those of the bytes that writeTo produces, so that the data
\* section begins where the header says; only a double is counted four bytes
\* short. (registerString, addInstruction and replaceInstruction against
\* writeTo; ConstantDoubleOperand.)
LengthsAddUp ==
  LET doubles == {i \in DOMAIN insts : insts[i].op = "LD_DOUBLE"}
  IN  phase = "compiling" =>
        /\ Len(TableBytes) = tlength
        /\ Len(DataBytes) = dlength + 4 * Cardinality(doubles)

IsAscii(s) == \A j \in DOMAIN s : s[j] < BYTE \div 2
Ascii == \A i \in DOMAIN source.strings : IsAscii(source.strings[i])

\* An integer literal is read back modulo 2^32.
Int32(n) == ((n + INT \div 2) % INT) - INT \div 2
InMachine(inst) ==
  [op |-> IF inst.op = "NOP" THEN "NULL" ELSE inst.op,
   operands |-> [i \in DOMAIN inst.operands |->
                   IF inst.operands[i].unit = "int"
                   THEN [inst.operands[i] EXCEPT !.value = Int32(@)]
                   ELSE inst.operands[i]]]

\* The virtual machine loads the instructions and the strings that the compiler
\* registered: three programs agree on opcodes, widths, byte order and offsets.
\* A file that went through atomixc bundle keeps this as long as its strings are
\* ASCII. (DataSection.writeTo, readFrom and load_instruction; STableSection and
\* string_table_load_str.)
LoadsWhatWasCompiled ==
  phase \in {"loading", "loaded", "overrun"} /\ (bundled => Ascii) =>
    /\ phase # "overrun"
    /\ IsPrefix(loaded, [i \in DOMAIN source.insts |-> InMachine(source.insts[i])])
    /\ phase = "loaded" => Len(loaded) = Len(source.insts)
    /\ table.count = Len(source.strings)
    /\ \A i \in DOMAIN source.strings : string_table_load_str(i) = source.strings[i]

\* atomixc bundle copies an ASCII module byte for byte, although it takes it
\* apart and puts it together again. (readFrom and writeTo of both sections;
\* the lengths are those read, not counted again.)
BundlingKeepsFile ==
  [][phase = "reading" /\ phase' = "written" /\ Ascii => file' = file]_vars

\* The writer gives up only on what the format cannot hold: a character or an
\* operand that is too large; bundling gives up in addition on a character
\* outside ASCII, which it reads as UTF-8. (The range checks of Buffer.write*.)
RejectedForAReason ==
  phase = "rejected" =>
    \/ \E i \in DOMAIN source.strings : \E j \in DOMAIN source.strings[i] :
         source.strings[i][j] >= BYTE
    \/ \E i \in DOMAIN source.insts : \E j \in DOMAIN source.insts[i].operands :
         Unwritable(source.insts[i].operands[j])
    \/ bundled /\ ~Ascii

=============================================================================
