--------------------------- MODULE MachineProofs ---------------------------
(***************************************************************************)
(* The whole machine, for every bundle whose code is Consistent and        *)
(* Balanced, whatever its size.                                            *)
(*                                                                         *)
(* The stack: IInv is inductive. The registers stay well typed and the     *)
(* operand stack never underflows.                                         *)
(*                                                                         *)
(* Activations: calls and imports nest. Every step is of one of four       *)
(* kinds: it stays within the running activation, calls a function, begins *)
(* the body of a module, or goes back to the frame on top. From this and   *)
(* IInv follow the properties of activations, and that the machine         *)
(* implements ModuleSystem.                                                *)
(*                                                                         *)
(* Scopes: the current scope belongs to the body that runs, and POP_SCOPE  *)
(* always finds a scope to go back to. ScopeInv is inductive together with *)
(* IInv: between a scope and that of its body lie as many scopes as the    *)
(* blocks that are open, and what every step does to the tree of scopes is *)
(* to grow it.                                                             *)
(***************************************************************************)
EXTENDS VMProperties, OpsLemmas, SequenceTheorems

-----------------------------------------------------------------------------
(* The memory. The operations on scopes, objects and functions keep it     *)
(* well formed: a lookup finds a value, an update stores one, and start-up *)
(* builds a memory with no dangling address in it.                         *)

ScopeRecord == [parent : ScopeIds \cup {NULL}, vars : Dict]
ObjectRecord == [proto : ObjIds, props : Dict]

LEMMA Addresses ==
  /\ Len(Code) \in Nat
  /\ Modules = 1..Len(Code)
  /\ ObjIds = 1..MaxObjs /\ MaxObjs \in Nat /\ MaxObjs >= 30 + Len(Code)
  /\ FuncIds = 1..MaxFuncs /\ MaxFuncs \in Nat /\ MaxFuncs >= 12
  /\ ScopeIds = 1..MaxScopes /\ MaxScopes \in Nat /\ MaxScopes >= 1 + Len(Code)
  /\ \A m \in Modules \cup {NULL} : Exports(m) \in ObjIds
  /\ \A m \in Modules : ModuleScope(m) \in ScopeIds
  /\ GlobalScope \in ScopeIds
<1>1. Len(Code) \in Nat /\ Modules = 1..Len(Code)
  BY RuntimeAssumption DEF Modules
<1>2. FirstFree.scopes = 1 + Len(Code) /\ FirstFree.objs = 30 + Len(Code)
      /\ FirstFree.funcs = 12
  BY DEF FirstFree, NativeNames
<1>3. /\ ObjIds = 1..MaxObjs /\ MaxObjs \in Nat /\ MaxObjs >= 30 + Len(Code)
      /\ FuncIds = 1..MaxFuncs /\ MaxFuncs \in Nat /\ MaxFuncs >= 12
      /\ MaxScopes \in Nat /\ MaxScopes >= 1 + Len(Code)
  BY <1>2, RuntimeAssumption
<1> QED
  BY <1>1, <1>3 DEF ScopeIds, Exports, ModuleScope, GlobalScope, NULL

LEMMA BuiltinAddresses ==
  /\ {ObjectPrototype, FunctionPrototype, ArrayPrototype, SymbolPrototype,
      ToPrimitive, ModuleObject} \subseteq ObjIds
  /\ Natives = 1..12
  /\ \A f \in Natives :
       NativeBase(f) \in ObjIds /\ NativePrototype(f) \in ObjIds /\ f \in FuncIds
<1>1. Natives = 1..12
  BY DEF Natives, NativeNames
<1> QED
  BY <1>1, Addresses
  DEF ObjectPrototype, FunctionPrototype, ArrayPrototype, SymbolPrototype,
      ToPrimitive, ModuleObject, NativeBase, NativePrototype

LEMMA EmptyDictIsDict == EmptyDict \in Dict
BY DEF EmptyDict, Dict

LEMMA SetIsDict ==
  ASSUME NEW d \in Dict, NEW key \in Names, NEW v \in Value
  PROVE  Set(d, key, v) \in Dict
BY DEF Set, Dict

LEMMA DictIsDict ==
  ASSUME NEW d \in Dict, NEW key \in Names, d[key] # Absent
  PROVE  d[key] \in Value
BY DEF Dict

-----------------------------------------------------------------------------
(* Lookups.                                                                *)

LEMMA ScopeGetIsValue ==
  ASSUME MemoryTypeOK, NEW s, NEW key \in Names
  PROVE  scope_get(s, key) \in Value
<1>1. CASE scope_contains(s, key)
  <2> DEFINE h == Holder(s, key)
  <2>1. h \in ScopeIds /\ IsHolder(h, s, key)
    BY <1>1 DEF scope_contains, Holder
  <2>2. scopes[h].vars \in Dict /\ scopes[h].vars[key] # Absent
    BY <2>1 DEF IsHolder, Declares, MemoryTypeOK
  <2>3. scopes[h].vars[key] \in Value
    BY <2>2, DictIsDict
  <2> QED
    BY <1>1, <2>3 DEF scope_get
<1>2. CASE ~scope_contains(s, key)
  BY <1>2, ConstantValues DEF scope_get
<1> QED
  BY <1>1, <1>2

LEMMA HolderIsScope ==
  ASSUME NEW s, NEW key, scope_contains(s, key)
  PROVE  Holder(s, key) \in ScopeIds
BY DEF scope_contains, Holder

LEMMA PropertyIsValue ==
  ASSUME MemoryTypeOK, NEW o, NEW key \in Names
  PROVE  object_get_property(o, key) \in Value
<1>1. CASE \E h \in ObjIds : IsPropertyHolder(h, o, key)
  <2> DEFINE h == CHOOSE h \in ObjIds : IsPropertyHolder(h, o, key)
  <2>1. h \in ObjIds /\ IsPropertyHolder(h, o, key)
    BY <1>1
  <2>2. heap[h].props \in Dict /\ heap[h].props[key] # Absent
    BY <2>1 DEF IsPropertyHolder, HasOwn, MemoryTypeOK
  <2>3. heap[h].props[key] \in Value
    BY <2>2, DictIsDict
  <2> QED
    BY <1>1, <2>3 DEF object_get_property
<1>2. CASE ~\E h \in ObjIds : IsPropertyHolder(h, o, key)
  BY <1>2, ConstantValues DEF object_get_property
<1> QED
  BY <1>1, <1>2

LEMMA KeyIsName == \A v : KeyOf(v) \in Names
BY RuntimeAssumption DEF KeyOf

LEMMA ReferencedAddress ==
  ASSUME NEW v \in Value
  PROVE  /\ v.type = "function" => v.num \in FuncIds
         /\ v.type = "object" => v.num \in ObjIds
BY DEF Value, IsValue

LEMMA ObjectOfIsObject ==
  ASSUME MemoryTypeOK, NEW v \in Value, HasProperties(v)
  PROVE  ObjectOf(v) \in ObjIds
BY ReferencedAddress DEF HasProperties, ObjectOf, MemoryTypeOK, Function

-----------------------------------------------------------------------------
(* Updates.                                                                *)

LEMMA DeclareKeepsType ==
  ASSUME scopes \in [ScopeIds -> ScopeRecord], NEW s \in ScopeIds,
         NEW key \in Names, NEW v \in Value
  PROVE  scope_declare(s, key, v) \in [ScopeIds -> ScopeRecord]
BY DEF scope_declare, ScopeRecord, Dict

LEMMA StoreKeepsType ==
  ASSUME heap \in [ObjIds -> ObjectRecord], NEW o \in ObjIds,
         NEW key \in Names, NEW v \in Value
  PROVE  object_set_property(o, key, v) \in [ObjIds -> ObjectRecord]
BY DEF object_set_property, ObjectRecord, Dict

LEMMA CreateObjectKeepsType ==
  ASSUME heap \in [ObjIds -> ObjectRecord], NEW proto \in ObjIds
  PROVE  object_create_object(proto) \in [ObjIds -> ObjectRecord]
BY EmptyDictIsDict DEF object_create_object, ObjectRecord

LEMMA NewAddresses ==
  ASSUME MemoryTypeOK
  PROVE  /\ CanCreateObjects(1) => NewObject \in ObjIds
         /\ CanCreateScope => NewScope \in ScopeIds
         /\ CanCreateFunction => /\ NewFunction \in FuncIds
                                 /\ NewScope \in ScopeIds
                                 /\ NewObject \in ObjIds
                                 /\ NewObject + 1 \in ObjIds
<1>1. used.objs \in Nat
  BY DEF MemoryTypeOK
<1> QED
  BY SMTT(30), <1>1, Addresses
  DEF CanCreateObjects, NewObject, CanCreateScope, NewScope, CanCreateFunction,
      NewFunction

LEMMA FunctionHeapType ==
  ASSUME MemoryTypeOK, CanCreateFunction
  PROVE  FunctionHeap \in [ObjIds -> ObjectRecord]
<1>1. {"prototype", "constructor"} \subseteq Names
  BY RuntimeAssumption
<1>2. /\ Set(EmptyDict, "prototype", JSObject(NewObject + 1)) \in Dict
      /\ Set(EmptyDict, "constructor", JSFunc(NewFunction)) \in Dict
  BY <1>1, NewAddresses, ReferencesAreValues, EmptyDictIsDict, SetIsDict
<1> QED
  BY <1>2, BuiltinAddresses DEF FunctionHeap, ObjectRecord, MemoryTypeOK

-----------------------------------------------------------------------------
(* The memory core_init builds.                                            *)

LEMMA NativeNamedIsValue ==
  ASSUME NEW name \in NativeFunctions
  PROVE  NativeNamed(name) \in Value
<1>1. \E f \in Natives : NativeNames[f] = name
  BY DEF NativeFunctions
<1> QED
  BY <1>1, BuiltinAddresses, ReferencesAreValues DEF NativeNamed

LEMMA NativeFunctionNames ==
  /\ {"print", "getExportObj", "importModule", "object", "instantiate", "create",
      "setPrototypeOf", "array", "isArray", "function", "call", "symbol"}
     \subseteq NativeFunctions
  /\ \A f \in Natives : NativeNames[f] \in NativeFunctions
<1>1. /\ NativeNames[1] = "print" /\ NativeNames[2] = "getExportObj"
      /\ NativeNames[3] = "importModule" /\ NativeNames[4] = "object"
      /\ NativeNames[5] = "instantiate" /\ NativeNames[6] = "create"
      /\ NativeNames[7] = "setPrototypeOf" /\ NativeNames[8] = "array"
      /\ NativeNames[9] = "isArray" /\ NativeNames[10] = "function"
      /\ NativeNames[11] = "call" /\ NativeNames[12] = "symbol"
  BY DEF NativeNames
<1>2. 1..12 = Natives
  BY BuiltinAddresses
<1>3. \A f \in 1..12 : NativeNames[f] \in NativeFunctions
  BY <1>2 DEF NativeFunctions
<1>4. /\ 1 \in 1..12 /\ 2 \in 1..12 /\ 3 \in 1..12 /\ 4 \in 1..12 /\ 5 \in 1..12
      /\ 6 \in 1..12 /\ 7 \in 1..12 /\ 8 \in 1..12 /\ 9 \in 1..12 /\ 10 \in 1..12
      /\ 11 \in 1..12 /\ 12 \in 1..12
  OBVIOUS
<1> QED
  BY <1>1, <1>2, <1>3, <1>4

LEMMA CoreScopesType == CoreScopes \in [ScopeIds -> ScopeRecord]
<1>1. ASSUME NEW k \in GlobalNames PROVE GlobalValue(k) \in Value
  BY <1>1, NativeNamedIsValue, NativeFunctionNames, BuiltinAddresses, ReferencesAreValues
  DEF GlobalNames, GlobalValue
<1>2. DictOf(GlobalNames, GlobalValue) \in Dict
  BY <1>1 DEF DictOf, Dict
<1> QED
  BY <1>2, EmptyDictIsDict DEF CoreScopes, ScopeRecord

LEMMA CoreHeapType == CoreHeap \in [ObjIds -> ObjectRecord]
<1>1. ASSUME NEW o \in ObjIds, NEW k \in Names
      PROVE  BuiltinProperty(o, k) \in Value \cup {Absent}
  <2>1. \A name \in {"getExportObj", "importModule", "instantiate", "create",
                     "setPrototypeOf", "isArray", "call"} : NativeNamed(name) \in Value
    BY NativeNamedIsValue, NativeFunctionNames
  <2>2. OtherText \in Value /\ Tagged("symbol", ToPrimitive) \in Value
    BY ConstantValues, ReferencesAreValues, BuiltinAddresses DEF OtherText
  <2>3. \A f \in Natives : o = NativeBase(f) => JSObject(o + Len(NativeNames)) \in Value
    <3>1. Len(NativeNames) = 12
      BY DEF NativeNames
    <3>2. \A f \in Natives : NativeBase(f) + 12 = NativePrototype(f)
      BY BuiltinAddresses DEF NativeBase, NativePrototype
    <3> QED
      BY <3>1, <3>2, BuiltinAddresses, ReferencesAreValues
  <2>4. \A f \in Natives : o = NativePrototype(f) => JSFunc(o - NativePrototype(0)) \in Value
    <3>1. \A f \in Natives : NativePrototype(f) - NativePrototype(0) = f
      BY BuiltinAddresses DEF NativePrototype
    <3> QED
      BY <3>1, BuiltinAddresses, ReferencesAreValues
  <2> QED
    BY <2>1, <2>2, <2>3, <2>4, Zenon DEF BuiltinProperty
<1>2. ASSUME NEW o \in ObjIds PROVE BuiltinPrototype(o) \in ObjIds
  BY BuiltinAddresses DEF BuiltinPrototype
<1>3. ASSUME NEW o \in ObjIds PROVE [k \in Names |-> BuiltinProperty(o, k)] \in Dict
  BY <1>1 DEF Dict
<1> QED
  BY <1>2, <1>3 DEF CoreHeap, ObjectRecord

LEMMA CoreFuncsType == CoreFuncs \in [FuncIds -> Function]
<1>1. ASSUME NEW native \in NativeFunctions, NEW base \in ObjIds
      PROVE  NoScript(native, base) \in Function
  BY Addresses DEF NoScript, Function, NULL
<1>2. "function" \in NativeFunctions
  BY NativeFunctionNames
<1> QED
  BY <1>1, <1>2, NativeFunctionNames, BuiltinAddresses DEF CoreFuncs

-----------------------------------------------------------------------------
(* The tables of Bytecode.                                                 *)

Straight == Opcodes \ {"JMP", "JMP_F", "JMP_T", "FUNC_DECL", "FUNC_DECL_E"}

LEMMA BinaryTable ==
  ASSUME NEW inst, inst.op \in BinaryOpcodes
  PROVE  Pops(inst) = 2 /\ Pushes(inst) = 1 /\ inst.op \in Straight
BY DEF Pops, Pushes, BinaryOpcodes, UnaryOpcodes, Straight, Opcodes

LEMMA UnaryTable ==
  ASSUME NEW inst, inst.op \in UnaryOpcodes
  PROVE  Pops(inst) = 1 /\ Pushes(inst) = 1 /\ inst.op \in Straight
BY DEF Pops, Pushes, BinaryOpcodes, UnaryOpcodes, Straight, Opcodes

LEMMA PushTable ==
  ASSUME NEW inst,
         inst.op \in {"LD_INT", "LD_DOUBLE", "LD_STRING", "LD_UNDF", "LD_NULL",
                      "LD_TRUE", "LD_FALSE", "LD_THIS", "LOAD_LOCAL", "LOAD_ARG",
                      "FUNC_DECL", "FUNC_DECL_E", "ARR_ALLOC", "OBJ_ALLOC"}
  PROVE  Pops(inst) = 0 /\ Pushes(inst) = 1
BY DEF Pops, Pushes, BinaryOpcodes, UnaryOpcodes

LEMMA PopTable ==
  ASSUME NEW inst,
         inst.op \in {"POP", "ALLOC_LOCAL", "STORE_LOCAL", "JMP_F", "JMP_T", "EXPORT"}
  PROVE  Pops(inst) = 1 /\ Pushes(inst) = 0
BY DEF Pops, Pushes, BinaryOpcodes, UnaryOpcodes

LEMMA NoOperandTable ==
  ASSUME NEW inst,
         inst.op \in {"NOP", "RETURN", "PUSH_SCOPE", "POP_SCOPE", "JMP"}
  PROVE  Pops(inst) = 0 /\ Pushes(inst) = 0
BY DEF Pops, Pushes, BinaryOpcodes, UnaryOpcodes

LEMMA OtherTable ==
  ASSUME NEW inst
  PROVE  /\ inst.op = "DUP" => Pops(inst) = 1 /\ Pushes(inst) = 2
         /\ inst.op = "SWAP" => Pops(inst) = 2 /\ Pushes(inst) = 2
         /\ inst.op = "OBJ_STORE" => Pops(inst) = 2 /\ Pushes(inst) = 0
         /\ inst.op = "OBJ_LOAD" => Pops(inst) = 1 /\ Pushes(inst) = 1
         /\ inst.op = "OBJ_CLOAD" => Pops(inst) = 2 /\ Pushes(inst) = 1
         /\ inst.op = "OBJ_CSTORE" => Pops(inst) = 3 /\ Pushes(inst) = 0
         /\ inst.op = "CALL" => Pops(inst) = inst.n + 2 /\ Pushes(inst) = 1
BY DEF Pops, Pushes, BinaryOpcodes, UnaryOpcodes

LEMMA SuccessorTable ==
  ASSUME NEW inst, NEW i
  PROVE  /\ inst.op \in Straight => Successors(inst, i) = {i + 1}
         /\ inst.op = "JMP" => Successors(inst, i) = {inst.n}
         /\ inst.op \in {"JMP_F", "JMP_T"} => Successors(inst, i) = {i + 1, inst.n}
         /\ inst.op \in {"FUNC_DECL", "FUNC_DECL_E"} =>
              Successors(inst, i) = {i + 1 + BodySize(inst)}
BY DEF Successors, IsFunctionDeclaration, Straight

-----------------------------------------------------------------------------
(* What IInv says of the instruction about to run.                         *)

LEMMA CodeType ==
  \A m \in Modules : Code[m] \in Seq(Instruction) /\ Len(Code[m]) \in Nat
<1>1. Code \in Seq(Seq(Instruction))
  BY RuntimeAssumption
<1>2. ASSUME NEW m \in Modules PROVE Code[m] \in Seq(Instruction)
  BY <1>1, Addresses
<1> QED
  BY <1>2

LEMMA EndType ==
  ASSUME MemoryTypeOK, NEW m \in Modules, NEW f \in FuncIds \cup {NULL}
  PROVE  EndOf(m, f) \in Nat
<1>1. f # NULL => funcs[f] \in Function
  BY DEF MemoryTypeOK
<1> QED
  BY <1>1, CodeType DEF EndOf, Function

LEMMA FetchedInstruction ==
  ASSUME IInv, mode = "run", ~AtEnd
  PROVE  /\ ic \in 0..(Len(Code[module]) - 1)
         /\ Inst = Code[module][ic + 1]
         /\ Inst \in Instruction
         /\ Limit[module][ic] = EndOf(module, fn)
         /\ Depth[module][ic] \in Nat
         /\ Depth[module][ic] <= counter - start
<1>1. /\ module \in Modules /\ ic \in Nat /\ ic < EndOf(module, fn)
      /\ Code[module] \in Seq(Instruction)
      /\ EndOf(module, fn) \in Nat
  BY CodeType, EndType DEF IInv, TypeOK, AtEnd
<1>2. EndOf(module, fn) <= Len(Code[module])
  <2>1. CASE fn = NULL
    BY <1>1, <2>1 DEF EndOf
  <2>2. CASE fn # NULL
    BY <2>2 DEF EndOf, IInv, TypeOK, FunctionsOK, RegistersOK, IsRunnable
  <2> QED
    BY <2>1, <2>2
<1>3. ic \in 0..(Len(Code[module]) - 1)
  BY <1>1, <1>2, CodeType
<1>4. Ready(module, ic, fn, counter - start)
  BY DEF IInv, RegistersOK
<1>5. Limit[module][ic] = EndOf(module, fn) /\ Depth[module][ic] <= counter - start
  BY <1>1, <1>4 DEF Ready, Fits
<1>6. Depth[module][ic] \in Nat
  <2>1. Depth[module] \in [0..Len(Code[module]) -> Nat]
    BY <1>1, VerifiedCode DEF Consistent
  <2> QED
    BY <1>1, <1>3, <2>1, CodeType
<1>7. Inst = Code[module][ic + 1]
  BY DEF Inst
<1>8. Inst \in Instruction
  BY <1>1, <1>3, <1>7
<1> QED
  BY <1>3, <1>5, <1>6, <1>7, <1>8

\* What Consistent adds: the operands are there, and whatever comes next may run.
LEMMA NextInstruction ==
  ASSUME IInv, mode = "run", ~AtEnd
  PROVE  /\ Pops(Inst) <= Depth[module][ic]
         /\ Inst.op \in {"CALL", "LOAD_ARG"} => Inst.n \in Nat
         /\ \A j \in Successors(Inst, ic) :
              /\ j \in Nat
              /\ Fits(Depth[module], Limit[module], j, EndOf(module, fn),
                      Depth[module][ic] - Pops(Inst) + Pushes(Inst))
         /\ IsFunctionDeclaration(Inst) =>
              /\ BodySize(Inst) \in Nat
              /\ ic + 1 + BodySize(Inst) <= Len(Code[module])
              /\ Fits(Depth[module], Limit[module], ic + 1, ic + 1 + BodySize(Inst), 0)
<1>1. module \in Modules
  BY DEF IInv, TypeOK
<1>2. Consistent(Code[module], Depth[module], Limit[module])
  BY <1>1, VerifiedCode
<1> QED
  BY <1>2, FetchedInstruction DEF Consistent

LEMMA FitsMore ==
  ASSUME NEW m \in Modules, NEW j \in Nat, NEW end \in Nat, end <= Len(Code[m]),
         NEW d \in Int, NEW e \in Int, d <= e,
         Fits(Depth[m], Limit[m], j, end, d)
  PROVE  Fits(Depth[m], Limit[m], j, end, e)
<1>1. CASE j < end
  <2>1. Len(Code[m]) \in Nat
    BY RuntimeAssumption DEF Modules
  <2>2. j \in 0..Len(Code[m])
    BY <1>1, <2>1
  <2>3. Depth[m][j] \in Nat
    BY <2>2, VerifiedCode DEF Consistent
  <2> QED
    BY <1>1, <2>3 DEF Fits
<1>2. CASE ~(j < end)
  BY <1>2 DEF Fits
<1> QED
  BY <1>1, <1>2

-----------------------------------------------------------------------------
(* Steps that create no function.                                          *)

SameFunctions == funcs' = funcs /\ used'.funcs = used.funcs

\* Functions that exist are never overwritten.
FunctionsRemain ==
  \A f \in FuncIds : funcs[f].native = "script" => funcs'[f] = funcs[f]

LEMMA ReadyStays ==
  ASSUME SameFunctions
  PROVE  /\ \A m, i, f, d : Ready(m, i, f, d) <=> Ready(m, i, f, d)'
         /\ \A m, f : IsRunnable(m, f) <=> IsRunnable(m, f)'
         /\ \A fr : FrameOK(fr) <=> FrameOK(fr)'
BY DEF SameFunctions, Ready, EndOf, IsRunnable, FrameOK

LEMMA FunctionsStay ==
  ASSUME SameFunctions, FunctionsOK
  PROVE  FunctionsOK' /\ FunctionsRemain
BY DEF SameFunctions, FunctionsOK, FunctionsRemain, Ready, EndOf

LEMMA FunctionsRemainOK ==
  ASSUME IInv, SameFunctions
  PROVE  FunctionsOK' /\ FunctionsRemain
BY FunctionsStay DEF IInv

\* The machine stops: main returns, or the process dies other than by an
\* underflow.
LEMMA StopKeepsIInv ==
  ASSUME IInv, SameFunctions, MemoryTypeOK',
         UNCHANGED <<registers, frames, pending>>,
         mode' \in {"exit"} \cup (Faults \ {"Stack underflow", "stack underrun"})
  PROVE  IInv'
<1>1. TypeOK'
  BY DEF IInv, TypeOK, registers
<1>2. RegistersOK'
  <2>1. mode' \notin {"run", "native"}
    BY DEF Faults
  <2> QED
    BY <2>1, ReadyStays DEF IInv, RegistersOK, registers
<1>3. FramesOK'
  BY ReadyStays DEF IInv, FramesOK
<1>4. NoUnderflow'
  BY DEF NoUnderflow
<1> QED
  BY <1>1, <1>2, <1>3, <1>4, FunctionsStay DEF IInv

LEMMA MemoryStays ==
  ASSUME UNCHANGED memory
  PROVE  (MemoryTypeOK => MemoryTypeOK') /\ SameFunctions
BY DEF memory, MemoryTypeOK, SameFunctions

LEMMA PanicKeepsIInv ==
  ASSUME IInv, NEW fault \in Faults \ {"Stack underflow", "stack underrun"},
         Panic(fault)
  PROVE  IInv'
BY StopKeepsIInv, MemoryStays DEF Panic, control, IInv, TypeOK

LEMMA ReadyRemains ==
  ASSUME FunctionsRemain, NEW m, NEW f \in FuncIds \cup {NULL}, IsRunnable(m, f)
  PROVE  /\ IsRunnable(m, f)'
         /\ \A i, d : Ready(m, i, f, d) => Ready(m, i, f, d)'
<1>1. CASE f = NULL
  BY <1>1 DEF IsRunnable, Ready, EndOf
<1>2. CASE f # NULL
  <2>1. funcs'[f] = funcs[f]
    BY <1>2 DEF FunctionsRemain, IsRunnable
  <2> QED
    BY <1>2, <2>1 DEF IsRunnable, Ready, EndOf
<1> QED
  BY <1>1, <1>2

LEMMA FrameRemains ==
  ASSUME FunctionsRemain, NEW fr \in Frame, FrameOK(fr)
  PROVE  FrameOK(fr)'
<1>1. fr.fn \in FuncIds \cup {NULL} /\ IsRunnable(fr.module, fr.fn)
  BY DEF Frame, FrameOK
<1>2. /\ IsRunnable(fr.module, fr.fn)'
      /\ \A i, d : Ready(fr.module, i, fr.fn, d) => Ready(fr.module, i, fr.fn, d)'
  BY <1>1, ReadyRemains
<1> QED
  BY <1>2 DEF FrameOK

LEMMA FramesRemain ==
  ASSUME FunctionsRemain, frames \in Seq(Frame), FramesOK, frames' = frames
  PROVE  FramesOK'
<1>1. ASSUME NEW k \in DOMAIN frames PROVE FrameOK(frames[k])'
  BY <1>1, FrameRemains DEF FramesOK
<1> QED
  BY <1>1 DEF FramesOK

\* After an instruction that takes off no more than Pops and Pushes say, a
\* successor may run.
LEMMA SuccessorReady ==
  ASSUME IInv, mode = "run", ~AtEnd,
         NEW i \in Successors(Inst, ic), NEW c \in Int,
         c >= counter - Pops(Inst) + Pushes(Inst),
         Pops(Inst) \in Int, Pushes(Inst) \in Nat
  PROVE  i \in Nat /\ start <= c /\ Ready(module, i, fn, c - start)
<1>1. /\ i \in Nat
      /\ Fits(Depth[module], Limit[module], i, EndOf(module, fn),
              Depth[module][ic] - Pops(Inst) + Pushes(Inst))
  BY NextInstruction
<1>2. /\ module \in Modules /\ fn \in FuncIds \cup {NULL}
      /\ counter \in Nat /\ start \in Nat
      /\ EndOf(module, fn) \in Nat
      /\ Depth[module][ic] \in Nat /\ Depth[module][ic] <= counter - start
      /\ Pops(Inst) <= Depth[module][ic]
  BY SMTT(30), FetchedInstruction, NextInstruction, EndType, ExecutionAssumption DEF IInv, TypeOK
<1>3. EndOf(module, fn) <= Len(Code[module])
  <2>1. CASE fn = NULL
    BY <1>2, <2>1, CodeType DEF EndOf
  <2>2. CASE fn # NULL
    BY <2>2 DEF EndOf, IInv, TypeOK, FunctionsOK, RegistersOK, IsRunnable
  <2> QED
    BY <2>1, <2>2
<1>4. start <= c /\ Depth[module][ic] - Pops(Inst) + Pushes(Inst) <= c - start
  BY <1>2
<1>5. /\ Depth[module][ic] - Pops(Inst) + Pushes(Inst) \in Int /\ c - start \in Int
  BY <1>2
<1> QED
  BY <1>1, <1>2, <1>3, <1>4, <1>5, FitsMore DEF Ready

\* An instruction that stays in its function moves on to a successor.
LEMMA StepKeepsIInv ==
  ASSUME IInv, mode = "run", ~AtEnd, FunctionsRemain, FunctionsOK', MemoryTypeOK',
         scope' \in ScopeIds,
         NEW i \in Successors(Inst, ic), NEW c \in 0..STACK_SIZE,
         NEW s \in [Slots -> Value],
         c >= counter - Pops(Inst) + Pushes(Inst),
         Pops(Inst) \in Int, Pushes(Inst) \in Nat,
         GoTo(i, c, s)
  PROVE  IInv'
<1>1. /\ ic' = i /\ counter' = c /\ stack' = s
      /\ UNCHANGED <<module, start, fn, frames, pending, mode>>
  BY DEF GoTo, control
<1>2. i \in Nat /\ start <= c /\ Ready(module, i, fn, c - start)
  BY SuccessorReady, ExecutionAssumption
<1>3. TypeOK'
  BY <1>1, <1>2 DEF IInv, TypeOK
<1>4. RegistersOK'
  <2>1. IsRunnable(module, fn) /\ fn \in FuncIds \cup {NULL}
    BY DEF IInv, TypeOK, RegistersOK
  <2>2. funcs'[fn] = funcs[fn] \/ fn = NULL
    BY <2>1 DEF IsRunnable, FunctionsRemain
  <2>3. IsRunnable(module, fn)' /\ Ready(module, ic, fn, counter - start)'
    BY <1>1, <1>2, <2>1, <2>2 DEF IsRunnable, Ready, EndOf
  <2> QED
    BY <1>1, <1>2, <2>3 DEF IInv, RegistersOK
<1>5. FramesOK'
  BY <1>1, FramesRemain DEF IInv, TypeOK
<1> QED
  BY <1>1, <1>3, <1>4, <1>5 DEF IInv, NoUnderflow

-----------------------------------------------------------------------------
(* The building blocks of the handlers.                                    *)

LEMMA Executed ==
  ASSUME NEW ops, ops \subseteq Opcodes, Executing(Inst, ops)
  PROVE  mode = "run" /\ ~AtEnd /\ Inst.op \in ops
<1>1. mode = "run" /\ Inst.op \in ops
  BY DEF Executing
<1>2. CASE AtEnd
  <2>1. Inst.op = "end"
    BY <1>2 DEF Inst, NoInst
  <2>2. "end" \notin Opcodes
    BY DEF Opcodes, BinaryOpcodes, UnaryOpcodes
  <2> QED
    BY <1>1, <2>1, <2>2
<1> QED
  BY <1>1, <1>2

LEMMA ExecutedOne ==
  ASSUME NEW op \in Opcodes, Executing(Inst, {op})
  PROVE  mode = "run" /\ ~AtEnd /\ Inst.op = op
BY Executed

LEMMA OperandsThere ==
  ASSUME IInv, mode = "run", ~AtEnd, Pops(Inst) \in Nat
  PROVE  /\ Pops(Inst) <= counter
         /\ counter \in 0..STACK_SIZE /\ STACK_SIZE \in Nat /\ counter \in Nat
         /\ start \in Nat /\ start <= counter
         /\ \A i \in 1..counter : counter - i \in Slots /\ Top(i) \in Value
<1>1. /\ counter \in 0..STACK_SIZE /\ STACK_SIZE \in Nat /\ counter \in Nat
      /\ start \in Nat /\ start <= counter /\ stack \in [Slots -> Value]
  BY ExecutionAssumption DEF IInv, TypeOK, RegistersOK
<1>2. Pops(Inst) <= counter
  BY <1>1, FetchedInstruction, NextInstruction
<1>3. ASSUME NEW i \in 1..counter PROVE counter - i \in Slots
  BY <1>1 DEF Slots
<1> QED
  BY <1>1, <1>2, <1>3 DEF Top

LEMMA ReplaceKeepsIInv ==
  ASSUME IInv, mode = "run", ~AtEnd, SameFunctions, MemoryTypeOK',
         Inst.op \in Straight, Pops(Inst) \in Nat, Pushes(Inst) \in Nat,
         NEW n \in Nat, n <= Pops(Inst), n - 1 <= Pops(Inst) - Pushes(Inst),
         counter - n < STACK_SIZE, NEW v \in Value, Replace(n, v)
  PROVE  IInv'
<1> DEFINE s == [stack EXCEPT ![counter - n] = v]
<1>1. s \in [Slots -> Value]
  BY DEF IInv, TypeOK
<1>2. /\ counter - n + 1 \in 0..STACK_SIZE
      /\ counter - n + 1 >= counter - Pops(Inst) + Pushes(Inst)
  BY OperandsThere
<1>3. ic + 1 \in Successors(Inst, ic)
  BY SuccessorTable
<1>4. GoTo(ic + 1, counter - n + 1, s) /\ scope' = scope
  BY DEF Replace, Advance
<1>5. scope' \in ScopeIds
  BY <1>4 DEF IInv, TypeOK
<1> HIDE DEF s
<1> QED
  BY <1>1, <1>2, <1>3, <1>4, <1>5, FunctionsRemainOK, StepKeepsIInv

LEMMA DropKeepsIInv ==
  ASSUME IInv, mode = "run", ~AtEnd, SameFunctions, MemoryTypeOK',
         Inst.op \in Straight, Pops(Inst) \in Nat, Pushes(Inst) = 0,
         Drop(Pops(Inst))
  PROVE  IInv'
<1>1. stack \in [Slots -> Value]
  BY DEF IInv, TypeOK
<1>2. /\ counter - Pops(Inst) \in 0..STACK_SIZE
      /\ counter - Pops(Inst) >= counter - Pops(Inst) + Pushes(Inst)
  BY OperandsThere
<1>3. ic + 1 \in Successors(Inst, ic)
  BY SuccessorTable
<1>4. GoTo(ic + 1, counter - Pops(Inst), stack) /\ scope' = scope
  BY DEF Drop, Advance
<1>5. scope' \in ScopeIds
  BY <1>4 DEF IInv, TypeOK
<1> QED
  BY <1>1, <1>2, <1>3, <1>4, <1>5, FunctionsRemainOK, StepKeepsIInv

LEMMA PushKeepsIInv ==
  ASSUME IInv, mode = "run", ~AtEnd, Inst.op \in Straight,
         Pops(Inst) \in Nat, Pushes(Inst) = Pops(Inst) + 1,
         NEW v \in Value, Push(v)
  PROVE  IInv'
<1>1. CASE counter >= STACK_SIZE
  <2>1. "Stack overflow" \in Faults \ {"Stack underflow", "stack underrun"}
    BY DEF Faults
  <2> QED
    BY <1>1, <2>1, PanicKeepsIInv DEF Push
<1>2. CASE ~(counter >= STACK_SIZE)
  <2>1. Replace(0, v) /\ UNCHANGED memory
    BY <1>2 DEF Push
  <2>2. MemoryTypeOK' /\ SameFunctions
    BY <2>1, MemoryStays DEF IInv, TypeOK
  <2>3. counter - 0 < STACK_SIZE /\ 0 - 1 <= Pops(Inst) - Pushes(Inst) /\ 0 <= Pops(Inst)
    BY <1>2, OperandsThere
  <2> QED
    BY <2>1, <2>2, <2>3, ReplaceKeepsIInv
<1> QED
  BY <1>1, <1>2

-----------------------------------------------------------------------------
(* The instructions of Execution.                                          *)

LEMMA FaultNames ==
  {"Stack overflow", "Unsupported operation", "trap", "Could not update local",
   "Symbol not found", "Callee is not a function", "Target is not a object",
   "No parent scope to pop", "Could not find module in bundle", "stack overrun",
   "bundle overrun", "endless lookup", "null instruction"}
  \subseteq Faults \ {"Stack underflow", "stack underrun"}
BY DEF Faults

LEMMA NopKeepsIInv ==
  ASSUME IInv, inst_nop(Inst)
  PROVE  IInv'
<1>1. mode = "run" /\ ~AtEnd /\ Inst.op \in {"NOP", "RETURN"}
  BY Executed DEF inst_nop, Opcodes
<1>2. Pops(Inst) = 0 /\ Pushes(Inst) = 0 /\ Inst.op \in Straight
  BY <1>1, NoOperandTable DEF Straight, Opcodes
<1>3. CASE Panic("null instruction")
  BY <1>3, FaultNames, PanicKeepsIInv
<1>4. CASE Drop(0) /\ UNCHANGED memory
  <2>1. MemoryTypeOK' /\ SameFunctions
    BY <1>4, MemoryStays DEF IInv, TypeOK
  <2> QED
    BY <1>1, <1>2, <1>4, <2>1, DropKeepsIInv
<1> QED
  BY <1>3, <1>4 DEF inst_nop

LoadOpcodes == {"LD_INT", "LD_DOUBLE", "LD_STRING", "LD_UNDF", "LD_NULL",
                "LD_TRUE", "LD_FALSE", "LD_THIS", "LOAD_LOCAL"}

Load(inst) ==
  \/ inst_ld_int(inst) \/ inst_ld_double(inst) \/ inst_ld_string(inst)
  \/ inst_ld_undf(inst) \/ inst_ld_null(inst) \/ inst_ld_boolean(inst)
  \/ inst_ld_this(inst)

LEMMA LoadKeepsIInv ==
  ASSUME IInv, Load(Inst)
  PROVE  IInv'
<1>1. Executing(Inst, LoadOpcodes)
  BY DEF Load, LoadOpcodes, Executing, inst_ld_int, inst_ld_double, inst_ld_string,
         inst_ld_undf, inst_ld_null, inst_ld_boolean, inst_ld_this
<1>2. mode = "run" /\ ~AtEnd /\ Inst.op \in LoadOpcodes
  <2>1. LoadOpcodes \subseteq Opcodes
    BY DEF LoadOpcodes, Opcodes
  <2> QED
    BY <1>1, <2>1, Executed
<1>3. Pops(Inst) = 0 /\ Pushes(Inst) = 1 /\ Inst.op \in Straight
  BY <1>2, PushTable DEF LoadOpcodes, Straight, Opcodes
<1>4. Inst.n \in Int /\ Inst.m \in Nat
  BY <1>2, FetchedInstruction DEF Instruction
<1>5. \E v \in Value : Push(v)
  <2>1. scope_get(scope, "this") \in Value
    BY ScopeGetIsValue, RuntimeAssumption DEF IInv, TypeOK
  <2> QED
    BY <1>4, <2>1, ConstantValues, JSDoubleIsValue
    DEF Load, inst_ld_int, inst_ld_double, inst_ld_string, inst_ld_undf,
        inst_ld_null, inst_ld_boolean, inst_ld_this
<1> QED
  BY <1>2, <1>3, <1>5, PushKeepsIInv

LEMMA LoadLocalKeepsIInv ==
  ASSUME IInv, inst_load_local(Inst)
  PROVE  IInv'
<1>1. mode = "run" /\ ~AtEnd /\ Inst.op = "LOAD_LOCAL"
  BY ExecutedOne DEF inst_load_local, Opcodes
<1>2. Pops(Inst) = 0 /\ Pushes(Inst) = 1 /\ Inst.op \in Straight
  BY <1>1, PushTable DEF Straight, Opcodes
<1>3. scope_get(scope, Inst.k) \in Value
  BY <1>1, FetchedInstruction, ScopeGetIsValue DEF Instruction, IInv, TypeOK
<1>4. CASE Panic("Symbol not found")
  BY <1>4, FaultNames, PanicKeepsIInv
<1>5. CASE Push(scope_get(scope, Inst.k))
  BY <1>1, <1>2, <1>3, <1>5, PushKeepsIInv
<1> QED
  BY <1>4, <1>5 DEF inst_load_local

LEMMA LoadArgKeepsIInv ==
  ASSUME IInv, inst_load_arg(Inst)
  PROVE  IInv'
<1>1. mode = "run" /\ ~AtEnd /\ Inst.op = "LOAD_ARG"
  BY ExecutedOne DEF inst_load_arg, Opcodes
<1>2. Pops(Inst) = 0 /\ Pushes(Inst) = 1 /\ Inst.op \in Straight
  BY <1>1, PushTable DEF Straight, Opcodes
<1>3. Inst.n \in Nat
  BY <1>1, NextInstruction
<1> DEFINE v == IF start <= Inst.n THEN JSUndefined ELSE stack[start - Inst.n - 1]
<1>4. v \in Value
  <2>1. /\ counter \in Nat /\ counter <= STACK_SIZE /\ STACK_SIZE \in Nat
        /\ start \in Nat /\ start <= counter
    BY <1>1, <1>2, OperandsThere
  <2>2. ~(start <= Inst.n) => start - Inst.n - 1 \in Slots
    BY <1>3, <2>1 DEF Slots
  <2> QED
    BY <2>2, ConstantValues DEF IInv, TypeOK
<1> HIDE DEF v
<1>5. CASE counter >= STACK_SIZE
  BY <1>5, FaultNames, PanicKeepsIInv DEF inst_load_arg
<1>6. CASE ~(counter >= STACK_SIZE)
  <2>1. Replace(0, v) /\ UNCHANGED memory
    BY <1>6 DEF inst_load_arg, v
  <2>2. MemoryTypeOK' /\ SameFunctions
    BY <2>1, MemoryStays DEF IInv, TypeOK
  <2>3. counter - 0 < STACK_SIZE
    BY <1>1, <1>2, <1>6, OperandsThere
  <2> QED
    BY <1>1, <1>2, <1>4, <2>1, <2>2, <2>3, ReplaceKeepsIInv
<1> QED
  BY <1>5, <1>6

LEMMA BinaryKeepsIInv ==
  ASSUME IInv, inst_binary(Inst)
  PROVE  IInv'
<1>1. mode = "run" /\ ~AtEnd /\ Inst.op \in BinaryOpcodes
  BY Executed DEF inst_binary, Opcodes
<1>2. Pops(Inst) = 2 /\ Pushes(Inst) = 1 /\ Inst.op \in Straight
  BY <1>1, BinaryTable
<1>3. counter >= 2 /\ counter \in Nat /\ counter <= STACK_SIZE /\ STACK_SIZE \in Nat
      /\ Top(1) \in Value /\ Top(2) \in Value
  BY <1>1, <1>2, OperandsThere
<1> DEFINE out == Binary(Inst.op, Top(2), Top(1))
<1>4. out.effect \in Effects /\ out.value \in Value
  BY <1>1, <1>3, BinaryIsOutcome DEF IsOutcome
<1>5. \/ \E n \in {1, 2} : Replace(n, out.value) /\ UNCHANGED memory
      \/ Panic("Unsupported operation")
      \/ Panic("trap")
  <2>1. ~(counter < 2)
    BY <1>3
  <2> QED
    BY <2>1, <1>4, Zenon DEF inst_binary, Needs, Effects
<1> HIDE DEF out
<1>6. CASE \E n \in {1, 2} : Replace(n, out.value) /\ UNCHANGED memory
  <2>1. PICK n \in {1, 2} : Replace(n, out.value) /\ UNCHANGED memory
    BY <1>6
  <2>2. MemoryTypeOK' /\ SameFunctions
    BY <2>1, MemoryStays DEF IInv, TypeOK
  <2>3. counter - n < STACK_SIZE /\ n - 1 <= 2 - 1
    BY <1>3
  <2> QED
    BY <1>1, <1>2, <1>4, <2>1, <2>2, <2>3, ReplaceKeepsIInv
<1>7. CASE Panic("Unsupported operation") \/ Panic("trap")
  BY <1>7, FaultNames, PanicKeepsIInv
<1> QED
  BY <1>5, <1>6, <1>7

LEMMA UnaryKeepsIInv ==
  ASSUME IInv, inst_unary(Inst)
  PROVE  IInv'
<1>1. mode = "run" /\ ~AtEnd /\ Inst.op \in UnaryOpcodes
  BY Executed DEF inst_unary, Opcodes
<1>2. Pops(Inst) = 1 /\ Pushes(Inst) = 1 /\ Inst.op \in Straight
  BY <1>1, UnaryTable
<1>3. counter >= 1 /\ counter \in Nat /\ counter <= STACK_SIZE /\ STACK_SIZE \in Nat
      /\ Top(1) \in Value
  BY <1>1, <1>2, OperandsThere
<1> DEFINE out == Unary(Inst.op, Top(1))
<1>4. out.effect \in Effects \ {"keep"} /\ out.value \in Value
  BY <1>1, <1>3, UnaryIsOutcome, UnaryNeverKeeps DEF IsOutcome
<1>5. \/ Replace(1, out.value) /\ UNCHANGED memory
      \/ Panic("Unsupported operation")
      \/ Panic("trap")
  <2>1. ~(counter < 1)
    BY <1>3
  <2> QED
    BY <2>1, <1>4, Zenon DEF inst_unary, Needs, Effects
<1> HIDE DEF out
<1>6. CASE Replace(1, out.value) /\ UNCHANGED memory
  <2>1. MemoryTypeOK' /\ SameFunctions
    BY <1>6, MemoryStays DEF IInv, TypeOK
  <2>2. counter - 1 < STACK_SIZE
    BY <1>3
  <2> QED
    BY <1>1, <1>2, <1>4, <1>6, <2>1, <2>2, ReplaceKeepsIInv
<1>7. CASE Panic("Unsupported operation") \/ Panic("trap")
  BY <1>7, FaultNames, PanicKeepsIInv
<1> QED
  BY <1>5, <1>6, <1>7

LEMMA PopKeepsIInv ==
  ASSUME IInv, inst_pop(Inst)
  PROVE  IInv'
<1>1. mode = "run" /\ ~AtEnd /\ Inst.op = "POP"
  BY ExecutedOne DEF inst_pop, Opcodes
<1>2. Pops(Inst) = 1 /\ Pushes(Inst) = 0 /\ Inst.op \in Straight
  BY <1>1, PopTable DEF Straight, Opcodes
<1>3. ~(counter < 1)
  BY <1>1, <1>2, OperandsThere
<1>4. Drop(1) /\ UNCHANGED memory
  BY <1>3 DEF inst_pop, Needs
<1>5. MemoryTypeOK' /\ SameFunctions
  BY <1>4, MemoryStays DEF IInv, TypeOK
<1> QED
  BY <1>1, <1>2, <1>4, <1>5, DropKeepsIInv

LEMMA DupKeepsIInv ==
  ASSUME IInv, inst_dup(Inst)
  PROVE  IInv'
<1>1. mode = "run" /\ ~AtEnd /\ Inst.op = "DUP"
  BY ExecutedOne DEF inst_dup, Opcodes
<1>2. Pops(Inst) = 1 /\ Pushes(Inst) = 2 /\ Inst.op \in Straight
  BY <1>1, OtherTable DEF Straight, Opcodes
<1>3. ~(counter < 1) /\ Top(1) \in Value
  BY <1>1, <1>2, OperandsThere
<1>4. Push(Top(1))
  BY <1>3 DEF inst_dup, Needs
<1> QED
  BY <1>1, <1>2, <1>3, <1>4, PushKeepsIInv

LEMMA SwapKeepsIInv ==
  ASSUME IInv, inst_swap(Inst)
  PROVE  IInv'
<1>1. mode = "run" /\ ~AtEnd /\ Inst.op = "SWAP"
  BY ExecutedOne DEF inst_swap, Opcodes
<1>2. Pops(Inst) = 2 /\ Pushes(Inst) = 2 /\ Inst.op \in Straight
  BY <1>1, OtherTable DEF Straight, Opcodes
<1>3. ~(counter < 2) /\ Top(1) \in Value /\ Top(2) \in Value /\ counter \in 0..STACK_SIZE
  BY <1>1, <1>2, OperandsThere
<1> DEFINE s == [stack EXCEPT ![counter - 1] = Top(2), ![counter - 2] = Top(1)]
<1>4. GoTo(ic + 1, counter, s) /\ scope' = scope /\ UNCHANGED memory
  BY <1>3 DEF inst_swap, Needs, Advance
<1>5. s \in [Slots -> Value]
  BY <1>3 DEF IInv, TypeOK
<1>6. MemoryTypeOK' /\ SameFunctions /\ scope' \in ScopeIds
  BY <1>4, MemoryStays DEF IInv, TypeOK
<1>7. ic + 1 \in Successors(Inst, ic) /\ counter >= counter - 2 + 2
  BY <1>2, <1>3, SuccessorTable
<1> HIDE DEF s
<1> QED
  BY <1>1, <1>2, <1>3, <1>4, <1>5, <1>6, <1>7, FunctionsRemainOK, StepKeepsIInv

\* A new memory of which only the scopes, or only the heap, differ.
LEMMA MemoryUpdates ==
  ASSUME MemoryTypeOK, UNCHANGED funcs, used'.funcs = used.funcs,
         used' \in [scopes : Nat, objs : Nat, funcs : Nat],
         scopes' \in [ScopeIds -> ScopeRecord], heap' \in [ObjIds -> ObjectRecord]
  PROVE  MemoryTypeOK' /\ SameFunctions
BY DEF MemoryTypeOK, SameFunctions, ScopeRecord, ObjectRecord

LEMMA AllocLocalKeepsIInv ==
  ASSUME IInv, inst_alloc_local(Inst)
  PROVE  IInv'
<1>1. mode = "run" /\ ~AtEnd /\ Inst.op = "ALLOC_LOCAL"
  BY ExecutedOne DEF inst_alloc_local, Opcodes
<1>2. Pops(Inst) = 1 /\ Pushes(Inst) = 0 /\ Inst.op \in Straight
  BY <1>1, PopTable DEF Straight, Opcodes
<1>3. ~(counter < 1) /\ Top(1) \in Value /\ Inst.k \in Names
  BY <1>1, <1>2, OperandsThere, FetchedInstruction DEF Instruction
<1>4. /\ Drop(1)
      /\ scopes' = scope_declare(scope, Inst.k, Top(1))
      /\ UNCHANGED <<heap, funcs, used>>
  BY <1>3 DEF inst_alloc_local, Needs
<1>5. MemoryTypeOK' /\ SameFunctions
  BY <1>3, <1>4, DeclareKeepsType, MemoryUpdates
  DEF IInv, TypeOK, MemoryTypeOK, ScopeRecord, ObjectRecord
<1> QED
  BY <1>1, <1>2, <1>4, <1>5, DropKeepsIInv

LEMMA StoreLocalKeepsIInv ==
  ASSUME IInv, inst_store_local(Inst)
  PROVE  IInv'
<1>1. mode = "run" /\ ~AtEnd /\ Inst.op = "STORE_LOCAL"
  BY ExecutedOne DEF inst_store_local, Opcodes
<1>2. Pops(Inst) = 1 /\ Pushes(Inst) = 0 /\ Inst.op \in Straight
  BY <1>1, PopTable DEF Straight, Opcodes
<1>3. ~(counter < 1) /\ Top(1) \in Value /\ Inst.k \in Names
  BY <1>1, <1>2, OperandsThere, FetchedInstruction DEF Instruction
<1>4. CASE scope_contains(scope, Inst.k)
  <2>1. /\ Drop(1)
        /\ scopes' = scope_declare(Holder(scope, Inst.k), Inst.k, Top(1))
        /\ UNCHANGED <<heap, funcs, used>>
    BY <1>3, <1>4 DEF inst_store_local, Needs, scope_set
  <2>2. Holder(scope, Inst.k) \in ScopeIds
    BY <1>4, HolderIsScope
  <2>3. MemoryTypeOK' /\ SameFunctions
    BY <1>3, <2>1, <2>2, DeclareKeepsType, MemoryUpdates
    DEF IInv, TypeOK, MemoryTypeOK, ScopeRecord, ObjectRecord
  <2> QED
    BY <1>1, <1>2, <2>1, <2>3, DropKeepsIInv
<1>5. CASE ~scope_contains(scope, Inst.k)
  BY <1>3, <1>5, FaultNames, PanicKeepsIInv DEF inst_store_local, Needs
<1> QED
  BY <1>4, <1>5

LEMMA PushScopeKeepsIInv ==
  ASSUME IInv, inst_push_scope(Inst)
  PROVE  IInv'
<1>1. mode = "run" /\ ~AtEnd /\ Inst.op = "PUSH_SCOPE"
  BY ExecutedOne DEF inst_push_scope, Opcodes
<1>2. Pops(Inst) = 0 /\ Pushes(Inst) = 0 /\ Inst.op \in Straight
  BY <1>1, NoOperandTable DEF Straight, Opcodes
<1>3. NewScope \in ScopeIds /\ scope \in ScopeIds /\ MemoryTypeOK
  BY NewAddresses DEF inst_push_scope, IInv, TypeOK
<1>4. /\ scopes' = [scopes EXCEPT ![NewScope] = [parent |-> scope, vars |-> EmptyDict]]
      /\ used' = [used EXCEPT !.scopes = @ + 1]
      /\ GoTo(ic + 1, counter, stack)
      /\ scope' = NewScope
      /\ UNCHANGED <<heap, funcs>>
  BY DEF inst_push_scope, scope_create_scope
<1>5. scopes' \in [ScopeIds -> ScopeRecord]
  BY <1>3, <1>4, EmptyDictIsDict DEF MemoryTypeOK, ScopeRecord
<1>6. used' \in [scopes : Nat, objs : Nat, funcs : Nat] /\ used'.funcs = used.funcs
  BY <1>3, <1>4 DEF MemoryTypeOK
<1>7. MemoryTypeOK' /\ SameFunctions
  BY <1>3, <1>4, <1>5, <1>6, MemoryUpdates DEF MemoryTypeOK, ObjectRecord
<1>8. /\ ic + 1 \in Successors(Inst, ic)
      /\ counter \in 0..STACK_SIZE /\ counter >= counter - 0 + 0
      /\ stack \in [Slots -> Value]
  BY <1>1, <1>2, SuccessorTable, OperandsThere DEF IInv, TypeOK
<1> QED
  BY <1>1, <1>2, <1>3, <1>4, <1>7, <1>8, FunctionsRemainOK, StepKeepsIInv

LEMMA PopScopeKeepsIInv ==
  ASSUME IInv, inst_pop_scope(Inst)
  PROVE  IInv'
<1>1. mode = "run" /\ ~AtEnd /\ Inst.op = "POP_SCOPE"
  BY ExecutedOne DEF inst_pop_scope, Opcodes
<1>2. Pops(Inst) = 0 /\ Pushes(Inst) = 0 /\ Inst.op \in Straight
  BY <1>1, NoOperandTable DEF Straight, Opcodes
<1>3. CASE scopes[scope].parent = NULL
  BY <1>3, FaultNames, PanicKeepsIInv DEF inst_pop_scope
<1>4. CASE scopes[scope].parent # NULL
  <2>1. /\ GoTo(ic + 1, counter, stack)
        /\ scope' = scopes[scope].parent
        /\ UNCHANGED memory
    BY <1>4 DEF inst_pop_scope
  <2>2. MemoryTypeOK' /\ SameFunctions /\ scope' \in ScopeIds
    BY <1>4, <2>1, MemoryStays DEF IInv, TypeOK, MemoryTypeOK
  <2>3. /\ ic + 1 \in Successors(Inst, ic)
        /\ counter \in 0..STACK_SIZE /\ counter >= counter - 0 + 0
        /\ stack \in [Slots -> Value]
    BY <1>1, <1>2, SuccessorTable, OperandsThere DEF IInv, TypeOK
  <2> QED
    BY <1>1, <1>2, <2>1, <2>2, <2>3, FunctionsRemainOK, StepKeepsIInv
<1> QED
  BY <1>3, <1>4

LEMMA JumpKeepsIInv ==
  ASSUME IInv, inst_jmp(Inst)
  PROVE  IInv'
<1>1. mode = "run" /\ ~AtEnd /\ Inst.op = "JMP"
  BY ExecutedOne DEF inst_jmp, Opcodes
<1>2. Pops(Inst) = 0 /\ Pushes(Inst) = 0
  BY <1>1, NoOperandTable
<1>3. GoTo(Inst.n, counter, stack) /\ UNCHANGED <<scope, memory>>
  BY DEF inst_jmp
<1>4. MemoryTypeOK' /\ SameFunctions /\ scope' \in ScopeIds
  BY <1>3, MemoryStays DEF IInv, TypeOK
<1>5. /\ Inst.n \in Successors(Inst, ic)
      /\ counter \in 0..STACK_SIZE /\ counter >= counter - 0 + 0
      /\ stack \in [Slots -> Value]
  BY <1>1, <1>2, SuccessorTable, OperandsThere DEF IInv, TypeOK
<1> QED
  BY <1>1, <1>2, <1>3, <1>4, <1>5, FunctionsRemainOK, StepKeepsIInv

LEMMA ConditionalJumpKeepsIInv ==
  ASSUME IInv, inst_jmp_f(Inst) \/ inst_jmp_t(Inst)
  PROVE  IInv'
<1>1. mode = "run" /\ ~AtEnd /\ Inst.op \in {"JMP_F", "JMP_T"}
  <2>1. Executing(Inst, {"JMP_F", "JMP_T"})
    BY DEF inst_jmp_f, inst_jmp_t, ConditionalJump, Executing
  <2> QED
    BY <2>1, Executed DEF Opcodes
<1>2. Pops(Inst) = 1 /\ Pushes(Inst) = 0
  BY <1>1, PopTable
<1>3. counter # 0 /\ counter \in 0..STACK_SIZE /\ STACK_SIZE \in Nat
  BY <1>1, <1>2, OperandsThere
<1>4. PICK i \in {Inst.n, ic + 1} :
        GoTo(i, counter - 1, stack) /\ UNCHANGED <<scope, memory>>
  BY <1>3 DEF inst_jmp_f, inst_jmp_t, ConditionalJump
<1>5. MemoryTypeOK' /\ SameFunctions /\ scope' \in ScopeIds
  BY <1>4, MemoryStays DEF IInv, TypeOK
<1>6. /\ i \in Successors(Inst, ic)
      /\ counter - 1 \in 0..STACK_SIZE /\ counter - 1 >= counter - 1 + 0
      /\ stack \in [Slots -> Value]
  BY <1>1, <1>3, SuccessorTable DEF IInv, TypeOK
<1> QED
  BY <1>1, <1>2, <1>4, <1>5, <1>6, FunctionsRemainOK, StepKeepsIInv

LEMMA HeapUpdates ==
  ASSUME MemoryTypeOK, UNCHANGED <<scopes, funcs, used>>,
         heap' \in [ObjIds -> ObjectRecord]
  PROVE  MemoryTypeOK' /\ SameFunctions
BY MemoryUpdates DEF MemoryTypeOK, ScopeRecord

LEMMA ObjectCreated ==
  ASSUME MemoryTypeOK, UNCHANGED <<scopes, funcs>>,
         heap' \in [ObjIds -> ObjectRecord],
         used' = [used EXCEPT !.objs = @ + 1]
  PROVE  MemoryTypeOK' /\ SameFunctions
<1>1. used' \in [scopes : Nat, objs : Nat, funcs : Nat] /\ used'.funcs = used.funcs
  BY DEF MemoryTypeOK
<1> QED
  BY <1>1, MemoryUpdates DEF MemoryTypeOK, ScopeRecord

LEMMA AllocKeepsIInv ==
  ASSUME IInv, inst_arr_alloc(Inst) \/ inst_obj_alloc(Inst)
  PROVE  IInv'
<1>1. mode = "run" /\ ~AtEnd /\ Inst.op \in {"ARR_ALLOC", "OBJ_ALLOC"}
  <2>1. Executing(Inst, {"ARR_ALLOC", "OBJ_ALLOC"})
    BY DEF inst_arr_alloc, inst_obj_alloc, Executing
  <2> QED
    BY <2>1, Executed DEF Opcodes
<1>2. Pops(Inst) = 0 /\ Pushes(Inst) = 1 /\ Inst.op \in Straight
  BY <1>1, PushTable DEF Straight, Opcodes
<1>3. PICK proto \in ObjIds : ObjectPushed(proto)
  BY BuiltinAddresses DEF inst_arr_alloc, inst_obj_alloc
<1>4. CASE counter >= STACK_SIZE
  BY <1>3, <1>4, FaultNames, PanicKeepsIInv DEF ObjectPushed
<1>5. CASE ~(counter >= STACK_SIZE)
  <2>1. /\ CanCreateObjects(1)
        /\ heap' = object_create_object(proto)
        /\ used' = [used EXCEPT !.objs = @ + 1]
        /\ Replace(0, JSObject(NewObject))
        /\ UNCHANGED <<scopes, funcs>>
    BY <1>3, <1>5 DEF ObjectPushed
  <2>2. MemoryTypeOK /\ heap' \in [ObjIds -> ObjectRecord]
    BY <2>1, CreateObjectKeepsType DEF IInv, TypeOK, MemoryTypeOK, ObjectRecord
  <2>3. MemoryTypeOK' /\ SameFunctions
    BY <2>1, <2>2, ObjectCreated
  <2>4. JSObject(NewObject) \in Value
    BY <2>1, <2>2, NewAddresses, ReferencesAreValues
  <2>5. counter - 0 < STACK_SIZE /\ 0 - 1 <= 0 - 1
    BY <1>1, <1>2, <1>5, OperandsThere
  <2> QED
    BY <1>1, <1>2, <2>1, <2>3, <2>4, <2>5, ReplaceKeepsIInv
<1> QED
  BY <1>4, <1>5

LEMMA StoredKeepsIInv ==
  ASSUME IInv, mode = "run", ~AtEnd, Inst.op \in Straight,
         Pops(Inst) \in Nat, Pushes(Inst) = 0,
         NEW target \in Value, NEW key \in Names, NEW v \in Value,
         Stored(Pops(Inst), target, key, v)
  PROVE  IInv'
<1>1. CASE HasProperties(target)
  <2>1. /\ Drop(Pops(Inst))
        /\ heap' = object_set_property(ObjectOf(target), key, v)
        /\ UNCHANGED <<scopes, funcs, used>>
    BY <1>1 DEF Stored
  <2>2. MemoryTypeOK /\ ObjectOf(target) \in ObjIds
    BY <1>1, ObjectOfIsObject DEF IInv, TypeOK
  <2>3. heap' \in [ObjIds -> ObjectRecord]
    BY <2>1, <2>2, StoreKeepsType DEF MemoryTypeOK, ObjectRecord
  <2> QED
    BY <2>1, <2>2, <2>3, HeapUpdates, DropKeepsIInv
<1>2. CASE ~HasProperties(target)
  BY <1>2, FaultNames, PanicKeepsIInv DEF Stored
<1> QED
  BY <1>1, <1>2

LEMMA LoadedKeepsIInv ==
  ASSUME IInv, mode = "run", ~AtEnd, Inst.op \in Straight,
         Pops(Inst) \in {1, 2}, Pushes(Inst) = 1,
         NEW target \in Value, NEW key \in Names,
         Loaded(Pops(Inst), target, key)
  PROVE  IInv'
<1>1. CASE HasProperties(target) /\ LookupEnds(ObjectOf(target), key)
  <2> DEFINE v == object_get_property(ObjectOf(target), key)
  <2>1. Replace(Pops(Inst), v) /\ UNCHANGED memory
    BY <1>1 DEF Loaded
  <2>2. MemoryTypeOK' /\ SameFunctions /\ v \in Value
    BY <2>1, MemoryStays, PropertyIsValue DEF IInv, TypeOK
  <2>3. counter - Pops(Inst) < STACK_SIZE /\ Pops(Inst) \in Nat
    BY OperandsThere
  <2> HIDE DEF v
  <2> QED
    BY <2>1, <2>2, <2>3, ReplaceKeepsIInv
<1>2. CASE ~(HasProperties(target) /\ LookupEnds(ObjectOf(target), key))
  <2>1. Panic("endless lookup") \/ Panic("Target is not a object")
    BY <1>2 DEF Loaded
  <2> QED
    BY <2>1, FaultNames, PanicKeepsIInv
<1> QED
  BY <1>1, <1>2

LEMMA ObjStoreKeepsIInv ==
  ASSUME IInv, inst_obj_store(Inst)
  PROVE  IInv'
<1>1. mode = "run" /\ ~AtEnd /\ Inst.op = "OBJ_STORE"
  BY ExecutedOne DEF inst_obj_store, Opcodes
<1>2. Pops(Inst) = 2 /\ Pushes(Inst) = 0 /\ Inst.op \in Straight
  BY <1>1, OtherTable DEF Straight, Opcodes
<1>3. ~(counter < 2) /\ Top(1) \in Value /\ Top(2) \in Value /\ Inst.k \in Names
  BY <1>1, <1>2, OperandsThere, FetchedInstruction DEF Instruction
<1>4. Stored(2, Top(2), Inst.k, Top(1))
  BY <1>3 DEF inst_obj_store, Needs
<1> QED
  BY <1>1, <1>2, <1>3, <1>4, StoredKeepsIInv

LEMMA ObjCStoreKeepsIInv ==
  ASSUME IInv, inst_obj_cstore(Inst)
  PROVE  IInv'
<1>1. mode = "run" /\ ~AtEnd /\ Inst.op = "OBJ_CSTORE"
  BY ExecutedOne DEF inst_obj_cstore, Opcodes
<1>2. Pops(Inst) = 3 /\ Pushes(Inst) = 0 /\ Inst.op \in Straight
  BY <1>1, OtherTable DEF Straight, Opcodes
<1>3. ~(counter < 3) /\ Top(1) \in Value /\ Top(2) \in Value /\ Top(3) \in Value
  BY <1>1, <1>2, OperandsThere
<1>4. Stored(3, Top(2), KeyOf(Top(1)), Top(3))
  BY <1>3 DEF inst_obj_cstore, Needs
<1> QED
  BY <1>1, <1>2, <1>3, <1>4, KeyIsName, StoredKeepsIInv

LEMMA ObjLoadKeepsIInv ==
  ASSUME IInv, inst_obj_load(Inst)
  PROVE  IInv'
<1>1. mode = "run" /\ ~AtEnd /\ Inst.op = "OBJ_LOAD"
  BY ExecutedOne DEF inst_obj_load, Opcodes
<1>2. Pops(Inst) = 1 /\ Pushes(Inst) = 1 /\ Inst.op \in Straight
  BY <1>1, OtherTable DEF Straight, Opcodes
<1>3. ~(counter < 1) /\ Top(1) \in Value /\ Inst.k \in Names
  BY <1>1, <1>2, OperandsThere, FetchedInstruction DEF Instruction
<1>4. Loaded(1, Top(1), Inst.k)
  BY <1>3 DEF inst_obj_load, Needs
<1> QED
  BY <1>1, <1>2, <1>3, <1>4, LoadedKeepsIInv

LEMMA ObjCLoadKeepsIInv ==
  ASSUME IInv, inst_obj_cload(Inst)
  PROVE  IInv'
<1>1. mode = "run" /\ ~AtEnd /\ Inst.op = "OBJ_CLOAD"
  BY ExecutedOne DEF inst_obj_cload, Opcodes
<1>2. Pops(Inst) = 2 /\ Pushes(Inst) = 1 /\ Inst.op \in Straight
  BY <1>1, OtherTable DEF Straight, Opcodes
<1>3. ~(counter < 2) /\ Top(1) \in Value /\ Top(2) \in Value
  BY <1>1, <1>2, OperandsThere
<1>4. Loaded(2, Top(2), KeyOf(Top(1)))
  BY <1>3 DEF inst_obj_cload, Needs
<1> QED
  BY <1>1, <1>2, <1>3, <1>4, KeyIsName, LoadedKeepsIInv

LEMMA ExportKeepsIInv ==
  ASSUME IInv, inst_export(Inst)
  PROVE  IInv'
<1>1. mode = "run" /\ ~AtEnd /\ Inst.op = "EXPORT"
  BY ExecutedOne DEF inst_export, Opcodes
<1>2. Pops(Inst) = 1 /\ Pushes(Inst) = 0 /\ Inst.op \in Straight
  BY <1>1, PopTable DEF Straight, Opcodes
<1>3. ~(counter < 1) /\ Top(1) \in Value /\ Inst.k \in Names
  BY <1>1, <1>2, OperandsThere, FetchedInstruction DEF Instruction
<1>4. /\ Drop(1)
      /\ heap' = object_set_property(Exports(module), Inst.k, Top(1))
      /\ UNCHANGED <<scopes, funcs, used>>
  BY <1>3 DEF inst_export, Needs
<1>5. MemoryTypeOK /\ Exports(module) \in ObjIds
  BY Addresses DEF IInv, TypeOK
<1>6. heap' \in [ObjIds -> ObjectRecord]
  BY <1>3, <1>4, <1>5, StoreKeepsType DEF MemoryTypeOK, ObjectRecord
<1> QED
  BY <1>1, <1>2, <1>4, <1>5, <1>6, HeapUpdates, DropKeepsIInv

-----------------------------------------------------------------------------
(* FUNC_DECL.                                                              *)

LEMMA FuncDeclMemory ==
  ASSUME IInv, CanCreateFunction, NEW first \in Nat, NEW last \in Nat, NEW d \in Dict,
         funcs' = [funcs EXCEPT ![NewFunction] = NewScript(module, first, last)],
         heap' = FunctionHeap,
         scopes' = DeclaredIn(scope, d),
         used' = [scopes |-> used.scopes + 1, objs |-> used.objs + 2,
                  funcs |-> used.funcs + 1]
  PROVE  MemoryTypeOK' /\ FunctionsRemain
<1>1. MemoryTypeOK /\ scope \in ScopeIds /\ module \in Modules
  BY DEF IInv, TypeOK
<1>2. NewFunction \in FuncIds /\ NewScope \in ScopeIds /\ NewObject \in ObjIds
  BY <1>1, NewAddresses
<1>3. NewScript(module, first, last) \in Function
  BY <1>1, <1>2 DEF NewScript, Function
<1>4. funcs' \in [FuncIds -> Function]
  BY <1>1, <1>3 DEF MemoryTypeOK
<1>5. heap' \in [ObjIds -> ObjectRecord]
  BY <1>1, FunctionHeapType
<1>6. scopes' \in [ScopeIds -> ScopeRecord]
  <2>1. scopes \in [ScopeIds -> ScopeRecord]
    BY <1>1 DEF MemoryTypeOK, ScopeRecord
  <2>2. [parent |-> scope, vars |-> EmptyDict] \in ScopeRecord
    BY <1>1, EmptyDictIsDict DEF ScopeRecord
  <2> DEFINE grown == [scopes EXCEPT ![NewScope] = [parent |-> scope, vars |-> EmptyDict]]
  <2>3. grown \in [ScopeIds -> ScopeRecord]
    BY <2>1, <2>2
  <2>4. scopes' = [grown EXCEPT ![scope].vars = d]
    BY DEF DeclaredIn
  <2> HIDE DEF grown
  <2> QED
    BY <1>1, <2>3, <2>4 DEF ScopeRecord
<1>7. used' \in [scopes : Nat, objs : Nat, funcs : Nat]
  BY <1>1 DEF MemoryTypeOK
<1>8. MemoryTypeOK'
  BY <1>4, <1>5, <1>6, <1>7 DEF MemoryTypeOK, ScopeRecord, ObjectRecord
<1>9. FunctionsRemain
  <2>1. funcs[NewFunction].native # "script"
    <3>1. used.funcs \in Nat /\ ~(NewFunction <= used.funcs)
      BY <1>1 DEF MemoryTypeOK, NewFunction
    <3> QED
      BY <1>2, <3>1 DEF IInv, FunctionsOK
  <2> QED
    BY <1>1, <2>1 DEF FunctionsRemain, MemoryTypeOK
<1> QED
  BY <1>8, <1>9

LEMMA FuncDeclFunctions ==
  ASSUME IInv, CanCreateFunction, FunctionsRemain,
         NEW first \in Nat, NEW last \in Nat, last <= Len(Code[module]),
         Fits(Depth[module], Limit[module], first, last, 0),
         funcs' = [funcs EXCEPT ![NewFunction] = NewScript(module, first, last)],
         used'.funcs = used.funcs + 1
  PROVE  FunctionsOK'
<1>1. MemoryTypeOK /\ module \in Modules /\ NewFunction \in FuncIds /\ used.funcs \in Nat
  BY NewAddresses DEF IInv, TypeOK, MemoryTypeOK
<1>2. module # NULL
  BY <1>1, Addresses DEF NULL
<1>3. ASSUME NEW f \in FuncIds, funcs'[f].native = "script"
      PROVE  /\ f <= used'.funcs
             /\ funcs'[f].module # NULL
             /\ funcs'[f].last <= Len(Code[funcs'[f].module])
             /\ Fits(Depth[funcs'[f].module], Limit[funcs'[f].module],
                     funcs'[f].first, funcs'[f].last, 0)
  <2>1. CASE f = NewFunction
    <3>1. funcs'[f] = NewScript(module, first, last)
      BY <1>1, <2>1 DEF MemoryTypeOK
    <3>2. /\ funcs'[f].module = module /\ funcs'[f].first = first
          /\ funcs'[f].last = last
      BY <3>1 DEF NewScript
    <3>3. f <= used'.funcs
      BY <1>1, <2>1, Addresses DEF NewFunction
    <3> QED
      BY <1>2, <3>2, <3>3
  <2>2. CASE f # NewFunction
    <3>1. funcs'[f] = funcs[f]
      BY <2>2, <1>1 DEF MemoryTypeOK
    <3>2. /\ f <= used.funcs
          /\ funcs[f].module # NULL
          /\ funcs[f].last <= Len(Code[funcs[f].module])
          /\ Ready(funcs[f].module, funcs[f].first, f, 0)
      BY <1>3, <3>1 DEF IInv, FunctionsOK
    <3>3. f # NULL /\ f \in Nat
      BY Addresses DEF NULL
    <3>4. Fits(Depth[funcs[f].module], Limit[funcs[f].module],
               funcs[f].first, funcs[f].last, 0)
      BY <3>2, <3>3 DEF Ready, EndOf
    <3> QED
      BY <1>1, <3>1, <3>2, <3>3, <3>4
  <2> QED
    BY <2>1, <2>2
<1>4. \A f \in FuncIds : f # NULL
  BY Addresses DEF NULL
<1> QED
  BY <1>3, <1>4 DEF FunctionsOK, Ready, EndOf

LEMMA FuncDeclKeepsIInv ==
  ASSUME IInv, inst_func_decl(Inst)
  PROVE  IInv'
<1>1. mode = "run" /\ ~AtEnd /\ Inst.op \in {"FUNC_DECL", "FUNC_DECL_E"}
  BY Executed DEF inst_func_decl, Opcodes
<1>2. Pops(Inst) = 0 /\ Pushes(Inst) = 1
  BY <1>1, PushTable
<1>3. CASE counter >= STACK_SIZE
  BY <1>3, FaultNames, PanicKeepsIInv DEF inst_func_decl
<1>4. CASE ~(counter >= STACK_SIZE)
  <2> DEFINE size == BodySize(Inst)
             f == JSFunc(NewFunction)
             d == IF Inst.op = "FUNC_DECL" THEN Set(scopes[scope].vars, Inst.k, f)
                                           ELSE scopes[scope].vars
             s == [stack EXCEPT ![counter] = f]
  <2>1. /\ CanCreateFunction
        /\ funcs' = [funcs EXCEPT
                       ![NewFunction] = NewScript(module, ic + 1, ic + 1 + size)]
        /\ heap' = FunctionHeap
        /\ scopes' = DeclaredIn(scope, d)
        /\ used' = [scopes |-> used.scopes + 1, objs |-> used.objs + 2,
                    funcs |-> used.funcs + 1]
        /\ GoTo(ic + 1 + size, counter + 1, s)
        /\ UNCHANGED scope
    BY <1>4 DEF inst_func_decl
  <2>2. /\ MemoryTypeOK /\ scope \in ScopeIds /\ stack \in [Slots -> Value] /\ ic \in Nat
    BY DEF IInv, TypeOK
  <2>3. f \in Value
    BY <2>1, <2>2, NewAddresses, ReferencesAreValues
  <2>4. d \in Dict
    <3>1. scopes[scope].vars \in Dict
      BY <2>2 DEF MemoryTypeOK
    <3>2. Inst.k \in Names
      BY <1>1, FetchedInstruction DEF Instruction
    <3> QED
      BY <2>3, <3>1, <3>2, SetIsDict
  <2>5. /\ size \in Nat
        /\ ic + 1 + size <= Len(Code[module])
        /\ Fits(Depth[module], Limit[module], ic + 1, ic + 1 + size, 0)
    BY <1>1, NextInstruction DEF IsFunctionDeclaration
  <2>6. s \in [Slots -> Value]
    BY <2>2, <2>3
  <2>7. /\ counter + 1 \in 0..STACK_SIZE /\ counter + 1 >= counter - 0 + 1
    BY <1>1, <1>2, <1>4, OperandsThere
  <2>8. ic + 1 + size \in Successors(Inst, ic)
    BY <1>1, SuccessorTable
  <2> HIDE DEF size, f, d, s
  <2>9. ic + 1 \in Nat /\ ic + 1 + size \in Nat /\ used'.funcs = used.funcs + 1
    BY <2>1, <2>2, <2>5
  <2>10. MemoryTypeOK' /\ FunctionsRemain
    BY <2>1, <2>4, <2>9, FuncDeclMemory
  <2>11. FunctionsOK'
    BY <2>1, <2>5, <2>9, <2>10, FuncDeclFunctions
  <2>12. scope' \in ScopeIds
    BY <2>1, <2>2
  <2> QED
    BY <1>1, <1>2, <2>1, <2>6, <2>7, <2>8, <2>10, <2>11, <2>12, StepKeepsIInv
<1> QED
  BY <1>3, <1>4

-----------------------------------------------------------------------------
(* Entering functions, modules and natives.                                *)

LEMMA PushFrame ==
  ASSUME IInv, SameFunctions, NEW fr \in Frame, FrameOK(fr), fr.fn = fn,
         frames' = Append(frames, fr)
  PROVE  frames' \in Seq(Frame) /\ FramesOK' /\ frames' # <<>>
<1>1. frames \in Seq(Frame) /\ FramesOK /\ RegistersOK
  BY DEF IInv, TypeOK
<1>2. /\ frames' \in Seq(Frame) /\ frames' # <<>>
      /\ Len(frames') = Len(frames) + 1
      /\ \A k \in 1..Len(frames) : frames'[k] = frames[k]
      /\ frames'[Len(frames) + 1] = fr
  BY <1>1, AppendProperties
<1>3. \A k \in DOMAIN frames' : FrameOK(frames'[k])
  <2> SUFFICES ASSUME NEW k \in 1..Len(frames') PROVE FrameOK(frames'[k])
    BY <1>2
  <2>1. CASE k \in 1..Len(frames)
    BY <1>1, <1>2, <2>1 DEF FramesOK
  <2>2. CASE k = Len(frames) + 1
    BY <1>2, <2>2
  <2> QED
    BY <1>1, <1>2, <2>1, <2>2
<1>4. frames'[1].fn = NULL
  <2>1. CASE frames = <<>>
    BY <1>1, <1>2, <2>1 DEF RegistersOK
  <2>2. CASE frames # <<>>
    <3>1. 1 \in 1..Len(frames)
      BY <1>1, <2>2
    <3> QED
      BY <1>1, <1>2, <2>2, <3>1 DEF FramesOK
  <2> QED
    BY <2>1, <2>2
<1>5. \A k \in DOMAIN frames' : FrameOK(frames[k])'
  BY <1>3 DEF SameFunctions, FrameOK, IsRunnable, Ready, EndOf
<1> QED
  BY <1>2, <1>4, <1>5 DEF FramesOK

LEMMA EnterFunctionKeepsIInv ==
  ASSUME IInv, SameFunctions, MemoryTypeOK', NEW fr \in Frame, FrameOK(fr), fr.fn = fn,
         frames' = Append(frames, fr), pending' = pending,
         NEW f \in FuncIds, funcs[f].native = "script",
         NEW c \in 0..STACK_SIZE, NEW s \in [Slots -> Value],
         vm_exec_function(f, c, s)
  PROVE  IInv'
<1>1. /\ module' = funcs[f].module /\ ic' = funcs[f].first /\ counter' = c
      /\ start' = c /\ stack' = s /\ scope' = funcs[f].scope /\ fn' = f
      /\ mode' = "run"
  BY DEF vm_exec_function
<1>2. frames' \in Seq(Frame) /\ FramesOK' /\ frames' # <<>>
  BY PushFrame
<1>3. /\ funcs[f] \in Function /\ funcs[f].module # NULL
      /\ Ready(funcs[f].module, funcs[f].first, f, 0)
  BY DEF IInv, TypeOK, MemoryTypeOK, FunctionsOK
<1>4. c \in Nat /\ c - c = 0 /\ c <= c
  BY ExecutionAssumption
<1>5. TypeOK'
  BY <1>1, <1>2, <1>3, <1>4 DEF IInv, TypeOK, Function
<1>6. RegistersOK'
  <2>1. IsRunnable(funcs[f].module, f)
    BY DEF IsRunnable
  <2>2. /\ IsRunnable(funcs[f].module, f)'
        /\ Ready(module, ic, fn, counter - start)'
    BY <1>1, <1>3, <1>4, <2>1 DEF SameFunctions, IsRunnable, Ready, EndOf
  <2> QED
    BY <1>1, <1>2, <1>4, <2>1, <2>2 DEF RegistersOK, IsRunnable, SameFunctions
<1> QED
  BY <1>1, <1>2, <1>5, <1>6, FunctionsRemainOK DEF IInv, NoUnderflow

LEMMA EnterNativeKeepsIInv ==
  ASSUME IInv, SameFunctions, MemoryTypeOK',
         UNCHANGED <<module, start, stack, scope, fn, frames>>,
         ic' \in Nat, counter' \in 0..STACK_SIZE,
         NEW f \in FuncIds, NEW this \in Value, NEW args \in Seq(Value),
         NEW n \in Nat, NEW obj \in ObjIds \cup {NULL},
         EnterNative(f, this, args, n, obj),
         start + n + 1 <= counter',
         Ready(module, ic', fn, counter' - start - n)
  PROVE  IInv'
<1>1. /\ pending' = [fn |-> f, this |-> this, args |-> args, n |-> n, obj |-> obj]
      /\ mode' = "native"
  BY DEF EnterNative
<1>2. pending' \in Pending /\ pending'.n = n
  BY <1>1 DEF Pending
<1>3. TypeOK'
  BY <1>1, <1>2 DEF IInv, TypeOK
<1>4. RegistersOK'
  <2>1. Ready(module, ic, fn, counter - start - pending.n)'
    BY <1>2 DEF SameFunctions, Ready, EndOf
  <2> QED
    BY <1>1, <1>2, <2>1 DEF IInv, RegistersOK, IsRunnable, SameFunctions
<1>5. FramesOK'
  BY FunctionsRemainOK, FramesRemain DEF IInv, TypeOK
<1> QED
  BY <1>1, <1>3, <1>4, <1>5, FunctionsRemainOK DEF IInv, NoUnderflow

LEMMA SavedIsFrame ==
  ASSUME TypeOK, NEW i \in Nat, NEW c \in 0..STACK_SIZE, NEW s \in [Slots -> Value],
         NEW n \in Nat, NEW taken \in Nat, NEW obj \in ObjIds \cup {NULL},
         NEW import \in Modules \cup {NULL}
  PROVE  Saved(i, c, s, n, taken, obj, import) \in Frame
BY DEF TypeOK, Saved, Frame

\* The registers of the caller, saved while start..c holds n arguments and this.
LEMMA SavedFrameOK ==
  ASSUME IInv, NEW i, NEW c \in Nat, NEW s, NEW n \in Nat, NEW taken \in Nat, NEW obj,
         NEW import,
         start + n + 1 <= c - taken,
         Ready(module, i, fn, (c - taken) - start - n)
  PROVE  /\ FrameOK(Saved(i, c, s, n, taken, obj, import))
         /\ Saved(i, c, s, n, taken, obj, import).fn = fn
BY DEF FrameOK, Saved, IInv, RegistersOK

LEMMA CallKeepsIInv ==
  ASSUME IInv, inst_call(Inst)
  PROVE  IInv'
<1>1. mode = "run" /\ ~AtEnd /\ Inst.op = "CALL"
  BY ExecutedOne DEF inst_call, Opcodes
<1> DEFINE n == Inst.n
           f == Top(1).num
<1>2. Pops(Inst) = n + 2 /\ Pushes(Inst) = 1 /\ Inst.op \in Straight /\ n \in Nat
  BY <1>1, OtherTable, NextInstruction DEF Straight, Opcodes
<1>3. /\ counter \in Nat /\ counter <= STACK_SIZE /\ STACK_SIZE \in Nat
      /\ start \in Nat /\ counter >= n + 2 /\ Top(1) \in Value
      /\ \A i \in 1..counter : stack[counter - i] \in Value
  BY <1>1, <1>2, OperandsThere DEF Top
<1>4. /\ ic + 1 \in Nat
      /\ Ready(module, ic + 1, fn, (counter - 1 - n) - start)
      /\ start + n + 1 <= counter - 1
  <2>1. ic + 1 \in Successors(Inst, ic)
    BY <1>2, SuccessorTable
  <2>2. counter - 1 - n \in Int /\ counter - 1 - n >= counter - Pops(Inst) + Pushes(Inst)
    BY <1>2, <1>3
  <2>3. ic + 1 \in Nat /\ Ready(module, ic + 1, fn, (counter - 1 - n) - start)
    BY <1>1, <1>2, <2>1, <2>2, SuccessorReady
  <2>4. /\ Depth[module][ic] \in Nat /\ Depth[module][ic] <= counter - start
        /\ n + 2 <= Depth[module][ic]
    BY <1>1, <1>2, FetchedInstruction, NextInstruction
  <2> QED
    BY <1>2, <1>3, <2>3, <2>4
<1>5. /\ TypeOK /\ MemoryTypeOK /\ stack \in [Slots -> Value]
      /\ ~(counter < 1) /\ ~(counter < 2) /\ ~(counter < n + 2)
      /\ counter - 1 \in 0..STACK_SIZE
  BY <1>2, <1>3 DEF IInv, TypeOK
<1>6. \A i \in 0..n : Argument(i) \in Value
  <2>1. \A i \in 0..n : 2 + i \in 1..counter /\ counter - (2 + i) = counter - 2 - i
    BY <1>2, <1>3
  <2> QED
    BY <1>3, <2>1 DEF Argument
<1>7. CASE Top(1).type # "function"
  BY <1>5, <1>7, FaultNames, PanicKeepsIInv DEF inst_call, Needs
<1>8. CASE Top(1).type = "function" /\ funcs[f].native = "script"
  <2> DEFINE fr == Saved(ic + 1, counter - 1, stack, n, 0, NULL, NULL)
  <2>1. /\ vm_exec_function(f, counter - 1, stack)
        /\ frames' = Append(frames, fr)
        /\ scopes' = scope_declare(funcs[f].scope, "this", Argument(0))
        /\ UNCHANGED <<heap, funcs, used, pending>>
    BY <1>5, <1>8 DEF inst_call, Needs
  <2>2. f \in FuncIds /\ funcs[f].scope \in ScopeIds
    BY <1>3, <1>5, <1>8, ReferencedAddress DEF MemoryTypeOK, Function
  <2>3. scopes' \in [ScopeIds -> ScopeRecord]
    <3>1. Argument(0) \in Value /\ "this" \in Names
      BY <1>2, <1>6, RuntimeAssumption
    <3> QED
      BY <1>5, <2>1, <2>2, <3>1, DeclareKeepsType DEF MemoryTypeOK, ScopeRecord
  <2>4. MemoryTypeOK' /\ SameFunctions
    BY <1>5, <2>1, <2>3, MemoryUpdates DEF MemoryTypeOK, ObjectRecord
  <2>5. fr \in Frame
    BY <1>2, <1>4, <1>5, SavedIsFrame
  <2>6. FrameOK(fr) /\ fr.fn = fn
    <3>1. /\ counter - 1 \in Nat /\ start + n + 1 <= (counter - 1) - 0
          /\ ((counter - 1) - 0) - start - n = (counter - 1 - n) - start
      BY <1>2, <1>3, <1>4
    <3>2. Ready(module, ic + 1, fn, ((counter - 1) - 0) - start - n)
      BY <1>4, <3>1
    <3> QED
      BY <1>2, <3>1, <3>2, SavedFrameOK
  <2> HIDE DEF fr, f
  <2> QED
    BY <1>5, <1>8, <2>1, <2>2, <2>4, <2>5, <2>6, EnterFunctionKeepsIInv
<1>9. CASE Top(1).type = "function" /\ funcs[f].native # "script"
  <2>1. /\ EnterNative(f, Argument(0), Arguments(n), n, NULL)
        /\ ic' = ic + 1
        /\ counter' = counter - 1
        /\ UNCHANGED <<memory, module, start, stack, scope, fn, frames>>
    BY <1>5, <1>9 DEF inst_call, Needs
  <2>2. f \in FuncIds /\ Argument(0) \in Value
    BY <1>2, <1>3, <1>6, <1>9, ReferencedAddress
  <2>3. Arguments(n) \in Seq(Value)
    <3>1. \A i \in 1..n : Argument(i) \in Value
      BY <1>2, <1>6
    <3> QED
      BY <1>2, <3>1, IsASeq DEF Arguments
  <2>4. MemoryTypeOK' /\ SameFunctions
    BY <1>5, <2>1, MemoryStays
  <2>5. /\ start + n + 1 <= counter'
        /\ counter' - start - n = (counter - 1 - n) - start
    BY <1>2, <1>3, <1>4, <2>1
  <2>6. Ready(module, ic', fn, counter' - start - n)
    BY <1>4, <2>1, <2>5
  <2> HIDE DEF f, n
  <2> QED
    BY <1>2, <1>4, <1>5, <2>1, <2>2, <2>3, <2>4, <2>5, <2>6, EnterNativeKeepsIInv
<1> QED
  BY <1>7, <1>8, <1>9

-----------------------------------------------------------------------------
(* Leaving functions and modules.                                          *)

LEMMA ConstructedIsValue ==
  ASSUME NEW v \in Value, NEW obj \in ObjIds \cup {NULL}
  PROVE  Constructed(v, obj) \in Value
BY ReferencesAreValues DEF Constructed

LEMMA CallerIsFrame ==
  ASSUME IInv, frames # <<>>
  PROVE  /\ Caller \in Frame /\ FrameOK(Caller)
         /\ Len(frames) \in Nat \ {0}
         /\ Len(frames) = 1 => Caller.fn = NULL
<1>1. frames \in Seq(Frame) /\ FramesOK
  BY DEF IInv, TypeOK
<1>2. Len(frames) \in Nat \ {0} /\ Len(frames) \in DOMAIN frames
  BY <1>1, EmptySeq
<1> QED
  BY <1>1, <1>2 DEF FramesOK, Caller

LEMMA FrontOfSeq ==
  ASSUME NEW S, NEW q \in Seq(S), q # <<>>
  PROVE  /\ SubSeq(q, 1, Len(q) - 1) \in Seq(S)
         /\ Len(SubSeq(q, 1, Len(q) - 1)) = Len(q) - 1
         /\ \A k \in 1..(Len(q) - 1) : SubSeq(q, 1, Len(q) - 1)[k] = q[k]
<1>1. Len(q) \in Nat \ {0}
  BY EmptySeq
<1>2. PICK L \in Nat : L = Len(q) - 1
  BY <1>1
<1>3. \A k \in 1..L : q[k] \in S
  BY <1>1, <1>2
<1>4. /\ SubSeq(q, 1, L) \in Seq(S)
      /\ Len(SubSeq(q, 1, L)) = IF 1 <= L THEN L - 1 + 1 ELSE 0
      /\ \A k \in 1..(L - 1 + 1) : SubSeq(q, 1, L)[k] = q[1 + k - 1]
  BY <1>3, SubSeqProperties
<1>5. (IF 1 <= L THEN L - 1 + 1 ELSE 0) = L /\ L - 1 + 1 = L
  OBVIOUS
<1>6. \A k \in 1..L : 1 + k - 1 = k
  OBVIOUS
<1> QED
  BY <1>2, <1>4, <1>5, <1>6

LEMMA PopFrame ==
  ASSUME IInv, SameFunctions, frames # <<>>,
         frames' = SubSeq(frames, 1, Len(frames) - 1)
  PROVE  /\ frames' \in Seq(Frame) /\ FramesOK'
         /\ frames' = <<>> => Caller.fn = NULL
<1>1. frames \in Seq(Frame) /\ FramesOK /\ Len(frames) \in Nat \ {0}
  BY CallerIsFrame DEF IInv, TypeOK
<1>2. /\ frames' \in Seq(Frame)
      /\ Len(frames') = Len(frames) - 1
      /\ \A k \in 1..(Len(frames) - 1) : frames'[k] = frames[k]
  BY <1>1, FrontOfSeq
<1>3. \A k \in DOMAIN frames' : k \in DOMAIN frames /\ frames'[k] = frames[k]
  BY <1>1, <1>2
<1>4. \A k \in DOMAIN frames' : FrameOK(frames[k])'
  <2>1. \A k \in DOMAIN frames' : FrameOK(frames'[k])
    BY <1>1, <1>3 DEF FramesOK
  <2> QED
    BY <2>1 DEF SameFunctions, FrameOK, IsRunnable, Ready, EndOf
<1>5. frames' # <<>> => frames'[1].fn = NULL
  <2>1. frames' # <<>> => 1 \in DOMAIN frames'
    BY <1>2
  <2> QED
    BY <1>1, <1>3, <2>1 DEF FramesOK
<1>6. frames' = <<>> => Caller.fn = NULL
  <2>1. frames' = <<>> => Len(frames') = 0
    BY EmptySeq
  <2>2. frames' = <<>> => Len(frames) = 1
    BY <1>1, <1>2, <2>1
  <2> QED
    BY <2>2, CallerIsFrame
<1> QED
  BY <1>2, <1>4, <1>5, <1>6 DEF FramesOK

LEMMA ReturnKeepsIInv ==
  ASSUME IInv, frames # <<>>, NEW v \in Value, ReturnTo(Caller, v)
  PROVE  IInv'
<1> DEFINE fr == Caller
           c == fr.counter - fr.argc
           s == [fr.stack EXCEPT ![c - fr.n - 1] = Constructed(v, fr.obj)]
<1>1. /\ fr \in Frame /\ FrameOK(fr)
  BY CallerIsFrame
<1>2. /\ fr.counter \in Nat /\ fr.counter <= STACK_SIZE /\ fr.argc \in Nat
      /\ fr.n \in Nat /\ fr.start \in Nat /\ STACK_SIZE \in Nat
      /\ fr.start + fr.n + 1 <= c
      /\ IsRunnable(fr.module, fr.fn)
      /\ Ready(fr.module, fr.ic, fr.fn, c - fr.start - fr.n)
  BY <1>1, ExecutionAssumption DEF Frame, FrameOK
<1>3. ~(c < fr.n + 1) /\ c - fr.n \in 0..STACK_SIZE /\ fr.start <= c - fr.n
  BY SMTT(30), <1>2
<1>4. /\ module' = fr.module /\ ic' = fr.ic /\ counter' = c - fr.n
      /\ start' = fr.start /\ stack' = s /\ scope' = fr.scope /\ fn' = fr.fn
      /\ frames' = SubSeq(frames, 1, Len(frames) - 1)
      /\ mode' = "run"
      /\ UNCHANGED <<memory, pending>>
  BY <1>3 DEF ReturnTo
<1>5. s \in [Slots -> Value]
  BY <1>1, ConstructedIsValue DEF Frame
<1>6. MemoryTypeOK' /\ SameFunctions
  BY <1>4, MemoryStays DEF IInv, TypeOK
<1>7. /\ frames' \in Seq(Frame) /\ FramesOK'
      /\ frames' = <<>> => fr.fn = NULL
  BY <1>4, <1>6, PopFrame
<1>8. TypeOK'
  BY <1>1, <1>3, <1>4, <1>5, <1>6, <1>7 DEF IInv, TypeOK, Frame
<1>9. RegistersOK'
  <2>1. (c - fr.n) - fr.start = c - fr.start - fr.n
    BY <1>2
  <2> HIDE DEF fr, c, s
  <2>2. IsRunnable(module, fn)' /\ Ready(module, ic, fn, counter - start)'
    BY <1>2, <1>4, <1>6, <2>1 DEF SameFunctions, IsRunnable, Ready, EndOf
  <2> QED
    BY <1>3, <1>4, <1>7, <2>2 DEF RegistersOK
<1> QED
  BY <1>4, <1>6, <1>7, <1>8, <1>9, FunctionsRemainOK DEF IInv, NoUnderflow

LEMMA LeaveKeepsIInv ==
  ASSUME IInv, Return \/ ModuleEnds \/ Exit
  PROVE  IInv'
<1>1. CASE Return
  <2>1. mode = "run" /\ fn # NULL
    BY <1>1 DEF Return
  <2>2. frames # <<>>
    BY <2>1 DEF IInv, RegistersOK
  <2> DEFINE v == IF counter > start THEN Top(1) ELSE JSUndefined
  <2>3. v \in Value
    <3>1. /\ counter \in 0..STACK_SIZE /\ start \in Nat /\ STACK_SIZE \in Nat
          /\ stack \in [Slots -> Value]
      BY ExecutionAssumption DEF IInv, TypeOK
    <3>2. counter > start => counter - 1 \in Slots
      BY <3>1 DEF Slots
    <3> QED
      BY <3>1, <3>2, ConstantValues DEF Top
  <2>4. ReturnTo(Caller, v)
    BY <1>1 DEF Return
  <2> HIDE DEF v
  <2> QED
    BY <2>2, <2>3, <2>4, ReturnKeepsIInv
<1>2. CASE ModuleEnds
  <2>1. frames # <<>> /\ ReturnTo(Caller, JSObject(Exports(Caller.import)))
    BY <1>2 DEF ModuleEnds
  <2>2. JSObject(Exports(Caller.import)) \in Value
    BY <2>1, CallerIsFrame, Addresses, ReferencesAreValues DEF Frame
  <2> QED
    BY <2>1, <2>2, ReturnKeepsIInv
<1>3. CASE Exit
  BY <1>3, StopKeepsIInv, MemoryStays DEF Exit, control, IInv, TypeOK
<1> QED
  BY <1>1, <1>2, <1>3

-----------------------------------------------------------------------------
(* Native functions.                                                       *)

LEMMA PendingType ==
  ASSUME IInv
  PROVE  /\ pending.fn \in FuncIds /\ pending.this \in Value
         /\ pending.args \in Seq(Value) /\ pending.n \in Nat
         /\ pending.obj \in ObjIds \cup {NULL}
         /\ argc \in Nat
         /\ \A i \in 1..argc : Arg(i) \in Value
<1>1. pending \in Pending
  BY DEF IInv, TypeOK
<1> QED
  BY <1>1 DEF Pending, argc, Arg

LEMMA NativeRegisters ==
  ASSUME IInv, mode = "native"
  PROVE  /\ counter \in 0..STACK_SIZE /\ STACK_SIZE \in Nat /\ counter \in Nat
         /\ start \in Nat /\ start + pending.n + 1 <= counter
         /\ Ready(module, ic, fn, counter - start - pending.n)
BY ExecutionAssumption DEF IInv, TypeOK, RegistersOK

LEMMA ResultKeepsIInv ==
  ASSUME IInv, mode = "native", SameFunctions, MemoryTypeOK',
         NEW v \in Value, Result(v)
  PROVE  IInv'
<1> DEFINE n == pending.n
           s == [stack EXCEPT ![counter - n - 1] = Constructed(v, pending.obj)]
<1>1. /\ counter' = counter - n /\ stack' = s /\ mode' = "run"
      /\ UNCHANGED <<module, ic, start, scope, fn, frames, pending>>
  BY DEF Result
<1>2. s \in [Slots -> Value]
  BY PendingType, ConstructedIsValue DEF IInv, TypeOK
<1>3. /\ counter - n \in 0..STACK_SIZE /\ start <= counter - n
      /\ (counter - n) - start = counter - start - n
  BY SMTT(30), NativeRegisters, PendingType
<1> HIDE DEF n, s
<1>4. TypeOK'
  BY <1>1, <1>2, <1>3 DEF IInv, TypeOK
<1>5. RegistersOK'
  <2>1. Ready(module, ic, fn, counter - n - start)
    BY <1>3, NativeRegisters DEF n
  <2>2. IsRunnable(module, fn)' /\ Ready(module, ic, fn, counter - start)'
    BY <1>1, <1>3, <2>1 DEF SameFunctions, IsRunnable, Ready, EndOf, IInv, RegistersOK
  <2> QED
    BY <1>1, <1>3, <2>2 DEF RegistersOK, IInv
<1>6. FramesOK'
  BY <1>1, FunctionsRemainOK, FramesRemain DEF IInv, TypeOK
<1> QED
  BY <1>1, <1>4, <1>5, <1>6, FunctionsRemainOK DEF IInv, NoUnderflow

LEMMA ReturnsKeepsIInv ==
  ASSUME IInv, mode = "native", NEW v \in Value, Returns(v)
  PROVE  IInv'
BY ResultKeepsIInv, MemoryStays DEF Returns, IInv, TypeOK

LEMMA AllocatesKeepsIInv ==
  ASSUME IInv, mode = "native", NEW o \in ObjectRecord, NEW v \in Value, Allocates(o, v)
  PROVE  IInv'
<1>1. /\ heap' = [heap EXCEPT ![NewObject] = o]
      /\ used' = [used EXCEPT !.objs = @ + 1]
      /\ Result(v)
      /\ UNCHANGED <<scopes, funcs>>
  BY DEF Allocates
<1>2. MemoryTypeOK /\ heap' \in [ObjIds -> ObjectRecord]
  BY <1>1 DEF IInv, TypeOK, MemoryTypeOK, ObjectRecord
<1>3. MemoryTypeOK' /\ SameFunctions
  BY <1>1, <1>2, ObjectCreated
<1> QED
  BY <1>1, <1>3, ResultKeepsIInv

\* The natives that only return a value.
LEMMA SimpleNativesKeepIInv ==
  ASSUME IInv, print \/ module_get_export_obj \/ object \/ function \/ is_array
  PROVE  IInv'
<1>1. CASE print
  BY <1>1, ConstantValues, ResultKeepsIInv, MemoryStays DEF print, Running, IInv, TypeOK
<1>2. CASE module_get_export_obj
  <2>1. JSObject(Exports(module)) \in Value
    BY Addresses, ReferencesAreValues DEF IInv, TypeOK
  <2> QED
    BY <1>2, <2>1, ReturnsKeepsIInv DEF module_get_export_obj, Running
<1>3. CASE object \/ function
  BY <1>3, ConstantValues, ReturnsKeepsIInv DEF object, function, Running
<1>4. CASE is_array
  <2>1. mode = "native"
    BY <1>4 DEF is_array, Running
  <2>2. CASE Panic("endless lookup")
    BY <2>2, FaultNames, PanicKeepsIInv
  <2>3. CASE \E b : Returns(JSBool(b))
    BY <2>1, <2>3, ConstantValues, ReturnsKeepsIInv
  <2> QED
    BY <1>4, <2>2, <2>3 DEF is_array
<1> QED
  BY <1>1, <1>2, <1>3, <1>4

LEMMA AllocatingNativesKeepIInv ==
  ASSUME IInv, create \/ symbol
  PROVE  IInv'
<1>1. mode = "native" /\ CanCreateObjects(1)
  BY DEF create, symbol, Running, Allocates
<1>2. JSObject(NewObject) \in Value /\ Tagged("symbol", NewObject) \in Value
  BY <1>1, NewAddresses, ReferencesAreValues DEF IInv, TypeOK
<1>3. argc > 0 => Arg(1) \in Value
  BY PendingType
<1>4. CASE create
  <2> DEFINE o == [proto |-> IF argc > 0 /\ Arg(1).type = "object" THEN Arg(1).num
                                                                   ELSE ObjectPrototype,
                   props |-> EmptyDict]
  <2>1. o \in ObjectRecord
    BY <1>3, ReferencedAddress, BuiltinAddresses, EmptyDictIsDict DEF ObjectRecord
  <2>2. Allocates(o, JSObject(NewObject))
    BY <1>4 DEF create
  <2> HIDE DEF o
  <2> QED
    BY <1>1, <1>2, <2>1, <2>2, AllocatesKeepsIInv
<1>5. CASE symbol
  <2> DEFINE text == IF Arg(1).type = "string" THEN Arg(1) ELSE OtherText
             o == [proto |-> SymbolPrototype,
                   props |-> IF argc = 0 THEN EmptyDict
                             ELSE Set(EmptyDict, "description", text)]
  <2>1. argc # 0 => text \in Value
    BY <1>3, PendingType, ConstantValues DEF OtherText
  <2>2. o \in ObjectRecord
    <3>1. "description" \in Names
      BY RuntimeAssumption
    <3> HIDE DEF text
    <3>2. argc # 0 => Set(EmptyDict, "description", text) \in Dict
      BY <2>1, <3>1, EmptyDictIsDict, SetIsDict
    <3> QED
      BY <3>2, BuiltinAddresses, EmptyDictIsDict DEF ObjectRecord
  <2>3. Allocates(o, Tagged("symbol", NewObject))
    BY <1>5 DEF symbol
  <2> HIDE DEF o
  <2> QED
    BY <1>1, <1>2, <2>2, <2>3, AllocatesKeepsIInv
<1> QED
  BY <1>4, <1>5

LEMMA SetPrototypeOfKeepsIInv ==
  ASSUME IInv, setPrototypeOf
  PROVE  IInv'
<1>1. mode = "native" /\ Result(JSUndefined) /\ UNCHANGED <<scopes, funcs, used>>
  BY DEF setPrototypeOf, Running
<1>2. MemoryTypeOK
  BY DEF IInv, TypeOK
<1>3. heap' \in [ObjIds -> ObjectRecord]
  <2>1. CASE argc >= 2 /\ HasProperties(Arg(1)) /\ HasProperties(Arg(2))
    <3>1. heap' = [heap EXCEPT ![ObjectOf(Arg(1))].proto = ObjectOf(Arg(2))]
      BY <2>1 DEF setPrototypeOf
    <3>2. Arg(1) \in Value /\ Arg(2) \in Value
      BY <2>1, PendingType
    <3>3. ObjectOf(Arg(2)) \in ObjIds
      BY <1>2, <2>1, <3>2, ObjectOfIsObject
    <3> QED
      BY <1>2, <3>1, <3>3 DEF MemoryTypeOK, ObjectRecord
  <2>2. CASE ~(argc >= 2 /\ HasProperties(Arg(1)) /\ HasProperties(Arg(2)))
    BY <1>2, <2>2 DEF setPrototypeOf, MemoryTypeOK, ObjectRecord
  <2> QED
    BY <2>1, <2>2
<1>4. MemoryTypeOK' /\ SameFunctions
  BY <1>1, <1>2, <1>3, HeapUpdates
<1> QED
  BY <1>1, <1>4, ConstantValues, ResultKeepsIInv

LEMMA ElementsIsObject ==
  ASSUME NEW length \in Int, NEW elements, \A i \in 1..length : elements[i] \in Value
  PROVE  Elements(length, elements) \in ObjectRecord
<1> DEFINE props == Elements(length, elements).props
<1>1. \A k \in Names : props[k] \in Value \cup {Absent}
  <2> SUFFICES ASSUME NEW k \in Names PROVE props[k] \in Value \cup {Absent}
    OBVIOUS
  <2>1. CASE \E i \in 1..length : KeyOf(JSInt(i - 1)) = k
    <3>1. PICK i \in 1..length : props[k] = elements[i]
      BY <2>1 DEF Elements
    <3> QED
      BY <3>1
  <2>2. CASE ~\E i \in 1..length : KeyOf(JSInt(i - 1)) = k
    <3>1. props[k] \in {JSInt(length), Absent}
      BY <2>2 DEF Elements
    <3> QED
      BY <3>1, ConstantValues
  <2> QED
    BY <2>1, <2>2
<1>2. Elements(length, elements) = [proto |-> ArrayPrototype, props |-> props]
  BY DEF Elements
<1>3. props = [k \in Names |-> props[k]]
  BY DEF Elements
<1> HIDE DEF props
<1>4. props \in Dict
  BY <1>1, <1>3 DEF Dict
<1> QED
  BY <1>2, <1>4, BuiltinAddresses DEF ObjectRecord

LEMMA ArrayKeepsIInv ==
  ASSUME IInv, array
  PROVE  IInv'
<1>1. mode = "native"
  BY DEF array, Running
<1>2. argc \in Nat /\ \A i \in 1..argc : Arg(i) \in Value
  BY PendingType
<1>3. CASE argc = 1 /\ Arg(1).type = "double"
  BY <1>1, <1>3, ConstantValues, ReturnsKeepsIInv DEF array
<1>4. CASE argc = 1 /\ Arg(1).type = "integer"
  <2> DEFINE undefined == [i \in 1..Arg(1).num |-> JSUndefined]
             o == Elements(Arg(1).num, undefined)
  <2>1. Allocates(o, JSObject(NewObject)) /\ CanCreateObjects(1)
    BY <1>4 DEF array, Allocates
  <2>2. JSObject(NewObject) \in Value
    BY <2>1, NewAddresses, ReferencesAreValues DEF IInv, TypeOK
  <2>3. Arg(1).num \in Int /\ \A i \in 1..Arg(1).num : undefined[i] \in Value
    BY <1>2, <1>4, ValueFields, ConstantValues
  <2>4. o \in ObjectRecord
    <3> HIDE DEF undefined
    <3> QED
      BY <2>3, ElementsIsObject
  <2> HIDE DEF o
  <2> QED
    BY <1>1, <2>1, <2>2, <2>4, AllocatesKeepsIInv
<1>5. CASE ~(argc = 1 /\ Arg(1).type \in {"double", "integer"})
  <2> DEFINE o == Elements(argc, pending.args)
  <2>1. Allocates(o, JSObject(NewObject)) /\ CanCreateObjects(1)
    BY <1>5 DEF array, Allocates
  <2>2. JSObject(NewObject) \in Value
    BY <2>1, NewAddresses, ReferencesAreValues DEF IInv, TypeOK
  <2>3. o \in ObjectRecord
    BY <1>2, ElementsIsObject DEF Arg
  <2> HIDE DEF o
  <2> QED
    BY <1>1, <2>1, <2>2, <2>3, AllocatesKeepsIInv
<1> QED
  BY <1>3, <1>4, <1>5

LEMMA ImportKeepsIInv ==
  ASSUME IInv, module_import_module
  PROVE  IInv'
<1>1. mode = "native"
  BY DEF module_import_module, Running
<1>2. CASE Returns(JSUndefined)
  BY <1>1, <1>2, ConstantValues, ReturnsKeepsIInv
<1>3. CASE \E fault \in {"Could not find module in bundle", "bundle overrun"} : Panic(fault)
  BY <1>3, FaultNames, PanicKeepsIInv
<1>4. ASSUME NEW m \in Modules, ImportOf(m) PROVE IInv'
  <2>1. CASE m \in initialized
    <3>1. JSObject(Exports(m)) \in Value
      BY Addresses, ReferencesAreValues
    <3> QED
      BY <1>1, <1>4, <2>1, <3>1, ReturnsKeepsIInv DEF ImportOf
  <2>2. CASE m \notin initialized
    <3> DEFINE fr == Saved(ic, counter, stack, pending.n, 0, pending.obj, m)
    <3>1. /\ scopes' = Attached(scopes, m) /\ module' = m /\ ic' = 0 /\ counter' = 0
          /\ start' = 0 /\ scope' = ModuleScope(m) /\ fn' = NULL
          /\ frames' = Append(frames, fr) /\ mode' = "run"
          /\ UNCHANGED <<heap, funcs, used, stack, pending>>
      BY <1>4, <2>2 DEF ImportOf, vm_exec_module
    <3>2. MemoryTypeOK /\ TypeOK /\ ic \in Nat /\ stack \in [Slots -> Value]
      BY DEF IInv, TypeOK
    <3>3. scopes' \in [ScopeIds -> ScopeRecord]
      BY <3>1, <3>2, Addresses DEF Attached, MemoryTypeOK, ScopeRecord
    <3>4. MemoryTypeOK' /\ SameFunctions
      BY <3>1, <3>2, <3>3, MemoryUpdates DEF MemoryTypeOK, ObjectRecord
    <3>5. fr \in Frame
      BY <1>1, <3>2, NativeRegisters, PendingType, SavedIsFrame
    <3>6. FrameOK(fr) /\ fr.fn = fn
      <4>1. counter - 0 = counter /\ counter \in Nat /\ 0 \in Nat
        BY <1>1, NativeRegisters
      <4>2. start + pending.n + 1 <= counter - 0
        BY <1>1, <4>1, NativeRegisters
      <4>3. Ready(module, ic, fn, (counter - 0) - start - pending.n)
        BY <1>1, <4>1, NativeRegisters
      <4> QED
        BY <4>1, <4>2, <4>3, PendingType, SavedFrameOK
    <3> HIDE DEF fr
    <3>7. frames' \in Seq(Frame) /\ FramesOK' /\ frames' # <<>>
      BY <3>1, <3>4, <3>5, <3>6, PushFrame
    <3>8. TypeOK'
      BY <3>1, <3>2, <3>4, <3>7, Addresses, ExecutionAssumption DEF TypeOK
    <3>9. RegistersOK'
      <4>1. Fits(Depth[m], Limit[m], 0, Len(Code[m]), 0)
        BY VerifiedCode DEF Consistent
      <4>2. Ready(module, ic, fn, counter - start)'
        BY <3>1, <4>1 DEF Ready, EndOf
      <4> QED
        BY <3>1, <3>7, <4>2 DEF RegistersOK, IsRunnable
    <3> QED
      BY <3>1, <3>4, <3>7, <3>8, <3>9, FunctionsRemainOK DEF IInv, NoUnderflow
  <2> QED
    BY <2>1, <2>2
<1> QED
  <2> DEFINE hash == <<Arg(1).num, Arg(2).num>>
  <2>1. CASE \E m \in Modules : Hash[m] = hash
    <3> DEFINE m == CHOOSE m \in Modules : Hash[m] = hash
    <3>1. m \in Modules
      BY <2>1
    <3>2. Returns(JSUndefined) \/ ImportOf(m)
      BY <2>1 DEF module_import_module
    <3> HIDE DEF m
    <3> QED
      BY <1>2, <1>4, <3>1, <3>2
  <2>2. CASE ~\E m \in Modules : Hash[m] = hash
    BY <1>2, <1>3, <2>2 DEF module_import_module
  <2> QED
    BY <2>1, <2>2

LEMMA ApiCallKeepsIInv ==
  ASSUME IInv, mode = "native", heap' \in [ObjIds -> ObjectRecord],
         used' \in [scopes : Nat, objs : Nat, funcs : Nat], used'.funcs = used.funcs,
         NEW f \in FuncIds, NEW this \in Value, NEW args \in Seq(Value),
         NEW obj \in ObjIds \cup {NULL}, api_call_function(f, this, args, obj)
  PROVE  IInv'
<1> DEFINE n == Len(args)
           pushed == [i \in Slots |->
                        IF i \in counter..(counter + n - 1) THEN args[n - (i - counter)]
                        ELSE IF i = counter + n THEN this
                        ELSE stack[i]]
<1>1. MemoryTypeOK /\ TypeOK /\ stack \in [Slots -> Value] /\ n \in Nat
  BY DEF IInv, TypeOK
<1>2. UNCHANGED funcs
  BY DEF api_call_function
<1>3. CASE funcs[f].native # "script"
  <2>1. /\ EnterNative(f, this, args, pending.n, obj)
        /\ UNCHANGED <<registers, scopes, funcs, frames>>
    BY <1>3 DEF api_call_function
  <2>2. MemoryTypeOK' /\ SameFunctions
    BY <1>1, <2>1, MemoryUpdates DEF MemoryTypeOK, ScopeRecord
  <2>3. /\ UNCHANGED <<module, start, stack, scope, fn, frames>>
        /\ ic' = ic /\ counter' = counter /\ ic \in Nat
    BY <1>1, <2>1 DEF registers, TypeOK
  <2>4. /\ start + pending.n + 1 <= counter' /\ counter' \in 0..STACK_SIZE
        /\ Ready(module, ic', fn, counter' - start - pending.n)
    BY <2>3, NativeRegisters
  <2> QED
    BY <2>1, <2>2, <2>3, <2>4, PendingType, EnterNativeKeepsIInv
<1>4. CASE funcs[f].native = "script" /\ counter + n + 1 > STACK_SIZE
  <2>1. mode' = "stack overrun" /\ UNCHANGED <<registers, control, scopes, funcs>>
    BY <1>4 DEF api_call_function
  <2>2. MemoryTypeOK' /\ SameFunctions
    BY <1>1, <2>1, MemoryUpdates DEF MemoryTypeOK, ScopeRecord
  <2>3. UNCHANGED <<registers, frames, pending>>
    BY <2>1 DEF control
  <2> QED
    BY <2>1, <2>2, <2>3, FaultNames, StopKeepsIInv
<1>5. CASE funcs[f].native = "script" /\ ~(counter + n + 1 > STACK_SIZE)
  <2> DEFINE c == counter + n + 1
             fr == Saved(ic, c, pushed, pending.n, n, obj, NULL)
  <2>1. /\ vm_exec_function(f, c, pushed)
        /\ frames' = Append(frames, fr)
        /\ scopes' = scope_declare(funcs[f].scope, "this", this)
        /\ UNCHANGED <<funcs, pending>>
    BY <1>5 DEF api_call_function
  <2>2. pushed \in [Slots -> Value]
    <3>1. \A i \in counter..(counter + n - 1) : n - (i - counter) \in 1..n
      BY <1>1, NativeRegisters
    <3>2. \A j \in 1..n : args[j] \in Value
      OBVIOUS
    <3> QED
      BY <1>1, <3>1, <3>2
  <2>3. funcs[f].scope \in ScopeIds /\ "this" \in Names
    BY <1>1, RuntimeAssumption DEF MemoryTypeOK, Function
  <2>4. scopes' \in [ScopeIds -> ScopeRecord]
    BY <1>1, <2>1, <2>3, DeclareKeepsType DEF MemoryTypeOK, ScopeRecord
  <2>5. MemoryTypeOK' /\ SameFunctions
    BY <1>1, <2>1, <2>4, MemoryUpdates
  <2>6. /\ c \in Nat /\ c \in 0..STACK_SIZE
        /\ start + pending.n + 1 <= c - n
        /\ Ready(module, ic, fn, (c - n) - start - pending.n)
    <3> HIDE DEF n, pushed
    <3>1. /\ counter \in Nat /\ STACK_SIZE \in Nat /\ start \in Nat
          /\ start + pending.n + 1 <= counter
      BY NativeRegisters
    <3>2. /\ n \in Nat /\ pending.n \in Nat
      BY <1>1, PendingType
    <3>3. ~(counter + n + 1 > STACK_SIZE)
      BY <1>5
    <3>4. /\ c \in Nat /\ c \in 0..STACK_SIZE /\ c - n = counter + 1
          /\ start + pending.n + 1 <= c - n
      BY <3>1, <3>2, <3>3
    <3>5. Ready(module, ic, fn, counter - start - pending.n)
      BY NativeRegisters
    <3>6. /\ module \in Modules /\ fn \in FuncIds \cup {NULL} /\ ic \in Nat
          /\ EndOf(module, fn) \in Nat
      BY <1>1, EndType DEF TypeOK
    <3>7. EndOf(module, fn) <= Len(Code[module])
      <4>1. CASE fn = NULL
        BY <3>6, <4>1, CodeType DEF EndOf
      <4>2. CASE fn # NULL
        BY <3>6, <4>2 DEF EndOf, IInv, FunctionsOK, RegistersOK, IsRunnable
      <4> QED
        BY <4>1, <4>2
    <3>8. /\ counter - start - pending.n \in Int
          /\ (c - n) - start - pending.n \in Int
          /\ counter - start - pending.n <= (c - n) - start - pending.n
      BY SMTT(30), <3>4, <3>1, <3>2
    <3> QED
      BY <3>4, <3>5, <3>6, <3>7, <3>8, FitsMore DEF Ready
  <2> HIDE DEF pushed, c
  <2>7. fr \in Frame
    BY <1>1, <2>2, <2>6, PendingType, SavedIsFrame DEF TypeOK
  <2>8. FrameOK(fr) /\ fr.fn = fn
    BY <1>1, <2>6, PendingType, SavedFrameOK
  <2> HIDE DEF fr
  <2> QED
    BY <1>5, <2>1, <2>2, <2>5, <2>6, <2>7, <2>8, EnterFunctionKeepsIInv
<1> QED
  BY <1>3, <1>4, <1>5

LEMMA InstantiateKeepsIInv ==
  ASSUME IInv, instantiate
  PROVE  IInv'
<1>1. mode = "native" /\ MemoryTypeOK
  BY DEF instantiate, Running, IInv, TypeOK
<1>2. CASE Returns(JSUndefined)
  BY <1>1, <1>2, ConstantValues, ReturnsKeepsIInv
<1>3. CASE Panic("endless lookup")
  BY <1>3, FaultNames, PanicKeepsIInv
<1>4. CASE ~Returns(JSUndefined) /\ ~Panic("endless lookup")
  <2> DEFINE f == Arg(1).num
             proto == object_get_property(funcs[f].base, "prototype")
  <2>1. /\ argc # 0 /\ Arg(1).type = "function" /\ proto.type = "object"
        /\ CanCreateObjects(1)
        /\ heap' = object_create_object(proto.num)
        /\ used' = [used EXCEPT !.objs = @ + 1]
        /\ api_call_function(f, JSObject(NewObject), Tail(pending.args), NewObject)
    BY <1>4 DEF instantiate
  <2>2. Arg(1) \in Value /\ pending.args # <<>> /\ pending.args \in Seq(Value)
    BY <2>1, PendingType DEF argc
  <2>3. f \in FuncIds /\ Tail(pending.args) \in Seq(Value)
    BY <2>1, <2>2, ReferencedAddress, HeadTailProperties
  <2>4. proto \in Value
    BY <1>1, PropertyIsValue, RuntimeAssumption
  <2>5. heap' \in [ObjIds -> ObjectRecord]
    BY <1>1, <2>1, <2>4, ReferencedAddress, CreateObjectKeepsType
    DEF MemoryTypeOK, ObjectRecord
  <2>6. NewObject \in ObjIds /\ JSObject(NewObject) \in Value
    BY <1>1, <2>1, NewAddresses, ReferencesAreValues
  <2>7. /\ used' \in [scopes : Nat, objs : Nat, funcs : Nat]
        /\ used'.funcs = used.funcs
    BY <1>1, <2>1 DEF MemoryTypeOK
  <2> HIDE DEF f, proto
  <2> QED
    BY <1>1, <2>1, <2>3, <2>5, <2>6, <2>7, ApiCallKeepsIInv
<1> QED
  BY <1>2, <1>3, <1>4

LEMMA CallNativeKeepsIInv ==
  ASSUME IInv, call
  PROVE  IInv'
<1>1. mode = "native" /\ MemoryTypeOK
  BY DEF call, Running, IInv, TypeOK
<1>2. CASE pending.this.type # "function"
  BY <1>1, <1>2, ConstantValues, ReturnsKeepsIInv DEF call
<1>3. CASE pending.this.type = "function"
  <2> DEFINE f == pending.this.num
             this == IF argc = 0 THEN JSUndefined ELSE Arg(1)
             args == IF argc = 0 THEN <<>> ELSE Tail(pending.args)
  <2>1. api_call_function(f, this, args, pending.obj) /\ UNCHANGED <<heap, used>>
    BY <1>3 DEF call
  <2>2. f \in FuncIds
    BY <1>3, PendingType, ReferencedAddress
  <2>3. this \in Value
    BY PendingType, ConstantValues
  <2>4. args \in Seq(Value)
    <3>1. pending.args \in Seq(Value) /\ (argc # 0 => pending.args # <<>>)
      BY PendingType DEF argc
    <3>2. argc # 0 => Tail(pending.args) \in Seq(Value)
      BY <3>1, HeadTailProperties
    <3> QED
      BY <3>2, EmptySeq
  <2>5. /\ heap' \in [ObjIds -> ObjectRecord] /\ used'.funcs = used.funcs
        /\ used' \in [scopes : Nat, objs : Nat, funcs : Nat]
    BY <1>1, <2>1 DEF MemoryTypeOK, ObjectRecord
  <2> HIDE DEF f, this, args
  <2> QED
    BY <1>1, <2>1, <2>2, <2>3, <2>4, <2>5, PendingType, ApiCallKeepsIInv
<1> QED
  BY <1>2, <1>3

-----------------------------------------------------------------------------
(* The induction.                                                          *)

LEMMA InitIInv == Init => IInv
<1> SUFFICES ASSUME Init PROVE IInv
  OBVIOUS
<1>1. /\ entry \in Modules
      /\ scopes = Attached(CoreScopes, entry) /\ heap = CoreHeap /\ funcs = CoreFuncs
      /\ used = FirstFree /\ module = entry
      /\ ic = 0 /\ counter = 0 /\ start = 0 /\ fn = NULL
      /\ stack = [i \in Slots |-> JSUndefined]
      /\ scope = ModuleScope(module) /\ frames = <<>> /\ pending = NoCall
      /\ mode = "run"
  BY ExecutionAssumption DEF Init, vm_init
<1>2. MemoryTypeOK
  <2>1. scopes \in [ScopeIds -> ScopeRecord]
    BY <1>1, CoreScopesType, Addresses DEF Attached, ScopeRecord
  <2>2. used \in [scopes : Nat, objs : Nat, funcs : Nat]
    <3>1. Len(NativeNames) = 12
      BY DEF NativeNames
    <3> QED
      BY <1>1, <3>1, Addresses DEF FirstFree
  <2> QED
    BY <1>1, <2>1, <2>2, CoreHeapType, CoreFuncsType
    DEF MemoryTypeOK, ScopeRecord, ObjectRecord
<1>3. pending \in Pending
  BY <1>1, Addresses, ConstantValues, EmptySeq DEF NoCall, Pending, NULL
<1>4. TypeOK
  BY <1>1, <1>2, <1>3, Addresses, ConstantValues, ExecutionAssumption, EmptySeq DEF TypeOK
<1>5. FunctionsOK
  <2>1. \A f \in FuncIds : funcs[f].native \in NativeFunctions
    BY <1>1, NativeFunctionNames DEF CoreFuncs, NoScript
  <2>2. "script" \notin NativeFunctions
    <3>1. \A f \in Natives :
            NativeNames[f] \in
              {"print", "getExportObj", "importModule", "object", "instantiate", "create",
               "setPrototypeOf", "array", "isArray", "function", "call", "symbol"}
      BY DEF Natives, NativeNames
    <3> QED
      BY <3>1 DEF NativeFunctions
  <2> QED
    BY <2>1, <2>2 DEF FunctionsOK
<1>6. RegistersOK
  <2>1. Fits(Depth[module], Limit[module], 0, Len(Code[module]), 0)
    BY <1>1, VerifiedCode DEF Consistent
  <2> QED
    BY <1>1, <2>1 DEF RegistersOK, IsRunnable, Ready, EndOf
<1>7. FramesOK
  BY <1>1 DEF FramesOK
<1> QED
  BY <1>1, <1>4, <1>5, <1>6, <1>7 DEF IInv, NoUnderflow

LEMMA StutterKeepsIInv ==
  ASSUME IInv, UNCHANGED vars
  PROVE  IInv'
BY DEF IInv, TypeOK, MemoryTypeOK, FunctionsOK, RegistersOK, FramesOK, FrameOK,
       IsRunnable, Ready, EndOf, NoUnderflow, vars, memory, registers, control

LEMMA NextKeepsIInv == IInv /\ [Next]_vars => IInv'
<1> SUFFICES ASSUME IInv, [Next]_vars PROVE IInv'
  OBVIOUS
<1>1. CASE Instructions(Inst)
  BY <1>1, NopKeepsIInv, LoadKeepsIInv, LoadLocalKeepsIInv, LoadArgKeepsIInv,
     BinaryKeepsIInv, UnaryKeepsIInv, PopKeepsIInv, DupKeepsIInv, SwapKeepsIInv,
     AllocLocalKeepsIInv, StoreLocalKeepsIInv, PushScopeKeepsIInv, PopScopeKeepsIInv,
     JumpKeepsIInv, ConditionalJumpKeepsIInv, AllocKeepsIInv, ObjStoreKeepsIInv,
     ObjCStoreKeepsIInv, ObjLoadKeepsIInv, ObjCLoadKeepsIInv, ExportKeepsIInv,
     FuncDeclKeepsIInv, CallKeepsIInv
  DEF Instructions, Load
<1>2. CASE Return \/ ModuleEnds \/ Exit
  BY <1>2, LeaveKeepsIInv
<1>3. CASE NativeReturns
  BY <1>3, SimpleNativesKeepIInv, AllocatingNativesKeepIInv, SetPrototypeOfKeepsIInv,
     ArrayKeepsIInv, ImportKeepsIInv, InstantiateKeepsIInv, CallNativeKeepsIInv
  DEF NativeReturns
<1>4. CASE Done \/ UNCHANGED vars
  BY <1>4, StutterKeepsIInv DEF Done
<1> QED
  BY <1>1, <1>2, <1>3, <1>4 DEF Next

\* The discipline of the operand stack holds throughout: at every step the
\* running body and every call that waits have the operands the compiler counts
\* on. (Every handler of execution.c and core.c, and api_call_function.)
THEOREM StackIsDisciplined == Spec => []IInv
<1>1. Init => IInv
  BY InitIInv
<1>2. IInv /\ [Next]_vars => IInv'
  BY NextKeepsIInv
<1> QED
  BY <1>1, <1>2, PTL DEF Spec

\* The registers, the saved frames and the whole memory stay well typed: the
\* counter never leaves the stack array unnoticed, no address dangles, and no
\* slot holds anything but a value.
THEOREM TypeCorrect == Spec => []TypeOK
<1>1. IInv => TypeOK
  BY DEF IInv
<1> QED
  BY <1>1, StackIsDisciplined, PTL

\* Whatever bundle of Consistent code runs, of any length and for any size of the
\* stack, no instruction ever takes an operand that is not there: neither does a
\* handler reach its PANIC("Stack underflow") nor do the unchecked ones (JMP_F,
\* JMP_T, CALL, the end of a call) read below the stack array.
THEOREM NeverUnderflows == Spec => []NoUnderflow
<1>1. IInv => NoUnderflow
  BY DEF IInv
<1> QED
  BY <1>1, StackIsDisciplined, PTL

-----------------------------------------------------------------------------
(* The kinds of steps.                                                     *)

Active == mode \in {"run", "native"}

\* The stack s holds what the machine has below slot c.
Keeps(s, c) == \A slot \in 0..(c - 1) : s[slot] = stack[slot]

\* The running body goes on, in itself or in a native function, or the process
\* ends.
Locally ==
  /\ Active
  /\ Keeps(stack', start)
  /\ UNCHANGED <<start, fn, frames, initialized, entry, executions>>

\* The registers are saved in a frame, for the call of a function or the import
\* of a module.
Saves(fr) ==
  /\ Active /\ mode' = "run"
  /\ frames' = Append(frames, fr)
  /\ fr.start = start
  /\ Keeps(fr.stack, start)

Calling ==
  \E fr \in Frame :
    /\ Saves(fr)
    /\ fr.import = NULL
    /\ start' = fr.counter
    /\ stack' = fr.stack
    /\ UNCHANGED <<initialized, entry, executions>>

Importing(m) ==
  \E fr \in Frame :
    /\ Saves(fr)
    /\ fr.import = m
    /\ start' = 0
    /\ m \notin initialized
    /\ initialized' = initialized \cup {m}
    /\ executions' = [executions EXCEPT ![m] = @ + 1]
    /\ UNCHANGED entry

Leaving ==
  /\ Active /\ mode' = "run"
  /\ frames # <<>>
  /\ frames' = SubSeq(frames, 1, Len(frames) - 1)
  /\ start' = Caller.start
  /\ \A slot \in 0..(Caller.start - 1) : stack'[slot] = Caller.stack[slot]
  /\ UNCHANGED <<initialized, entry, executions>>

Step ==
  \/ Locally \/ Calling \/ (\E m \in Modules : Importing(m)) \/ Leaving
  \/ UNCHANGED <<mode, stack, start, fn, frames, initialized, entry, executions>>

-----------------------------------------------------------------------------
(* Activations: the building blocks of the handlers.                       *)

\* The operands of an instruction lie above the start of its activation.
LEMMA OwnOperands ==
  ASSUME IInv, mode = "run", ~AtEnd, Pops(Inst) \in Nat
  PROVE  /\ start + Pops(Inst) <= counter /\ start \in Nat /\ counter \in Nat
         /\ stack \in [Slots -> Value]
<1>1. Depth[module][ic] \in Nat /\ Depth[module][ic] <= counter - start
  BY FetchedInstruction
<1>2. Pops(Inst) <= Depth[module][ic]
  BY NextInstruction
<1>3. start \in Nat /\ counter \in Nat
  BY OperandsThere
<1> QED
  BY <1>1, <1>2, <1>3 DEF IInv, TypeOK

LEMMA StartType ==
  ASSUME IInv
  PROVE  /\ start \in Nat /\ counter \in Nat /\ stack \in [Slots -> Value]
         /\ STACK_SIZE \in Nat /\ counter <= STACK_SIZE
         /\ mode = "run" => start <= counter
BY ExecutionAssumption DEF IInv, TypeOK, RegistersOK

LEMMA PanicIsLocal ==
  ASSUME Active, NEW fault, Panic(fault)
  PROVE  Locally
BY DEF Panic, Locally, Keeps, registers, control

LEMMA GoToIsLocal ==
  ASSUME mode = "run", NEW i, NEW c, NEW s, Keeps(s, start), GoTo(i, c, s)
  PROVE  Locally
BY DEF GoTo, Locally, Active, Keeps, control

\* A write at or above the start leaves what lies below it.
LEMMA WriteKeeps ==
  ASSUME NEW s \in [Slots -> Value], NEW c \in Nat, c <= STACK_SIZE, STACK_SIZE \in Nat,
         NEW i \in Nat, c <= i, NEW v
  PROVE  \A slot \in 0..(c - 1) : [s EXCEPT ![i] = v][slot] = s[slot]
<1> SUFFICES ASSUME NEW slot \in 0..(c - 1) PROVE [s EXCEPT ![i] = v][slot] = s[slot]
  OBVIOUS
<1>1. slot \in Slots /\ slot # i
  BY DEF Slots
<1> QED
  BY <1>1

LEMMA OwnWriteKeeps ==
  ASSUME IInv, mode = "run", NEW i \in Nat, start <= i, NEW v
  PROVE  Keeps([stack EXCEPT ![i] = v], start)
<1>1. start \in Nat /\ start <= STACK_SIZE /\ STACK_SIZE \in Nat /\ stack \in [Slots -> Value]
  BY StartType
<1> QED
  BY <1>1, WriteKeeps DEF Keeps

LEMMA DropIsLocal ==
  ASSUME mode = "run", NEW n, Drop(n)
  PROVE  Locally
BY GoToIsLocal DEF Drop, Advance, Keeps

LEMMA ReplaceIsLocal ==
  ASSUME IInv, mode = "run", NEW n \in Nat, start + n <= counter, NEW v, Replace(n, v)
  PROVE  Locally
<1>1. start \in Nat /\ counter \in Nat /\ stack \in [Slots -> Value]
  BY StartType
<1>2. counter - n \in Nat /\ start <= counter - n
  BY <1>1
<1>3. Keeps([stack EXCEPT ![counter - n] = v], start)
  BY <1>2, OwnWriteKeeps
<1> QED
  BY <1>3, GoToIsLocal DEF Replace, Advance

LEMMA PushIsLocal ==
  ASSUME IInv, mode = "run", NEW v, Push(v)
  PROVE  Locally
<1>1. CASE counter >= STACK_SIZE
  BY <1>1, PanicIsLocal DEF Push, Active
<1>2. CASE ~(counter >= STACK_SIZE)
  <2>1. start + 0 <= counter
    BY StartType
  <2> QED
    BY <1>2, <2>1, ReplaceIsLocal DEF Push
<1> QED
  BY <1>1, <1>2

-----------------------------------------------------------------------------
(* Activations: the instructions that do not call.                         *)

LEMMA LoadIsLocal ==
  ASSUME IInv, Load(Inst) \/ inst_load_local(Inst) \/ inst_load_arg(Inst)
  PROVE  Locally
<1>1. mode = "run"
  BY DEF Load, inst_ld_int, inst_ld_double, inst_ld_string, inst_ld_undf, inst_ld_null,
         inst_ld_boolean, inst_ld_this, inst_load_local, inst_load_arg, Executing
<1>2. CASE Load(Inst)
  BY <1>1, <1>2, PushIsLocal
  DEF Load, inst_ld_int, inst_ld_double, inst_ld_string, inst_ld_undf,
      inst_ld_null, inst_ld_boolean, inst_ld_this
<1>3. CASE inst_load_local(Inst)
  BY <1>1, <1>3, PushIsLocal, PanicIsLocal DEF inst_load_local, Active
<1>4. CASE inst_load_arg(Inst)
  <2>1. start + 0 <= counter
    BY <1>1, StartType
  <2> QED
    BY <1>1, <1>4, <2>1, PanicIsLocal, ReplaceIsLocal DEF inst_load_arg, Active
<1> QED
  BY <1>2, <1>3, <1>4

LEMMA OperatorIsLocal ==
  ASSUME IInv, inst_binary(Inst) \/ inst_unary(Inst)
  PROVE  Locally
<1>1. CASE inst_binary(Inst)
  <2>1. mode = "run" /\ ~AtEnd /\ Inst.op \in BinaryOpcodes
    BY <1>1, Executed DEF inst_binary, Opcodes
  <2>2. Pops(Inst) = 2
    BY <2>1, BinaryTable
  <2>3. start + 2 <= counter /\ start + 1 <= counter /\ ~(counter < 2)
    BY <2>1, <2>2, OwnOperands
  <2> DEFINE out == Binary(Inst.op, Top(2), Top(1))
  <2>4. Top(1) \in Value /\ Top(2) \in Value
    BY <2>1, <2>2, OperandsThere
  <2>5. out.effect \in Effects
    BY <2>1, <2>4, BinaryIsOutcome DEF IsOutcome
  <2>6. \/ Replace(2, out.value) \/ Replace(1, out.value)
        \/ Panic("Unsupported operation") \/ Panic("trap")
    BY <1>1, <2>3, <2>5, Zenon DEF inst_binary, Needs, Effects
  <2> HIDE DEF out
  <2> QED
    BY <2>1, <2>3, <2>6, ReplaceIsLocal, PanicIsLocal DEF Active
<1>2. CASE inst_unary(Inst)
  <2>1. mode = "run" /\ ~AtEnd /\ Inst.op \in UnaryOpcodes
    BY <1>2, Executed DEF inst_unary, Opcodes
  <2>2. Pops(Inst) = 1
    BY <2>1, UnaryTable
  <2>3. start + 1 <= counter /\ ~(counter < 1)
    BY <2>1, <2>2, OwnOperands
  <2> DEFINE out == Unary(Inst.op, Top(1))
  <2>4. Top(1) \in Value
    BY <2>1, <2>2, OperandsThere
  <2>5. out.effect \in Effects \ {"keep"}
    BY <2>1, <2>4, UnaryIsOutcome, UnaryNeverKeeps DEF IsOutcome
  <2>6. Replace(1, out.value) \/ Panic("Unsupported operation") \/ Panic("trap")
    BY <1>2, <2>3, <2>5, Zenon DEF inst_unary, Needs, Effects
  <2> HIDE DEF out
  <2> QED
    BY <2>1, <2>3, <2>6, ReplaceIsLocal, PanicIsLocal DEF Active
<1> QED
  BY <1>1, <1>2

LEMMA StackInstructionIsLocal ==
  ASSUME IInv, inst_nop(Inst) \/ inst_pop(Inst) \/ inst_dup(Inst) \/ inst_swap(Inst)
  PROVE  Locally
<1>1. CASE inst_nop(Inst)
  BY <1>1, DropIsLocal, PanicIsLocal DEF inst_nop, Executing, Active
<1>2. CASE inst_pop(Inst)
  BY <1>2, DropIsLocal, PanicIsLocal DEF inst_pop, Needs, Executing, Active
<1>3. CASE inst_dup(Inst)
  BY <1>3, PushIsLocal, PanicIsLocal DEF inst_dup, Needs, Executing, Active
<1>4. CASE inst_swap(Inst)
  <2>1. mode = "run" /\ ~AtEnd /\ Inst.op = "SWAP"
    BY <1>4, ExecutedOne DEF inst_swap, Opcodes
  <2>2. Pops(Inst) = 2
    BY <2>1, OtherTable
  <2>3. start + 2 <= counter /\ start \in Nat /\ counter \in Nat /\ stack \in [Slots -> Value]
    BY <2>1, <2>2, OwnOperands
  <2> DEFINE s == [stack EXCEPT ![counter - 1] = Top(2), ![counter - 2] = Top(1)]
  <2>4. GoTo(ic + 1, counter, s)
    <3>1. ~(counter < 2)
      BY <2>3
    <3> QED
      BY <1>4, <3>1 DEF inst_swap, Needs, Advance
  <2>5. Keeps(s, start)
    <3>1. STACK_SIZE \in Nat /\ counter <= STACK_SIZE
      BY StartType
    <3>2. \A slot \in 0..(start - 1) :
            slot \in Slots /\ slot # counter - 1 /\ slot # counter - 2
      BY <2>3, <3>1 DEF Slots
    <3> QED
      BY <2>3, <3>2 DEF Keeps
  <2> HIDE DEF s
  <2> QED
    BY <2>1, <2>4, <2>5, GoToIsLocal
<1> QED
  BY <1>1, <1>2, <1>3, <1>4

LEMMA NameInstructionIsLocal ==
  ASSUME IInv, \/ inst_alloc_local(Inst) \/ inst_store_local(Inst)
               \/ inst_push_scope(Inst) \/ inst_pop_scope(Inst) \/ inst_export(Inst)
  PROVE  Locally
<1>1. Keeps(stack, start)
  BY DEF Keeps
<1>2. CASE inst_alloc_local(Inst) \/ inst_store_local(Inst) \/ inst_export(Inst)
  BY <1>2, DropIsLocal, PanicIsLocal
  DEF inst_alloc_local, inst_store_local, inst_export, Needs, Executing, Active
<1>3. CASE inst_push_scope(Inst) \/ inst_pop_scope(Inst)
  BY <1>1, <1>3, GoToIsLocal, PanicIsLocal
  DEF inst_push_scope, inst_pop_scope, Executing, Active
<1> QED
  BY <1>2, <1>3

LEMMA JumpIsLocal ==
  ASSUME IInv, inst_jmp(Inst) \/ inst_jmp_f(Inst) \/ inst_jmp_t(Inst)
  PROVE  Locally
<1>1. Keeps(stack, start) /\ mode = "run"
  BY DEF Keeps, inst_jmp, inst_jmp_f, inst_jmp_t, ConditionalJump, Executing
<1>2. \/ Panic("stack underrun")
      \/ \E i \in {Inst.n, ic + 1}, c \in {counter, counter - 1} : GoTo(i, c, stack)
  BY DEF inst_jmp, inst_jmp_f, inst_jmp_t, ConditionalJump
<1> QED
  BY <1>1, <1>2, GoToIsLocal, PanicIsLocal DEF Active

LEMMA ObjectInstructionIsLocal ==
  ASSUME IInv, \/ inst_arr_alloc(Inst) \/ inst_obj_alloc(Inst) \/ inst_obj_store(Inst)
               \/ inst_obj_cstore(Inst) \/ inst_obj_load(Inst) \/ inst_obj_cload(Inst)
  PROVE  Locally
<1>1. ASSUME NEW proto, mode = "run", ObjectPushed(proto) PROVE Locally
  <2>1. start + 0 <= counter
    BY <1>1, StartType
  <2> QED
    BY <1>1, <2>1, ReplaceIsLocal, PanicIsLocal DEF ObjectPushed, Active
<1>2. ASSUME NEW n, NEW target, NEW key, NEW v, mode = "run", Stored(n, target, key, v)
      PROVE  Locally
  BY <1>2, DropIsLocal, PanicIsLocal DEF Stored, Active
<1>3. ASSUME NEW n \in Nat, NEW target, NEW key, mode = "run", start + n <= counter,
             Loaded(n, target, key)
      PROVE  Locally
  BY <1>3, ReplaceIsLocal, PanicIsLocal DEF Loaded, Active
<1>4. CASE inst_arr_alloc(Inst) \/ inst_obj_alloc(Inst)
  BY <1>1, <1>4 DEF inst_arr_alloc, inst_obj_alloc, Executing
<1>5. CASE inst_obj_store(Inst) \/ inst_obj_cstore(Inst)
  BY <1>2, <1>5, PanicIsLocal DEF inst_obj_store, inst_obj_cstore, Executing, Needs, Active
<1>6. CASE inst_obj_load(Inst)
  <2>1. mode = "run" /\ ~AtEnd /\ Inst.op = "OBJ_LOAD"
    BY <1>6, ExecutedOne DEF inst_obj_load, Opcodes
  <2>2. start + 1 <= counter
    BY <2>1, OtherTable, OwnOperands
  <2> QED
    BY <1>3, <1>6, <2>1, <2>2, PanicIsLocal DEF inst_obj_load, Needs, Active
<1>7. CASE inst_obj_cload(Inst)
  <2>1. mode = "run" /\ ~AtEnd /\ Inst.op = "OBJ_CLOAD"
    BY <1>7, ExecutedOne DEF inst_obj_cload, Opcodes
  <2>2. start + 2 <= counter
    BY <2>1, OtherTable, OwnOperands
  <2> QED
    BY <1>3, <1>7, <2>1, <2>2, PanicIsLocal DEF inst_obj_cload, Needs, Active
<1> QED
  BY <1>4, <1>5, <1>6, <1>7

LEMMA FuncDeclIsLocal ==
  ASSUME IInv, inst_func_decl(Inst)
  PROVE  Locally
<1>1. mode = "run"
  BY DEF inst_func_decl, Executing
<1>2. start \in Nat /\ counter \in Nat /\ start <= counter /\ stack \in [Slots -> Value]
  BY <1>1, StartType
<1>3. \/ Panic("Stack overflow")
      \/ GoTo(ic + 1 + BodySize(Inst), counter + 1, [stack EXCEPT ![counter] = JSFunc(NewFunction)])
  BY DEF inst_func_decl
<1>4. Keeps([stack EXCEPT ![counter] = JSFunc(NewFunction)], start)
  BY <1>1, <1>2, OwnWriteKeeps
<1> QED
  BY <1>1, <1>3, <1>4, GoToIsLocal, PanicIsLocal DEF Active

-----------------------------------------------------------------------------
(* Activations: calls.                                                     *)

LEMMA CallSteps ==
  ASSUME IInv, inst_call(Inst)
  PROVE  Locally \/ Calling
<1>1. mode = "run" /\ ~AtEnd /\ Inst.op = "CALL"
  BY ExecutedOne DEF inst_call, Opcodes
<1> DEFINE n == Inst.n
           f == Top(1).num
           fr == Saved(ic + 1, counter - 1, stack, n, 0, NULL, NULL)
<1>2. Pops(Inst) = n + 2 /\ n \in Nat
  BY <1>1, OtherTable, NextInstruction
<1>3. /\ start + (n + 2) <= counter /\ start \in Nat /\ counter \in Nat
      /\ stack \in [Slots -> Value] /\ STACK_SIZE \in Nat /\ counter <= STACK_SIZE
  BY <1>1, <1>2, OwnOperands, OperandsThere
<1>4. ~(counter < 1) /\ ~(counter < 2) /\ ~(counter < n + 2) /\ counter - 1 \in 0..STACK_SIZE
  BY <1>2, <1>3
<1>5. CASE Top(1).type # "function"
  BY <1>1, <1>4, <1>5, PanicIsLocal DEF inst_call, Needs, Active
<1>6. CASE Top(1).type = "function" /\ funcs[f].native = "script"
  <2>1. /\ vm_exec_function(f, counter - 1, stack)
        /\ frames' = Append(frames, fr)
        /\ UNCHANGED <<initialized, entry, executions>>
    BY <1>4, <1>6 DEF inst_call, Needs
  <2>2. fr \in Frame
    <3>1. TypeOK /\ ic + 1 \in Nat
      BY DEF IInv, TypeOK
    <3> QED
      BY <1>2, <1>3, <1>4, <3>1, SavedIsFrame
  <2>3. /\ fr.start = start /\ fr.stack = stack /\ fr.import = NULL
        /\ fr.counter = counter - 1
    BY DEF Saved
  <2>4. start' = counter - 1 /\ stack' = stack /\ mode' = "run"
    BY <2>1 DEF vm_exec_function
  <2> HIDE DEF fr
  <2> QED
    BY <1>1, <2>1, <2>2, <2>3, <2>4 DEF Calling, Saves, Keeps, Active
<1>7. CASE Top(1).type = "function" /\ funcs[f].native # "script"
  <2>1. UNCHANGED <<start, stack, fn, frames, initialized, entry, executions>>
    BY <1>4, <1>7 DEF inst_call, Needs
  <2> QED
    BY <1>1, <2>1 DEF Locally, Active, Keeps
<1> QED
  BY <1>5, <1>6, <1>7

LEMMA ReturnToSteps ==
  ASSUME IInv, Active, frames # <<>>, NEW v, ReturnTo(Caller, v)
  PROVE  Leaving
<1> DEFINE fr == Caller
           c == fr.counter - fr.argc
           w == Constructed(v, fr.obj)
<1>1. fr \in Frame /\ FrameOK(fr)
  BY CallerIsFrame
<1>2. /\ fr.counter \in Nat /\ fr.counter <= STACK_SIZE /\ fr.argc \in Nat
      /\ fr.n \in Nat /\ fr.start \in Nat /\ STACK_SIZE \in Nat
      /\ fr.start + fr.n + 1 <= c /\ fr.stack \in [Slots -> Value]
  BY <1>1, ExecutionAssumption DEF Frame, FrameOK
<1>3. /\ ~(c < fr.n + 1) /\ fr.start <= STACK_SIZE
      /\ c - fr.n - 1 \in Nat /\ fr.start <= c - fr.n - 1
  BY <1>2
<1>4. /\ start' = fr.start /\ mode' = "run"
      /\ stack' = [fr.stack EXCEPT ![c - fr.n - 1] = w]
      /\ frames' = SubSeq(frames, 1, Len(frames) - 1)
      /\ UNCHANGED <<initialized, entry, executions>>
  BY <1>3 DEF ReturnTo
<1>5. \A slot \in 0..(fr.start - 1) : stack'[slot] = fr.stack[slot]
  BY <1>2, <1>3, <1>4, WriteKeeps
<1> QED
  BY <1>4, <1>5 DEF Leaving

LEMMA LeaveSteps ==
  ASSUME IInv, Return \/ ModuleEnds \/ Exit
  PROVE  Leaving \/ Locally
<1>1. Active
  BY DEF Return, ModuleEnds, Exit, Active
<1>2. CASE Return
  <2>1. frames # <<>>
    BY <1>2 DEF Return, IInv, RegistersOK
  <2> QED
    BY <1>1, <1>2, <2>1, ReturnToSteps DEF Return
<1>3. CASE ModuleEnds
  BY <1>1, <1>3, ReturnToSteps DEF ModuleEnds
<1>4. CASE Exit
  BY <1>1, <1>4 DEF Exit, Locally, Keeps, registers, control
<1> QED
  BY <1>2, <1>3, <1>4

-----------------------------------------------------------------------------
(* Activations: native functions.                                          *)

LEMMA ResultIsLocal ==
  ASSUME IInv, mode = "native", NEW v, Result(v)
  PROVE  Locally
<1> DEFINE i == counter - pending.n - 1
           w == Constructed(v, pending.obj)
<1>1. /\ stack' = [stack EXCEPT ![i] = w]
      /\ UNCHANGED <<start, fn, frames, initialized, entry, executions>>
  BY DEF Result
<1>2. /\ start \in Nat /\ counter \in Nat /\ STACK_SIZE \in Nat /\ pending.n \in Nat
      /\ start + pending.n + 1 <= counter /\ counter <= STACK_SIZE
      /\ stack \in [Slots -> Value]
  BY NativeRegisters, PendingType, StartType
<1>3. i \in Nat /\ start <= i /\ start <= STACK_SIZE
  BY <1>2
<1>4. Keeps(stack', start)
  <2> HIDE DEF i, w
  <2> QED
    BY <1>1, <1>2, <1>3, WriteKeeps DEF Keeps
<1> QED
  BY <1>1, <1>4 DEF Locally, Active

LEMMA ResultNativesAreLocal ==
  ASSUME IInv, \/ print \/ module_get_export_obj \/ object \/ function \/ is_array
               \/ create \/ symbol \/ setPrototypeOf \/ array
  PROVE  Locally
<1>1. mode = "native"
  BY DEF print, module_get_export_obj, object, function, is_array, create, symbol,
         setPrototypeOf, array, Running
<1>2. CASE print \/ module_get_export_obj \/ object \/ function \/ setPrototypeOf
  BY <1>1, <1>2, ResultIsLocal
  DEF print, module_get_export_obj, object, function, setPrototypeOf, Returns
<1>3. CASE is_array
  BY <1>1, <1>3, ResultIsLocal, PanicIsLocal DEF is_array, Returns, Active
<1>4. CASE create \/ symbol
  BY <1>1, <1>4, ResultIsLocal DEF create, symbol, Allocates
<1>5. CASE array
  BY <1>1, <1>5, ResultIsLocal DEF array, Allocates, Returns
<1> QED
  BY <1>2, <1>3, <1>4, <1>5

LEMMA ImportSteps ==
  ASSUME IInv, module_import_module
  PROVE  Locally \/ \E m \in Modules : Importing(m)
<1>1. mode = "native"
  BY DEF module_import_module, Running
<1>2. CASE Returns(JSUndefined)
  BY <1>1, <1>2, ResultIsLocal DEF Returns
<1>3. CASE \E fault \in {"Could not find module in bundle", "bundle overrun"} : Panic(fault)
  BY <1>1, <1>3, PanicIsLocal DEF Active
<1>4. ASSUME NEW m \in Modules, ImportOf(m) PROVE Locally \/ Importing(m)
  <2>1. CASE m \in initialized
    BY <1>1, <1>4, <2>1, ResultIsLocal DEF ImportOf, Returns
  <2>2. CASE m \notin initialized
    <3> DEFINE fr == Saved(ic, counter, stack, pending.n, 0, pending.obj, m)
    <3>1. /\ start' = 0 /\ frames' = Append(frames, fr) /\ mode' = "run"
          /\ initialized' = initialized \cup {m}
          /\ executions' = [executions EXCEPT ![m] = @ + 1]
          /\ UNCHANGED entry
      BY <1>4, <2>2 DEF ImportOf, vm_exec_module
    <3>2. fr \in Frame
      <4>1. TypeOK /\ ic \in Nat /\ stack \in [Slots -> Value]
        BY DEF IInv, TypeOK
      <4> QED
        BY <1>1, <4>1, NativeRegisters, PendingType, SavedIsFrame
    <3>3. fr.start = start /\ fr.stack = stack /\ fr.import = m
      BY DEF Saved
    <3> HIDE DEF fr
    <3> QED
      BY <1>1, <2>2, <3>1, <3>2, <3>3 DEF Importing, Saves, Keeps, Active
  <2> QED
    BY <2>1, <2>2
<1> QED
  <2> DEFINE hash == <<Arg(1).num, Arg(2).num>>
  <2>1. CASE \E m \in Modules : Hash[m] = hash
    <3> DEFINE m == CHOOSE m \in Modules : Hash[m] = hash
    <3>1. m \in Modules
      BY <2>1
    <3>2. Returns(JSUndefined) \/ ImportOf(m)
      BY <2>1 DEF module_import_module
    <3> HIDE DEF m
    <3> QED
      BY <1>2, <1>4, <3>1, <3>2
  <2>2. CASE ~\E m \in Modules : Hash[m] = hash
    BY <1>2, <1>3, <2>2 DEF module_import_module
  <2> QED
    BY <2>1, <2>2

LEMMA ApiCallSteps ==
  ASSUME IInv, mode = "native", NEW f, NEW this \in Value, NEW args \in Seq(Value),
         NEW obj \in ObjIds \cup {NULL}, api_call_function(f, this, args, obj)
  PROVE  Locally \/ Calling
<1> DEFINE n == Len(args)
           pushed == [i \in Slots |->
                        IF i \in counter..(counter + n - 1) THEN args[n - (i - counter)]
                        ELSE IF i = counter + n THEN this
                        ELSE stack[i]]
<1>1. TypeOK /\ ic \in Nat /\ stack \in [Slots -> Value] /\ n \in Nat
  BY DEF IInv, TypeOK
<1>2. /\ start \in Nat /\ counter \in Nat /\ STACK_SIZE \in Nat /\ pending.n \in Nat
      /\ start + pending.n + 1 <= counter /\ counter <= STACK_SIZE
  BY NativeRegisters, PendingType, StartType
<1>3. CASE funcs[f].native # "script" \/ counter + n + 1 > STACK_SIZE
  <2>1. UNCHANGED <<start, stack, fn, frames, initialized, entry, executions>>
    BY <1>3 DEF api_call_function, registers, control
  <2> QED
    BY <2>1 DEF Locally, Active, Keeps
<1>4. CASE funcs[f].native = "script" /\ ~(counter + n + 1 > STACK_SIZE)
  <2> DEFINE c == counter + n + 1
             fr == Saved(ic, c, pushed, pending.n, n, obj, NULL)
  <2>1. /\ vm_exec_function(f, c, pushed)
        /\ frames' = Append(frames, fr)
        /\ UNCHANGED <<initialized, entry, executions>>
    BY <1>4 DEF api_call_function
  <2>2. pushed \in [Slots -> Value]
    <3>1. \A i \in counter..(counter + n - 1) : n - (i - counter) \in 1..n
      BY <1>1, <1>2
    <3>2. \A j \in 1..n : args[j] \in Value
      OBVIOUS
    <3> QED
      BY <1>1, <3>1, <3>2
  <2>3. Keeps(pushed, start)
    <3>1. \A slot \in 0..(start - 1) :
            slot \in Slots /\ slot \notin counter..(counter + n - 1) /\ slot # counter + n
      BY <1>1, <1>2 DEF Slots
    <3> QED
      BY <3>1 DEF Keeps
  <2>4. c \in 0..STACK_SIZE
    BY <1>1, <1>2, <1>4
  <2> HIDE DEF pushed, c
  <2>5. fr \in Frame
    BY <1>1, <1>2, <2>2, <2>4, SavedIsFrame
  <2>6. fr.start = start /\ fr.stack = pushed /\ fr.import = NULL /\ fr.counter = c
    BY DEF Saved
  <2>7. start' = c /\ stack' = pushed /\ mode' = "run"
    BY <2>1 DEF vm_exec_function
  <2> HIDE DEF fr
  <2> QED
    BY <2>1, <2>3, <2>5, <2>6, <2>7 DEF Calling, Saves, Active
<1> QED
  BY <1>3, <1>4

LEMMA CallingNativesSteps ==
  ASSUME IInv, instantiate \/ call
  PROVE  Locally \/ Calling
<1>1. mode = "native" /\ MemoryTypeOK
  BY DEF instantiate, call, Running, IInv, TypeOK
<1>2. CASE Returns(JSUndefined)
  BY <1>1, <1>2, ResultIsLocal DEF Returns
<1>3. CASE Panic("endless lookup")
  BY <1>1, <1>3, PanicIsLocal DEF Active
<1>4. pending.args \in Seq(Value) /\ (argc # 0 => pending.args # <<>>)
  BY PendingType DEF argc
<1>5. argc # 0 => Tail(pending.args) \in Seq(Value)
  BY <1>4, HeadTailProperties
<1>6. CASE instantiate /\ ~Returns(JSUndefined) /\ ~Panic("endless lookup")
  <2>1. /\ argc # 0 /\ CanCreateObjects(1)
        /\ api_call_function(Arg(1).num, JSObject(NewObject), Tail(pending.args), NewObject)
    BY <1>6 DEF instantiate
  <2>2. NewObject \in ObjIds /\ JSObject(NewObject) \in Value
    BY <1>1, <2>1, NewAddresses, ReferencesAreValues
  <2> QED
    BY <1>1, <1>5, <2>1, <2>2, ApiCallSteps
<1>7. CASE call /\ ~Returns(JSUndefined)
  <2> DEFINE this == IF argc = 0 THEN JSUndefined ELSE Arg(1)
             args == IF argc = 0 THEN <<>> ELSE Tail(pending.args)
  <2>1. api_call_function(pending.this.num, this, args, pending.obj)
    BY <1>7 DEF call
  <2>2. this \in Value /\ args \in Seq(Value)
    BY <1>5, PendingType, ConstantValues, EmptySeq
  <2> HIDE DEF this, args
  <2> QED
    BY <1>1, <2>1, <2>2, PendingType, ApiCallSteps
<1> QED
  BY <1>2, <1>3, <1>6, <1>7

LEMMA NextIsStep ==
  ASSUME IInv, [Next]_vars
  PROVE  Step
<1>1. CASE Instructions(Inst)
  BY <1>1, LoadIsLocal, OperatorIsLocal, StackInstructionIsLocal, NameInstructionIsLocal,
     JumpIsLocal, ObjectInstructionIsLocal, FuncDeclIsLocal, CallSteps
  DEF Instructions, Load, Step
<1>2. CASE Return \/ ModuleEnds \/ Exit
  BY <1>2, LeaveSteps DEF Step
<1>3. CASE NativeReturns
  BY <1>3, ResultNativesAreLocal, ImportSteps, CallingNativesSteps DEF NativeReturns, Step
<1>4. CASE Done \/ UNCHANGED vars
  BY <1>4 DEF Done, Step, vars, registers, control
<1> QED
  BY <1>1, <1>2, <1>3, <1>4 DEF Next

-----------------------------------------------------------------------------
(* Activations are stacked.                                                *)

LEMMA FrameCount ==
  ASSUME IInv
  PROVE  frames \in Seq(Frame) /\ Len(frames) \in Nat /\ DOMAIN frames = 1..Len(frames)
BY DEF IInv, TypeOK

\* After a call or an import the frames that waited wait under the same
\* activations, but for the innermost, which now waits under the new frame.
LEMMA FramesUnderCall ==
  ASSUME IInv, NEW fr \in Frame, Saves(fr), NEW top, top = Len(frames)
  PROVE  /\ DOMAIN frames' = 1..(top + 1)
         /\ frames'[top + 1] = fr
         /\ StartAbove(top + 1)' = start' /\ StackAbove(top + 1)' = stack'
         /\ \A i \in DOMAIN frames :
              /\ frames'[i] = frames[i]
              /\ StartAbove(i)' = StartAbove(i)
              /\ StackAbove(i)' = IF i = top THEN fr.stack ELSE StackAbove(i)
<1>1. frames \in Seq(Frame) /\ top \in Nat /\ DOMAIN frames = 1..top
  BY FrameCount
<1>2. /\ frames' \in Seq(Frame) /\ Len(frames') = top + 1
      /\ \A k \in 1..top : frames'[k] = frames[k]
      /\ frames'[top + 1] = fr
      /\ fr.start = start
  BY <1>1, AppendProperties DEF Saves
<1>3. DOMAIN frames' = 1..(top + 1)
  BY <1>2
<1>4. ASSUME NEW i \in 1..top
      PROVE  /\ frames'[i] = frames[i]
             /\ StartAbove(i)' = StartAbove(i)
             /\ StackAbove(i)' = IF i = top THEN fr.stack ELSE StackAbove(i)
  <2>1. CASE i = top
    <3>1. top # top + 1
      BY <1>1
    <3> QED
      BY <1>2, <2>1, <3>1 DEF StartAbove, StackAbove
  <2>2. CASE i # top
    <3>1. i + 1 \in 1..top /\ i # top + 1
      BY <1>1, <2>2
    <3> QED
      BY <1>2, <2>2, <3>1 DEF StartAbove, StackAbove
  <2> QED
    BY <2>1, <2>2
<1> QED
  BY <1>1, <1>2, <1>3, <1>4 DEF StartAbove, StackAbove

\* After a return the innermost frame that is left waits for the body that goes on.
LEMMA FramesUnderReturn ==
  ASSUME IInv, Leaving
  PROVE  /\ DOMAIN frames' = 1..(Len(frames) - 1) /\ Len(frames') = Len(frames) - 1
         /\ Len(frames) \in Nat \ {0}
         /\ \A i \in DOMAIN frames' :
              /\ i \in DOMAIN frames /\ i # Len(frames)
              /\ frames'[i] = frames[i]
              /\ StartAbove(i)' = StartAbove(i)
              /\ StackAbove(i)' = IF i = Len(frames) - 1 THEN stack' ELSE StackAbove(i)
<1>1. /\ frames \in Seq(Frame) /\ Len(frames) \in Nat \ {0}
      /\ DOMAIN frames = 1..Len(frames)
  BY FrameCount, CallerIsFrame DEF Leaving
<1>2. /\ frames' \in Seq(Frame)
      /\ Len(frames') = Len(frames) - 1
      /\ \A k \in 1..(Len(frames) - 1) : frames'[k] = frames[k]
  BY <1>1, FrontOfSeq DEF Leaving
<1>3. DOMAIN frames' = 1..(Len(frames) - 1)
  BY <1>2
<1>4. ASSUME NEW i \in DOMAIN frames'
      PROVE  /\ i \in DOMAIN frames /\ i # Len(frames)
             /\ frames'[i] = frames[i]
             /\ StartAbove(i)' = StartAbove(i)
             /\ StackAbove(i)' = IF i = Len(frames) - 1 THEN stack' ELSE StackAbove(i)
  <2>1. i \in DOMAIN frames /\ i # Len(frames) /\ frames'[i] = frames[i]
    BY <1>1, <1>2, <1>3
  <2>2. CASE i = Len(frames) - 1
    <3>1. i + 1 = Len(frames)
      BY <1>1, <2>2
    <3> QED
      BY <1>2, <2>1, <2>2, <3>1 DEF StartAbove, StackAbove, Leaving, Caller
  <2>3. CASE i # Len(frames) - 1
    <3>1. i + 1 \in 1..(Len(frames) - 1)
      BY <1>1, <1>3, <2>3
    <3> QED
      BY <1>2, <2>1, <2>3, <3>1 DEF StartAbove, StackAbove
  <2> QED
    BY <2>1, <2>2, <2>3
<1> QED
  BY <1>1, <1>2, <1>3, <1>4

LEMMA StepKeepsNesting ==
  ASSUME IInv, IInv', Step, CallsNest
  PROVE  CallsNest'
<1>1. \A i \in DOMAIN frames' : frames'[i].start < frames'[i].counter
  <2> SUFFICES ASSUME NEW i \in DOMAIN frames' PROVE frames'[i].start < frames'[i].counter
    OBVIOUS
  <2> DEFINE fr == frames'[i]
  <2>1. fr \in Frame /\ fr.argc \in Nat /\ fr.start + fr.n + 1 <= fr.counter - fr.argc
    BY DEF IInv, TypeOK, FramesOK, FrameOK
  <2>2. fr.start \in Nat /\ fr.n \in Nat /\ fr.counter \in Nat
    BY <2>1, ExecutionAssumption DEF Frame
  <2> HIDE DEF fr
  <2>3. fr.start < fr.counter
    BY <2>1, <2>2
  <2> QED
    BY <2>3 DEF fr
<1>2. \A i \in DOMAIN frames' :
        StartAbove(i)' = IF Calls(i)' THEN frames'[i].counter ELSE 0
  <2>1. \A i \in DOMAIN frames : StartAbove(i) = IF Calls(i) THEN frames[i].counter ELSE 0
    BY DEF CallsNest
  <2>2. CASE UNCHANGED <<start, frames>>
    BY <2>1, <2>2 DEF StartAbove, Calls
  <2>3. ASSUME NEW fr \in Frame, Saves(fr), start' = IF fr.import = NULL THEN fr.counter ELSE 0
        PROVE  \A i \in DOMAIN frames' :
                 StartAbove(i)' = IF Calls(i)' THEN frames'[i].counter ELSE 0
    <3>1. PICK top : top = Len(frames)
      OBVIOUS
    <3>2. /\ DOMAIN frames' = 1..(top + 1)
          /\ DOMAIN frames = 1..top /\ top \in Nat
      BY <2>3, <3>1, FramesUnderCall, FrameCount
    <3>3. \A i \in DOMAIN frames :
            StartAbove(i)' = IF Calls(i)' THEN frames'[i].counter ELSE 0
      BY <2>1, <2>3, <3>1, FramesUnderCall DEF Calls
    <3>4. StartAbove(top + 1)' = IF Calls(top + 1)' THEN frames'[top + 1].counter ELSE 0
      BY <2>3, <3>1, FramesUnderCall DEF Calls
    <3>5. \A i \in DOMAIN frames' : i \in DOMAIN frames \/ i = top + 1
      BY <3>2
    <3> QED
      BY <3>3, <3>4, <3>5
  <2>4. CASE Calling
    BY <2>3, <2>4 DEF Calling
  <2>5. CASE \E m \in Modules : Importing(m)
    <3>1. PICK m \in Modules : Importing(m)
      BY <2>5
    <3>2. m # NULL
      BY Addresses DEF NULL
    <3> QED
      BY <2>3, <3>1, <3>2 DEF Importing
  <2>6. CASE Leaving
    BY <2>1, <2>6, FramesUnderReturn DEF Calls
  <2> QED
    BY <2>2, <2>4, <2>5, <2>6 DEF Step, Locally
<1> QED
  BY <1>1, <1>2 DEF CallsNest

LEMMA StepKeepsOperands ==
  ASSUME IInv, IInv', Step, CallerOperandsIntact
  PROVE  CallerOperandsIntact'
<1> DEFINE Intact(i) ==
             \A slot \in 0..(StartAbove(i) - 1) : StackAbove(i)[slot] = frames[i].stack[slot]
<1>1. \A i \in DOMAIN frames : Intact(i)
  BY DEF CallerOperandsIntact
<1> SUFFICES \A i \in DOMAIN frames' : Intact(i)'
  BY DEF CallerOperandsIntact
<1>2. frames \in Seq(Frame) /\ Len(frames) \in Nat /\ DOMAIN frames = 1..Len(frames)
  BY FrameCount
<1>3. CASE UNCHANGED <<start, frames>> /\ Keeps(stack', start)
  BY <1>1, <1>3 DEF StartAbove, StackAbove, Keeps
<1>4. ASSUME NEW fr \in Frame, Saves(fr),
             start' = 0 \/ stack' = fr.stack
      PROVE  \A i \in DOMAIN frames' : Intact(i)'
  <2>1. PICK top : top = Len(frames)
    OBVIOUS
  <2>2. /\ \A i \in DOMAIN frames' : i \in DOMAIN frames \/ i = top + 1
        /\ Keeps(fr.stack, start)
    BY <1>2, <1>4, <2>1, FramesUnderCall DEF Saves
  <2>3. Intact(top + 1)'
    BY <1>4, <2>1, FramesUnderCall
  <2>4. ASSUME NEW i \in DOMAIN frames PROVE Intact(i)'
    <3>1. CASE i = top
      <4>1. StartAbove(i) = start /\ StackAbove(i) = stack
        BY <2>1, <3>1 DEF StartAbove, StackAbove
      <4>2. StartAbove(i)' = start /\ StackAbove(i)' = fr.stack /\ frames'[i] = frames[i]
        BY <1>4, <2>1, <3>1, <4>1, FramesUnderCall
      <4> QED
        BY <1>1, <2>2, <4>1, <4>2 DEF Keeps
    <3>2. CASE i # top
      BY <1>1, <1>4, <2>1, <3>2, FramesUnderCall
    <3> QED
      BY <3>1, <3>2
  <2> QED
    BY <2>2, <2>3, <2>4
<1>5. CASE Calling
  BY <1>4, <1>5 DEF Calling
<1>6. CASE \E m \in Modules : Importing(m)
  BY <1>4, <1>6 DEF Importing
<1>7. CASE Leaving
  <2> SUFFICES ASSUME NEW i \in DOMAIN frames' PROVE Intact(i)'
    OBVIOUS
  <2>1. /\ i \in DOMAIN frames /\ i # Len(frames) /\ frames'[i] = frames[i]
        /\ StartAbove(i)' = StartAbove(i)
        /\ StackAbove(i)' = IF i = Len(frames) - 1 THEN stack' ELSE StackAbove(i)
    BY <1>7, FramesUnderReturn
  <2>2. CASE i = Len(frames) - 1
    <3>1. i + 1 = Len(frames)
      BY <1>2, <2>2
    <3>2. StartAbove(i) = Caller.start /\ StackAbove(i) = Caller.stack
      BY <2>1, <3>1 DEF StartAbove, StackAbove, Caller
    <3> QED
      BY <1>1, <1>7, <2>1, <2>2, <3>2 DEF Leaving
  <2>3. CASE i # Len(frames) - 1
    BY <1>1, <2>1, <2>3
  <2> QED
    BY <2>2, <2>3
<1> QED
  BY <1>3, <1>5, <1>6, <1>7 DEF Step, Locally, Keeps

\* The activations of functions are stacked without overlap or gap, whatever
\* bundle of Consistent code runs: a function starts where the operands of its
\* caller end, a module body on an empty stack. (The registers that inst_call,
\* api_call_function, vm_exec_function and vm_exec_module save and restore.)
THEOREM ActivationsNest == Spec => []CallsNest
<1>1. Init => CallsNest
  BY DEF Init, vm_init, CallsNest
<1>2. IInv /\ IInv' /\ [Next]_vars /\ CallsNest => CallsNest'
  BY NextIsStep, StepKeepsNesting
<1> QED
  BY <1>1, <1>2, StackIsDisciplined, PTL DEF Spec

\* No function, however deep it calls and whatever its body takes off the stack,
\* changes an operand of a caller that waits. (Every handler of execution.c that
\* writes through stack_counter, which none compares with stack_start, and the
\* natives of core.c.)
THEOREM CallersKeepTheirOperands == Spec => []CallerOperandsIntact
<1>1. Init => CallerOperandsIntact
  BY DEF Init, vm_init, CallerOperandsIntact
<1>2. IInv /\ IInv' /\ [Next]_vars /\ CallerOperandsIntact => CallerOperandsIntact'
  BY NextIsStep, StepKeepsOperands
<1> QED
  BY <1>1, <1>2, StackIsDisciplined, PTL DEF Spec

-----------------------------------------------------------------------------
(* Imports.                                                                *)

ImportInv == executions \in [Modules -> Nat] /\ ImportOnce

LEMMA StepKeepsImports ==
  ASSUME IInv, Step, ImportInv
  PROVE  ImportInv'
<1>1. CASE UNCHANGED <<initialized, entry, executions>>
  BY <1>1 DEF ImportInv, ImportOnce
<1>2. CASE \E m \in Modules : Importing(m)
  <2>1. PICK m \in Modules : Importing(m)
    BY <1>2
  <2>2. /\ m \notin initialized /\ initialized' = initialized \cup {m}
        /\ executions' = [executions EXCEPT ![m] = @ + 1] /\ entry' = entry
    BY <2>1 DEF Importing
  <2>3. executions' \in [Modules -> Nat]
    BY <2>2 DEF ImportInv
  <2>4. ASSUME NEW k \in Modules
        PROVE  executions'[k] = (IF k = entry' THEN 1 ELSE 0)
                                + (IF k \in initialized' THEN 1 ELSE 0)
    <3>1. executions[k] = (IF k = entry THEN 1 ELSE 0) + (IF k \in initialized THEN 1 ELSE 0)
      BY DEF ImportInv, ImportOnce
    <3>2. CASE k = m
      BY <2>2, <3>1, <3>2 DEF ImportInv
    <3>3. CASE k # m
      BY <2>2, <3>1, <3>3 DEF ImportInv
    <3> QED
      BY <3>2, <3>3
  <2> QED
    BY <2>3, <2>4 DEF ImportInv, ImportOnce
<1> QED
  BY <1>1, <1>2 DEF Step, Locally, Calling, Leaving

\* Whatever imports lead to it, in whatever cycles and from whatever depth of
\* calls, the body of a module runs once when it is imported, and the entry module
\* once more. (module_import_module, vm_exec_module, and main in debug/main.c.)
THEOREM ImportsRunOnce == Spec => []ImportOnce
<1>1. Init => ImportInv
  BY DEF Init, vm_init, ImportInv, ImportOnce
<1>2. IInv /\ [Next]_vars /\ ImportInv => ImportInv'
  BY NextIsStep, StepKeepsImports
<1>3. ImportInv => ImportOnce
  BY DEF ImportInv
<1> QED
  BY <1>1, <1>2, <1>3, StackIsDisciplined, PTL DEF Spec

-----------------------------------------------------------------------------
(* The machine implements ModuleSystem.                                    *)

\* The activities that a C stack of saved frames stands for.
ActivitiesOf(e, frs) == <<e>> \o [i \in DOMAIN frs |-> frs[i].import]

LEMMA ActivitySequence ==
  ASSUME NEW e \in Modules, NEW frs \in Seq(Frame)
  PROVE  /\ ActivitiesOf(e, frs) \in Seq(Modules \cup {NULL})
         /\ Len(ActivitiesOf(e, frs)) = Len(frs) + 1
         /\ ActivitiesOf(e, frs)[1] = e
         /\ \A i \in 1..Len(frs) : ActivitiesOf(e, frs)[i + 1] = frs[i].import
         /\ ActivitiesOf(e, frs) # <<>>
<1> DEFINE S == Modules \cup {NULL}
           imports == [i \in DOMAIN frs |-> frs[i].import]
<1>1. DOMAIN frs = 1..Len(frs) /\ Len(frs) \in Nat
  OBVIOUS
<1>2. \A i \in 1..Len(frs) : frs[i].import \in S
  <2>1. \A i \in 1..Len(frs) : frs[i] \in Frame
    OBVIOUS
  <2>2. \A fr \in Frame : fr.import \in S
    BY DEF Frame
  <2> QED
    BY <2>1, <2>2
<1>3. imports \in Seq(S) /\ Len(imports) = Len(frs)
  BY <1>1, <1>2, IsASeq
<1>4. <<e>> \in Seq(S) /\ Len(<<e>>) = 1 /\ <<e>>[1] = e
  OBVIOUS
<1>5. \A i \in 1..Len(frs) : imports[i] = frs[i].import
  BY <1>1
<1> HIDE DEF S, imports
<1>6. /\ <<e>> \o imports \in Seq(S)
      /\ Len(<<e>> \o imports) = 1 + Len(frs)
      /\ \A i \in 1..(1 + Len(frs)) :
           (<<e>> \o imports)[i] = IF i <= 1 THEN <<e>>[i] ELSE imports[i - 1]
  BY <1>3, <1>4, ConcatProperties
<1>7. (<<e>> \o imports)[1] = e
  BY <1>1, <1>4, <1>6
<1>8. ASSUME NEW i \in 1..Len(frs) PROVE (<<e>> \o imports)[i + 1] = frs[i].import
  <2>1. i + 1 \in 1..(1 + Len(frs)) /\ ~(i + 1 <= 1) /\ (i + 1) - 1 = i
    BY <1>1
  <2> QED
    BY <1>5, <1>6, <2>1
<1>9. ActivitiesOf(e, frs) = <<e>> \o imports
  BY DEF ActivitiesOf, imports
<1>10. <<e>> \o imports # <<>>
  BY <1>1, <1>6, EmptySeq
<1> QED
  BY <1>1, <1>6, <1>7, <1>8, <1>9, <1>10 DEF S

LEMMA ActivityBegins ==
  ASSUME NEW e \in Modules, NEW frs \in Seq(Frame), NEW fr \in Frame
  PROVE  ActivitiesOf(e, Append(frs, fr)) = Append(ActivitiesOf(e, frs), fr.import)
<1> DEFINE S == Modules \cup {NULL}
           a == ActivitiesOf(e, frs)
           more == Append(frs, fr)
           b == ActivitiesOf(e, more)
           c == Append(a, fr.import)
<1>1. /\ more \in Seq(Frame) /\ Len(more) = Len(frs) + 1
      /\ \A i \in 1..Len(frs) : more[i] = frs[i]
      /\ more[Len(frs) + 1] = fr
      /\ Len(frs) \in Nat
  BY AppendProperties
<1>2. /\ a \in Seq(S) /\ Len(a) = Len(frs) + 1 /\ a[1] = e
      /\ \A i \in 1..Len(frs) : a[i + 1] = frs[i].import
  BY ActivitySequence
<1> HIDE DEF more
<1>3. /\ b \in Seq(S) /\ Len(b) = Len(frs) + 1 + 1 /\ b[1] = e
      /\ \A i \in 1..(Len(frs) + 1) : b[i + 1] = more[i].import
  BY <1>1, ActivitySequence
<1>4. fr.import \in S
  BY DEF Frame
<1> HIDE DEF S, a, b
<1>5. /\ c \in Seq(S) /\ Len(c) = Len(frs) + 1 + 1
      /\ \A i \in 1..(Len(frs) + 1) : c[i] = a[i]
      /\ c[Len(frs) + 1 + 1] = fr.import
  BY <1>2, <1>4, AppendProperties
<1>6. ASSUME NEW i \in 1..Len(b) PROVE b[i] = c[i]
  <2>1. CASE i = 1
    BY <1>1, <1>2, <1>3, <1>5, <2>1
  <2>2. CASE i = Len(frs) + 1 + 1
    BY <1>1, <1>3, <1>5, <2>2
  <2>3. CASE i - 1 \in 1..Len(frs)
    <3>1. i = (i - 1) + 1 /\ i \in 1..(Len(frs) + 1) /\ i - 1 \in 1..(Len(frs) + 1)
      BY <1>1, <2>3
    <3>2. b[i] = more[i - 1].import /\ c[i] = a[i] /\ a[i] = frs[i - 1].import
      BY <1>2, <1>3, <1>5, <2>3, <3>1
    <3> QED
      BY <1>1, <2>3, <3>2
  <2>4. i = 1 \/ i = Len(frs) + 1 + 1 \/ i - 1 \in 1..Len(frs)
    BY <1>1, <1>3
  <2> QED
    BY <2>1, <2>2, <2>3, <2>4
<1> HIDE DEF c
<1>7. b = c
  BY <1>3, <1>5, <1>6, SeqEqual
<1> QED
  BY <1>7 DEF a, b, c, more

LEMMA ActivityEnds ==
  ASSUME NEW e \in Modules, NEW frs \in Seq(Frame), frs # <<>>
  PROVE  LET a == ActivitiesOf(e, frs)
         IN  ActivitiesOf(e, SubSeq(frs, 1, Len(frs) - 1)) = SubSeq(a, 1, Len(a) - 1)
<1> DEFINE S == Modules \cup {NULL}
           rest == SubSeq(frs, 1, Len(frs) - 1)
           a == ActivitiesOf(e, frs)
           b == ActivitiesOf(e, rest)
           c == SubSeq(a, 1, Len(a) - 1)
<1>1. /\ rest \in Seq(Frame) /\ Len(rest) = Len(frs) - 1
      /\ \A k \in 1..(Len(frs) - 1) : rest[k] = frs[k]
      /\ Len(frs) \in Nat \ {0}
  BY FrontOfSeq, EmptySeq
<1>2. /\ a \in Seq(S) /\ Len(a) = Len(frs) + 1 /\ a[1] = e /\ a # <<>>
      /\ \A i \in 1..Len(frs) : a[i + 1] = frs[i].import
  BY ActivitySequence
<1> HIDE DEF rest, a
<1>3. /\ b \in Seq(S) /\ Len(b) = (Len(frs) - 1) + 1 /\ b[1] = e
      /\ \A i \in 1..(Len(frs) - 1) : b[i + 1] = rest[i].import
  BY <1>1, ActivitySequence
<1> HIDE DEF S, b
<1>4. /\ c \in Seq(S) /\ Len(c) = Len(a) - 1
      /\ \A k \in 1..(Len(a) - 1) : c[k] = a[k]
  BY <1>2, FrontOfSeq
<1> HIDE DEF c
<1>5. Len(b) = Len(frs) /\ Len(c) = Len(frs) /\ Len(a) - 1 = Len(frs)
  BY <1>1, <1>2, <1>3, <1>4
<1>6. ASSUME NEW i \in 1..Len(b) PROVE b[i] = c[i]
  <2>1. CASE i = 1
    BY <1>1, <1>2, <1>3, <1>4, <1>5, <2>1
  <2>2. CASE i # 1
    <3>1. /\ i = (i - 1) + 1 /\ i - 1 \in 1..(Len(frs) - 1) /\ i - 1 \in 1..Len(frs)
          /\ i \in 1..Len(frs)
      BY <1>1, <1>5, <2>2
    <3>2. b[(i - 1) + 1] = rest[i - 1].import
      BY <1>3, <3>1
    <3>3. rest[i - 1] = frs[i - 1]
      BY <1>1, <3>1
    <3>4. a[(i - 1) + 1] = frs[i - 1].import
      BY <1>2, <3>1
    <3>5. c[i] = a[i]
      BY <1>4, <1>5, <3>1
    <3> QED
      BY ONLY <3>1, <3>2, <3>3, <3>4, <3>5, Zenon
  <2> QED
    BY <2>1, <2>2
<1>7. b = c
  BY <1>3, <1>4, <1>5, <1>6, SeqEqual
<1> QED
  BY <1>7 DEF a, b, c, rest

LEMMA RunningActivities ==
  /\ Activities = IF Active THEN ActivitiesOf(entry, frames) ELSE <<>>
  /\ Activities' = IF mode' \in {"run", "native"} THEN ActivitiesOf(entry', frames') ELSE <<>>
BY DEF Activities, ActivitiesOf, Active

LEMMA StepImplements ==
  ASSUME IInv, entry \in Modules, Step
  PROVE  [System!Next]_(System!moduleVars)
<1> DEFINE running == ActivitiesOf(entry, frames)
<1>1. frames \in Seq(Frame)
  BY DEF IInv, TypeOK
<1>2. running \in Seq(Modules \cup {NULL}) /\ running # <<>>
  BY <1>1, ActivitySequence
<1>3. CASE Locally
  <2>1. Activities = running /\ frames' = frames /\ entry' = entry /\ initialized' = initialized
    BY <1>3, RunningActivities DEF Locally
  <2>2. CASE mode' \in {"run", "native"}
    BY <2>1, <2>2, RunningActivities DEF System!moduleVars
  <2>3. CASE mode' \notin {"run", "native"}
    <3>1. Activities' = <<>>
      BY <2>3, RunningActivities
    <3> QED
      BY <1>2, <2>1, <3>1 DEF System!Next, System!Die, System!Active
  <2> QED
    BY <2>2, <2>3
<1>4. ASSUME NEW fr \in Frame, Saves(fr), entry' = entry
      PROVE  /\ System!Active
             /\ Activities' = Append(Activities, fr.import)
  <2>1. Activities = running /\ Activities' = ActivitiesOf(entry, Append(frames, fr))
    BY <1>4, RunningActivities DEF Saves
  <2> QED
    BY <1>1, <1>2, <2>1, ActivityBegins DEF System!Active
<1>5. CASE Calling
  <2>1. PICK fr \in Frame : Saves(fr) /\ fr.import = NULL /\ UNCHANGED <<initialized, entry>>
    BY <1>5 DEF Calling
  <2> QED
    BY <1>4, <2>1 DEF System!Next, System!Call
<1>6. CASE \E m \in Modules : Importing(m)
  <2>1. PICK m \in Modules : Importing(m)
    BY <1>6
  <2>2. PICK fr \in Frame :
          /\ Saves(fr) /\ fr.import = m /\ m \notin initialized /\ entry' = entry
          /\ initialized' = initialized \cup {m}
    BY <2>1 DEF Importing
  <2>3. System!Import(m)
    BY <1>4, <2>2 DEF System!Import
  <2> QED
    BY <2>3 DEF System!Next
<1>7. CASE Leaving
  <2>1. /\ Activities = running /\ initialized' = initialized /\ frames # <<>>
        /\ Activities' = ActivitiesOf(entry, SubSeq(frames, 1, Len(frames) - 1))
    BY <1>7, RunningActivities DEF Leaving
  <2>2. Activities' = SubSeq(running, 1, Len(running) - 1)
    BY <1>1, <2>1, ActivityEnds
  <2> QED
    BY <1>2, <2>1, <2>2 DEF System!Next, System!End, System!Active
<1>8. CASE UNCHANGED <<mode, frames, initialized, entry>>
  BY <1>8, RunningActivities DEF System!moduleVars, Active
<1> QED
  BY <1>3, <1>5, <1>6, <1>7, <1>8 DEF Step

\* The machine implements ModuleSystem for every bundle of Consistent code: every
\* step begins or ends at most one activity, the innermost, and an import of a
\* module that was imported before, in a cycle or not, begins none.
\* (module_import_module, vm_exec_module and vm_exec_function.)
THEOREM MachineImplementsModuleSystem == Spec => ImplementsModuleSystem
<1>1. Init => System!Init
  <2> SUFFICES ASSUME Init PROVE System!Init
    OBVIOUS
  <2>1. entry \in Entries /\ frames = <<>> /\ mode = "run" /\ initialized = {}
    BY DEF Init, vm_init
  <2>2. Activities = <<entry>> \o <<>>
    <3>1. [i \in DOMAIN frames |-> frames[i].import] = <<>>
      BY <2>1
    <3> QED
      BY <2>1, <3>1 DEF Activities
  <2>3. <<entry>> \o <<>> = <<entry>>
    <3>1. <<entry>> \in Seq({entry})
      OBVIOUS
    <3> QED
      BY <3>1, ConcatEmptySeq
  <2> QED
    BY <2>1, <2>2, <2>3 DEF System!Init
<1>2. Init => entry \in Modules
  BY ExecutionAssumption DEF Init, vm_init
<1>3. IInv /\ [Next]_vars /\ entry \in Modules => (entry \in Modules)'
  BY NextIsStep DEF Step, Locally, Calling, Importing, Leaving
<1>4. IInv /\ [Next]_vars /\ entry \in Modules => [System!Next]_(System!moduleVars)
  BY NextIsStep, StepImplements
<1> QED
  BY <1>1, <1>2, <1>3, <1>4, StackIsDisciplined, PTL
  DEF Spec, ImplementsModuleSystem, System!Spec

-----------------------------------------------------------------------------
(* Scopes: climbing the tree.                                              *)

Links == ScopeIds \cup {NULL}

\* One step up.
Up(all, s) == IF s = NULL THEN NULL ELSE all[s].parent

Climb(all, s, k) ==
  LET up[i \in Nat] ==
        IF i = 0 THEN s
        ELSE IF up[i - 1] = NULL THEN NULL ELSE all[up[i - 1]].parent
  IN  up[k]

LEMMA EnclosingIsClimb ==
  \A s, k : /\ Enclosing(s, k) = Climb(scopes, s, k)
            /\ Enclosing(s, k)' = Climb(scopes', s, k)
BY DEF Enclosing, Climb

Paths(all, s, n) ==
  {f \in [0..n -> Links] :
     f[0] = s /\ \A i \in 1..n : f[i] = Up(all, f[i - 1])}

LEMMA PathExists ==
  ASSUME NEW all \in [ScopeIds -> ScopeRecord], NEW s \in Links
  PROVE  \A n \in Nat : Paths(all, s, n) # {}
<1> DEFINE S == {n \in Nat : Paths(all, s, n) # {}}
<1>1. 0 \in S
  <2>1. [i \in 0..0 |-> s] \in Paths(all, s, 0)
    BY DEF Paths
  <2> QED
    BY <2>1
<1>2. ASSUME NEW n \in Nat, n \in S PROVE n + 1 \in S
  <2>1. PICK f : f \in Paths(all, s, n)
    BY <1>2
  <2> DEFINE g == [i \in 0..(n + 1) |-> IF i = n + 1 THEN Up(all, f[n]) ELSE f[i]]
  <2>2. f \in [0..n -> Links] /\ f[0] = s /\ \A i \in 1..n : f[i] = Up(all, f[i - 1])
    BY <2>1 DEF Paths
  <2>3. \A x \in Links : Up(all, x) \in Links
    BY DEF Up, Links, ScopeRecord
  <2>4. g \in [0..(n + 1) -> Links]
    BY <2>2, <2>3
  <2>5. g[0] = s
    BY <2>2
  <2>6. ASSUME NEW i \in 1..(n + 1) PROVE g[i] = Up(all, g[i - 1])
    <3>1. CASE i = n + 1
      BY <3>1
    <3>2. CASE i # n + 1
      BY <3>2, <2>2
    <3> QED
      BY <3>1, <3>2
  <2>7. g \in Paths(all, s, n + 1)
    BY <2>4, <2>5, <2>6 DEF Paths
  <2> QED
    BY <2>7
<1> HIDE DEF S
<1>3. \A n \in Nat : n \in S
  BY <1>1, <1>2, SetInduction
<1> QED
  BY <1>3 DEF S

LEMMA PathsAgree ==
  ASSUME NEW all, NEW s, NEW n \in Nat, NEW m \in Nat,
         NEW f \in Paths(all, s, n), NEW g \in Paths(all, s, m)
  PROVE  \A i \in Nat : i <= n /\ i <= m => f[i] = g[i]
<1> DEFINE S == {i \in Nat : i <= n /\ i <= m => f[i] = g[i]}
<1>1. 0 \in S
  BY DEF Paths
<1>2. ASSUME NEW i \in Nat, i \in S PROVE i + 1 \in S
  <2> SUFFICES ASSUME i + 1 <= n, i + 1 <= m PROVE f[i + 1] = g[i + 1]
    OBVIOUS
  <2>1. f[i] = g[i] /\ i + 1 \in 1..n /\ i + 1 \in 1..m /\ (i + 1) - 1 = i
    BY <1>2
  <2>2. f[i + 1] = Up(all, f[(i + 1) - 1]) /\ g[i + 1] = Up(all, g[(i + 1) - 1])
    BY <2>1 DEF Paths
  <2> QED
    BY <2>1, <2>2
<1> HIDE DEF S
<1>3. \A i \in Nat : i \in S
  BY <1>1, <1>2, SetInduction
<1> QED
  BY <1>3 DEF S

LEMMA ClimbSteps ==
  ASSUME NEW all \in [ScopeIds -> ScopeRecord], NEW s \in Links
  PROVE  /\ Climb(all, s, 0) = s
         /\ \A k \in Nat : /\ Climb(all, s, k + 1) = Up(all, Climb(all, s, k))
                           /\ Climb(all, s, k) \in Links
<1> DEFINE Path(n) == CHOOSE f : f \in Paths(all, s, n)
           h == [i \in Nat |-> Path(i)[i]]
           Rec(g) == [i \in Nat |-> IF i = 0 THEN s
                        ELSE IF g[i - 1] = NULL THEN NULL ELSE all[g[i - 1]].parent]
           up == CHOOSE g : g = Rec(g)
<1>1. \A n \in Nat : Path(n) \in Paths(all, s, n)
  BY PathExists
<1> HIDE DEF Path
<1>2. h[0] = s
  BY <1>1 DEF Paths
<1>3. ASSUME NEW n \in Nat
      PROVE  h[n] \in Links /\ h[n + 1] = Up(all, h[n])
  <2>1. Path(n) \in Paths(all, s, n) /\ Path(n + 1) \in Paths(all, s, n + 1)
    BY <1>1
  <2>2. Path(n)[n] = Path(n + 1)[n]
    BY <2>1, PathsAgree
  <2>3. Path(n)[n] \in Links
    BY <2>1 DEF Paths
  <2>4. Path(n + 1)[n + 1] = Up(all, Path(n + 1)[(n + 1) - 1])
    BY <2>1 DEF Paths
  <2> QED
    BY <2>2, <2>3, <2>4
<1>4. h = Rec(h)
  <2> SUFFICES ASSUME NEW i \in Nat, i # 0
               PROVE  h[i] = IF h[i - 1] = NULL THEN NULL ELSE all[h[i - 1]].parent
    BY <1>2
  <2>1. i - 1 \in Nat /\ (i - 1) + 1 = i
    OBVIOUS
  <2> HIDE DEF h
  <2>2. h[(i - 1) + 1] = Up(all, h[i - 1])
    BY <1>3, <2>1
  <2> QED
    BY <2>1, <2>2 DEF Up
<1> HIDE DEF h
<1>5. up = Rec(up)
  BY <1>4
<1>6. \A k : Climb(all, s, k) = up[k]
  BY DEF Climb
<1> HIDE DEF up
<1>7. up[0] = s /\ \A k \in Nat : up[k + 1] = Up(all, up[k])
  BY <1>5 DEF Up
<1>8. \A k \in Nat : up[k] \in Links
  <2> DEFINE S == {k \in Nat : up[k] \in Links}
  <2>1. 0 \in S
    BY <1>7
  <2>2. ASSUME NEW n \in Nat, n \in S PROVE n + 1 \in S
    BY <1>7, <2>2 DEF Up, Links, ScopeRecord
  <2> HIDE DEF S
  <2>3. \A n \in Nat : n \in S
    BY <2>1, <2>2, SetInduction
  <2> QED
    BY <2>3 DEF S
<1> QED
  BY <1>6, <1>7, <1>8

LEMMA ClimbFromParent ==
  ASSUME NEW all \in [ScopeIds -> ScopeRecord], NEW s \in ScopeIds
  PROVE  \A k \in Nat : Climb(all, all[s].parent, k) = Climb(all, s, k + 1)
<1> DEFINE p == all[s].parent
           S == {k \in Nat : Climb(all, p, k) = Climb(all, s, k + 1)}
<1>1. p \in Links /\ s \in Links /\ s # NULL
  BY DEF Links, ScopeRecord, ScopeIds, NULL
<1>2. Up(all, s) = p
  BY <1>1 DEF Up
<1> HIDE DEF p
<1>3. 0 \in S
  <2>1. Climb(all, p, 0) = p /\ Climb(all, s, 0) = s
    BY <1>1, ClimbSteps
  <2>2. Climb(all, s, 0 + 1) = Up(all, Climb(all, s, 0))
    BY <1>1, ClimbSteps
  <2> QED
    BY <1>2, <2>1, <2>2
<1>4. ASSUME NEW n \in Nat, n \in S PROVE n + 1 \in S
  <2>1. Climb(all, p, n + 1) = Up(all, Climb(all, p, n))
    BY <1>1, ClimbSteps
  <2>2. Climb(all, s, (n + 1) + 1) = Up(all, Climb(all, s, n + 1))
    BY <1>1, ClimbSteps
  <2> QED
    BY <1>4, <2>1, <2>2
<1> HIDE DEF S
<1>5. \A n \in Nat : n \in S
  BY <1>3, <1>4, SetInduction
<1> QED
  BY <1>5 DEF S, p

\* The links of a scope above s are those of s.
LEMMA ClimbKept ==
  ASSUME NEW all \in [ScopeIds -> ScopeRecord], NEW more \in [ScopeIds -> ScopeRecord],
         \A s \in ScopeIds : all[s].parent # NULL => more[s].parent = all[s].parent,
         NEW s \in Links
  PROVE  \A k \in Nat : Climb(all, s, k) # NULL => Climb(more, s, k) = Climb(all, s, k)
<1> DEFINE S == {k \in Nat : Climb(all, s, k) # NULL => Climb(more, s, k) = Climb(all, s, k)}
<1>1. 0 \in S
  BY ClimbSteps
<1>2. ASSUME NEW n \in Nat, n \in S PROVE n + 1 \in S
  <2> SUFFICES ASSUME Climb(all, s, n + 1) # NULL
               PROVE  Climb(more, s, n + 1) = Climb(all, s, n + 1)
    OBVIOUS
  <2>1. /\ Climb(all, s, n + 1) = Up(all, Climb(all, s, n))
        /\ Climb(more, s, n + 1) = Up(more, Climb(more, s, n))
        /\ Climb(all, s, n) \in Links
    BY ClimbSteps
  <2>2. Climb(all, s, n) # NULL /\ all[Climb(all, s, n)].parent # NULL
    BY <2>1 DEF Up
  <2>3. Climb(more, s, n) = Climb(all, s, n) /\ Climb(all, s, n) \in ScopeIds
    BY <1>2, <2>1, <2>2 DEF Links
  <2> QED
    BY <2>1, <2>2, <2>3 DEF Up
<1> HIDE DEF S
<1>3. \A n \in Nat : n \in S
  BY <1>1, <1>2, SetInduction
<1> QED
  BY <1>3 DEF S

\* Where every scope is younger than its parent, k steps up lose k addresses.
LEMMA ClimbDescends ==
  ASSUME NEW all \in [ScopeIds -> ScopeRecord],
         \A s \in ScopeIds : all[s].parent < s, NEW s \in ScopeIds
  PROVE  \A k \in Nat : Climb(all, s, k) # NULL => Climb(all, s, k) + k <= s
<1> DEFINE S == {k \in Nat : Climb(all, s, k) # NULL => Climb(all, s, k) + k <= s}
<1>0. s \in Links /\ s \in Int /\ \A x \in Links : x \in Int
  BY DEF Links, ScopeIds, NULL
<1>1. 0 \in S
  BY <1>0, ClimbSteps
<1>2. ASSUME NEW n \in Nat, n \in S PROVE n + 1 \in S
  <2> SUFFICES ASSUME Climb(all, s, n + 1) # NULL
               PROVE  Climb(all, s, n + 1) + (n + 1) <= s
    OBVIOUS
  <2>1. /\ Climb(all, s, n + 1) = Up(all, Climb(all, s, n))
        /\ Climb(all, s, n) \in Links /\ Climb(all, s, n + 1) \in Links
    BY <1>0, ClimbSteps
  <2>2. Climb(all, s, n) \in ScopeIds /\ Climb(all, s, n) # NULL
    BY <2>1 DEF Links, Up
  <2>3. Climb(all, s, n + 1) < Climb(all, s, n)
    BY <2>1, <2>2 DEF Up
  <2>4. Climb(all, s, n) + n <= s
    BY <1>2, <2>2
  <2>5. PICK a, b : a = Climb(all, s, n) /\ b = Climb(all, s, n + 1)
    OBVIOUS
  <2>6. a \in Int /\ b \in Int /\ b < a /\ a + n <= s
    BY <1>0, <2>1, <2>3, <2>4, <2>5
  <2>7. b + (n + 1) <= s
    BY <1>0, <2>6
  <2> QED
    BY <2>5, <2>7
<1> HIDE DEF S
<1>3. \A n \in Nat : n \in S
  BY <1>1, <1>2, SetInduction
<1> QED
  BY <1>3 DEF S

-----------------------------------------------------------------------------
(* Scopes: the types of what the invariant speaks of.                      *)

LEMMA ScopeTypes ==
  ASSUME IInv
  PROVE  /\ scopes \in [ScopeIds -> ScopeRecord] /\ scope \in ScopeIds
         /\ funcs \in [FuncIds -> Function] /\ used.scopes \in Nat
         /\ module \in Modules /\ fn \in FuncIds \cup {NULL} /\ IsRunnable(module, fn)
         /\ frames \in Seq(Frame) /\ ic \in Nat
         /\ \A i \in DOMAIN frames :
              /\ frames[i] \in Frame /\ IsRunnable(frames[i].module, frames[i].fn)
              /\ frames[i].module \in Modules /\ frames[i].fn \in FuncIds \cup {NULL}
              /\ frames[i].scope \in ScopeIds /\ frames[i].ic \in Nat
<1>1. \A i \in DOMAIN frames : frames[i] \in Frame /\ FrameOK(frames[i])
  BY DEF IInv, TypeOK, FramesOK
<1>2. \A i \in DOMAIN frames :
        /\ IsRunnable(frames[i].module, frames[i].fn)
        /\ frames[i].module \in Modules /\ frames[i].fn \in FuncIds \cup {NULL}
        /\ frames[i].scope \in ScopeIds /\ frames[i].ic \in Nat
  BY <1>1 DEF Frame, FrameOK
<1> QED
  BY <1>1, <1>2 DEF IInv, TypeOK, MemoryTypeOK, ScopeRecord, RegistersOK

LEMMA ScopeNumbers ==
  /\ MaxScopes \in Nat /\ ScopeIds = 1..MaxScopes /\ NULL = 0
  /\ GlobalScope \in ScopeIds /\ \A m \in Modules : ModuleScope(m) \in ScopeIds
  /\ GlobalScope = 1 /\ \A m \in Modules : ModuleScope(m) = 1 + m /\ m \in Nat \ {0}
  /\ FirstFree.scopes = 1 + Len(Code) /\ Len(Code) \in Nat
  /\ \A m \in Modules : ModuleScope(m) <= FirstFree.scopes
BY Addresses DEF NULL, GlobalScope, ModuleScope, FirstFree

LEMMA ScopeIsNumber ==
  /\ MaxScopes \in Nat /\ FirstFree.scopes \in Nat
  /\ \A s \in ScopeIds : s \in Nat /\ s <= MaxScopes /\ s # NULL
BY ScopeNumbers

LEMMA AtMost == \A a, b, k \in Nat : b <= a /\ a <= k => b <= k
OBVIOUS

LEMMA HomeIsScope ==
  ASSUME funcs \in [FuncIds -> Function],
         NEW m \in Modules, NEW f \in FuncIds \cup {NULL}
  PROVE  Home(m, f) \in ScopeIds
BY ScopeNumbers DEF Home, Function

Linked(all) == \A s \in ScopeIds : all[s].parent < s

LEMMA NestedNext ==
  ASSUME NEW all \in [ScopeIds -> ScopeRecord], all = scopes', Linked(all),
         NEW m, NEW f, Home(m, f)' \in ScopeIds,
         NEW s \in ScopeIds, s <= used'.scopes,
         NEW k \in Nat, Climb(all, s, k) = Home(m, f)',
         NEW i, (i < EndOf(m, f))' => Nesting[m][i] <= k
  PROVE  Nested(m, i, f, s)'
<1>1. Climb(all, s, k) # NULL
  BY ScopeNumbers
<1>2. Climb(all, s, k) + k <= s
  BY <1>1, ClimbDescends DEF Linked
<1>3. k \in 0..MaxScopes
  <2>1. PICK h : h = Climb(all, s, k)
    OBVIOUS
  <2>2. h \in Nat /\ s \in Nat /\ s <= MaxScopes /\ h + k <= s
    BY <1>2, <2>1, ScopeNumbers
  <2> QED
    BY <2>2, ScopeNumbers
<1>4. Enclosing(s, k)' = Home(m, f)'
  BY EnclosingIsClimb
<1> QED
  BY <1>3, <1>4 DEF Nested

-----------------------------------------------------------------------------
(* Scopes: what steps do to the tree.                                      *)

\* Links are set once.
TreeGrows ==
  /\ used.scopes <= used'.scopes
  /\ \A s \in ScopeIds : scopes[s].parent # NULL => scopes'[s].parent = scopes[s].parent
  /\ FunctionsRemain

LEMMA NestedRemains ==
  ASSUME IInv, IInv', TreeGrows, ScopeTreeOK',
         NEW m \in Modules, NEW f \in FuncIds \cup {NULL}, IsRunnable(m, f),
         NEW s \in ScopeIds, NEW i, Nested(m, i, f, s)
  PROVE  Nested(m, i, f, s)'
<1>1. /\ scopes \in [ScopeIds -> ScopeRecord] /\ funcs \in [FuncIds -> Function]
      /\ used.scopes \in Nat /\ used'.scopes \in Nat
      /\ scopes' \in [ScopeIds -> ScopeRecord] /\ funcs' \in [FuncIds -> Function]
  BY ScopeTypes DEF IInv, TypeOK, MemoryTypeOK, ScopeRecord
<1>2. PICK k \in 0..MaxScopes :
        Enclosing(s, k) = Home(m, f) /\ (i < EndOf(m, f) => Nesting[m][i] <= k)
  BY DEF Nested
<1>3. f # NULL => funcs'[f] = funcs[f]
  BY DEF TreeGrows, FunctionsRemain, IsRunnable
<1>4. Home(m, f)' = Home(m, f) /\ EndOf(m, f)' = EndOf(m, f) /\ Home(m, f) \in ScopeIds
  BY <1>1, <1>3, HomeIsScope DEF Home, EndOf
<1>5. PICK more : more = scopes'
  OBVIOUS
<1>6. s \in Links /\ k \in Nat
  BY ScopeNumbers DEF Links
<1>7. Climb(scopes, s, k) = Home(m, f) /\ Climb(scopes, s, k) # NULL
  BY <1>2, <1>4, EnclosingIsClimb, ScopeNumbers
<1>8. Climb(more, s, k) = Climb(scopes, s, k)
  BY <1>1, <1>5, <1>6, <1>7, ClimbKept DEF TreeGrows
<1>9. s <= used.scopes /\ s <= used'.scopes
  BY <1>1, ScopeNumbers DEF Nested, TreeGrows
<1>10. Linked(more)
  BY <1>5 DEF Linked, ScopeTreeOK
<1> QED
  BY <1>1, <1>2, <1>4, <1>5, <1>6, <1>7, <1>8, <1>9, <1>10, NestedNext

\* What most steps do to the tree: nothing.
SameTree ==
  /\ used'.scopes = used.scopes
  /\ \A s \in ScopeIds : scopes'[s].parent = scopes[s].parent
  /\ funcs' = funcs

LEMMA SameTreeStays ==
  ASSUME IInv, SameTree, ScopeTreeOK, BodiesOK
  PROVE  ScopeTreeOK' /\ BodiesOK' /\ TreeGrows
<1>1. used.scopes \in Nat /\ \A m \in Modules : ModuleScope(m) \in ScopeIds
  BY ScopeTypes, ScopeNumbers
<1> QED
  BY <1>1 DEF SameTree, ScopeTreeOK, BodiesOK, TreeGrows, FunctionsRemain

\* A new scope is not one of a module.
LEMMA ModuleScopesKept ==
  ASSUME IInv, ScopeTreeOK, NEW new, new = used.scopes + 1, NEW s,
         \A x \in ScopeIds : scopes'[x].parent = IF x = new THEN s ELSE scopes[x].parent
  PROVE  \A m \in Modules : scopes'[ModuleScope(m)].parent \in {NULL, GlobalScope}
<1> SUFFICES ASSUME NEW m \in Modules
             PROVE  scopes'[ModuleScope(m)].parent \in {NULL, GlobalScope}
  OBVIOUS
<1>1. PICK x, first, old : x = ModuleScope(m) /\ first = FirstFree.scopes /\ old = used.scopes
  OBVIOUS
<1>2. /\ x \in ScopeIds /\ x \in Nat /\ first \in Nat /\ old \in Nat
      /\ x <= first /\ first <= old
  BY <1>1, ScopeNumbers, ScopeIsNumber, ScopeTypes DEF ScopeTreeOK
<1>3. x # old + 1
  BY <1>2
<1> QED
  BY <1>1, <1>2, <1>3 DEF ScopeTreeOK

LEMMA FramesStayNested ==
  ASSUME IInv, IInv', TreeGrows, ScopeTreeOK', NestingOK,
         NEW i \in DOMAIN frames, NEW fr, fr = frames[i]
  PROVE  Nested(fr.module, fr.ic, fr.fn, fr.scope)'
<1>1. Nested(fr.module, fr.ic, fr.fn, fr.scope)
  BY DEF NestingOK
<1>2. /\ fr.module \in Modules /\ fr.fn \in FuncIds \cup {NULL}
      /\ IsRunnable(fr.module, fr.fn) /\ fr.scope \in ScopeIds
  BY ScopeTypes
<1> QED
  BY <1>1, <1>2, NestedRemains

\* A step that leaves the frames alone.
LEMMA SameFramesNested ==
  ASSUME IInv, IInv', TreeGrows, ScopeTreeOK', NestingOK, frames' = frames,
         NEW m, NEW i, NEW f, NEW s, module' = m, ic' = i, fn' = f, scope' = s,
         Nested(m, i, f, s)'
  PROVE  NestingOK'
<1>1. ASSUME NEW j \in DOMAIN frames
      PROVE  Nested(frames[j].module, frames[j].ic, frames[j].fn, frames[j].scope)'
  <2>1. PICK fr : fr = frames[j]
    OBVIOUS
  <2>2. Nested(fr.module, fr.ic, fr.fn, fr.scope)'
    BY <2>1, FramesStayNested
  <2> QED
    BY <2>1, <2>2
<1> QED
  BY <1>1 DEF NestingOK

\* The process stops, or a native function works for the running body.
LEMMA StayKeepsScopes ==
  ASSUME IInv, IInv', ScopeInv, SameTree, UNCHANGED <<module, ic, fn, scope, frames>>,
         mode' # "No parent scope to pop"
  PROVE  ScopeInv'
<1>1. ScopeTreeOK' /\ BodiesOK' /\ TreeGrows
  BY SameTreeStays DEF ScopeInv
<1>2. PICK m, i, f, s : m = module /\ i = ic /\ f = fn /\ s = scope
  OBVIOUS
<1>3. Nested(m, i, f, s)'
  <2>1. Nested(m, i, f, s)
    BY <1>2 DEF ScopeInv, NestingOK
  <2>2. m \in Modules /\ f \in FuncIds \cup {NULL} /\ IsRunnable(m, f) /\ s \in ScopeIds
    BY <1>2, ScopeTypes
  <2> QED
    BY <1>1, <2>1, <2>2, NestedRemains
<1>4. NestingOK'
  BY <1>1, <1>2, <1>3, SameFramesNested DEF ScopeInv
<1> QED
  BY <1>1, <1>4 DEF ScopeInv

LEMMA PanicKeepsScopes ==
  ASSUME IInv, IInv', ScopeInv, NEW fault, fault # "No parent scope to pop", Panic(fault)
  PROVE  ScopeInv'
BY StayKeepsScopes DEF Panic, SameTree, memory, registers, control

-----------------------------------------------------------------------------
(* What the annotation says of the instruction that is fetched.            *)

LEMMA NextNesting ==
  ASSUME IInv, mode = "run", ~AtEnd
  PROVE  /\ ic < EndOf(module, fn)
         /\ Nesting[module][ic] \in Nat
         /\ Inst.op = "POP_SCOPE" => Nesting[module][ic] > 0
         /\ \A j \in Successors(Inst, ic) :
              /\ j \in Nat
              /\ j < EndOf(module, fn) =>
                   /\ Nesting[module][j] \in Nat
                   /\ Nesting[module][j] <= OpenAfter(Inst, Nesting[module][ic])
         /\ IsFunctionDeclaration(Inst) /\ BodySize(Inst) > 0 =>
              Nesting[module][ic + 1] = 0
<1>1. /\ ic \in 0..(Len(Code[module]) - 1) /\ Inst = Code[module][ic + 1]
      /\ Limit[module][ic] = EndOf(module, fn)
  BY FetchedInstruction
<1>2. module \in Modules /\ Balanced(Code[module], Limit[module], Nesting[module])
  BY BalancedCode, ScopeTypes
<1>3. /\ EndOf(module, fn) \in Nat /\ EndOf(module, fn) <= Len(Code[module])
      /\ Len(Code[module]) \in Nat
  <2>1. EndOf(module, fn) \in Nat /\ Len(Code[module]) \in Nat
    BY <1>2, EndType, CodeType, ScopeTypes DEF IInv, TypeOK
  <2>2. CASE fn = NULL
    BY <2>1, <2>2 DEF EndOf
  <2>3. CASE fn # NULL
    BY <2>1, <2>3, ScopeTypes DEF EndOf, IInv, FunctionsOK, IsRunnable
  <2> QED
    BY <2>1, <2>2, <2>3
<1>4. ic < EndOf(module, fn)
  BY <1>3, ScopeTypes DEF AtEnd
<1>5. Nesting[module] \in [0..Len(Code[module]) -> Nat]
  BY <1>2 DEF Balanced
<1>6. /\ Inst.op = "POP_SCOPE" => Nesting[module][ic] > 0
      /\ \A j \in Successors(Inst, ic) :
           j < Limit[module][ic] => Nesting[module][j] <= OpenAfter(Inst, Nesting[module][ic])
      /\ IsFunctionDeclaration(Inst) /\ BodySize(Inst) > 0 => Nesting[module][ic + 1] = 0
  BY <1>1, <1>2 DEF Balanced
<1>7. ASSUME NEW j \in Successors(Inst, ic)
      PROVE  /\ j \in Nat
             /\ j < EndOf(module, fn) =>
                  /\ Nesting[module][j] \in Nat
                  /\ Nesting[module][j] <= OpenAfter(Inst, Nesting[module][ic])
  <2>1. j \in Nat
    BY NextInstruction
  <2> QED
    BY <1>1, <1>3, <1>5, <1>6, <2>1
<1> QED
  BY <1>1, <1>3, <1>4, <1>5, <1>6, <1>7

\* How far the running body is below its scope.
LEMMA RunningNested ==
  ASSUME IInv, ScopeInv, mode = "run", ~AtEnd
  PROVE  \E k \in Nat : /\ Climb(scopes, scope, k) = Home(module, fn)
                        /\ Nesting[module][ic] <= k
<1>1. PICK k \in 0..MaxScopes :
        /\ Enclosing(scope, k) = Home(module, fn)
        /\ ic < EndOf(module, fn) => Nesting[module][ic] <= k
  BY DEF ScopeInv, NestingOK, Nested
<1> QED
  BY <1>1, EnclosingIsClimb, NextNesting, ScopeNumbers

LEMMA RunningDepth ==
  ASSUME IInv, ScopeInv, NEW k \in Nat, Climb(scopes, scope, k) = Home(module, fn)
  PROVE  k \in 0..MaxScopes
<1>1. scopes \in [ScopeIds -> ScopeRecord] /\ scope \in ScopeIds /\ Linked(scopes)
  BY ScopeTypes DEF ScopeInv, ScopeTreeOK, Linked
<1>2. PICK h \in ScopeIds : h = Climb(scopes, scope, k)
  BY HomeIsScope, ScopeTypes
<1>3. h # NULL /\ h \in Nat /\ scope \in Nat /\ scope <= MaxScopes /\ MaxScopes \in Nat
  BY <1>1, ScopeIsNumber
<1>4. h + k <= scope
  BY <1>1, <1>2, <1>3, ClimbDescends DEF Linked
<1> QED
  BY <1>3, <1>4

\* What is open at the instruction is open at its successors.
LEMMA NestedAfter ==
  ASSUME IInv, ScopeInv, mode = "run", ~AtEnd,
         Inst.op \notin {"PUSH_SCOPE", "POP_SCOPE"},
         NEW i \in Successors(Inst, ic)
  PROVE  Nested(module, i, fn, scope)
<1>1. PICK k \in Nat : Climb(scopes, scope, k) = Home(module, fn) /\ Nesting[module][ic] <= k
  BY RunningNested
<1>2. ASSUME i < EndOf(module, fn) PROVE Nesting[module][i] <= k
  <2>1. \A n : OpenAfter(Inst, n) = n
    BY DEF OpenAfter
  <2>2. /\ Nesting[module][ic] \in Nat /\ Nesting[module][i] \in Nat
        /\ Nesting[module][i] <= Nesting[module][ic]
    BY <1>2, <2>1, NextNesting
  <2> QED
    BY <1>1, <2>2, AtMost, Zenon
<1>3. k \in 0..MaxScopes
  BY <1>1, RunningDepth
<1>4. scope <= used.scopes
  BY DEF ScopeInv, NestingOK, Nested
<1> QED
  BY <1>1, <1>2, <1>3, <1>4, EnclosingIsClimb DEF Nested

\* The running body goes on at a successor, with no scope pushed or popped.
LEMMA MoveKeepsScopes ==
  ASSUME IInv, IInv', ScopeInv, SameTree, mode = "run", ~AtEnd,
         Inst.op \notin {"PUSH_SCOPE", "POP_SCOPE"},
         ic' \in Successors(Inst, ic), UNCHANGED <<module, fn, scope, frames>>,
         mode' # "No parent scope to pop"
  PROVE  ScopeInv'
<1>1. ScopeTreeOK' /\ BodiesOK' /\ TreeGrows
  BY SameTreeStays DEF ScopeInv
<1>2. PICK m, i, f, s : m = module /\ i = ic' /\ f = fn /\ s = scope
  OBVIOUS
<1>3. Nested(m, i, f, s)
  BY <1>2, NestedAfter
<1>4. Nested(m, i, f, s)'
  <2>1. m \in Modules /\ f \in FuncIds \cup {NULL} /\ IsRunnable(m, f) /\ s \in ScopeIds
    BY <1>2, ScopeTypes
  <2> QED
    BY <1>1, <1>3, <2>1, NestedRemains
<1>5. NestingOK'
  BY <1>1, <1>2, <1>4, SameFramesNested DEF ScopeInv
<1> QED
  BY <1>1, <1>5 DEF ScopeInv

\* PUSH_SCOPE opens a scope below the current one.
LEMMA PushScopeKeepsScopes ==
  ASSUME IInv, IInv', ScopeInv, inst_push_scope(Inst)
  PROVE  ScopeInv'
<1>1. mode = "run" /\ ~AtEnd /\ Inst.op = "PUSH_SCOPE"
  BY ExecutedOne DEF inst_push_scope, Opcodes
<1>2. /\ CanCreateScope /\ scopes' = scope_create_scope(scope)
      /\ used' = [used EXCEPT !.scopes = @ + 1] /\ scope' = NewScope
      /\ ic' = ic + 1 /\ mode' = mode /\ UNCHANGED <<module, fn, frames, funcs>>
  BY DEF inst_push_scope, GoTo, control
<1>3. PICK all, s, new : all = scopes /\ s = scope /\ new = used.scopes + 1
  OBVIOUS
<1> DEFINE more == [all EXCEPT ![new] = [parent |-> s, vars |-> EmptyDict]]
<1>4. /\ all \in [ScopeIds -> ScopeRecord] /\ s \in ScopeIds /\ new \in ScopeIds
      /\ used.scopes \in Nat /\ s <= used.scopes /\ s < new
      /\ all[new].parent = NULL /\ Linked(all)
  <2>1. used.scopes \in Nat /\ new \in ScopeIds /\ new > used.scopes
    BY <1>2, <1>3, ScopeTypes DEF CanCreateScope
  <2>2. all \in [ScopeIds -> ScopeRecord] /\ s \in ScopeIds /\ s <= used.scopes
    BY <1>3, ScopeTypes DEF ScopeInv, NestingOK, Nested
  <2>3. all[new].parent = NULL /\ Linked(all)
    BY <1>3, <2>1 DEF ScopeInv, ScopeTreeOK, Linked
  <2> QED
    BY <1>3, <2>1, <2>2, <2>3, ScopeIsNumber
<1>5. scopes' = more /\ used'.scopes = new /\ scope' = new
  BY <1>2, <1>3, ScopeTypes DEF scope_create_scope, NewScope, IInv, TypeOK, MemoryTypeOK
<1>6. /\ \A x \in ScopeIds : more[x].parent = IF x = new THEN s ELSE all[x].parent
      /\ more \in [ScopeIds -> ScopeRecord]
  <2>1. s \in Links /\ EmptyDict \in Dict
    BY <1>4, EmptyDictIsDict DEF Links
  <2> QED
    BY <1>4, <2>1 DEF ScopeRecord, Links
<1> HIDE DEF more
<1>7. Linked(more)
  BY <1>4, <1>6 DEF Linked
<1>8. ScopeTreeOK' /\ BodiesOK' /\ TreeGrows
  <2>1. used.scopes <= used'.scopes /\ FirstFree.scopes <= used'.scopes
    <3>1. FirstFree.scopes <= used.scopes
      BY DEF ScopeInv, ScopeTreeOK
    <3>2. PICK first, old : first = FirstFree.scopes /\ old = used.scopes
      OBVIOUS
    <3>3. first \in Nat /\ old \in Nat /\ first <= old /\ used'.scopes = old + 1
      BY <1>3, <1>4, <1>5, <3>1, <3>2, ScopeIsNumber
    <3>4. old <= old + 1 /\ first <= old + 1
      BY <3>3
    <3> QED
      BY <3>2, <3>3, <3>4
  <2>2. \A x \in ScopeIds : x > used'.scopes => scopes'[x].parent = NULL
    <3> SUFFICES ASSUME NEW x \in ScopeIds, x > new PROVE more[x].parent = NULL
      BY <1>5
    <3>1. x # new /\ x > used.scopes
      BY <1>3, <1>4, ScopeIsNumber
    <3>2. scopes[x].parent = NULL
      BY <3>1 DEF ScopeInv, ScopeTreeOK
    <3> QED
      BY <1>3, <1>6, <3>1, <3>2
  <2>3. \A f \in FuncIds : funcs'[f].scope <= used'.scopes
    <3>1. ASSUME NEW f \in FuncIds PROVE funcs[f].scope <= used'.scopes
      <4>1. funcs[f].scope \in ScopeIds /\ funcs[f].scope <= used.scopes
        BY ScopeTypes DEF Function, ScopeInv, ScopeTreeOK
      <4>2. PICK x : x = funcs[f].scope
        OBVIOUS
      <4>3. x \in Nat /\ x <= used.scopes
        BY <4>1, <4>2, ScopeIsNumber
      <4>4. x <= used'.scopes
        BY <1>3, <1>4, <1>5, <4>3
      <4> QED
        BY <4>2, <4>4
    <3> QED
      BY <1>2, <3>1
  <2>4. \A x \in ScopeIds : scopes[x].parent # NULL => scopes'[x].parent = scopes[x].parent
    BY <1>3, <1>4, <1>5, <1>6
  <2>5. \A m \in Modules : scopes'[ModuleScope(m)].parent \in {NULL, GlobalScope}
    <3>1. \A x \in ScopeIds : scopes'[x].parent = IF x = new THEN s ELSE scopes[x].parent
      BY <1>3, <1>5, <1>6
    <3>2. ScopeTreeOK
      BY DEF ScopeInv
    <3> QED
      BY <1>3, <3>1, <3>2, ModuleScopesKept
  <2> QED
    BY <1>2, <1>5, <1>7, <2>1, <2>2, <2>3, <2>4, <2>5
    DEF ScopeTreeOK, Linked, BodiesOK, TreeGrows, FunctionsRemain, ScopeInv
<1>9. PICK m, i, f : m = module /\ i = ic + 1 /\ f = fn
  OBVIOUS
<1>10. PICK k \in Nat : Climb(scopes, scope, k) = Home(module, fn) /\ Nesting[module][ic] <= k
  BY <1>1, RunningNested
<1>11. /\ Home(m, f)' = Home(m, f) /\ EndOf(m, f)' = EndOf(m, f)
       /\ Home(m, f) \in ScopeIds /\ m \in Modules /\ f \in FuncIds \cup {NULL}
  BY <1>2, <1>9, HomeIsScope, ScopeTypes DEF Home, EndOf
<1>12. Climb(more, new, k + 1) = Home(m, f)'
  <2>1. Climb(all, s, k) = Home(m, f) /\ Climb(all, s, k) # NULL
    BY <1>3, <1>9, <1>10, <1>11, ScopeIsNumber
  <2>2. \A x \in ScopeIds : all[x].parent # NULL => more[x].parent = all[x].parent
    BY <1>4, <1>6
  <2>3. Climb(more, s, k) = Climb(all, s, k)
    BY <1>4, <1>6, <2>1, <2>2, ClimbKept DEF Links
  <2>4. more[new].parent = s
    BY <1>4, <1>6
  <2>5. Climb(more, new, k + 1) = Climb(more, s, k)
    BY <1>4, <1>6, <2>4, ClimbFromParent
  <2> QED
    BY <1>11, <2>1, <2>3, <2>5
<1>13. i < EndOf(m, f) => Nesting[m][i] <= k + 1
  <2> SUFFICES ASSUME i < EndOf(m, f) PROVE Nesting[m][i] <= k + 1
    OBVIOUS
  <2>1. \A n : OpenAfter(Inst, n) = n + 1
    BY <1>1 DEF OpenAfter
  <2>2. i \in Successors(Inst, ic)
    BY <1>1, <1>9, SuccessorTable DEF Straight, Opcodes
  <2>3. /\ Nesting[module][ic] \in Nat
        /\ Nesting[m][i] \in Nat /\ Nesting[m][i] <= OpenAfter(Inst, Nesting[module][ic])
    BY <1>1, <1>9, <2>2, NextNesting
  <2>4. PICK a, b : a = Nesting[module][ic] /\ b = Nesting[m][i]
    OBVIOUS
  <2>5. a \in Nat /\ a <= k /\ b \in Nat /\ b <= a + 1
    BY <1>10, <2>1, <2>3, <2>4
  <2>6. b <= k + 1
    BY <2>5
  <2> QED
    BY <2>4, <2>6
<1>14. Nested(m, i, f, new)'
  <2>1. k + 1 \in Nat /\ new <= used'.scopes
    BY <1>3, <1>4, <1>5
  <2> QED
    BY <1>4, <1>5, <1>6, <1>7, <1>11, <1>12, <1>13, <2>1, NestedNext
<1>15. NestingOK'
  BY <1>2, <1>5, <1>8, <1>9, <1>14, SameFramesNested DEF ScopeInv
<1> QED
  BY <1>1, <1>2, <1>8, <1>15 DEF ScopeInv

\* POP_SCOPE finds a scope to go back to, which the body opened or began in.
LEMMA PopScopeKeepsScopes ==
  ASSUME IInv, IInv', ScopeInv, inst_pop_scope(Inst)
  PROVE  ScopeInv'
<1>1. mode = "run" /\ ~AtEnd /\ Inst.op = "POP_SCOPE"
  BY ExecutedOne DEF inst_pop_scope, Opcodes
<1>2. PICK k \in Nat : Climb(scopes, scope, k) = Home(module, fn) /\ Nesting[module][ic] <= k
  BY <1>1, RunningNested
<1>3. PICK m, i, f, s, p, h :
        m = module /\ i = ic + 1 /\ f = fn /\ s = scope /\ p = scopes[scope].parent
        /\ h = Home(module, fn)
  OBVIOUS
<1>4. /\ scopes \in [ScopeIds -> ScopeRecord] /\ s \in ScopeIds /\ p \in Links
      /\ m \in Modules /\ f \in FuncIds \cup {NULL} /\ IsRunnable(m, f)
      /\ h \in ScopeIds /\ h # NULL /\ s \in Links
  BY <1>3, ScopeTypes, HomeIsScope, ScopeIsNumber DEF ScopeRecord, Links
<1>5. /\ k # 0 /\ k - 1 \in Nat
      /\ i < EndOf(m, f) => Nesting[m][i] <= k - 1
  <2>1. \A n : OpenAfter(Inst, n) = n - 1
    BY <1>1 DEF OpenAfter
  <2>2. i \in Successors(Inst, ic)
    BY <1>1, <1>3, SuccessorTable DEF Straight, Opcodes
  <2>3. PICK a, b : a = Nesting[module][ic] /\ b = Nesting[m][i]
    OBVIOUS
  <2>4. a \in Nat /\ a > 0 /\ a <= k
    BY <1>1, <1>2, <2>3, NextNesting
  <2>5. k # 0 /\ k - 1 \in Nat
    BY <2>4
  <2>6. ASSUME i < EndOf(m, f) PROVE Nesting[m][i] <= k - 1
    <3>1. b \in Nat /\ b <= a - 1
      BY <1>1, <1>3, <2>1, <2>2, <2>3, <2>6, NextNesting
    <3>2. b <= k - 1
      BY <2>4, <3>1
    <3> QED
      BY <2>3, <3>2
  <2> QED
    BY <2>5, <2>6
<1>6. Climb(scopes, p, k - 1) = h
  <2>1. (k - 1) + 1 = k
    BY <1>5
  <2>2. Climb(scopes, p, k - 1) = Climb(scopes, s, (k - 1) + 1)
    BY <1>3, <1>4, <1>5, ClimbFromParent
  <2> QED
    BY <1>2, <1>3, <2>1, <2>2
<1>7. p \in ScopeIds
  <2>1. p # NULL
    <3> SUFFICES ASSUME p = NULL PROVE FALSE
      OBVIOUS
    <3> DEFINE S == {n \in Nat : Climb(scopes, NULL, n) = NULL}
    <3>1. NULL \in Links
      BY DEF Links
    <3>2. 0 \in S
      BY <1>4, <3>1, ClimbSteps
    <3>3. ASSUME NEW n \in Nat, n \in S PROVE n + 1 \in S
      BY <1>4, <3>1, <3>3, ClimbSteps DEF Up
    <3> HIDE DEF S
    <3>4. \A n \in Nat : n \in S
      BY <3>2, <3>3, SetInduction
    <3> QED
      BY <1>4, <1>5, <1>6, <3>4 DEF S
  <2> QED
    BY <1>4, <2>1 DEF Links
<1>8. /\ SameTree /\ scope' = p /\ ic' = i /\ mode' = mode
      /\ UNCHANGED <<module, fn, frames>>
  BY <1>3, <1>7, ScopeIsNumber DEF inst_pop_scope, GoTo, control, memory, SameTree
<1>9. ScopeTreeOK' /\ BodiesOK' /\ TreeGrows
  BY <1>8, SameTreeStays DEF ScopeInv
<1>10. Nested(m, i, f, p)'
  <2>1. Home(m, f)' = Home(m, f) /\ EndOf(m, f)' = EndOf(m, f)
    BY <1>8 DEF Home, EndOf, SameTree
  <2>2. PICK all : all = scopes'
    OBVIOUS
  <2>3. all = scopes
    BY <2>2 DEF inst_pop_scope, Panic, memory
  <2>4. Linked(all)
    BY <2>3 DEF Linked, ScopeInv, ScopeTreeOK
  <2>5. p <= used'.scopes
    <3>1. p < s /\ s <= used.scopes /\ used.scopes \in Nat /\ p \in Nat /\ s \in Nat
      BY <1>3, <1>4, <1>7, ScopeTypes, ScopeIsNumber
      DEF ScopeInv, ScopeTreeOK, NestingOK, Nested
    <3> QED
      BY <1>8, <3>1 DEF SameTree
  <2>6. Home(m, f)' = h
    BY <1>3, <2>1
  <2> QED
    BY <1>4, <1>5, <1>6, <1>7, <2>1, <2>2, <2>3, <2>4, <2>5, <2>6, NestedNext
<1>11. NestingOK'
  BY <1>3, <1>8, <1>9, <1>10, SameFramesNested DEF ScopeInv
<1> QED
  BY <1>1, <1>8, <1>9, <1>11 DEF ScopeInv

-----------------------------------------------------------------------------
(* Scopes: the instructions.                                               *)

OrdinaryFaults ==
  {"Stack underflow", "Stack overflow", "Unsupported operation", "trap",
   "Could not update local", "Symbol not found", "Callee is not a function",
   "Target is not a object", "Could not find module in bundle", "stack overrun",
   "stack underrun", "bundle overrun", "endless lookup", "null instruction"}

\* The instruction goes on in the same scope, or the process dies.
Ordinary ==
  \/ \E fault \in OrdinaryFaults : Panic(fault)
  \/ SameTree /\ \E c, s : Advance(c, s)

InPlace == Straight \ {"PUSH_SCOPE", "POP_SCOPE"}

LEMMA GoToKeepsScopes ==
  ASSUME IInv, IInv', ScopeInv, SameTree, mode = "run", ~AtEnd,
         Inst.op \notin {"PUSH_SCOPE", "POP_SCOPE"},
         NEW i \in Successors(Inst, ic), NEW c, NEW s, GoTo(i, c, s), UNCHANGED scope
  PROVE  ScopeInv'
<1>1. /\ ic' \in Successors(Inst, ic) /\ UNCHANGED <<module, fn, scope, frames>>
      /\ mode' # "No parent scope to pop"
  BY DEF GoTo, control
<1> QED
  BY <1>1, MoveKeepsScopes

LEMMA OrdinaryKeepsScopes ==
  ASSUME IInv, IInv', ScopeInv, mode = "run", ~AtEnd, Inst.op \in InPlace, Ordinary
  PROVE  ScopeInv'
<1>1. ASSUME NEW fault \in OrdinaryFaults, Panic(fault) PROVE ScopeInv'
  BY <1>1, PanicKeepsScopes DEF OrdinaryFaults
<1>2. ASSUME SameTree, NEW c, NEW s, Advance(c, s) PROVE ScopeInv'
  <2>1. ic + 1 \in Successors(Inst, ic)
    BY SuccessorTable DEF InPlace
  <2>2. Inst.op \notin {"PUSH_SCOPE", "POP_SCOPE"}
    BY DEF InPlace
  <2>3. GoTo(ic + 1, c, s) /\ UNCHANGED scope
    BY <1>2 DEF Advance
  <2> QED
    BY <1>2, <2>1, <2>2, <2>3, GoToKeepsScopes
<1> QED
  BY <1>1, <1>2 DEF Ordinary

LEMMA SameMemory ==
  ASSUME UNCHANGED memory
  PROVE  SameTree
BY DEF memory, SameTree

LEMMA PushIsOrdinary ==
  ASSUME NEW v, Push(v)
  PROVE  Ordinary
BY SameMemory DEF Push, Replace, Ordinary, OrdinaryFaults

LEMMA LoadKeepsScopes ==
  ASSUME IInv, IInv', ScopeInv, Load(Inst) \/ inst_load_local(Inst) \/ inst_load_arg(Inst)
  PROVE  ScopeInv'
<1> DEFINE ops == LoadOpcodes \cup {"LOAD_LOCAL", "LOAD_ARG"}
<1>1. Executing(Inst, ops)
  BY DEF Load, LoadOpcodes, Executing, inst_ld_int, inst_ld_double, inst_ld_string,
         inst_ld_undf, inst_ld_null, inst_ld_boolean, inst_ld_this, inst_load_local,
         inst_load_arg
<1>2. ops \subseteq Opcodes /\ ops \subseteq InPlace
  BY DEF LoadOpcodes, Opcodes, InPlace, Straight
<1> HIDE DEF ops
<1>3. mode = "run" /\ ~AtEnd /\ Inst.op \in InPlace
  BY <1>1, <1>2, Executed
<1> SUFFICES Ordinary
  BY <1>3, OrdinaryKeepsScopes
<1>4. CASE Load(Inst)
  BY <1>4, PushIsOrdinary
  DEF Load, inst_ld_int, inst_ld_double, inst_ld_string, inst_ld_undf, inst_ld_null,
      inst_ld_boolean, inst_ld_this
<1>5. CASE inst_load_local(Inst)
  BY <1>5, PushIsOrdinary DEF inst_load_local, Ordinary, OrdinaryFaults
<1>6. CASE inst_load_arg(Inst)
  BY <1>6, SameMemory DEF inst_load_arg, Replace, Ordinary, OrdinaryFaults
<1> QED
  BY <1>4, <1>5, <1>6

LEMMA OperatorKeepsScopes ==
  ASSUME IInv, IInv', ScopeInv, inst_binary(Inst) \/ inst_unary(Inst)
  PROVE  ScopeInv'
<1>1. ASSUME NEW n, NEW v, Replace(n, v), UNCHANGED memory PROVE Ordinary
  BY <1>1, SameMemory DEF Replace, Ordinary
<1>2. ASSUME NEW fault \in OrdinaryFaults, Panic(fault) PROVE Ordinary
  BY <1>2 DEF Ordinary
<1>3. {"Unsupported operation", "trap", "Stack underflow"} \subseteq OrdinaryFaults
  BY DEF OrdinaryFaults
<1>4. CASE inst_binary(Inst)
  <2>1. mode = "run" /\ ~AtEnd /\ Inst.op \in BinaryOpcodes
    BY <1>4, Executed DEF inst_binary, Opcodes
  <2>2. Pops(Inst) = 2 /\ Inst.op \in InPlace
    BY <2>1, BinaryTable DEF InPlace, BinaryOpcodes
  <2> DEFINE out == Binary(Inst.op, Top(2), Top(1))
  <2>3. ~(counter < 2) /\ Top(1) \in Value /\ Top(2) \in Value
    BY <2>1, <2>2, OperandsThere
  <2>4. out.effect \in Effects
    BY <2>1, <2>3, BinaryIsOutcome DEF IsOutcome
  <2>5. \/ (Replace(2, out.value) \/ Replace(1, out.value)) /\ UNCHANGED memory
        \/ Panic("Unsupported operation") \/ Panic("trap")
    BY <1>4, <2>3, <2>4, Zenon DEF inst_binary, Needs, Effects
  <2> HIDE DEF out
  <2>6. Ordinary
    BY <1>1, <1>2, <1>3, <2>5
  <2> QED
    BY <2>1, <2>2, <2>6, OrdinaryKeepsScopes
<1>5. CASE inst_unary(Inst)
  <2>1. mode = "run" /\ ~AtEnd /\ Inst.op \in UnaryOpcodes
    BY <1>5, Executed DEF inst_unary, Opcodes
  <2>2. Pops(Inst) = 1 /\ Inst.op \in InPlace
    BY <2>1, UnaryTable DEF InPlace, UnaryOpcodes
  <2> DEFINE out == Unary(Inst.op, Top(1))
  <2>3. ~(counter < 1) /\ Top(1) \in Value
    BY <2>1, <2>2, OperandsThere
  <2>4. out.effect \in Effects \ {"keep"}
    BY <2>1, <2>3, UnaryIsOutcome, UnaryNeverKeeps DEF IsOutcome
  <2>5. \/ Replace(1, out.value) /\ UNCHANGED memory
        \/ Panic("Unsupported operation") \/ Panic("trap")
    BY <1>5, <2>3, <2>4, Zenon DEF inst_unary, Needs, Effects
  <2> HIDE DEF out
  <2>6. Ordinary
    BY <1>1, <1>2, <1>3, <2>5
  <2> QED
    BY <2>1, <2>2, <2>6, OrdinaryKeepsScopes
<1> QED
  BY <1>4, <1>5

LEMMA StackInstructionKeepsScopes ==
  ASSUME IInv, IInv', ScopeInv,
         inst_nop(Inst) \/ inst_pop(Inst) \/ inst_dup(Inst) \/ inst_swap(Inst)
  PROVE  ScopeInv'
<1>1. Executing(Inst, {"NOP", "RETURN", "POP", "DUP", "SWAP"})
  BY DEF inst_nop, inst_pop, inst_dup, inst_swap, Executing
<1>2. mode = "run" /\ ~AtEnd /\ Inst.op \in {"NOP", "RETURN", "POP", "DUP", "SWAP"}
  BY <1>1, Executed DEF Opcodes
<1>3. Inst.op \in InPlace
  BY <1>2 DEF InPlace, Straight, Opcodes
<1>4. Ordinary
  BY PushIsOrdinary, SameMemory
  DEF inst_nop, inst_pop, inst_dup, inst_swap, Needs, Drop, Ordinary, OrdinaryFaults
<1> QED
  BY <1>2, <1>3, <1>4, OrdinaryKeepsScopes

LEMMA DeclareKeepsTree ==
  ASSUME scopes \in [ScopeIds -> ScopeRecord], NEW s, NEW key, NEW v,
         scopes' = scope_declare(s, key, v), UNCHANGED <<funcs, used>>
  PROVE  SameTree
BY DEF scope_declare, SameTree, ScopeRecord

LEMMA HeapKeepsTree ==
  ASSUME UNCHANGED <<scopes, funcs>>, used'.scopes = used.scopes
  PROVE  SameTree
BY DEF SameTree

LEMMA NameInstructionKeepsScopes ==
  ASSUME IInv, IInv', ScopeInv,
         inst_alloc_local(Inst) \/ inst_store_local(Inst) \/ inst_export(Inst)
  PROVE  ScopeInv'
<1>1. Executing(Inst, {"ALLOC_LOCAL", "STORE_LOCAL", "EXPORT"})
  BY DEF inst_alloc_local, inst_store_local, inst_export, Executing
<1>2. mode = "run" /\ ~AtEnd /\ Inst.op \in {"ALLOC_LOCAL", "STORE_LOCAL", "EXPORT"}
  BY <1>1, Executed DEF Opcodes
<1>3. Inst.op \in InPlace
  BY <1>2 DEF InPlace, Straight, Opcodes
<1>4. scopes \in [ScopeIds -> ScopeRecord]
  BY ScopeTypes
<1> SUFFICES Ordinary
  BY <1>2, <1>3, OrdinaryKeepsScopes
<1>5. CASE inst_alloc_local(Inst)
  BY <1>4, <1>5, DeclareKeepsTree
  DEF inst_alloc_local, Needs, Drop, Ordinary, OrdinaryFaults
<1>6. CASE inst_store_local(Inst)
  BY <1>4, <1>6, DeclareKeepsTree
  DEF inst_store_local, scope_set, Needs, Drop, Ordinary, OrdinaryFaults
<1>7. CASE inst_export(Inst)
  BY <1>7, HeapKeepsTree DEF inst_export, Needs, Drop, Ordinary, OrdinaryFaults
<1> QED
  BY <1>5, <1>6, <1>7

LEMMA ObjectInstructionKeepsScopes ==
  ASSUME IInv, IInv', ScopeInv,
         \/ inst_arr_alloc(Inst) \/ inst_obj_alloc(Inst) \/ inst_obj_store(Inst)
         \/ inst_obj_cstore(Inst) \/ inst_obj_load(Inst) \/ inst_obj_cload(Inst)
  PROVE  ScopeInv'
<1> DEFINE ops == {"ARR_ALLOC", "OBJ_ALLOC", "OBJ_STORE", "OBJ_CSTORE", "OBJ_LOAD",
                   "OBJ_CLOAD"}
<1>1. Executing(Inst, ops)
  BY DEF inst_arr_alloc, inst_obj_alloc, inst_obj_store, inst_obj_cstore, inst_obj_load,
         inst_obj_cload, Executing
<1>2. ops \subseteq Opcodes /\ ops \subseteq InPlace
  BY DEF Opcodes, InPlace, Straight
<1> HIDE DEF ops
<1>3. mode = "run" /\ ~AtEnd /\ Inst.op \in InPlace
  BY <1>1, <1>2, Executed
<1>4. used \in [scopes : Nat, objs : Nat, funcs : Nat]
  BY DEF IInv, TypeOK, MemoryTypeOK
<1>5. ASSUME NEW proto, ObjectPushed(proto) PROVE Ordinary
  BY <1>4, <1>5, HeapKeepsTree DEF ObjectPushed, Replace, Ordinary, OrdinaryFaults
<1>6. ASSUME NEW n, NEW target, NEW key, NEW v, Stored(n, target, key, v) PROVE Ordinary
  BY <1>6, HeapKeepsTree DEF Stored, Drop, Ordinary, OrdinaryFaults
<1>7. ASSUME NEW n, NEW target, NEW key, Loaded(n, target, key) PROVE Ordinary
  BY <1>7, SameMemory DEF Loaded, Replace, Ordinary, OrdinaryFaults
<1>8. ASSUME Panic("Stack underflow") PROVE Ordinary
  BY <1>8 DEF Ordinary, OrdinaryFaults
<1>9. Ordinary
  BY <1>5, <1>6, <1>7, <1>8
  DEF inst_arr_alloc, inst_obj_alloc, inst_obj_store, inst_obj_cstore, inst_obj_load,
      inst_obj_cload, Needs
<1> QED
  BY <1>3, <1>9, OrdinaryKeepsScopes

LEMMA JumpKeepsScopes ==
  ASSUME IInv, IInv', ScopeInv, inst_jmp(Inst) \/ inst_jmp_f(Inst) \/ inst_jmp_t(Inst)
  PROVE  ScopeInv'
<1>1. Executing(Inst, {"JMP", "JMP_F", "JMP_T"})
  BY DEF inst_jmp, inst_jmp_f, inst_jmp_t, ConditionalJump, Executing
<1>2. mode = "run" /\ ~AtEnd /\ Inst.op \in {"JMP", "JMP_F", "JMP_T"}
  BY <1>1, Executed DEF Opcodes
<1>3. CASE Panic("stack underrun")
  BY <1>3, PanicKeepsScopes
<1>4. CASE ~Panic("stack underrun")
  <2>1. PICK i, c : i \in Successors(Inst, ic) /\ GoTo(i, c, stack)
    <3>1. CASE Inst.op = "JMP"
      BY <1>4, <3>1, SuccessorTable
      DEF inst_jmp, inst_jmp_f, inst_jmp_t, ConditionalJump, Executing
    <3>2. CASE Inst.op \in {"JMP_F", "JMP_T"}
      <4>1. Successors(Inst, ic) = {ic + 1, Inst.n}
        BY <3>2, SuccessorTable
      <4>2. GoTo(ic + 1, counter - 1, stack) \/ GoTo(Inst.n, counter - 1, stack)
        BY <1>4, <3>2 DEF inst_jmp, inst_jmp_f, inst_jmp_t, ConditionalJump, Executing
      <4> QED
        BY <4>1, <4>2
    <3> QED
      BY <1>2, <3>1, <3>2
  <2>2. UNCHANGED <<scope, memory>>
    BY <1>4 DEF inst_jmp, inst_jmp_f, inst_jmp_t, ConditionalJump
  <2> QED
    BY <1>2, <2>1, <2>2, SameMemory, GoToKeepsScopes
<1> QED
  BY <1>3, <1>4

-----------------------------------------------------------------------------
(* Scopes: functions, calls and imports.                                   *)

\* FUNC_DECL makes a scope below the current one that belongs to the function.
LEMMA FuncDeclKeepsScopes ==
  ASSUME IInv, IInv', ScopeInv, inst_func_decl(Inst)
  PROVE  ScopeInv'
<1>1. mode = "run" /\ ~AtEnd /\ Inst.op \in {"FUNC_DECL", "FUNC_DECL_E"}
  BY Executed DEF inst_func_decl, Opcodes
<1>2. CASE Panic("Stack overflow")
  BY <1>2, PanicKeepsScopes
<1>3. CASE ~Panic("Stack overflow")
  <2>1. PICK d, size : /\ size = BodySize(Inst)
                       /\ CanCreateFunction
                       /\ funcs' = [funcs EXCEPT ![NewFunction] =
                                      NewScript(module, ic + 1, ic + 1 + size)]
                       /\ scopes' = DeclaredIn(scope, d)
                       /\ used' = [scopes |-> used.scopes + 1, objs |-> used.objs + 2,
                                   funcs |-> used.funcs + 1]
                       /\ GoTo(ic + 1 + size, counter + 1, stack')
                       /\ UNCHANGED scope
    BY <1>3 DEF inst_func_decl, GoTo
  <2>2. size \in Nat /\ IsFunctionDeclaration(Inst) /\ ic \in Nat
    BY <1>1, <2>1, NextInstruction, ScopeTypes DEF IsFunctionDeclaration
  <2>3. PICK all, s, new, g : /\ all = scopes /\ s = scope /\ new = used.scopes + 1
                              /\ g = used.funcs + 1
    OBVIOUS
  <2>4. /\ all \in [ScopeIds -> ScopeRecord] /\ s \in ScopeIds /\ new \in ScopeIds
        /\ used.scopes \in Nat /\ s <= used.scopes /\ s < new /\ g \in FuncIds
        /\ all[new].parent = NULL /\ Linked(all) /\ s # new
    <3>1. used.scopes \in Nat /\ new \in ScopeIds /\ new > used.scopes /\ g \in FuncIds
      BY <2>1, <2>3, ScopeTypes DEF CanCreateFunction, CanCreateScope, NewFunction
    <3>2. all \in [ScopeIds -> ScopeRecord] /\ s \in ScopeIds /\ s <= used.scopes
      BY <2>3, ScopeTypes DEF ScopeInv, NestingOK, Nested
    <3>3. all[new].parent = NULL /\ Linked(all)
      BY <2>3, <3>1 DEF ScopeInv, ScopeTreeOK, Linked
    <3> QED
      BY <2>3, <3>1, <3>2, <3>3, ScopeIsNumber
  <2>5. \A x \in ScopeIds : scopes'[x].parent = IF x = new THEN s ELSE all[x].parent
    BY <2>1, <2>3, <2>4 DEF DeclaredIn, NewScope, ScopeRecord
  <2>6. /\ used'.scopes = new
        /\ funcs'[g] = NewScript(module, ic + 1, ic + 1 + size)
        /\ \A f \in FuncIds : f # g => funcs'[f] = funcs[f]
    BY <2>1, <2>3, <2>4, ScopeTypes DEF NewFunction
  <2>7. TreeGrows
    <3>1. funcs[g].native # "script"
      <4>1. used.funcs \in Nat
        BY DEF IInv, TypeOK, MemoryTypeOK
      <4>2. ~(g <= used.funcs)
        BY <2>3, <4>1
      <4> QED
        BY <2>4, <4>2 DEF IInv, FunctionsOK
    <3>2. FunctionsRemain
      BY <2>6, <3>1 DEF FunctionsRemain
    <3>3. \A x \in ScopeIds : scopes[x].parent # NULL => scopes'[x].parent = scopes[x].parent
      BY <2>3, <2>4, <2>5
    <3>4. used.scopes <= used'.scopes
      BY <2>3, <2>4, <2>6
    <3> QED
      BY <3>2, <3>3, <3>4 DEF TreeGrows
  <2>8. ScopeTreeOK'
    <3>1. FirstFree.scopes <= used'.scopes
      <4>1. FirstFree.scopes <= used.scopes /\ FirstFree.scopes \in Nat
        BY ScopeIsNumber DEF ScopeInv, ScopeTreeOK
      <4>2. PICK first : first = FirstFree.scopes
        OBVIOUS
      <4>3. first <= used'.scopes
        BY <2>3, <2>4, <2>6, <4>1, <4>2
      <4> QED
        BY <4>2, <4>3
    <3>2. ASSUME NEW x \in ScopeIds
          PROVE  scopes'[x].parent < x /\ (x > new => scopes'[x].parent = NULL)
      <4>1. scopes'[x].parent < x
        BY <2>4, <2>5 DEF Linked
      <4>2. ASSUME x > new PROVE scopes'[x].parent = NULL
        <5>1. x # new /\ x > used.scopes
          BY <2>3, <2>4, <4>2, ScopeIsNumber
        <5>2. all[x].parent = NULL
          BY <2>3, <5>1 DEF ScopeInv, ScopeTreeOK
        <5> QED
          BY <2>5, <5>1, <5>2
      <4> QED
        BY <4>1, <4>2
    <3>3. ASSUME NEW f \in FuncIds PROVE funcs'[f].scope <= new
      <4>1. CASE f = g
        <5>1. funcs'[f].scope = new
          BY <2>3, <2>6, <4>1 DEF NewScript, NewScope
        <5> QED
          BY <2>4, <5>1, ScopeIsNumber
      <4>2. CASE f # g
        <5>1. funcs[f].scope \in ScopeIds /\ funcs[f].scope <= used.scopes
          BY ScopeTypes DEF Function, ScopeInv, ScopeTreeOK
        <5>2. PICK x : x = funcs[f].scope
          OBVIOUS
        <5>3. x \in Nat /\ x <= used.scopes
          BY <5>1, <5>2, ScopeIsNumber
        <5>4. x <= new
          BY <2>3, <2>4, <5>3
        <5> QED
          BY <2>6, <4>2, <5>2, <5>4
      <4> QED
        BY <4>1, <4>2
    <3>4. \A m \in Modules : scopes'[ModuleScope(m)].parent \in {NULL, GlobalScope}
      <4>1. \A x \in ScopeIds : scopes'[x].parent = IF x = new THEN s ELSE scopes[x].parent
        BY <2>3, <2>5
      <4>2. ScopeTreeOK
        BY DEF ScopeInv
      <4> QED
        BY <2>3, <4>1, <4>2, ModuleScopesKept
    <3> QED
      BY <2>6, <3>1, <3>2, <3>3, <3>4 DEF ScopeTreeOK
  <2>9. BodiesOK'
    <3> SUFFICES ASSUME NEW f \in FuncIds, funcs'[f].native = "script",
                        funcs'[f].first < funcs'[f].last
                 PROVE  Nesting[funcs'[f].module][funcs'[f].first] = 0
      BY DEF BodiesOK
    <3>1. CASE f = g
      <4>1. /\ funcs'[f].module = module /\ funcs'[f].first = ic + 1
            /\ funcs'[f].last = ic + 1 + size
        BY <2>6, <3>1 DEF NewScript
      <4>2. size > 0
        BY <2>2, <4>1
      <4> QED
        BY <1>1, <2>1, <2>2, <4>1, <4>2, NextNesting
    <3>2. CASE f # g
      BY <2>6, <3>2 DEF ScopeInv, BodiesOK
    <3> QED
      BY <3>1, <3>2
  <2>10. PICK m, i, f : m = module /\ i = ic + 1 + size /\ f = fn
    OBVIOUS
  <2>11. Nested(m, i, f, s)
    <3>1. i \in Successors(Inst, ic)
      BY <1>1, <2>1, <2>10, SuccessorTable
    <3> QED
      BY <1>1, <2>3, <2>10, <3>1, NestedAfter
  <2>12. Nested(m, i, f, s)'
    BY <2>4, <2>7, <2>8, <2>10, <2>11, NestedRemains, ScopeTypes
  <2>13. NestingOK'
    BY <2>1, <2>3, <2>7, <2>8, <2>10, <2>12, SameFramesNested DEF ScopeInv, GoTo, control
  <2> QED
    BY <1>1, <2>1, <2>8, <2>9, <2>13 DEF ScopeInv, GoTo
<1> QED
  BY <1>2, <1>3

LEMMA FrameAppended ==
  ASSUME IInv, NEW fr \in Frame, frames' = Append(frames, fr), NEW top, top = Len(frames)
  PROVE  /\ top \in Nat /\ DOMAIN frames = 1..top /\ DOMAIN frames' = 1..(top + 1)
         /\ \A k \in 1..top : frames'[k] = frames[k]
         /\ frames'[top + 1] = fr
<1>1. frames \in Seq(Frame) /\ top \in Nat /\ DOMAIN frames = 1..top
  BY FrameCount
<1>2. /\ frames' \in Seq(Frame) /\ Len(frames') = top + 1
      /\ \A k \in 1..top : frames'[k] = frames[k]
      /\ frames'[top + 1] = fr
  BY <1>1, AppendProperties
<1>3. DOMAIN frames' = 1..(top + 1)
  BY <1>2
<1> QED
  BY <1>1, <1>2, <1>3

\* A frame is put on top, and another body starts or goes on.
LEMMA EnterKeepsScopes ==
  ASSUME IInv, IInv', ScopeInv, ScopeTreeOK', BodiesOK', TreeGrows,
         NEW fr \in Frame, frames' = Append(frames, fr),
         Nested(fr.module, fr.ic, fr.fn, fr.scope)',
         NEW m, NEW i, NEW f, NEW s, module' = m, ic' = i, fn' = f, scope' = s,
         Nested(m, i, f, s)', mode' # "No parent scope to pop"
  PROVE  ScopeInv'
<1>0. PICK top : top = Len(frames)
  OBVIOUS
<1>1. /\ top \in Nat /\ DOMAIN frames = 1..top /\ DOMAIN frames' = 1..(top + 1)
      /\ \A k \in 1..top : frames'[k] = frames[k]
      /\ frames'[top + 1] = fr
  BY <1>0, FrameAppended
<1>3. ASSUME NEW j \in DOMAIN frames'
      PROVE  Nested(frames[j].module, frames[j].ic, frames[j].fn, frames[j].scope)'
  <2>1. PICK g : g = frames'[j]
    OBVIOUS
  <2>2. Nested(g.module, g.ic, g.fn, g.scope)'
    <3>1. CASE j = top + 1
      BY <1>1, <2>1, <3>1
    <3>2. CASE j # top + 1
      <4>1. top \in Nat /\ j \in 1..(top + 1)
        BY <1>1
      <4>2. j \in 1..top
        BY ONLY <3>2, <4>1
      <4>3. j \in DOMAIN frames /\ g = frames[j]
        BY <1>1, <2>1, <4>2
      <4> QED
        BY <4>3, FramesStayNested DEF ScopeInv
    <3> QED
      BY <3>1, <3>2
  <2> QED
    BY <2>1, <2>2
<1>4. NestingOK'
  BY <1>3 DEF NestingOK
<1> QED
  BY <1>4 DEF ScopeInv

\* A script function starts in its own scope, with nothing open.
LEMMA FunctionStartsNested ==
  ASSUME IInv, IInv', ScopeInv, SameTree, NEW f \in FuncIds, funcs[f].native = "script",
         NEW m, NEW i, NEW s, m = funcs[f].module, i = funcs[f].first, s = funcs[f].scope
  PROVE  Nested(m, i, f, s)'
<1>1. ScopeTreeOK' /\ BodiesOK' /\ TreeGrows
  BY SameTreeStays DEF ScopeInv
<1>2. PICK all : all = scopes'
  OBVIOUS
<1>3. /\ all \in [ScopeIds -> ScopeRecord] /\ Linked(all) /\ s \in ScopeIds
      /\ s <= used'.scopes
  <2>1. all \in [ScopeIds -> ScopeRecord]
    BY <1>2 DEF IInv, TypeOK, MemoryTypeOK, ScopeRecord
  <2>2. s \in ScopeIds
    BY ScopeTypes DEF Function
  <2> QED
    BY <1>1, <1>2, <2>1, <2>2 DEF ScopeTreeOK, Linked, SameTree
<1>4. f # NULL
  BY RuntimeAssumption DEF NULL
<1>5. Home(m, f)' = s /\ EndOf(m, f)' = funcs[f].last
  BY <1>4 DEF Home, EndOf, SameTree
<1>6. Climb(all, s, 0) = s
  BY <1>3, ClimbSteps DEF Links
<1>7. i < funcs[f].last => Nesting[m][i] <= 0
  <2>1. funcs[f].first < funcs[f].last => Nesting[funcs[f].module][funcs[f].first] = 0
    BY DEF ScopeInv, BodiesOK
  <2> QED
    BY <2>1
<1> QED
  BY <1>2, <1>3, <1>5, <1>6, <1>7, NestedNext

\* vm_exec_function, from an instruction or from a native function.
LEMMA ExecFunctionKeepsScopes ==
  ASSUME IInv, IInv', ScopeInv, SameTree,
         NEW f \in FuncIds, funcs[f].native = "script", NEW c, NEW s, vm_exec_function(f, c, s),
         NEW fr \in Frame, frames' = Append(frames, fr),
         fr.module = module, fr.fn = fn, fr.scope = scope,
         Nested(module, fr.ic, fn, scope)
  PROVE  ScopeInv'
<1>1. ScopeTreeOK' /\ BodiesOK' /\ TreeGrows
  BY SameTreeStays DEF ScopeInv
<1>2. PICK m, g, t : m = module /\ g = fn /\ t = scope
  OBVIOUS
<1>3. Nested(m, fr.ic, g, t)'
  <2>1. m \in Modules /\ g \in FuncIds \cup {NULL} /\ IsRunnable(m, g) /\ t \in ScopeIds
    BY <1>2, ScopeTypes
  <2>2. Nested(m, fr.ic, g, t)
    BY <1>2
  <2> QED
    BY <1>1, <2>1, <2>2, NestedRemains DEF ScopeInv
<1>4. Nested(fr.module, fr.ic, fr.fn, fr.scope)'
  BY <1>2, <1>3
<1>5. PICK n, i, h : n = funcs[f].module /\ i = funcs[f].first /\ h = funcs[f].scope
  OBVIOUS
<1>6. Nested(n, i, f, h)'
  BY <1>5, FunctionStartsNested
<1>7. /\ module' = n /\ ic' = i /\ fn' = f /\ scope' = h
      /\ mode' # "No parent scope to pop"
  BY <1>5 DEF vm_exec_function
<1> QED
  BY <1>1, <1>4, <1>6, <1>7, EnterKeepsScopes

\* CALL goes on behind itself, at once or when the function returns.
LEMMA CallKeepsScopes ==
  ASSUME IInv, IInv', ScopeInv, inst_call(Inst)
  PROVE  ScopeInv'
<1>1. mode = "run" /\ ~AtEnd /\ Inst.op = "CALL"
  BY ExecutedOne DEF inst_call, Opcodes
<1> DEFINE n == Inst.n
           f == Top(1).num
<1>2. ic + 1 \in Successors(Inst, ic) /\ Pops(Inst) = n + 2 /\ n \in Nat
  BY <1>1, OtherTable, NextInstruction, SuccessorTable DEF Straight, Opcodes
<1>3. /\ ~(counter < 1) /\ Top(1) \in Value /\ counter - 1 \in 0..STACK_SIZE
      /\ stack \in [Slots -> Value] /\ TypeOK /\ ic + 1 \in Nat
  <2>1. /\ start + (n + 2) <= counter /\ start \in Nat /\ counter \in Nat
        /\ stack \in [Slots -> Value] /\ STACK_SIZE \in Nat /\ counter <= STACK_SIZE
        /\ Top(1) \in Value
    BY <1>1, <1>2, OwnOperands, OperandsThere
  <2> QED
    BY <1>2, <2>1, ScopeTypes DEF IInv
<1>4. ASSUME NEW fault \in OrdinaryFaults, Panic(fault) PROVE ScopeInv'
  BY <1>4, PanicKeepsScopes DEF OrdinaryFaults
<1>5. CASE \E fault \in OrdinaryFaults : Panic(fault)
  BY <1>4, <1>5
<1>6. CASE ~\E fault \in OrdinaryFaults : Panic(fault)
  <2>1. Top(1).type = "function" /\ ~Panic("stack underrun")
    BY <1>3, <1>6 DEF inst_call, Needs, OrdinaryFaults
  <2>2. CASE funcs[f].native = "script"
    <3> DEFINE fr == Saved(ic + 1, counter - 1, stack, n, 0, NULL, NULL)
    <3>1. /\ vm_exec_function(f, counter - 1, stack)
          /\ frames' = Append(frames, fr)
          /\ scopes' = scope_declare(funcs[f].scope, "this", Argument(0))
          /\ UNCHANGED <<funcs, used>>
      BY <1>3, <2>1, <2>2 DEF inst_call, Needs
    <3>2. f \in FuncIds
      BY <1>3, <2>1, ReferencedAddress
    <3>3. SameTree
      BY <3>1, ScopeTypes, DeclareKeepsTree
    <3>4. fr.module = module /\ fr.fn = fn /\ fr.scope = scope /\ fr.ic = ic + 1
      BY DEF Saved
    <3>6. fr \in Frame
      BY <1>2, <1>3, SavedIsFrame
    <3> HIDE DEF fr, f
    <3>5. Nested(module, fr.ic, fn, scope)
      BY <1>1, <1>2, <3>4, NestedAfter
    <3> QED
      BY <2>2, <3>1, <3>2, <3>3, <3>4, <3>5, <3>6, ExecFunctionKeepsScopes
  <2>3. CASE funcs[f].native # "script"
    <3>1. /\ ic' = ic + 1 /\ mode' = "native"
          /\ UNCHANGED <<memory, module, fn, scope, frames>>
      BY <1>3, <2>1, <2>3 DEF inst_call, Needs, EnterNative
    <3> QED
      BY <1>1, <1>2, <3>1, SameMemory, MoveKeepsScopes
  <2> QED
    BY <2>2, <2>3
<1> QED
  BY <1>5, <1>6

\* A return restores the registers of the caller, its scope among them.
LEMMA ReturnToKeepsScopes ==
  ASSUME IInv, IInv', ScopeInv, frames # <<>>, NEW v, ReturnTo(Caller, v)
  PROVE  ScopeInv'
<1>1. CASE Panic("stack underrun")
  BY <1>1, PanicKeepsScopes
<1>2. CASE ~Panic("stack underrun")
  <2>1. PICK fr : fr = Caller
    OBVIOUS
  <2>2. /\ module' = fr.module /\ ic' = fr.ic /\ scope' = fr.scope /\ fn' = fr.fn
        /\ frames' = SubSeq(frames, 1, Len(frames) - 1) /\ mode' = "run"
        /\ UNCHANGED memory
    BY <1>2, <2>1 DEF ReturnTo
  <2>3. ScopeTreeOK' /\ BodiesOK' /\ TreeGrows /\ NestingOK
    BY <2>2, SameMemory, SameTreeStays DEF ScopeInv
  <2>4. PICK top : top = Len(frames)
    OBVIOUS
  <2>5. /\ frames \in Seq(Frame) /\ top \in Nat \ {0} /\ DOMAIN frames = 1..top
        /\ frames' \in Seq(Frame) /\ Len(frames') = top - 1
        /\ \A k \in 1..(top - 1) : frames'[k] = frames[k]
    BY <2>2, <2>4, FrameCount, CallerIsFrame, FrontOfSeq
  <2>6. DOMAIN frames' = 1..(top - 1)
    BY <2>5
  <2>7. ASSUME NEW j \in DOMAIN frames'
        PROVE  Nested(frames[j].module, frames[j].ic, frames[j].fn, frames[j].scope)'
    <3>1. PICK g : g = frames'[j]
      OBVIOUS
    <3>2. j \in DOMAIN frames /\ g = frames[j]
      BY <2>5, <2>6, <3>1
    <3>3. Nested(g.module, g.ic, g.fn, g.scope)'
      BY <2>3, <3>2, FramesStayNested
    <3> QED
      BY <3>1, <3>3
  <2>8. Nested(fr.module, fr.ic, fr.fn, fr.scope)'
    <3>1. top \in DOMAIN frames /\ fr = frames[top]
      BY <2>1, <2>4, <2>5 DEF Caller
    <3> QED
      BY <2>3, <3>1, FramesStayNested
  <2>9. NestingOK'
    BY <2>2, <2>7, <2>8 DEF NestingOK
  <2> QED
    BY <2>2, <2>3, <2>9 DEF ScopeInv
<1> QED
  BY <1>1, <1>2

LEMMA LeaveKeepsScopes ==
  ASSUME IInv, IInv', ScopeInv, Return \/ ModuleEnds \/ Exit
  PROVE  ScopeInv'
<1>1. CASE Return
  <2>1. frames # <<>>
    BY <1>1 DEF Return, IInv, RegistersOK
  <2> QED
    BY <1>1, <2>1, ReturnToKeepsScopes DEF Return
<1>2. CASE ModuleEnds
  BY <1>2, ReturnToKeepsScopes DEF ModuleEnds
<1>3. CASE Exit
  <2>1. UNCHANGED <<memory, module, ic, fn, scope, frames>> /\ mode' = "exit"
    BY <1>3 DEF Exit, registers, control
  <2> QED
    BY <2>1, SameMemory, StayKeepsScopes
<1> QED
  BY <1>1, <1>2, <1>3

-----------------------------------------------------------------------------
(* Scopes: native functions.                                               *)

\* A native function that returns leaves the caller in its scope.
LEMMA ResultKeepsScopes ==
  ASSUME IInv, IInv', ScopeInv, SameTree, NEW v, Result(v)
  PROVE  ScopeInv'
<1>1. UNCHANGED <<module, ic, fn, scope, frames>> /\ mode' # "No parent scope to pop"
  BY DEF Result
<1> QED
  BY <1>1, StayKeepsScopes

LEMMA ReturnsKeepsScopes ==
  ASSUME IInv, IInv', ScopeInv, NEW v, Returns(v)
  PROVE  ScopeInv'
BY SameMemory, ResultKeepsScopes DEF Returns

LEMMA ResultNativesKeepScopes ==
  ASSUME IInv, IInv', ScopeInv,
         \/ print \/ module_get_export_obj \/ object \/ function \/ is_array
         \/ create \/ symbol \/ setPrototypeOf \/ array
  PROVE  ScopeInv'
<1>1. ASSUME NEW o, NEW v, Allocates(o, v) PROVE ScopeInv'
  <2>1. used \in [scopes : Nat, objs : Nat, funcs : Nat]
    BY DEF IInv, TypeOK, MemoryTypeOK
  <2>2. SameTree
    BY <1>1, <2>1, HeapKeepsTree DEF Allocates
  <2> QED
    BY <1>1, <2>2, ResultKeepsScopes DEF Allocates
<1>2. CASE print
  BY <1>2, SameMemory, ResultKeepsScopes DEF print
<1>3. CASE module_get_export_obj \/ object \/ function
  BY <1>3, ReturnsKeepsScopes DEF module_get_export_obj, object, function
<1>4. CASE is_array
  BY <1>4, ReturnsKeepsScopes, PanicKeepsScopes DEF is_array
<1>5. CASE setPrototypeOf
  BY <1>5, HeapKeepsTree, ResultKeepsScopes DEF setPrototypeOf
<1>6. CASE create \/ symbol
  BY <1>1, <1>6 DEF create, symbol
<1>7. CASE array
  BY <1>1, <1>7, ReturnsKeepsScopes DEF array
<1> QED
  BY <1>2, <1>3, <1>4, <1>5, <1>6, <1>7

\* A module body starts in the scope of the module, with nothing open.
LEMMA ModuleStartsNested ==
  ASSUME IInv', ScopeTreeOK', NEW m \in Modules, NEW s, s = ModuleScope(m)
  PROVE  Nested(m, 0, NULL, s)'
<1>1. PICK all : all = scopes'
  OBVIOUS
<1>2. all \in [ScopeIds -> ScopeRecord] /\ used'.scopes \in Nat
  BY <1>1 DEF IInv, TypeOK, MemoryTypeOK, ScopeRecord
<1>3. s \in ScopeIds /\ Home(m, NULL)' = s /\ s \in Links
  BY ScopeNumbers DEF Home, Links
<1>4. s <= used'.scopes
  <2>1. PICK first, new : first = FirstFree.scopes /\ new = used'.scopes
    OBVIOUS
  <2>2. /\ s \in Nat /\ first \in Nat /\ new \in Nat
        /\ s <= first /\ first <= new
    BY <1>2, <1>3, <2>1, ScopeNumbers, ScopeIsNumber DEF ScopeTreeOK
  <2>3. s <= new
    BY <2>2, AtMost, Zenon
  <2> QED
    BY <2>1, <2>3
<1>5. Climb(all, s, 0) = s
  BY <1>2, <1>3, ClimbSteps
<1>6. Nesting[m][0] <= 0
  BY BalancedCode DEF Balanced
<1>7. Linked(all)
  BY <1>1 DEF Linked, ScopeTreeOK
<1> QED
  BY <1>1, <1>2, <1>3, <1>4, <1>5, <1>6, <1>7, NestedNext

\* importModule puts the scope of a module below the global scope, unless it is
\* there already, and executes its body.
LEMMA ExecModuleKeepsScopes ==
  ASSUME IInv, IInv', ScopeInv, mode = "native", NEW m \in Modules, vm_exec_module(m)
  PROVE  ScopeInv'
<1>0. PICK fr : fr = Saved(ic, counter, stack, pending.n, 0, pending.obj, m)
  OBVIOUS
<1>1. /\ scopes' = Attached(scopes, m) /\ module' = m /\ ic' = 0
      /\ scope' = ModuleScope(m) /\ fn' = NULL
      /\ frames' = Append(frames, fr) /\ mode' # "No parent scope to pop"
      /\ UNCHANGED <<funcs, used>>
  BY <1>0 DEF vm_exec_module
<1>2. fr \in Frame
  <2>1. TypeOK /\ ic \in Nat /\ stack \in [Slots -> Value]
    BY DEF IInv, TypeOK
  <2> QED
    BY <1>0, <2>1, NativeRegisters, PendingType, SavedIsFrame
<1>3. fr.module = module /\ fr.fn = fn /\ fr.scope = scope /\ fr.ic = ic
  BY <1>0 DEF Saved
<1>4. PICK s, all : s = ModuleScope(m) /\ all = scopes
  OBVIOUS
<1>5. /\ all \in [ScopeIds -> ScopeRecord] /\ s \in ScopeIds /\ GlobalScope < s
      /\ all[s].parent \in {NULL, GlobalScope} /\ used.scopes \in Nat
      /\ s <= used.scopes
  <2>1. all[s].parent \in {NULL, GlobalScope} /\ FirstFree.scopes <= used.scopes
    BY <1>4 DEF ScopeInv, ScopeTreeOK
  <2>2. used.scopes \in Nat /\ s <= FirstFree.scopes /\ s \in Nat /\ FirstFree.scopes \in Nat
    BY <1>4, ScopeTypes, ScopeNumbers
  <2>3. s <= used.scopes
    BY <2>1, <2>2, AtMost, Zenon
  <2> QED
    BY <1>4, <2>1, <2>2, <2>3, ScopeTypes, ScopeNumbers
<1>6. /\ scopes'[s].parent = GlobalScope
      /\ \A x \in ScopeIds : x # s => scopes'[x].parent = all[x].parent
  BY <1>1, <1>4, <1>5 DEF Attached, ScopeRecord
<1>7. TreeGrows
  <2>1. \A x \in ScopeIds : scopes[x].parent # NULL => scopes'[x].parent = scopes[x].parent
    BY <1>4, <1>5, <1>6
  <2>2. used.scopes <= used'.scopes
    <3>1. used' = used
      BY <1>1
    <3>2. \A n \in Nat : n <= n
      OBVIOUS
    <3> QED
      BY <1>5, <3>1, <3>2
  <2> QED
    BY <1>1, <2>1, <2>2 DEF TreeGrows, FunctionsRemain
<1>8. ScopeTreeOK'
  <2>1. ASSUME NEW x \in ScopeIds
        PROVE  scopes'[x].parent < x /\ (x > used.scopes => scopes'[x].parent = NULL)
    <3>1. CASE x = s
      <4>1. ~(x > used.scopes)
        BY <1>5, <3>1, ScopeIsNumber
      <4> QED
        BY <1>5, <1>6, <3>1, <4>1
    <3>2. CASE x # s
      BY <1>4, <1>6, <3>2 DEF ScopeInv, ScopeTreeOK
    <3> QED
      BY <3>1, <3>2
  <2>2. \A n \in Modules : scopes'[ModuleScope(n)].parent \in {NULL, GlobalScope}
    <3> SUFFICES ASSUME NEW n \in Modules, NEW x, x = ModuleScope(n)
                 PROVE  scopes'[x].parent \in {NULL, GlobalScope}
      OBVIOUS
    <3>1. x \in ScopeIds /\ scopes[x].parent \in {NULL, GlobalScope}
      BY ScopeNumbers DEF ScopeInv, ScopeTreeOK
    <3> QED
      BY <1>4, <1>6, <3>1
  <2> QED
    BY <1>1, <2>1, <2>2 DEF ScopeInv, ScopeTreeOK
<1>9. BodiesOK'
  BY <1>1 DEF ScopeInv, BodiesOK
<1>10. Nested(fr.module, fr.ic, fr.fn, fr.scope)'
  <2>1. PICK n, i, f, t : n = module /\ i = ic /\ f = fn /\ t = scope
    OBVIOUS
  <2>2. /\ n \in Modules /\ f \in FuncIds \cup {NULL} /\ IsRunnable(n, f) /\ t \in ScopeIds
        /\ Nested(n, i, f, t)
    BY <2>1, ScopeTypes DEF ScopeInv, NestingOK
  <2>3. Nested(n, i, f, t)'
    BY <1>7, <1>8, <2>2, NestedRemains
  <2> QED
    BY <1>3, <2>1, <2>3
<1>11. Nested(m, 0, NULL, s)'
  BY <1>4, <1>8, ModuleStartsNested
<1> QED
  BY <1>1, <1>2, <1>4, <1>7, <1>8, <1>9, <1>10, <1>11, EnterKeepsScopes

LEMMA ImportKeepsScopes ==
  ASSUME IInv, IInv', ScopeInv, module_import_module
  PROVE  ScopeInv'
<1>1. mode = "native"
  BY DEF module_import_module, Running
<1>2. ASSUME NEW m \in Modules, ImportOf(m) PROVE ScopeInv'
  BY <1>1, <1>2, ReturnsKeepsScopes, ExecModuleKeepsScopes DEF ImportOf
<1>3. \/ Returns(JSUndefined)
      \/ Panic("Could not find module in bundle") \/ Panic("bundle overrun")
      \/ \E m \in Modules : ImportOf(m)
  <2> DEFINE hash == <<Arg(1).num, Arg(2).num>>
  <2>1. CASE \E m \in Modules : Hash[m] = hash
    <3> DEFINE m == CHOOSE m \in Modules : Hash[m] = hash
    <3>1. m \in Modules
      BY <2>1
    <3>2. Returns(JSUndefined) \/ ImportOf(m)
      BY <2>1 DEF module_import_module
    <3> QED
      BY <3>1, <3>2
  <2>2. CASE ~\E m \in Modules : Hash[m] = hash
    BY <2>2 DEF module_import_module
  <2> QED
    BY <2>1, <2>2
<1> QED
  BY <1>2, <1>3, ReturnsKeepsScopes, PanicKeepsScopes

\* A native function that calls back goes on where it was called.
LEMMA ApiCallKeepsScopes ==
  ASSUME IInv, IInv', ScopeInv, mode = "native", used'.scopes = used.scopes,
         NEW f \in FuncIds, NEW this \in Value, NEW args \in Seq(Value),
         NEW obj \in ObjIds \cup {NULL}, api_call_function(f, this, args, obj)
  PROVE  ScopeInv'
<1> DEFINE n == Len(args)
           pushed == [i \in Slots |->
                        IF i \in counter..(counter + n - 1) THEN args[n - (i - counter)]
                        ELSE IF i = counter + n THEN this
                        ELSE stack[i]]
<1>1. /\ TypeOK /\ ic \in Nat /\ stack \in [Slots -> Value] /\ n \in Nat
      /\ counter \in Nat /\ pending.n \in Nat /\ STACK_SIZE \in Nat
  BY NativeRegisters, PendingType DEF IInv, TypeOK
<1>2. CASE funcs[f].native # "script" \/ counter + n + 1 > STACK_SIZE
  <2>1. UNCHANGED <<scopes, funcs, module, ic, fn, scope, frames>> /\ mode' # "No parent scope to pop"
    BY <1>2 DEF api_call_function, EnterNative, registers, control
  <2> QED
    BY <2>1, HeapKeepsTree, StayKeepsScopes
<1>3. CASE funcs[f].native = "script" /\ ~(counter + n + 1 > STACK_SIZE)
  <2> DEFINE c == counter + n + 1
             fr == Saved(ic, c, pushed, pending.n, n, obj, NULL)
  <2>1. /\ vm_exec_function(f, c, pushed)
        /\ frames' = Append(frames, fr)
        /\ scopes' = scope_declare(funcs[f].scope, "this", this)
        /\ UNCHANGED funcs
    BY <1>3 DEF api_call_function
  <2>2. pushed \in [Slots -> Value]
    <3>1. \A i \in counter..(counter + n - 1) : n - (i - counter) \in 1..n
      BY <1>1
    <3>2. \A j \in 1..n : args[j] \in Value
      OBVIOUS
    <3> QED
      BY <1>1, <3>1, <3>2
  <2>3. c \in 0..STACK_SIZE
    BY <1>1, <1>3
  <2>4. SameTree
    <3>1. \A x \in ScopeIds : scopes'[x].parent = scopes[x].parent
      BY <2>1, ScopeTypes DEF scope_declare, ScopeRecord
    <3> QED
      BY <2>1, <3>1 DEF SameTree
  <2> HIDE DEF pushed, c
  <2>5. fr \in Frame
    BY <1>1, <2>2, <2>3, SavedIsFrame
  <2>6. fr.module = module /\ fr.fn = fn /\ fr.scope = scope /\ fr.ic = ic
    BY DEF Saved
  <2> HIDE DEF fr
  <2>7. Nested(module, fr.ic, fn, scope)
    BY <2>6 DEF ScopeInv, NestingOK
  <2> QED
    BY <1>3, <2>1, <2>4, <2>5, <2>6, <2>7, ExecFunctionKeepsScopes
<1> QED
  BY <1>2, <1>3

LEMMA CallingNativesKeepScopes ==
  ASSUME IInv, IInv', ScopeInv, instantiate \/ call
  PROVE  ScopeInv'
<1>1. mode = "native" /\ MemoryTypeOK /\ used \in [scopes : Nat, objs : Nat, funcs : Nat]
  BY DEF instantiate, call, Running, IInv, TypeOK, MemoryTypeOK
<1>2. CASE Returns(JSUndefined) \/ Panic("endless lookup")
  BY <1>2, ReturnsKeepsScopes, PanicKeepsScopes
<1>3. pending.args \in Seq(Value) /\ (argc # 0 => pending.args # <<>>) /\ argc \in Nat
  BY PendingType DEF argc
<1>4. argc # 0 => Tail(pending.args) \in Seq(Value) /\ Arg(1) \in Value
  BY <1>3, HeadTailProperties, PendingType
<1>5. CASE instantiate /\ ~Returns(JSUndefined) /\ ~Panic("endless lookup")
  <2>1. /\ argc # 0 /\ Arg(1).type = "function" /\ CanCreateObjects(1)
        /\ used' = [used EXCEPT !.objs = @ + 1]
        /\ api_call_function(Arg(1).num, JSObject(NewObject), Tail(pending.args), NewObject)
    BY <1>5 DEF instantiate
  <2>2. /\ NewObject \in ObjIds /\ JSObject(NewObject) \in Value
        /\ Arg(1).num \in FuncIds /\ used'.scopes = used.scopes
    BY <1>1, <1>4, <2>1, NewAddresses, ReferencesAreValues, ReferencedAddress
  <2> QED
    BY <1>1, <1>4, <2>1, <2>2, ApiCallKeepsScopes
<1>6. CASE call /\ ~Returns(JSUndefined)
  <2> DEFINE this == IF argc = 0 THEN JSUndefined ELSE Arg(1)
             args == IF argc = 0 THEN <<>> ELSE Tail(pending.args)
  <2>1. /\ pending.this.type = "function" /\ UNCHANGED used
        /\ api_call_function(pending.this.num, this, args, pending.obj)
    BY <1>6 DEF call
  <2>2. this \in Value /\ args \in Seq(Value) /\ pending.this.num \in FuncIds
    BY <1>4, <2>1, PendingType, ConstantValues, EmptySeq, ReferencedAddress
  <2> HIDE DEF this, args
  <2> QED
    BY <1>1, <2>1, <2>2, PendingType, ApiCallKeepsScopes
<1> QED
  BY <1>2, <1>5, <1>6

-----------------------------------------------------------------------------
(* The theorems about scopes.                                              *)

LEMMA InitScopes == Init => ScopeInv
<1> SUFFICES ASSUME Init PROVE ScopeInv
  OBVIOUS
<1>1. /\ entry \in Modules
      /\ scopes = Attached(CoreScopes, entry) /\ funcs = CoreFuncs
      /\ used = FirstFree /\ module = entry /\ ic = 0 /\ fn = NULL
      /\ scope = ModuleScope(entry) /\ frames = <<>> /\ mode = "run"
  BY ExecutionAssumption DEF Init, vm_init
<1>2. PICK s : s = ModuleScope(entry)
  OBVIOUS
<1>3. s \in ScopeIds /\ GlobalScope < s /\ s <= FirstFree.scopes
  BY <1>1, <1>2, ScopeNumbers
<1>4. \A x \in ScopeIds : scopes[x].parent = IF x = s THEN GlobalScope ELSE NULL
  BY <1>1, <1>2, <1>3 DEF Attached, CoreScopes
<1>5. IInv
  BY InitIInv
<1>6. used.scopes = FirstFree.scopes /\ FirstFree.scopes \in Nat
  BY <1>1, ScopeNumbers
<1>7. ScopeTreeOK
  <2>1. FirstFree.scopes <= used.scopes
    BY <1>6
  <2>2. ASSUME NEW x \in ScopeIds
        PROVE  scopes[x].parent < x /\ (x > used.scopes => scopes[x].parent = NULL)
    BY <1>3, <1>4, <1>6, ScopeNumbers
  <2>3. ASSUME NEW m \in Modules PROVE scopes[ModuleScope(m)].parent \in {NULL, GlobalScope}
    BY <1>4, ScopeNumbers
  <2>4. ASSUME NEW f \in FuncIds PROVE funcs[f].scope <= used.scopes
    <3>1. funcs[f].scope = GlobalScope
      BY <1>1 DEF CoreFuncs, NoScript
    <3>2. GlobalScope <= used.scopes
      BY <1>6, ScopeNumbers
    <3> QED
      BY <3>1, <3>2
  <2> QED
    BY <2>1, <2>2, <2>3, <2>4 DEF ScopeTreeOK
<1>8. BodiesOK
  BY <1>1 DEF BodiesOK, CoreFuncs, NoScript
<1>9. NestingOK
  <2>1. s \in Links /\ scopes \in [ScopeIds -> ScopeRecord]
    BY <1>3, <1>5, ScopeTypes DEF Links
  <2>2. Enclosing(s, 0) = s
    BY <2>1, ClimbSteps, EnclosingIsClimb
  <2>3. Home(entry, NULL) = s
    BY <1>2 DEF Home
  <2>4. Nesting[entry][0] <= 0
    BY <1>1, BalancedCode DEF Balanced
  <2>5. 0 \in 0..MaxScopes
    BY ScopeNumbers
  <2>6. Nested(entry, 0, NULL, s)
    BY <1>3, <1>6, <2>2, <2>3, <2>4, <2>5 DEF Nested
  <2> QED
    BY <1>1, <1>2, <2>6 DEF NestingOK
<1> QED
  BY <1>1, <1>7, <1>8, <1>9 DEF ScopeInv

LEMMA StutterKeepsScopes ==
  ASSUME IInv, IInv', ScopeInv, UNCHANGED vars
  PROVE  ScopeInv'
<1>1. UNCHANGED <<memory, module, ic, fn, scope, frames, mode>>
  BY DEF vars, registers, control
<1> QED
  BY <1>1, SameMemory, StayKeepsScopes DEF ScopeInv

LEMMA NextKeepsScopes == IInv /\ IInv' /\ ScopeInv /\ [Next]_vars => ScopeInv'
<1> SUFFICES ASSUME IInv, IInv', ScopeInv, [Next]_vars PROVE ScopeInv'
  OBVIOUS
<1>1. CASE Instructions(Inst)
  BY <1>1, LoadKeepsScopes, OperatorKeepsScopes, StackInstructionKeepsScopes,
     NameInstructionKeepsScopes, PushScopeKeepsScopes, PopScopeKeepsScopes,
     JumpKeepsScopes, ObjectInstructionKeepsScopes, FuncDeclKeepsScopes, CallKeepsScopes
  DEF Instructions, Load
<1>2. CASE Return \/ ModuleEnds \/ Exit
  BY <1>2, LeaveKeepsScopes
<1>3. CASE NativeReturns
  BY <1>3, ResultNativesKeepScopes, ImportKeepsScopes, CallingNativesKeepScopes
  DEF NativeReturns
<1>4. CASE Done \/ UNCHANGED vars
  BY <1>4, StutterKeepsScopes DEF Done
<1> QED
  BY <1>1, <1>2, <1>3, <1>4 DEF Next

\* Whatever bundle of Consistent and Balanced code runs, between the current
\* scope and that of the running body lie at least the scopes of the blocks it is
\* in, and the same holds of each call that waits. So POP_SCOPE never reaches its
\* PANIC("No parent scope to pop"). (PUSH_SCOPE, POP_SCOPE, FUNC_DECL, and the scope
\* that vm_exec_function and vm_exec_module set, save and restore.)
THEOREM ScopesStayOpen == Spec => []ScopeInv
<1>1. Init => ScopeInv
  BY InitScopes
<1>2. IInv /\ IInv' /\ ScopeInv /\ [Next]_vars => ScopeInv'
  BY NextKeepsScopes
<1> QED
  BY <1>1, <1>2, StackIsDisciplined, PTL DEF Spec

\* Names are always looked up from a scope of the body that runs: calls, returns
\* out of nested blocks, and imports never leave the machine in the scope of
\* another function or module. (vm->scope in the same handlers.)
THEOREM ScopesStayInside == Spec => []ScopeInsideFunction
<1>1. ScopeInv => ScopeInsideFunction
  BY DEF ScopeInv, NestingOK, Nested, ScopeInsideFunction, Within
<1> QED
  BY <1>1, ScopesStayOpen, PTL

=============================================================================
