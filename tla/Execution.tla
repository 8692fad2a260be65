----------------------------- MODULE Execution -----------------------------
(***************************************************************************)
(* The interpreter of core/execution.c: the registers of the VM, the       *)
(* instructions of vm->inst_set, and the calls that save the registers in  *)
(* a C stack frame and restore them. One action is one instruction, or one *)
(* turn of the loops in vm_exec_module and vm_exec_function.               *)
(*                                                                         *)
(* An instruction reads and writes the operand stack through a counter     *)
(* that is never compared with stack_start: it can reach the operands of   *)
(* the caller.                                                             *)
(***************************************************************************)
EXTENDS Runtime

CONSTANTS STACK_SIZE,
          Entries   \* the modules a bundle may name as its entry point

ASSUME ExecutionAssumption ==
  /\ STACK_SIZE \in Nat \ {0}
  /\ Entries \subseteq Modules

Slots == 0..(STACK_SIZE - 1)

VARIABLES
  \* struct VM and VMStats
  module, ic, counter, start, stack, scope,
  fn,           \* the function vm_exec_function runs, NULL in a module body
  frames,       \* the C stack: registers saved by calls that have not returned
  pending,      \* the native function that runs, its arguments, and its caller
  initialized,  \* module->initialized
  output,       \* what print has printed
  entry,        \* the module main executes
  executions,   \* how often each module body was entered (history)
  mode          \* "run", "native", "exit", or how the process died

registers == <<module, ic, counter, start, stack, scope, fn>>
control == <<frames, pending, initialized, output, entry, executions>>
vars == <<memory, registers, control, mode>>

Faults ==
  {"Stack underflow", "Stack overflow", "Unsupported operation", "trap",
   "Could not update local", "Symbol not found", "Callee is not a function",
   "Target is not a object", "No parent scope to pop",
   "Could not find module in bundle",
   \* undefined behaviour: the stack array or the module array is left, or NULL is
   \* dereferenced; and the process that goes round a cycle of prototypes, in which
   \* nothing the model keeps changes any more ("endless lookup")
   "stack overrun", "stack underrun", "bundle overrun", "endless lookup",
   "null instruction"}

Frame ==
  [module : Modules, ic : Nat, counter : 0..STACK_SIZE, start : Nat,
   stack : [Slots -> Value], scope : ScopeIds, fn : FuncIds \cup {NULL},
   n : Nat,                       \* operand of the CALL that waits
   argc : Nat,                    \* what api_call_function will take off
   obj : ObjIds \cup {NULL},      \* the object of instantiate
   import : Modules \cup {NULL}]  \* the module importModule executes

Pending ==
  [fn : FuncIds, this : Value, args : Seq(Value), n : Nat,
   obj : ObjIds \cup {NULL}]

NoCall ==
  [fn |-> 1, this |-> JSUndefined, args |-> <<>>, n |-> 0, obj |-> NULL]

TypeOK ==
  /\ MemoryTypeOK
  /\ module \in Modules
  /\ ic \in Nat
  /\ counter \in 0..STACK_SIZE
  /\ start \in Nat
  /\ stack \in [Slots -> Value]
  /\ scope \in ScopeIds
  /\ fn \in FuncIds \cup {NULL}
  /\ frames \in Seq(Frame)
  /\ pending \in Pending
  /\ mode \in {"run", "native", "exit"} \cup Faults

-----------------------------------------------------------------------------
(* vm_init, and vm_exec_module for the module main hands it. The stack is  *)
(* not initialised by the code; no slot is read before it is written.      *)

\* vm_exec_module puts the scope of a module below the global scope.
Attached(all, m) == [all EXCEPT ![ModuleScope(m)].parent = GlobalScope]

vm_init ==
  /\ entry \in Entries
  /\ scopes = Attached(CoreScopes, entry)
  /\ heap = CoreHeap
  /\ funcs = CoreFuncs
  /\ used = FirstFree
  /\ module = entry
  /\ ic = 0 /\ counter = 0 /\ start = 0 /\ fn = NULL
  /\ stack = [i \in Slots |-> JSUndefined]
  /\ scope = ModuleScope(module)
  /\ frames = <<>>
  /\ pending = NoCall
  /\ initialized = {}
  /\ output = <<>>
  /\ executions = [m \in Modules |-> IF m = entry THEN 1 ELSE 0]
  /\ mode = "run"

-----------------------------------------------------------------------------
(* One instruction.                                                        *)

\* Where the loop of the running function or module ends.
EndOf(m, f) == IF f = NULL THEN Len(Code[m]) ELSE funcs[f].last
AtEnd ==
  \/ ic >= EndOf(module, fn)
  \/ fn # NULL /\ Code[module][ic + 1].op = "RETURN"

\* The instruction vm_exec hands to the function in vm->inst_set.
NoInst == [op |-> "end", n |-> 0, m |-> 0, k |-> "this"]
Inst == IF AtEnd THEN NoInst ELSE Code[module][ic + 1]
Executing(inst, ops) == mode = "run" /\ inst.op \in ops

Top(i) == stack[counter - i]
Panic(fault) == mode' = fault /\ UNCHANGED <<memory, registers, control>>

\* The instruction leaves c operands on stack s; execution goes on at i.
GoTo(i, c, s) ==
  /\ ic' = i
  /\ counter' = c
  /\ stack' = s
  /\ UNCHANGED <<module, start, fn, control, mode>>
Advance(c, s) == GoTo(ic + 1, c, s) /\ UNCHANGED scope
Drop(n) == Advance(counter - n, stack)
Replace(n, v) == Advance(counter - n + 1, [stack EXCEPT ![counter - n] = v])
\* Mutant: no look at the size of the stack.
PushUnchecked(v) == Replace(0, v) /\ UNCHANGED memory
Push(v) ==
  IF counter >= STACK_SIZE THEN Panic("Stack overflow")
                           ELSE Replace(0, v) /\ UNCHANGED memory
Needs(n, Action) == IF counter < n THEN Panic("Stack underflow") ELSE Action

\* vm_exec does nothing for a NOP, which the loader turns into a NULL, or for a
\* RETURN of a module body; the loop of vm_exec_function looks at the opcode first.
inst_nop(inst) ==
  /\ Executing(inst, {"NOP", "RETURN"})
  /\ IF inst.op = "NOP" /\ fn # NULL THEN Panic("null instruction")
                                     ELSE Drop(0) /\ UNCHANGED memory

inst_ld_int(inst) == Executing(inst, {"LD_INT"}) /\ Push(JSInt(inst.n))
inst_ld_double(inst) == Executing(inst, {"LD_DOUBLE"}) /\ Push(JSDouble(inst.n, inst.m))
inst_ld_string(inst) == Executing(inst, {"LD_STRING"}) /\ Push(JSString(inst.n))
inst_ld_undf(inst) == Executing(inst, {"LD_UNDF"}) /\ Push(JSUndefined)
inst_ld_null(inst) == Executing(inst, {"LD_NULL"}) /\ Push(JSNull)
inst_ld_boolean(inst) ==
  Executing(inst, {"LD_TRUE", "LD_FALSE"}) /\ Push(JSBool(inst.op = "LD_TRUE"))
inst_ld_this(inst) == Executing(inst, {"LD_THIS"}) /\ Push(scope_get(scope, "this"))

inst_binary(inst) ==
  /\ Executing(inst, BinaryOpcodes)
  /\ Needs(2,
       LET out == Binary(inst.op, Top(2), Top(1))
       IN  CASE out.effect = "pop" -> Replace(2, out.value) /\ UNCHANGED memory
             [] out.effect = "keep" -> Replace(1, out.value) /\ UNCHANGED memory
             [] out.effect = "panic" -> Panic("Unsupported operation")
             [] out.effect = "trap" -> Panic("trap"))

inst_unary(inst) ==
  /\ Executing(inst, UnaryOpcodes)
  /\ Needs(1,
       LET out == Unary(inst.op, Top(1))
       IN  CASE out.effect = "pop" -> Replace(1, out.value) /\ UNCHANGED memory
             [] out.effect = "panic" -> Panic("Unsupported operation")
             [] out.effect = "trap" -> Panic("trap"))

inst_pop(inst) == Executing(inst, {"POP"}) /\ Needs(1, Drop(1) /\ UNCHANGED memory)
inst_dup(inst) == Executing(inst, {"DUP"}) /\ Needs(1, Push(Top(1)))
inst_swap(inst) ==
  /\ Executing(inst, {"SWAP"})
  /\ Needs(2, /\ Advance(counter, [stack EXCEPT ![counter - 1] = Top(2),
                                                ![counter - 2] = Top(1)])
              /\ UNCHANGED memory)

-----------------------------------------------------------------------------
(* Scopes and names.                                                       *)

inst_alloc_local(inst) ==
  /\ Executing(inst, {"ALLOC_LOCAL"})
  /\ Needs(1, /\ Drop(1)
              /\ scopes' = scope_declare(scope, inst.k, Top(1))
              /\ UNCHANGED <<heap, funcs, used>>)

inst_store_local(inst) ==
  /\ Executing(inst, {"STORE_LOCAL"})
  /\ Needs(1,
       IF scope_contains(scope, inst.k)
       THEN /\ Drop(1)
            /\ scopes' = scope_set(scope, inst.k, Top(1))
            /\ UNCHANGED <<heap, funcs, used>>
       ELSE Panic("Could not update local"))

inst_load_local(inst) ==
  /\ Executing(inst, {"LOAD_LOCAL"})
  /\ IF counter < STACK_SIZE /\ ~scope_contains(scope, inst.k)
     THEN Panic("Symbol not found")
     ELSE Push(scope_get(scope, inst.k))

\* Argument n lies n + 1 slots below stack_start, whatever was put there.
inst_load_arg(inst) ==
  /\ Executing(inst, {"LOAD_ARG"})
  /\ IF counter >= STACK_SIZE
     THEN Panic("stack overrun")
     ELSE /\ Replace(0, IF start <= inst.n THEN JSUndefined
                                           ELSE stack[start - inst.n - 1])
          /\ UNCHANGED memory

inst_push_scope(inst) ==
  /\ Executing(inst, {"PUSH_SCOPE"})
  /\ CanCreateScope
  /\ scopes' = scope_create_scope(scope)
  /\ used' = [used EXCEPT !.scopes = @ + 1]
  /\ GoTo(ic + 1, counter, stack)
  /\ scope' = NewScope
  /\ UNCHANGED <<heap, funcs>>

inst_pop_scope(inst) ==
  /\ Executing(inst, {"POP_SCOPE"})
  /\ IF scopes[scope].parent = NULL
     THEN Panic("No parent scope to pop")
     ELSE /\ GoTo(ic + 1, counter, stack)
          /\ scope' = scopes[scope].parent
          /\ UNCHANGED memory

-----------------------------------------------------------------------------
(* Jumps. The conditional ones do not look at the counter first.           *)

inst_jmp(inst) ==
  Executing(inst, {"JMP"}) /\ GoTo(inst.n, counter, stack) /\ UNCHANGED <<scope, memory>>

ConditionalJump(inst, op, Jumps(_)) ==
  /\ Executing(inst, {op})
  /\ IF counter = 0
     THEN Panic("stack underrun")
     ELSE /\ GoTo(IF Jumps(Top(1)) THEN inst.n ELSE ic + 1, counter - 1, stack)
          /\ UNCHANGED <<scope, memory>>

value_is_truthy(v) == ~value_is_falsy(v)
inst_jmp_f(inst) == ConditionalJump(inst, "JMP_F", value_is_falsy)
inst_jmp_t(inst) == ConditionalJump(inst, "JMP_T", value_is_truthy)

-----------------------------------------------------------------------------
(* Objects.                                                                *)

ObjectPushed(proto) ==
  IF counter >= STACK_SIZE
  THEN Panic("Stack overflow")
  ELSE /\ CanCreateObjects(1)
       /\ heap' = object_create_object(proto)
       /\ used' = [used EXCEPT !.objs = @ + 1]
       /\ Replace(0, JSObject(NewObject))
       /\ UNCHANGED <<scopes, funcs>>

inst_arr_alloc(inst) == Executing(inst, {"ARR_ALLOC"}) /\ ObjectPushed(ArrayPrototype)
inst_obj_alloc(inst) == Executing(inst, {"OBJ_ALLOC"}) /\ ObjectPushed(ObjectPrototype)

\* Takes n operands off and sets a property of target.
Stored(n, target, key, v) ==
  IF HasProperties(target)
  THEN /\ Drop(n)
       /\ heap' = object_set_property(ObjectOf(target), key, v)
       /\ UNCHANGED <<scopes, funcs, used>>
  ELSE Panic("Target is not a object")

\* Replaces n operands by a property of target.
Loaded(n, target, key) ==
  IF HasProperties(target)
  THEN IF LookupEnds(ObjectOf(target), key)
       THEN /\ Replace(n, object_get_property(ObjectOf(target), key))
            /\ UNCHANGED memory
       ELSE Panic("endless lookup")
  ELSE Panic("Target is not a object")

inst_obj_store(inst) ==
  Executing(inst, {"OBJ_STORE"}) /\ Needs(2, Stored(2, Top(2), inst.k, Top(1)))
inst_obj_load(inst) ==
  Executing(inst, {"OBJ_LOAD"}) /\ Needs(1, Loaded(1, Top(1), inst.k))
inst_obj_cload(inst) ==
  Executing(inst, {"OBJ_CLOAD"}) /\ Needs(2, Loaded(2, Top(2), KeyOf(Top(1))))
inst_obj_cstore(inst) ==
  /\ Executing(inst, {"OBJ_CSTORE"})
  /\ Needs(3, Stored(3, Top(2), KeyOf(Top(1)), Top(3)))

inst_export(inst) ==
  /\ Executing(inst, {"EXPORT"})
  /\ Needs(1, /\ Drop(1)
              /\ heap' = object_set_property(Exports(module), inst.k, Top(1))
              /\ UNCHANGED <<scopes, funcs, used>>)

=============================================================================
