--------------------------------- MODULE VM ---------------------------------
(***************************************************************************)
(* The whole machine: the instructions that call (execution.c), the entry  *)
(* points that natives use to call back (core/api.c), and the native       *)
(* functions of the core module (modules/core/core.c).                     *)
(*                                                                         *)
(* vm_exec_function and vm_exec_module save module, scope and all of       *)
(* VMStats, the stack array included, in a local variable and restore them *)
(* at the end: that is what a frame holds.                                 *)
(***************************************************************************)
EXTENDS Execution

CONSTANT Hash   \* Hash[m]: the high and the low 32 bits of the hash of module m

ASSUME HashAssumption == Hash \in [Modules -> Int \X Int]

-----------------------------------------------------------------------------
(* FUNC_DECL and FUNC_DECL_E.                                              *)

DeclaredIn(s, symbols) ==
  [scopes EXCEPT ![NewScope] = [parent |-> s, vars |-> EmptyDict],
                 ![s].vars = symbols]

inst_func_decl(inst) ==
  /\ Executing(inst, {"FUNC_DECL", "FUNC_DECL_E"})
  /\ IF counter >= STACK_SIZE
     THEN Panic("Stack overflow")
     ELSE LET size == BodySize(inst)
              f == JSFunc(NewFunction)
          IN  /\ CanCreateFunction
              /\ funcs' = [funcs EXCEPT
                             ![NewFunction] = NewScript(module, ic + 1, ic + 1 + size)]
              /\ heap' = FunctionHeap
              /\ scopes' = DeclaredIn(scope,
                             IF inst.op = "FUNC_DECL"
                             THEN Set(scopes[scope].vars, inst.k, f)
                             ELSE scopes[scope].vars)
              /\ used' = [scopes |-> used.scopes + 1, objs |-> used.objs + 2,
                          funcs |-> used.funcs + 1]
              /\ GoTo(ic + 1 + size, counter + 1, [stack EXCEPT ![counter] = f])
              /\ UNCHANGED scope

-----------------------------------------------------------------------------
(* Entering and leaving functions and modules.                             *)

\* Mutant: the counter is saved after this was taken off.
SavedLow(i, c, s, n, argc, obj, import) ==
  [module |-> module, ic |-> i, counter |-> c - 1, start |-> start, stack |-> s,
   scope |-> scope, fn |-> fn, n |-> n, argc |-> argc, obj |-> obj,
   import |-> import]

Saved(i, c, s, n, argc, obj, import) ==
  [module |-> module, ic |-> i, counter |-> c, start |-> start, stack |-> s,
   scope |-> scope, fn |-> fn, n |-> n, argc |-> argc, obj |-> obj,
   import |-> import]

\* Mutant: this is taken off with the callee.
ExecDropsThis(f, c, s) ==
  /\ module' = funcs[f].module
  /\ ic' = funcs[f].first
  /\ counter' = c - 1
  /\ start' = c
  /\ stack' = s
  /\ scope' = funcs[f].scope
  /\ fn' = f
  /\ mode' = "run"

\* Mutant: the callee runs in the scope of its caller.
ExecInCallersScope(f, c, s) ==
  /\ module' = funcs[f].module
  /\ ic' = funcs[f].first
  /\ counter' = c
  /\ start' = c
  /\ stack' = s
  /\ fn' = f
  /\ mode' = "run"
  /\ UNCHANGED scope

\* vm_exec_function: f starts above the operands on the stack s, in the one
\* scope that belongs to f.
vm_exec_function(f, c, s) ==
  /\ module' = funcs[f].module
  /\ ic' = funcs[f].first
  /\ counter' = c
  /\ start' = c
  /\ stack' = s
  /\ scope' = funcs[f].scope
  /\ fn' = f
  /\ mode' = "run"

\* A native function is called; n is the operand of the CALL instruction.
EnterNative(f, this, args, n, obj) ==
  /\ pending' = [fn |-> f, this |-> this, args |-> args, n |-> n, obj |-> obj]
  /\ mode' = "native"

\* The n + 1 values below the callee: this, then the arguments.
Argument(i) == stack[counter - 2 - i]
Arguments(n) == [i \in 1..n |-> Argument(i)]

inst_call(inst) ==
  /\ Executing(inst, {"CALL"})
  /\ Needs(1,
       LET f == Top(1).num
           n == inst.n
       IN  IF Top(1).type # "function"
           THEN Panic("Callee is not a function")
           ELSE IF funcs[f].native = "script"
           THEN IF counter < 2
                THEN Panic("stack underrun")
                ELSE /\ vm_exec_function(f, counter - 1, stack)
                     /\ frames' = Append(frames,
                          Saved(ic + 1, counter - 1, stack, n, 0, NULL, NULL))
                     /\ scopes' = scope_declare(funcs[f].scope, "this", Argument(0))
                     /\ UNCHANGED <<heap, funcs, used, pending, initialized,
                                    output, entry, executions>>
           ELSE IF counter < n + 2
                THEN Panic("stack underrun")
                ELSE /\ EnterNative(f, Argument(0), Arguments(n), n, NULL)
                     /\ ic' = ic + 1
                     /\ counter' = counter - 1
                     /\ UNCHANGED <<memory, module, start, stack, scope, fn, frames,
                                    initialized, output, entry, executions>>)

Caller == frames[Len(frames)]

\* A constructor that returns no object yields the object instantiate made.
Constructed(v, obj) ==
  IF obj # NULL /\ v.type # "object" THEN JSObject(obj) ELSE v

\* The end of inst_call: n arguments and this are replaced by the result.
ReturnTo(fr, v) ==
  LET c == fr.counter - fr.argc
  IN  IF c < fr.n + 1
      THEN Panic("stack underrun")
      ELSE /\ module' = fr.module
           /\ ic' = fr.ic
           /\ counter' = c - fr.n
           /\ start' = fr.start
           /\ stack' = [fr.stack EXCEPT ![c - fr.n - 1] = Constructed(v, fr.obj)]
           /\ scope' = fr.scope
           /\ fn' = fr.fn
           /\ frames' = SubSeq(frames, 1, Len(frames) - 1)
           /\ mode' = "run"
           /\ UNCHANGED <<memory, pending, initialized, output, entry, executions>>

\* vm_exec_function: the value of the call is what lies on top of the stack.
Return ==
  /\ mode = "run"
  /\ fn # NULL
  /\ AtEnd
  /\ ReturnTo(Caller, IF counter > start THEN Top(1) ELSE JSUndefined)

\* vm_exec_module returns to importModule ...
ModuleEnds ==
  /\ mode = "run"
  /\ fn = NULL
  /\ AtEnd
  /\ frames # <<>>
  /\ ReturnTo(Caller, JSObject(Exports(Caller.import)))

\* ... or to main.
Exit ==
  /\ mode = "run"
  /\ fn = NULL
  /\ AtEnd
  /\ frames = <<>>
  /\ mode' = "exit"
  /\ UNCHANGED <<memory, registers, control>>

-----------------------------------------------------------------------------
(* Native functions. The registers are those of the caller; the arguments  *)
(* stay on the stack until the native returns.                             *)

Running(name) == mode = "native" /\ funcs[pending.fn].native = name

argc == Len(pending.args)
Arg(i) == pending.args[i]

\* Mutant: the counter does not count the result.
ResultUncounted(v) ==
  /\ counter' = counter - pending.n - 1
  /\ stack' = [stack EXCEPT
                 ![counter - pending.n - 1] = Constructed(v, pending.obj)]
  /\ mode' = "run"
  /\ UNCHANGED <<module, ic, start, scope, fn, frames, pending, initialized,
                 entry, executions>>

\* The native returns v to inst_call.
Result(v) ==
  /\ counter' = counter - pending.n
  /\ stack' = [stack EXCEPT
                 ![counter - pending.n - 1] = Constructed(v, pending.obj)]
  /\ mode' = "run"
  /\ UNCHANGED <<module, ic, start, scope, fn, frames, pending, initialized,
                 entry, executions>>

Returns(v) == Result(v) /\ UNCHANGED <<memory, output>>

\* What of a value print shows.
Printed(v) ==
  IF v.type \in {"object", "function", "symbol"} THEN Tagged(v.type, 0) ELSE v

print ==
  /\ Running("print")
  /\ Result(JSUndefined)
  /\ output' = output \o (IF argc = 0 THEN <<OtherText>>
                          ELSE [i \in 1..argc |-> Printed(Arg(i))])
  /\ UNCHANGED memory

module_get_export_obj ==
  Running("getExportObj") /\ Returns(JSObject(Exports(module)))

\* vm_exec_module: a module body starts with an empty stack.
vm_exec_module(m) ==
  /\ scopes' = Attached(scopes, m)
  /\ module' = m
  /\ ic' = 0
  /\ counter' = 0
  /\ start' = 0
  /\ scope' = ModuleScope(m)
  /\ fn' = NULL
  /\ frames' = Append(frames, Saved(ic, counter, stack, pending.n, 0, pending.obj, m))
  /\ executions' = [executions EXCEPT ![m] = @ + 1]
  /\ mode' = "run"
  /\ UNCHANGED <<heap, funcs, used, stack, pending, output, entry>>

\* Mutant: module->initialized is never set.
ImportOfUnmarked(m) ==
  IF m \in initialized
  THEN Returns(JSObject(Exports(m)))
  ELSE vm_exec_module(m) /\ UNCHANGED initialized

\* Mutant: the importer is marked.
ImportOfMarksImporter(m) ==
  IF m \in initialized
  THEN Returns(JSObject(Exports(m)))
  ELSE vm_exec_module(m) /\ initialized' = initialized \cup {module}

\* module->initialized is set before the body runs, so that an import of a
\* module that is still executing returns its exports as they are.
ImportOf(m) ==
  IF m \in initialized
  THEN Returns(JSObject(Exports(m)))
  ELSE vm_exec_module(m) /\ initialized' = initialized \cup {m}

\* The loaded modules are sorted by hash, so that bundle_get_module finds one
\* that is there (Lookup); the search for another panics or leaves the array.
module_import_module ==
  /\ Running("importModule")
  /\ IF argc < 2 \/ \E i \in {1, 2} : Arg(i).type # "integer"
     THEN Returns(JSUndefined)
     ELSE LET hash == <<Arg(1).num, Arg(2).num>>
          IN  IF \E m \in Modules : Hash[m] = hash
              THEN ImportOf(CHOOSE m \in Modules : Hash[m] = hash)
              ELSE \E fault \in {"Could not find module in bundle", "bundle overrun"} :
                     Panic(fault)

object == Running("object") /\ Returns(JSUndefined)
function == Running("function") /\ Returns(JSUndefined)

\* api_call_function: the arguments and this are pushed without a look at the
\* size of the stack; when the call is over only the arguments are taken off.
api_call_function(f, this, args, obj) ==
  LET n == Len(args)
      pushed == [i \in Slots |->
                   IF i \in counter..(counter + n - 1) THEN args[n - (i - counter)]
                   ELSE IF i = counter + n THEN this
                   ELSE stack[i]]
  IN  IF funcs[f].native # "script"
      THEN /\ EnterNative(f, this, args, pending.n, obj)
           /\ UNCHANGED <<registers, scopes, funcs, frames, initialized, output,
                          entry, executions>>
      ELSE IF counter + n + 1 > STACK_SIZE
      THEN /\ mode' = "stack overrun"
           /\ UNCHANGED <<registers, control, scopes, funcs>>
      ELSE /\ vm_exec_function(f, counter + n + 1, pushed)
           /\ frames' = Append(frames,
                Saved(ic, counter + n + 1, pushed, pending.n, n, obj, NULL))
           /\ scopes' = scope_declare(funcs[f].scope, "this", this)
           /\ UNCHANGED <<funcs, pending, initialized, output, entry, executions>>

\* Object.instantiate(constructor, ...args), which is also `new`.
instantiate ==
  /\ Running("instantiate")
  /\ IF argc = 0 \/ Arg(1).type # "function"
     THEN Returns(JSUndefined)
     ELSE LET base == funcs[Arg(1).num].base
              proto == object_get_property(base, "prototype")
          IN  IF ~LookupEnds(base, "prototype")
              THEN Panic("endless lookup")
              ELSE IF proto.type # "object"
              THEN Returns(JSUndefined)
              ELSE /\ CanCreateObjects(1)
                   /\ heap' = object_create_object(proto.num)
                   /\ used' = [used EXCEPT !.objs = @ + 1]
                   /\ api_call_function(Arg(1).num, JSObject(NewObject),
                                        Tail(pending.args), NewObject)

\* f.call(this, ...args)
call ==
  /\ Running("call")
  /\ IF pending.this.type # "function"
     THEN Returns(JSUndefined)
     ELSE /\ api_call_function(pending.this.num,
                               IF argc = 0 THEN JSUndefined ELSE Arg(1),
                               IF argc = 0 THEN <<>> ELSE Tail(pending.args),
                               pending.obj)
          /\ UNCHANGED <<heap, used>>

\* The natives that allocate one object and return a value for it.
Allocates(o, v) ==
  /\ CanCreateObjects(1)
  /\ heap' = [heap EXCEPT ![NewObject] = o]
  /\ used' = [used EXCEPT !.objs = @ + 1]
  /\ Result(v)
  /\ UNCHANGED <<scopes, funcs, output>>

create ==
  /\ Running("create")
  /\ Allocates([proto |-> IF argc > 0 /\ Arg(1).type = "object" THEN Arg(1).num
                                                                ELSE ObjectPrototype,
                props |-> EmptyDict],
               JSObject(NewObject))

setPrototypeOf ==
  /\ Running("setPrototypeOf")
  /\ Result(JSUndefined)
  /\ heap' = IF argc >= 2 /\ HasProperties(Arg(1)) /\ HasProperties(Arg(2))
             THEN [heap EXCEPT ![ObjectOf(Arg(1))].proto = ObjectOf(Arg(2))]
             ELSE heap
  /\ UNCHANGED <<scopes, funcs, used, output>>

Elements(length, elements) ==
  [proto |-> ArrayPrototype,
   props |-> [k \in Names |->
                IF \E i \in 1..length : KeyOf(JSInt(i - 1)) = k
                THEN elements[CHOOSE i \in 1..length : KeyOf(JSInt(i - 1)) = k]
                ELSE IF k = "length" THEN JSInt(length) ELSE Absent]]

\* Array(length) or Array(...elements). A negative length is kept as it is.
array ==
  /\ Running("array")
  /\ IF argc = 1 /\ Arg(1).type = "double"
     THEN Returns(JSUndefined)
     ELSE IF argc = 1 /\ Arg(1).type = "integer"
     THEN Allocates(Elements(Arg(1).num, [i \in 1..Arg(1).num |-> JSUndefined]),
                    JSObject(NewObject))
     ELSE Allocates(Elements(argc, pending.args), JSObject(NewObject))

is_array ==
  /\ Running("isArray")
  /\ IF argc > 0 /\ Arg(1).type = "object" /\ ~ArrayWalkEnds(Arg(1).num)
     THEN Panic("endless lookup")
     ELSE Returns(JSBool(argc > 0 /\ value_is_array(Arg(1))))

symbol ==
  /\ Running("symbol")
  /\ Allocates([proto |-> SymbolPrototype,
                props |-> IF argc = 0 THEN EmptyDict
                          ELSE Set(EmptyDict, "description",
                                   IF Arg(1).type = "string" THEN Arg(1) ELSE OtherText)],
               Tagged("symbol", NewObject))

-----------------------------------------------------------------------------

Init == vm_init

\* main returned, the process died, or it is in an endless lookup.
Done == mode \notin {"run", "native"} /\ UNCHANGED vars

Instructions(inst) ==
  \/ inst_nop(inst) \/ inst_ld_int(inst) \/ inst_ld_double(inst)
  \/ inst_ld_string(inst) \/ inst_ld_undf(inst) \/ inst_ld_null(inst)
  \/ inst_ld_boolean(inst) \/ inst_ld_this(inst) \/ inst_binary(inst)
  \/ inst_unary(inst) \/ inst_pop(inst) \/ inst_dup(inst) \/ inst_swap(inst)
  \/ inst_alloc_local(inst) \/ inst_store_local(inst)
  \/ inst_load_local(inst) \/ inst_load_arg(inst) \/ inst_push_scope(inst)
  \/ inst_pop_scope(inst) \/ inst_jmp(inst) \/ inst_jmp_f(inst)
  \/ inst_jmp_t(inst) \/ inst_arr_alloc(inst) \/ inst_obj_alloc(inst)
  \/ inst_obj_store(inst) \/ inst_obj_load(inst) \/ inst_obj_cload(inst)
  \/ inst_obj_cstore(inst) \/ inst_export(inst) \/ inst_func_decl(inst)
  \/ inst_call(inst)

NativeReturns ==
  \/ print \/ module_get_export_obj \/ module_import_module \/ object
  \/ instantiate \/ create \/ setPrototypeOf \/ array \/ is_array
  \/ function \/ call \/ symbol

Next == Instructions(Inst) \/ Return \/ ModuleEnds \/ Exit \/ NativeReturns \/ Done

Spec == Init /\ [][Next]_vars
FairSpec == Spec /\ WF_vars(Next)

=============================================================================
