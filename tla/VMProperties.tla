---------------------------- MODULE VMProperties ----------------------------
(***************************************************************************)
(* What the machine owes the programs it runs, beyond NoUnderflow.         *)
(***************************************************************************)
EXTENDS StackDiscipline

CONSTANTS
  Expected,  \* Expected[e]: what node prints for the program with entry e
  Nesting    \* Nesting[m] annotates Code[m] with the scopes that are open

ASSUME ExpectedAssumption == DOMAIN Expected \subseteq Modules

ASSUME BalancedCode ==
  \A m \in Modules : Balanced(Code[m], Limit[m], Nesting[m])

\* Frame i waits for a function (FALSE: for a module body, which starts on an
\* empty stack).
Calls(i) == frames[i].import = NULL
StartAbove(i) == IF i = Len(frames) THEN start ELSE frames[i + 1].start

\* The activations of functions are stacked without overlap or gap: each one
\* starts where the operands of its caller end, and the caller keeps at least
\* the slot of this below. So the stack array bounds the depth of recursion.
\* (stack_start = stack_counter in vm_exec_function, and the registers that
\* inst_call, api_call_function and vm_exec_function save and restore.)
CallsNest ==
  \A i \in DOMAIN frames :
    /\ frames[i].start < frames[i].counter
    /\ StartAbove(i) = IF Calls(i) THEN frames[i].counter ELSE 0

\* The array the activation above frame i sees.
StackAbove(i) == IF i = Len(frames) THEN stack ELSE frames[i + 1].stack

\* A function never changes the operands of its callers, the innermost or any
\* that waits: what lies below the start of an activation is what the call left
\* there. (Every handler in execution.c that writes through stack_counter, which
\* none compares with stack_start.)
CallerOperandsIntact ==
  \A i \in DOMAIN frames : \A slot \in 0..(StartAbove(i) - 1) :
    StackAbove(i)[slot] = frames[i].stack[slot]

\* The scope of an activation, and the scopes below a scope.
Home(m, f) == IF f = NULL THEN ModuleScope(m) ELSE funcs[f].scope
Within(s, home) == \E k \in 0..MaxScopes : Enclosing(s, k) = home

\* The current scope is the scope of the running function or module, or was
\* pushed below it: calls, returns out of nested blocks, and imports never
\* leave the machine in somebody else's scope. (vm->scope in PUSH_SCOPE,
\* POP_SCOPE, vm_exec_function and vm_exec_module.)
ScopeInsideFunction ==
  /\ Within(scope, Home(module, fn))
  /\ \A i \in DOMAIN frames :
       Within(frames[i].scope, Home(frames[i].module, frames[i].fn))

\* A scope is created after the one around it, and belongs to nothing before;
\* that of a module is put below the global scope when the module is executed.
ScopeTreeOK ==
  /\ FirstFree.scopes <= used.scopes
  /\ \A s \in ScopeIds :
       /\ scopes[s].parent < s
       /\ s > used.scopes => scopes[s].parent = NULL
  /\ \A m \in Modules : scopes[ModuleScope(m)].parent \in {NULL, GlobalScope}
  /\ \A f \in FuncIds : funcs[f].scope <= used.scopes

\* The body of a function starts with no block open.
BodiesOK ==
  \A f \in FuncIds :
    funcs[f].native = "script" /\ funcs[f].first < funcs[f].last =>
      Nesting[funcs[f].module][funcs[f].first] = 0

\* Code of module m that goes on at i, in function f and scope s, has left open
\* as many scopes as the compiler counts on.
Nested(m, i, f, s) ==
  /\ s <= used.scopes
  /\ \E k \in 0..MaxScopes :
       /\ Enclosing(s, k) = Home(m, f)
       /\ i < EndOf(m, f) => Nesting[m][i] <= k

NestingOK ==
  /\ Nested(module, ic, fn, scope)
  /\ \A i \in DOMAIN frames :
       Nested(frames[i].module, frames[i].ic, frames[i].fn, frames[i].scope)

\* Between the current scope and that of the running body lie the scopes of the
\* blocks it is in, for the running body and for each call that waits, so that
\* POP_SCOPE always finds a scope to return to: the inductive invariant behind
\* ScopeInsideFunction. (PUSH_SCOPE and POP_SCOPE in execution.c, which count
\* nothing, and the scope that vm_exec_function and vm_exec_module restore.)
ScopeInv ==
  /\ ScopeTreeOK
  /\ BodiesOK
  /\ NestingOK
  /\ mode # "No parent scope to pop"

\* The body of a module runs once when it is imported, however many imports and
\* import cycles lead to it. The entry module, which main executes without marking
\* it initialized, runs a second time when a cycle imports it, and not more.
\* (module_import_module, and main in debug/main.c.)
ImportOnce ==
  \A m \in Modules :
    executions[m] = (IF m = entry THEN 1 ELSE 0) + (IF m \in initialized THEN 1 ELSE 0)

\* The activities of ModuleSystem, read off the C stack: main executes the
\* entry module, and each saved frame waits for a function or a module body.
Activities ==
  IF mode \in {"run", "native"}
  THEN <<entry>> \o [i \in DOMAIN frames |-> frames[i].import]
  ELSE <<>>

System == INSTANCE ModuleSystem WITH running <- Activities, imported <- initialized

\* The machine implements ModuleSystem: every step begins or ends at most one
\* activity, the innermost; a body begins only where its module was not
\* imported before, and is recorded as imported in the same step; an import of
\* a recorded module, be it in a cycle, begins nothing. (module_import_module,
\* vm_exec_module, vm_exec_function and the registers they save and restore.)
ImplementsModuleSystem == System!Spec

\* A program prints, line by line, what node prints for it, and exits: the
\* comparison of tests/suite.js, made after every step.
OutputMatches ==
  entry \in DOMAIN Expected =>
    /\ mode \notin Faults
    /\ Len(output) <= Len(Expected[entry])
    /\ \A i \in DOMAIN output : output[i] = Expected[entry][i]
    /\ mode = "exit" => Len(output) = Len(Expected[entry])

\* An object is on a cycle of prototypes (that of Object is its own).
CyclicPrototypes ==
  \E o \in ObjIds \ {ObjectPrototype} : \E k \in 1..MaxObjs : Prototype(o, k) = o

\* Every program of the bundle comes to an end (none of them loops for ever in
\* JavaScript), be it by a panic: the machine neither runs in circles nor
\* imports in circles. Except that a lookup that goes round a cycle of
\* prototypes never returns: then the program, by setPrototypeOf, has made such
\* a cycle. (The loops of vm_exec_module and vm_exec_function; value_is_array
\* and object_get_property, which look for no cycle.)
Ended ==
  IF mode = "endless lookup" THEN CyclicPrototypes ELSE mode \notin {"run", "native"}
Terminates == <>Ended

-----------------------------------------------------------------------------
(* What Opcodes.md promises and the code does not keep.                    *)

\* Opcodes.md, LOAD_ARG: "If the argument index does not exist, `undefined` is
\* pushed." (inst_load_arg compares the index with stack_start only, and reads
\* an operand of the caller.)
MissingArgumentIsUndefined ==
  [][LET misses == /\ Executing(Inst, {"LOAD_ARG"})
                   /\ fn # NULL
                   /\ Inst.n > Caller.n + Caller.argc
     IN  misses /\ mode' = "run" => stack'[counter] = JSUndefined]_vars

=============================================================================
