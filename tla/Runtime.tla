------------------------------ MODULE Runtime ------------------------------
(***************************************************************************)
(* The memory of the virtual machine: scopes (core/scope.c), objects with  *)
(* their prototype chains (core/object.c) and functions (core/function.c). *)
(* Addresses are natural numbers handed out in order of allocation; the    *)
(* garbage collector never frees what is reachable, so nothing is freed.   *)
(* A dictionary is a total function from names to values in which Absent   *)
(* marks the names that are not there.                                     *)
(***************************************************************************)
EXTENDS Bytecode

CONSTANTS
  Code,      \* Code[m]: the data section of module m
  Text,      \* value_to_string as a table: the values used as keys
  OtherKey,  \* stands for every key that is not in the table
  MaxScopes, MaxObjs, MaxFuncs   \* bounds on the allocations

Modules == DOMAIN Code
ScopeIds == 1..MaxScopes
NULL == 0

Absent == [type |-> "absent", num |-> 0, den |-> 1]
Dict == [Names -> Value \cup {Absent}]

VARIABLES
  scopes,  \* Scope: parent and symbols
  heap,    \* JSObject: prototype and properties
  funcs,   \* JSFunction: a native function or a range of instructions
  used     \* how many scopes, objects and functions exist

memory == <<scopes, heap, funcs, used>>

EmptyDict == [k \in Names |-> Absent]

-----------------------------------------------------------------------------
(* Layout after start-up. core_init creates the native functions below in  *)
(* this order; f is the address of native f, its base and prototype        *)
(* objects follow the four built-in prototypes.                            *)

NativeNames == <<"print", "getExportObj", "importModule", "object",
                 "instantiate", "create", "setPrototypeOf", "array", "isArray",
                 "function", "call", "symbol">>
Natives == DOMAIN NativeNames
NativeFunctions == {NativeNames[f] : f \in Natives}

ObjectPrototype == 1
FunctionPrototype == 2
ArrayPrototype == 3
SymbolPrototype == 4
ToPrimitive == 5
ModuleObject == 6
NativeBase(f) == 6 + f
NativePrototype(f) == 18 + f
Exports(m) == 30 + m

GlobalScope == 1
ModuleScope(m) == 1 + m

FirstFree == [scopes |-> 1 + Len(Code),
              objs |-> 30 + Len(Code),
              funcs |-> Len(NativeNames)]

ASSUME RuntimeAssumption ==
  /\ Code \in Seq(Seq(Instruction))
  /\ MaxScopes \in Nat /\ MaxObjs \in Nat /\ MaxFuncs \in Nat
  /\ MaxScopes >= FirstFree.scopes
  /\ MaxObjs >= FirstFree.objs
  /\ MaxFuncs >= FirstFree.funcs
  /\ ObjIds = 1..MaxObjs
  /\ FuncIds = 1..MaxFuncs
  /\ \A v \in DOMAIN Text : Text[v] \in Names
  /\ OtherKey \in Names
  /\ {"this", "prototype", "constructor", "length", "description"} \subseteq Names

\* The code that natives and not-yet-allocated functions do not have.
NoScript(native, base) ==
  [native |-> native, scope |-> GlobalScope, module |-> NULL,
   first |-> 0, last |-> 0, base |-> base]

Function ==
  [native : NativeFunctions \cup {"script"}, scope : ScopeIds,
   module : Modules \cup {NULL}, first : Nat, last : Nat, base : ObjIds]

Set(dict, key, v) == [dict EXCEPT ![key] = v]
DictOf(S, Val(_)) == [k \in Names |-> IF k \in S THEN Val(k) ELSE Absent]

\* The text of a string that is not in the pool of the string tables.
OtherText == JSString(0)

NativeNamed(name) == JSFunc(CHOOSE f \in Natives : NativeNames[f] = name)

\* core_init: the names it declares in the global scope ...
GlobalNames == {"print", "Module", "Object", "Array", "Function", "Symbol"}
GlobalValue(k) ==
  CASE k = "Module" -> JSObject(ModuleObject)
    [] k = "print" -> NativeNamed("print")
    [] k = "Object" -> NativeNamed("object")
    [] k = "Array" -> NativeNamed("array")
    [] k = "Function" -> NativeNamed("function")
    [] k = "Symbol" -> NativeNamed("symbol")

\* ... and the properties of the objects it creates.
BuiltinProperty(o, k) ==
  CASE o = ModuleObject /\ k \in {"getExportObj", "importModule"} -> NativeNamed(k)
    [] o = NativeBase(4) /\ k \in {"instantiate", "create", "setPrototypeOf"} ->
         NativeNamed(k)
    [] o = NativeBase(8) /\ k = "isArray" -> NativeNamed(k)
    [] o = NativeBase(12) /\ k = "toPrimitive" -> Tagged("symbol", ToPrimitive)
    [] o = FunctionPrototype /\ k = "call" -> NativeNamed(k)
    [] o = ToPrimitive /\ k = "description" -> OtherText
    [] k = "prototype" /\ \E f \in Natives : o = NativeBase(f) ->
         JSObject(o + Len(NativeNames))
    [] k = "constructor" /\ \E f \in Natives : o = NativePrototype(f) ->
         JSFunc(o - NativePrototype(0))
    [] OTHER -> Absent

BuiltinPrototype(o) ==
  CASE o = NativeBase(8) -> ArrayPrototype
    [] o = NativeBase(10) -> FunctionPrototype
    [] o \in {NativeBase(12), ToPrimitive} -> SymbolPrototype
    [] OTHER -> ObjectPrototype

CoreScopes ==
  [s \in ScopeIds |->
     [parent |-> NULL,
      vars |-> IF s = GlobalScope THEN DictOf(GlobalNames, GlobalValue) ELSE EmptyDict]]
CoreHeap ==
  [o \in ObjIds |-> [proto |-> BuiltinPrototype(o),
                     props |-> [k \in Names |-> BuiltinProperty(o, k)]]]
CoreFuncs ==
  [f \in FuncIds |-> IF f \in Natives THEN NoScript(NativeNames[f], NativeBase(f))
                                      ELSE NoScript("function", ObjectPrototype)]

MemoryTypeOK ==
  /\ scopes \in [ScopeIds -> [parent : ScopeIds \cup {NULL}, vars : Dict]]
  /\ heap \in [ObjIds -> [proto : ObjIds, props : Dict]]
  /\ funcs \in [FuncIds -> Function]
  /\ used \in [scopes : Nat, objs : Nat, funcs : Nat]

-----------------------------------------------------------------------------
(* Scopes.                                                                 *)

\* The scope k steps up the parent chain of s, NULL past its end.
Enclosing(s, k) ==
  LET up[i \in Nat] ==
        IF i = 0 THEN s
        ELSE IF up[i - 1] = NULL THEN NULL ELSE scopes[up[i - 1]].parent
  IN  up[k]

Declares(s, key) == s # NULL /\ scopes[s].vars[key] # Absent

\* h is the innermost scope around s that declares key.
IsHolder(h, s, key) ==
  /\ Declares(h, key)
  /\ \E k \in 0..MaxScopes :
       /\ Enclosing(s, k) = h
       /\ \A j \in 0..(k - 1) : ~Declares(Enclosing(s, j), key)

scope_contains(s, key) == \E h \in ScopeIds : IsHolder(h, s, key)
Holder(s, key) == CHOOSE h \in ScopeIds : IsHolder(h, s, key)

scope_get(s, key) ==
  IF scope_contains(s, key) THEN scopes[Holder(s, key)].vars[key] ELSE JSUndefined

scope_declare(s, key, v) == [scopes EXCEPT ![s].vars[key] = v]
scope_set(s, key, v) == scope_declare(Holder(s, key), key, v)

\* scope_create_scope takes the next free address.
CanCreateScope == used.scopes + 1 \in ScopeIds
NewScope == used.scopes + 1
\* Mutant: the new scope is not linked to the one around it.
scope_create_detached(parent) ==
  [scopes EXCEPT ![NewScope] = [parent |-> NULL, vars |-> EmptyDict]]
scope_create_scope(parent) ==
  [scopes EXCEPT ![NewScope] = [parent |-> parent, vars |-> EmptyDict]]

-----------------------------------------------------------------------------
(* Objects.                                                                *)

\* The object k steps up the prototype chain of o.
Prototype(o, k) ==
  LET up[i \in Nat] == IF i = 0 THEN o ELSE heap[up[i - 1]].proto IN up[k]

HasOwn(o, key) == heap[o].props[key] # Absent

IsPropertyHolder(h, o, key) ==
  /\ HasOwn(h, key)
  /\ \E k \in 0..MaxObjs :
       /\ Prototype(o, k) = h
       /\ \A j \in 0..(k - 1) : ~HasOwn(Prototype(o, j), key)

\* The lookup ends where an object is its own prototype; on any other cycle
\* the recursion of object_get_property never ends.
LookupEnds(o, key) ==
  \E k \in 0..MaxObjs :
    LET p == Prototype(o, k) IN HasOwn(p, key) \/ heap[p].proto = p

object_get_property(o, key) ==
  IF \E h \in ObjIds : IsPropertyHolder(h, o, key)
  THEN heap[CHOOSE h \in ObjIds : IsPropertyHolder(h, o, key)].props[key]
  ELSE JSUndefined

object_set_property(o, key, v) == [heap EXCEPT ![o].props[key] = v]

CanCreateObjects(n) == used.objs + n \in ObjIds
NewObject == used.objs + 1
object_create_object(proto) ==
  [heap EXCEPT ![NewObject] = [proto |-> proto, props |-> EmptyDict]]

\* The object behind a value that has properties.
HasProperties(v) == v.type \in {"object", "function"}
ObjectOf(v) == IF v.type = "function" THEN funcs[v.num].base ELSE v.num

\* value_is_array climbs until it meets one of the two built-in prototypes.
ArrayWalkEnds(o) ==
  \E k \in 1..MaxObjs : Prototype(o, k) \in {ObjectPrototype, ArrayPrototype}
value_is_array(v) ==
  /\ v.type = "object"
  /\ \E k \in 1..MaxObjs :
       /\ Prototype(v.num, k) = ArrayPrototype
       /\ \A j \in 1..(k - 1) : Prototype(v.num, j) # ObjectPrototype

KeyOf(v) == IF v \in DOMAIN Text THEN Text[v] ELSE OtherKey

-----------------------------------------------------------------------------
(* function_create_function: a scope below the declaring one, a base       *)
(* object, and a prototype object that points back at the function.        *)

NewFunction == used.funcs + 1
CanCreateFunction ==
  NewFunction \in FuncIds /\ CanCreateScope /\ CanCreateObjects(2)

FunctionHeap ==
  [heap EXCEPT
     ![NewObject] = [proto |-> FunctionPrototype,
                     props |-> Set(EmptyDict, "prototype", JSObject(NewObject + 1))],
     ![NewObject + 1] = [proto |-> ObjectPrototype,
                         props |-> Set(EmptyDict, "constructor", JSFunc(NewFunction))]]

\* Mutant: the last instruction is counted in.
NewScriptLong(module, first, last) ==
  [native |-> "script", scope |-> NewScope, module |-> module,
   first |-> first, last |-> last + 1, base |-> NewObject]

NewScript(module, first, last) ==
  [native |-> "script", scope |-> NewScope, module |-> module,
   first |-> first, last |-> last, base |-> NewObject]

=============================================================================
