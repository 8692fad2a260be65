# AtomixJS: TLA+ models and proofs

AtomixJS compiles a subset of JavaScript to bytecode (`atomixc/`, TypeScript)
and runs it on a small virtual machine (`atomix/`, C). This directory models
the machine, the compiler as far as the machine depends on it, and the way of a
module from the compiler into the machine; checks the models with TLC; and
proves the central results with TLAPS.

## 1. Inventory

| part | state | operations | hard part |
|---|---|---|---|
| value operators, `core/execution.c`, `core/value.c` | none | 21 binary and unary instructions | two builds that differ on undefined behaviour; conversions; operand types nobody listed |
| interpreter, `core/execution.c` | `VM`, `VMStats`: module, instruction counter, stack counter and start, the stack array, scope | one handler per opcode, `vm_exec_module`, `vm_exec_function` | no verifier, incomplete checks, calls that save and restore all of it |
| scopes, objects, functions, `core/scope.c`, `object.c`, `function.c`, `symbol.c` | chains of dictionaries | declare, set, get; property get and set; creation | one scope per function; cycles of prototypes |
| natives, `modules/core/core.c`, `core/api.c` | global scope, built-in objects | twelve natives, `api_call_function` | calls back into the interpreter on a shared stack; import cycles |
| module lookup, `core/format.c` | bounds of a search | `bundle_get_module` | `uint16_t` bounds, an upper bound behind the array |
| bundles, `bin/bundle.ts`, `format/*.ts`, `core/loader.c`, `main.c` | a file, a position | write, load, start, import | two programs must agree on order, offsets and halves of hashes |
| code generator, `pipe.ts`, `transform.ts` | the data section | one function per node type | leaves exactly the operands the next node expects; jumps; nested functions |
| hash tables, `core/dict.c` | buckets of chained entries | add, update, get, delete, by string and by symbol | symbols among strings, adding without looking, unlinking |
| module hash, `hash.ts` | none | `hashString`, `hashFilePath` | which paths collide |
| string table and data section, `format/stable.ts`, `format/data.ts`, `binary.ts`, `core/loader.c`, `core/format.c` | strings, offsets, instructions, running lengths; a file of bytes | register, add, replace, write, read, load | three programs agree on opcodes, widths, offsets and characters |
| test harness, `tests/suite.js` | a list of tests, a lock, workers, snapshots on the disk | start, pop, one completion of a subprocess or file operation each | coroutines around one list; failures in the middle of a run; snapshots that outlive it; line ends converted in some places |
| parser front end, engine builder, dumper, bdwgc | files | | not the program's own logic |

How they interact: `pipe.ts` and `execution.c` share the instruction set and an
unwritten contract about stack depths. `inst_call` calls natives, natives call
`api_call_function`, which calls `vm_exec_function`, on one operand stack whose
registers live in C stack frames. `importModule` calls `vm_exec_module` from
inside an instruction. The whole machine is single-threaded: what is hard is
re-entrance, the contract between two programs in two languages, and
boundaries. Only the test harness has several things under way at a time. `PROJECT.json` lists the hazards at their lines.

What makes each part correct:

- operators: the result is the JavaScript result, or the documented panic; the
  builds differ only where C leaves the behaviour open;
- interpreter: operands never underflow, activations are stacked without
  overlap, a callee never changes what its callers keep, the scope belongs to
  the running function, and a program prints what node prints;
- imports: a body runs once; cycles end;
- lookup and bundles: what is in the bundle is found, and has its own sections;
  files are refused only when their hashes collide, and it is known when they do;
- hash tables: a map from names to values, whatever shares a bucket;
- sections: the machine loads the instructions and strings the compiler had,
  also after `atomixc bundle` has taken the file apart and put it together again;
- test harness: every test is judged once and rightly, and the run ends.

## 2. Modules

```
AtomixOps ── OpsBench ── MCOpsBench        operators, and a bench for them
    │  └──── OpsLemmas ── OpsProofs        (proofs; OpsProofs extends OpsBench too)
 Bytecode                                  instruction set, consistent annotations
 Runtime                                   scopes, objects, functions, core_init
 Execution                                 registers, the instructions that do not call
 VM                                        calls, returns, modules, natives: Init, Next, Spec
 ModuleSystem                              abstract: calls and imports nest, bodies run once
 StackDiscipline                           the inductive invariant of the stack
 VMProperties ── MCVM                      the other properties, VM implements ModuleSystem; the instance
    └─── MachineProofs (proofs)            stack, activations, imports, scopes
 Compiler ── Programs ───┘                 pipe.ts and transform.ts; test programs
Lookup ── MCLookup                         bundle_get_module
    └─── Bundle ── BundleProofs            writer, loader, main, import (and proofs, of Lookup too)
            └─── ModuleHash ── MCBundle    hash.ts, which gives Bundle its hash
PropertyMap                                abstract: a map from names to values
    └─── JSDict ── DictProofs, MCJSDict    dict.c, which implements it (and the proof)
ModuleFile ── FileProofs, MCModuleFile     string table and data section, byte by byte (and proofs)
SequenceLemmas                             sequences in sequences, for BundleProofs and FileProofs
TestSuite ── SuiteProofs, MCTestSuite      the harness, its workers and snapshots (and proofs)
```

Operators whose comment starts with "Mutant:" are plausible wrong versions of
the definition that follows them. No definition uses them; each shows, put in
the place of that definition, that a property can fail.

### Correspondence with the code

- **Values** are records `[type, num, den]`. A double is a rational, `den = 0`
  for NaN and the infinities: rounding and negative zero are not modelled. A
  string is an index of a pool. A string that C code reads as a number (its
  address) is read as that index. Integers have `W` bits.
- **Operators** return an outcome: `pop` (operands replaced), `keep` (the early
  return that forgets the left operand), `panic`, `trap`. Every panic of an
  operator, whatever its text, is the fault "Unsupported operation" of the VM.
  `TrapOnUB = TRUE` is the debug build (`zig cc` without `-O`, which traps on
  overflow, shift counts and casts of doubles that have no int), `FALSE` the release
  build (`-O2`, which wraps, masks shift counts and casts to some int, `BadCast`).
  `inst_div` converts integers, booleans and null to doubles before it looks for a
  double, and so divides the address of a string or symbol as soon as the other
  operand is a number (`DivOperand`); the other handlers do so only for a double.
- **Memory**: addresses are handed out in order and never reused, which is what
  a garbage collector guarantees of reachable memory. A dictionary is a total
  function with `Absent`. `core_init` and `module_load_from_buffer_offset` give
  the layout of the initial state.
- **Registers** are variables of `Execution` with the names of the C fields.
  `vm_exec_function` and `vm_exec_module` copy `VMStats`, the stack array
  included, to a local variable: `frames` is the sequence of these copies
  together with what `inst_call`, `api_call_function`, `instantiate` and
  `importModule` still have to do when the callee returns. `pending` is the
  native that runs. One action is one instruction with all its effects, one
  native, or one return.
- **Faults**: `mode` holds the text of the panic, or the kind of undefined
  behaviour that ends the model's run: leaving the stack or the module array, a
  NOP inside a function (which the loader turns into NULL). "endless lookup" is a
  process that goes round a cycle of prototypes: it need not end, but nothing that
  the model keeps changes any more. The panic of `vm_exec` about the instruction
  counter cannot happen in the loops that call it (RegistersOK).
- **Compiler**: `pipeNode` maps a syntax tree to the instructions `pipe.ts`
  emits. Jumps are relative until `beginPipe`; names stand for their index in
  the string table. `transform.ts` is a set of constructors that build the tree
  it rewrites to. Node types that `pipe.ts` refuses are left out.
- **Lookup**: one step is one turn of the loop. Hashes are small numbers,
  `COUNT` is the number of values of `uint16_t`. Nobody calls
  `register_native_module`, so the list that is searched afterwards is empty.
- **Bundle**: a file is a sequence of cells (a header, or a unit of a section).
  The hash is a parameter; `ModuleHash` defines it, and its `hashString` runs over a signature byte by byte, in a word of two halves, the
  low one first. A path is the sequence of its names below the root, a name is
  one byte and separators are left out; root and working directory are the same
  directory. A module that is run without `atomixc bundle` is a file of its own.
- **JSDict**: a bucket is the sequence of its entries, its head first. The
  actions are the operations that scopes and objects perform on their own table.
  A deletion that reads through NULL ends the process (`up = FALSE`). Which
  bucket a string belongs to is a constant.
- **ModuleFile**: the sections hold what the TypeScript objects hold, with the
  lengths that are kept up to date along the way; the file is a sequence of
  bytes, written with `LittleEndian` and read with the `READ_` macros. Headers
  are left to `Bundle`. One action is one call of `registerString`,
  `addInstruction` or `replaceInstruction`, one `writeTo` of the module, and one
  turn of a loop that reads instructions.

- **TestSuite**: one action is the start of the harness, the callback behind the
  lock, or the completion of one subprocess or file operation, with everything
  the worker does up to its next `await`. Callbacks behind the lock are
  microtasks: node runs them before it looks at the next completion
  (`Completion`, external). A rejection reaches `Promise.all`, which has no
  handler, in the same turn and ends the process; file operations under way then
  happen or do not. What node, compiler and machine do with a test is a constant,
  and so is what becomes of an output when `\n` replaces every `\r\n` (`Unix`): the
  code does so with what the machine prints and with a snapshot it reads, and not with
  one that node has just made (`made`).
  `Edit` is a change of a test between two runs.

### Abstract specifications

- **`ModuleSystem`**, implemented by `VM` with `running <- Activities` (the
  module or the call of every frame, and of the running body; empty once the
  process has ended) and `imported <- initialized`: every step of the machine is
  a call, the first import of a module, the end of the innermost activity, the
  end of the process, or invisible. The body `main` starts is not marked, so a
  cycle of imports may run it a second time: the specification says so.
- **`PropertyMap`**, implemented by `JSDict` with `map[n] <- dict_get(n)`: each
  operation answers what a map answers, and changes no other name. It allows a
  deletion to end the process, which is what happens to the second entry of a
  chain. `Runtime` uses dictionaries in this form.

`VM` takes the loaded bundle in memory as its interface. At this commit a
bundle of two modules written by `atomixc bundle` does not load
(`Bundle_several`), and an import statement finds only modules whose halves are
equal, and of those that it names relative to its own file hardly any
(`Bundle_import`). So that imports can be checked at all, the
instance of `VM` has several modules in memory, with hashes `<<m, m>>` except for
module 1, whose import fails.

Not modelled although the files are: getter/setter boxes (`JS_GS_BOX`, created
by no code) and `scope_delete` (no caller; the deletion it would perform is that
of `JSDict`).

## 3. Runs

| run | result | shows |
|---|---|---|
| `VM_suite` | pass, 1490 states | the compiled programs on the whole machine |
| `OpsBench` | pass, 37800 states | each operator on each pair of boundary operands, in both builds |
| `Lookup` | pass, 1115 states | every search in every sorted bundle of 1 to 4 of 6 hashes |
| `Bundle` | pass, 25182 states | plain modules and bundles of one and two modules, from their paths to the imports |
| `JSDict` | pass, 40000 states | every sequence of operations on a table of five names, four of them in one bucket |
| `ModuleFile` | pass, 334660 states | modules of up to three strings and instructions, written, bundled and loaded |
| `TestSuite` | pass, 35833 states | up to three runs of the harness over eight lists of tests |
| `VM_missing_argument` | violation | `Opcodes.md`: a missing argument is `undefined`; the code reads the caller's operand |
| `VM_activations` | violation | recursion with live locals prints something other than node |
| `Lookup_absent` | violation | the search for an absent module leaves the array |
| `Bundle_several` | violation | a bundle of two modules does not load |
| `Bundle_import` | violation | an import does not find its module |

`VM_suite` checks `TypeOK`; `NoUnderflow` and its strengthening `IInv`;
`CallsNest` and `CallerOperandsIntact` (activations are stacked, and a callee
leaves the operands of all callers that wait alone); `ScopeInsideFunction` and its
strengthening `ScopeInv` (as many scopes below that of the function as the compiler
has blocks open there, so that `POP_SCOPE` finds its way back);
`ImportOnce` (exactly how often each body has run);
`OutputMatches` (the output of node, after every step); `Terminates` (every
program ends, be it by a panic, unless it made a cycle of prototypes and looks
something up there: `value_is_array` and `object_get_property` then go round for
ever, and only a state with such a cycle may count as "endless lookup"); and
`ImplementsModuleSystem`. What node prints is a table (`MCExpected`), by what
JavaScript says of the program. Program 28, for which the machine prints something
else, is the entry point of `VM_activations` only. No program calls a function in
front of its declaration, where node and the machine differ as well: node hoists
the declaration to the start of its block, `pipe.ts` emits `FUNC_DECL` where it
stands, and the call finds a function of that name outside the block, or none.

`OpsBench` checks that results are values as the macros `JS_VALUE_*` make them
(`Canonical` in `TypeOK`: integers in range, booleans 0 or 1), compares arithmetic, relational and bitwise operators with reference
definitions; `BuildsAgree` says that the debug build traps exactly on undefined
operands and computes what the release build computes on all others (undefined are
integer results that do not fit, `INT_MIN % -1`, shifts, and the casts of doubles
that have no int, among them those that only look whether a result can be an integer);
`TruthAgrees` that conditions and NOT agree with comparisons, NaN being the
exception.

`Bundle` checks that the loader gives each module its own sections
(`SectionsMatch`), that `main` finds the entry point, and starts nothing only where
there is none or one with the hash 0, which it takes for none (`EntryIsFound`; the
path `<<5, 5>>` of the instance is such an entry point), and why
`atomixc bundle` refuses files (`RejectsErasedPaths`). The command line calls the
hash FNV-1a, but the code multiplies by the byte and xors the prime. Multiplying
by an even byte shifts the word, so what stands before an end that two paths
share is lost as soon as the bytes of that end have as many factors of two as
the word has bits: with 64 bits, an end of some sixty to seventy characters.
The property says that files whose hashes differ up to where the common end begins
are refused exactly for that. That they do not differ even there, by accident or
because they are one path, is left aside: the common end cannot bring back
a difference.

`JSDict` checks that no name has two entries (`OneEntryPerName`) and the
refinement (`ImplementsMap`). `ModuleFile` checks the running lengths
(`LengthsAddUp`; a double is counted four bytes short, which only the dumper and
readers of the file would notice), that the machine loads what the compiler had
(`LoadsWhatWasCompiled`; integers modulo 2^32), that bundling is the identity on
ASCII modules (`BundlingKeepsFile`), and that the writers give up for a reason
(`RejectedForAReason`). Outside ASCII, `readString` decodes as UTF-8 what
`writeString` wrote as single bytes.

`TestSuite` checks that no test is lost or run twice and that a report covers all
of them (`TestsAccountedFor`), that the harness comes down without a report only
for a test that node, the compiler or the machine gives up on, or when there are
fewer tests than workers (`CrashHasACause`: a worker looks at the list before it
waits for the lock), that verdicts and exit code are right but for tests whose
snapshot is out of date or was cut off (`VerdictsRight`), and that every run ends
(`SuiteEnds`). A verdict is right if the test fails exactly when the outputs differ
after the conversion of line ends as the code makes it: a machine that prints
`\r\n` for the `\n` of node passes, and a test that prints `\r\n` fails in the run
that makes its snapshot and passes in later ones.

More differences from `Opcodes.md` are visible in the definitions and have no
run of their own: ADD leaves its left operand when one operand is undefined
(`Kept`), TEQ panics on two strings, booleans or symbols, NOT takes NaN for
true, BINARY_OR drops a boolean operand, DIV divides the address of a string by a
number, a call through `f.call` or `new` leaves the
`this` it pushed on the stack (`api_call_function`), and a function without a return
statement answers with what its body left on the stack (`Return` in `VM`; program
27 of `VM_suite`). The properties of `OpsBench` are stated for the operands
outside these cases.

**Bounds.** The machine is deterministic but for the entry point and the
outcome of a failed import, so the runs are long rather than wide: the programs
decide what is covered. 25 of the 28 modules are entry points: programs of `tests/src`
or close to them (numbers, scopes, fib, functions, arrays, objects, this,
classes, symbols, destructuring), one that calls every native with few, many
and wrong arguments, recursion below and above the size of the stack, an import
cycle of three modules, one program for each panic, two cycles of prototypes,
and one made by hand of the instructions `pipe.ts` does not emit. `W = 7` holds
every number the programs compute; `STACK_SIZE = 20` (254 in the code) is
enough for them and is overrun by the endless recursion. `MaxScopes`, `MaxObjs`
and `MaxFuncs` are what the largest program allocates: a bound that blocked an
allocation would show as a violation of `Terminates`, and of deadlock freedom.
`W = 5` in `OpsBench` keeps both ends of the range, products that overflow, and
doubles on either side of the last that can be cast within reach of the operand set. `COUNT = 8` lets the bounds of a search wrap
around in bundles of four modules. `HALF = 4`, names of one and two factors of
two and paths of up to three names give hashes in every order of their halves,
and ends that push all four bits of the word out. Five names in `JSDict` make
chains of four, so that the entry to delete is first, second, in the middle and
last. A byte of `ModuleFile` has 64 values, the least power of two with room for
the opcodes: operands and characters are taken at the limits of their widths,
and two instructions in any order show a shift of the second by the first;
`MaxLength = 3` is the length of the longest string. Two
workers (4 in the code) and lists of none to three tests are fewer, as many and
more tests than workers, and one that prints `\r\n`; three runs are one that is cut off, one that trusts what
it left, and one after an edit.

**Fairness.** `FairSpec` of `VM` is weak fairness of `Next`: the loops of
`vm_exec_module` and `vm_exec_function` do nothing but execute the next
instruction. That of `Lookup` is weak fairness of the turn of the loop, that of `TestSuite`
weak fairness of `Turn`: subprocesses and file operations end, and the event loop
serves them. Nothing makes anybody start the harness again.
`SearchEnds` is stated for bundles of fewer than `COUNT / 2` modules: in a
larger one (more than 32767 modules) a search below the first hash goes round
for ever.

## 4. Proofs

Eight modules hold theorems, valid for every value of the constants that
satisfies the named assumptions. TLC evaluates these assumptions in the runs.

| module | theorems | of |
|---|---|---|
| `OpsLemmas` | `BinaryIsOutcome`, `UnaryIsOutcome`: every operator has an outcome on every operand; lemmas on powers of two and bits, C division, doubles; `SetInduction` | |
| `OpsProofs` | `ResultsAreWellFormed`, `ComparisonsAreConsistent`, `TruthIsConsistent`, `BuildsDifferOnlyWhereUndefined`, `BitsAreTwosComplement`, `ArithmeticIsLawful` | `TypeOK`, `ComparisonsAgree`, `TruthAgrees`, `BuildsAgree`, `BitwiseIsTwosComplement`, `ArithmeticIsInvertible` |
| `MachineProofs` | `StackIsDisciplined`, `TypeCorrect`, `NeverUnderflows` | `IInv`, `TypeOK`, `NoUnderflow` |
| | `ActivationsNest`, `CallersKeepTheirOperands`, `ImportsRunOnce`, `MachineImplementsModuleSystem` | `CallsNest`, `CallerOperandsIntact`, `ImportOnce`, `ImplementsModuleSystem` |
| | `ScopesStayOpen`, `ScopesStayInside` | `ScopeInv`, `ScopeInsideFunction` |
| `FileProofs` | `FileInvariant`, `TypeCorrect`, `LengthsAlwaysAddUp`, `WhatWasCompiledIsLoaded`, `BundlingKeepsTheFile`, `RejectionIsJustified` | `TypeOK`, `LengthsAddUp`, `LoadsWhatWasCompiled`, `BundlingKeepsFile`, `RejectedForAReason` |
| `BundleProofs` | `SearchIsTyped`, `StaysBetween`, `FindsWhatIsThere` | `TypeOK`, `Between`, `PresentIsFound` of `Lookup` |
| | `OnlyTheFirstIsLoaded`, `BundleIsTyped`, `SectionsStayWithTheirModule`, `EntryPointIsFound` | `BundleTypeOK`, `SectionsMatch`, `EntryIsFound` |
| `SequenceLemmas` | lemmas: induction over sets of numbers and sequences, `Holds`, `FlattenSeq` | |
| `DictProofs` | `TableIsTyped`, `NamesAreUnique`, `TableImplementsMap` | `TypeOK`, `OneEntryPerName`, `ImplementsMap` |
| `SuiteProofs` | `SuiteIsTyped`, `NoTestIsLost`, `VerdictsAreRight`, `CrashesHaveACause` | `TypeOK`, `TestsAccountedFor`, `VerdictsRight`, `CrashHasACause` |

**The stack.** The machine checks some pops and not others, and nothing
compares the counter with `stack_start`, so no invariant holds of arbitrary
bytecode. The proof assumes what the compiler provides (`VerifiedCode`): an
annotation `Depth`, `Limit` of every instruction with a lower bound of the
operands of its own function and with the end of the body it belongs to,
`Consistent` along every jump and into every nested function. TLC evaluates
this assumption for the code of all 28 modules, with the annotation computed
from the code (`DepthOf`, `LimitOf` in `MCVM`). A lower bound and not an exact
depth, because `undefined + x`, destructuring and `f.call` leave extra
operands.

`NoUnderflow` is not inductive: `IInv` adds that the running body has at least
its annotated depth above `start` (`RegistersOK`), that every waiting frame has
this once its `CALL` is over (`FramesOK`, with the `argc` values
`api_call_function` takes off), and that every function is a range of its
module whose first instruction needs no operands (`FunctionsOK`). The proof has
one lemma per instruction, native and return.

The other assumptions are about scopes (`BalancedCode`, below), sizes (`RuntimeAssumption`,
`ExecutionAssumption`), powers of two (`WidthAssumption`) and addresses
(`AddressAssumption`).

**Activations.** `MachineProofs` first shows that under `IInv` every step of
the machine is of one of four kinds (`Step`): it stays in the running body and
writes nothing below `start` (`Locally`), calls a function, begins the body of a
module, or returns to the frame on top. Only this lemma looks at the instructions
and natives, one by one; that no handler writes below `start` is where `IInv`, and
with it `Consistent` code, is needed. From the four kinds follow that the stacked
activations neither overlap nor leave a gap, that the operands of every waiting
caller are those it left, that a body has run once for its import and once more
as the entry, and, with `Activities` as the mapping, the steps of `ModuleSystem`.

**Scopes.** `PUSH_SCOPE` and `POP_SCOPE` count nothing either, and a return out of
nested blocks skips its `POP_SCOPE`s. What the compiler provides is a second
annotation, `Nesting`: how many scopes of the running body are open at an
instruction. `pipe["BlockStatement"]` emits one `PUSH_SCOPE` and one `POP_SCOPE`
around what stands in between, and no jump `pipe.ts` emits leads into or out of a
block (there is no `break` or `continue`). `BalancedCode` says so, along every jump
and for every nested function, and TLC evaluates it for the code of all 28 modules
(`NestingOf` in `MCVM`). `ScopeInsideFunction` alone is not inductive: a
`POP_SCOPE` in the function's own scope would leave it. `ScopeInv` adds that the
running body and every body that waits lie at least as many steps below the scope of
their function as they have blocks open (`NestingOK`), that functions begin with none
(`BodiesOK`), and that a scope is younger than the one around it, hangs below nothing
before it is created, and that of a module only below the global scope
(`ScopeTreeOK`). Every step only makes this tree grow, so what was true of a body that
waits still is when the call returns. The panic of `POP_SCOPE` is therefore unreachable,
which is a conjunct of `ScopeInv`.
`Enclosing` climbs the tree by a recursive function; its laws are proved by induction
over sets of numbers (`SetInduction`, from the well-foundedness of < on Nat),
because the induction theorems of the library take an operator as a parameter.

**The search.** `Between`: if the hash is in the sorted array, its index lies
between the bounds, and `high` is at most the length. Then `mid` is inside the
array whenever the module is there, and neither bound wraps. `LookupAssumption`
says that a bundle has fewer modules than `uint16_t` has values.

**Bundles.** Nothing is assumed of the hash but that it gives two numbers below
`HALF` (`HashAssumption`): where a module stands in a bundle does not matter, only
that `buildBundle` puts every module somewhere. That modules with different hashes
can be sorted, so that the `CHOOSE` in `buildBundle` finds an order, is
proved by induction (`SortingExists`). `BundleInv` says that the file starts
with the header of the bundle, if it is one, and the cells of its first module (`Filed`);
that the loader has read nothing or this module, with its own sections
(`Loading`); that a bundle whose entry point is looked for has one module only,
whose hash is asked for (`Entering`); and that a bundle that runs without a search has
no entry point, or one whose two halves are 0 (`NothingToStart`). So `Bundle_several` is no accident of its
instance: `loadKeeps` shows that behind the first header the loader always meets a string
table, and no bundle of several modules ever loads, whatever their sizes. `SectionsMatch` and
`EntryIsFound` therefore are about the first module at this commit.

**The hash table.** `DictInv` says that every chain holds entries that belong to
its bucket, one for each name (`GoodChain`). Nothing is assumed of the hash but
that it names a bucket. Each operation rewrites one chain (`Assigns`: the answer
for one name changes, the answers for all others stay), which is both what keeps
`DictInv` and what a step of `PropertyMap` is. The deletion of the second entry
of a chain, which reads through NULL, maps to the step that ends the process.

**The harness.** `TestsAccountedFor` is not inductive. `SuiteInv` adds that the
list is what is left of the suite after pops (`ListOK`), that the callbacks that
are due are those of different workers at the lock, and no more than there are
tests when the suite has at least as many as there are workers (`QueueOK`), what a worker knows
of its snapshot at each `await`, and in which form it has the line ends (`Knows`), and which snapshots on the disk are
what node prints (`Trusted`; all but those of edited tests and those whose
writing was cut off, `upset`; `Unix` may be any function that leaves an empty output
empty). `SuiteAssumption` says that a suite lists no test
twice: `pipeFiles` walks a directory and meets each file once.

**The operators.** `BenchInv` only says that the outcome is that of the
instruction and its operands; the work is in the lemmas about all values. That
the builds agree is a comparison of two instances of `AtomixOps`, `Debug` with
`TrapOnUB` true and the bench's own with it false, which the theorem assumes
because it speaks of the release build.
The provers do not know exponentiation, so `WidthAssumption` defines the powers of
two by doubling; that they are positive, that exponents add up and that every
pattern of W bits is an int and the reverse (`EveryPattern`) are proved by
`SetInduction`. `BitsAreTwosComplement`: operations bit by bit that add up at every
bit add up as words (`SumOfBits`) and, since the sign bit adds up too, as ints;
shifts come from the bits of a product or quotient by a power of two.
`ArithmeticIsLawful`: a finite double is a quotient of integers and an equality of
doubles an equation of products, `Collapsed` keeps the value, the remainder obeys
the law of the truncated quotient (`RemainderIsLawful`), and an int that overflowed
differs by a multiple of 2^W (`IntResultIsCongruent`).

**The file.** `FileAssumption` says that what the compiler registers and emits is
within bounds, `MaxParts` strings and instructions of at most `MaxLength`
characters, for which a section is shorter than a `uint32_t` can say; which
bounds these are is open. (The code checks none: a longer section would have its
length cut off.) A byte has any even number of values with room for the opcodes.
`FileInv` says, phase by phase, that the sections, the bytes of the file and what
has been loaded are those that `source`, the strings and instructions of the
compiler, determines. While the program is compiled the offsets and lengths are those of the
strings and instructions so far (`Compiled`); a written file is that of the
program (`Filed`); the two readers have the table as it was, and exactly the first
n instructions, where n is given by the position (`Reading`, `Loading`).
A reader is right because of what stands where it reads: `Holds(s, p, t)` says
that the sequence s holds t behind its first p elements, and the whole file is
known by the places of its numbers, strings and instructions (`FileLayout`). From
there the proof is about one number, string or instruction at a time: it is read
back as it was written (`ReadShort`, `ReadInt`, `ReadSigned`, `ReadOperand`,
`ReadInstruction`), and the next one begins where it ends. An integer literal
comes back modulo 2^32, and is written again as the same bytes, so bundling copies
it. A file that was bundled with characters outside ASCII is only known to consist
of bytes: `readString` may have made other strings of them.
The bytes come from `FlattenSeq` and from folds over operands, whose definitions
are recursive functions inside `LET`: that the recursive equation has a solution,
and only one, is proved by induction over sets of numbers and sequences
(`NumberInduction`, `SequenceInduction` in `SequenceLemmas`), as are the laws of
concatenation that the rest relies on.

**Left to TLC**, and why:

- `Terminates`, `SearchEnds`, `SuiteEnds`: liveness under fairness.
- That compiled code is `Consistent`, and `OutputMatches`: the compiler is
  recursive, and the expected output is that of given programs.
- `RejectsErasedPaths`: it is about what a recursive function computes with xor on
  given bytes, and `Bitwise` can be reached by no module with a theorem.

## 5. Not modelled

- **bdwgc** (`atomix/bdwgc`, some 45,000 of the repository's 50,000 lines of C and
  TypeScript) is a vendored library. The model takes from it that reachable
  memory is not reused. The program's own code is about 6,000 lines; most of it
  is mapped in `PROJECT.json`.
- **Parser front end, command line, engine builder, dumper**: they call
  `@babel/parser` and the C compiler, or print. No state of their own.
- **Refused syntax**: the node types for which `pipe.ts` and `transform.ts` throw,
  and dynamic keys in classes.
- **Allocation failure** (`PANIC("Could not allocate memory")`), file errors, files
  that neither tool wrote, and other versions of the format.
- **Rounding and negative zero** of doubles.

## 6. Plan

Modelled so far, in this order: the operators, the interpreter with its natives,
the compiler that feeds it, the stack discipline; lookup and bundles; the
abstract module system; hash tables; sections of a module file; the module hash; the test
harness.
Proved so far: the stack discipline, the activations and the scopes of the machine, its
refinement of the module system, the search, bundles, the hash table and its refinement,
the harness, the operators, and the sections of a module file.
What is left is beyond the provers (see "Left to TLC") or waits for the code: once
the loader reads a second module, `Loading` has to speak of all modules of the
bundle, and `EntryIsFound` of a search among several.
