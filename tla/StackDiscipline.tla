-------------------------- MODULE StackDiscipline --------------------------
(***************************************************************************)
(* Why the operand stack never underflows. The VM does not verify bytecode *)
(* and its checks are incomplete (JMP_F, JMP_T and CALL take operands      *)
(* without comparing the counter first), so this rests on what the         *)
(* compiler emits: code that is Consistent with an annotation.             *)
(***************************************************************************)
EXTENDS VM

CONSTANTS Depth, Limit   \* Depth[m] and Limit[m] annotate Code[m]

ASSUME VerifiedCode ==
  \A m \in Modules : Consistent(Code[m], Depth[m], Limit[m])

\* Code of module m may run at i, in function f, with d operands of its own.
Ready(m, i, f, d) == Fits(Depth[m], Limit[m], i, EndOf(m, f), d)

\* Every function is a range of instructions that starts with no operands.
FunctionsOK ==
  \A f \in FuncIds :
    funcs[f].native = "script" =>
      /\ f <= used.funcs
      /\ funcs[f].module # NULL
      /\ funcs[f].last <= Len(Code[funcs[f].module])
      /\ Ready(funcs[f].module, funcs[f].first, f, 0)

\* Code of module m may run as the body of f.
IsRunnable(m, f) ==
  f # NULL => funcs[f].native = "script" /\ funcs[f].module = m

RegistersOK ==
  /\ IsRunnable(module, fn)
  /\ frames = <<>> => fn = NULL
  /\ mode = "run" =>
       /\ start <= counter
       /\ Ready(module, ic, fn, counter - start)
  /\ mode = "native" =>
       /\ start + pending.n + 1 <= counter
       /\ Ready(module, ic, fn, counter - start - pending.n)

\* A frame holds the operands its CALL will take off, above its own start.
FrameOK(fr) ==
  LET c == fr.counter - fr.argc
  IN  /\ IsRunnable(fr.module, fr.fn)
      /\ fr.argc \in Nat
      /\ fr.start + fr.n + 1 <= c
      /\ Ready(fr.module, fr.ic, fr.fn, c - fr.start - fr.n)

FramesOK ==
  /\ \A i \in DOMAIN frames : FrameOK(frames[i])
  /\ frames # <<>> => frames[1].fn = NULL

\* The operand stack is never read or cut below its first slot, whether the
\* instruction checks (PANIC "Stack underflow") or not.
NoUnderflow == mode \notin {"Stack underflow", "stack underrun"}

\* At every step the operands on the stack are at least those the compiler
\* counts on, for the running body and for each call that waits: the inductive
\* invariant behind NoUnderflow. (Every handler of execution.c, and the registers
\* that calls save and restore.)
IInv == TypeOK /\ FunctionsOK /\ RegistersOK /\ FramesOK /\ NoUnderflow

=============================================================================
