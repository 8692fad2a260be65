---------------------------- MODULE ModuleSystem ----------------------------
(***************************************************************************)
(* What the machine promises the modules of a bundle, without registers,   *)
(* stacks or instructions: calls and imports nest, and an import runs the  *)
(* body of a module unless the module was imported before.                 *)
(*                                                                         *)
(* running holds the activities that have begun and not ended, the         *)
(* innermost last: a module stands for its body, NULL for the call of a    *)
(* function. The first is the body main executes; it does not count as     *)
(* imported, so a cycle of imports that leads back to it runs it again.    *)
(***************************************************************************)
EXTENDS Naturals, Sequences

CONSTANTS Modules, Entries, NULL

VARIABLES running, imported

moduleVars == <<running, imported>>

Init ==
  /\ \E entry \in Entries : running = <<entry>>
  /\ imported = {}

Active == running # <<>>

\* A function is called, by an instruction or by a native function.
Call ==
  /\ Active
  /\ running' = Append(running, NULL)
  /\ UNCHANGED imported

\* The body of m begins. The importer, whatever it is, waits for its end.
Import(m) ==
  /\ Active
  /\ m \notin imported
  /\ running' = Append(running, m)
  /\ imported' = imported \cup {m}

\* The innermost activity ends, and the one around it goes on.
End ==
  /\ Active
  /\ running' = SubSeq(running, 1, Len(running) - 1)
  /\ UNCHANGED imported

\* A panic or a fault ends the process.
Die ==
  /\ Active
  /\ running' = <<>>
  /\ UNCHANGED imported

Next == Call \/ (\E m \in Modules : Import(m)) \/ End \/ Die

Spec == Init /\ [][Next]_moduleVars

=============================================================================
