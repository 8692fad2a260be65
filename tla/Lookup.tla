------------------------------- MODULE Lookup -------------------------------
(***************************************************************************)
(* bundle_get_module (core/format.c): the binary search for a module by    *)
(* its hash. The bounds are uint16_t and the upper one starts behind the   *)
(* last module, so that a search may leave the array.                      *)
(***************************************************************************)
EXTENDS Integers, Sequences

CONSTANTS
  COUNT,   \* number of values of uint16_t
  Hashes,  \* the hashes of modules
  Bundles  \* arrays of modules, each as the sequence of the hashes

ASSUME LookupAssumption ==
  /\ COUNT \in Nat \ {0}
  /\ Hashes \subseteq Nat
  /\ Bundles \subseteq {b \in Seq(Hashes) : Len(b) < COUNT}

VARIABLES
  modules,    \* bundle->modules[i].header.hash, from i = 1
  hash,       \* what is looked for
  low, high,  \* the bounds of the search
  found,      \* the index of the module that was found
  answer      \* "searching", "found", "absent" (the panic) or "overrun"

search == <<hash, low, high, found, answer>>
vars == <<modules, search>>

\* The start of a search for h among the modules of b.
Searching(b, h) ==
  /\ hash = h
  /\ low = 0
  /\ high = Len(b)
  /\ found = 0
  /\ answer = "searching"

Init ==
  /\ modules \in Bundles
  /\ \E h \in Hashes : Searching(modules, h)

mid == low + (high - low) \div 2

\* Mutant: the module above the middle is left out with the lower half.
AboveLoose == (mid + 2) % COUNT
\* Mutant: the middle stays in the upper half.
AboveStuck == mid
\* Mutant: the module below the middle is left out with the upper half.
BelowLoose == (mid - 2) % COUNT
\* Mutant: the bounds are signed.
BelowSigned == mid - 1

\* The bounds after modules[mid]; high wraps around below 0.
Above == (mid + 1) % COUNT
Below == (mid - 1) % COUNT

\* One turn of the loop. Behind the last module lies memory of somebody else.
Probe ==
  /\ answer = "searching"
  /\ low <= high
  /\ \/ /\ mid >= Len(modules)
        /\ answer' = "overrun"
        /\ UNCHANGED <<low, high, found>>
     \/ /\ mid < Len(modules)
        /\ modules[mid + 1] = hash
        /\ answer' = "found"
        /\ found' = mid + 1
        /\ UNCHANGED <<low, high>>
     \/ /\ mid < Len(modules)
        /\ modules[mid + 1] < hash
        /\ low' = Above
        /\ UNCHANGED <<high, found, answer>>
     \/ /\ mid < Len(modules)
        /\ modules[mid + 1] > hash
        /\ high' = Below
        /\ UNCHANGED <<low, found, answer>>
  /\ UNCHANGED <<modules, hash>>

\* No native module is registered by anyone: PANIC.
GiveUp ==
  /\ answer = "searching"
  /\ low > high
  /\ answer' = "absent"
  /\ UNCHANGED <<modules, hash, low, high, found>>

bundle_get_module == Probe \/ GiveUp

Done == answer # "searching" /\ UNCHANGED vars

Next == bundle_get_module \/ Done

Spec == Init /\ [][Next]_vars
FairSpec == Spec /\ WF_vars(bundle_get_module)

-----------------------------------------------------------------------------

TypeOK ==
  /\ modules \in Bundles
  /\ hash \in Hashes
  /\ low \in 0..(COUNT - 1)
  /\ high \in 0..(COUNT - 1)
  /\ found \in 0..Len(modules)
  /\ answer \in {"searching", "found", "absent", "overrun"}

Sorted(b) == \A i, j \in 1..Len(b) : i < j => b[i] < b[j]
IsPresent == \E i \in 1..Len(modules) : modules[i] = hash

\* A module that is in a sorted bundle is found, and it is the one asked for;
\* the search for it never leaves the array. (The loop of bundle_get_module.)
PresentIsFound ==
  Sorted(modules) =>
    /\ IsPresent => answer \in {"searching", "found"}
    /\ answer = "found" => found > 0 /\ modules[found] = hash

\* While the search goes on, a module that is present lies between the bounds:
\* the inductive invariant behind PresentIsFound.
Between ==
  /\ answer = "found" => found > 0 /\ modules[found] = hash
  /\ \A p \in 1..Len(modules) :
       Sorted(modules) /\ modules[p] = hash =>
         /\ answer \in {"searching", "found"}
         /\ answer = "searching" => low + 1 <= p /\ p <= high + 1 /\ high <= Len(modules)

IsSmall == Len(modules) <= (COUNT - 1) \div 2

\* The search comes to an end in a bundle of fewer than COUNT / 2 modules: the
\* bounds move towards each other, or the search leaves the array. (In a larger
\* one the search for a hash below the first goes round for ever: high wraps
\* around to COUNT - 1, whose half is inside the array again.)
SearchEnds == (answer = "searching" /\ IsSmall) ~> (answer # "searching")

\* format.c: PANIC("Could not find module in bundle") is how a search for a
\* module that is not there ends. (The loop reads modules[moduleCount], or
\* wraps high around, before it gets there.)
AbsentPanics == ~IsPresent => answer # "overrun"

=============================================================================
