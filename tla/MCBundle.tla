------------------------------ MODULE MCBundle ------------------------------
(* Bundles of one and two modules, and plain modules, with paths of up to   *)
(* three names and hashes of two halves of two bits.                        *)
EXTENDS ModuleHash

MCHashes == 0..(HALF * HALF - 1)
MCPrefix == <<3>>
Names == {2, 4, 5}
Paths == UNION {[1..n -> Names] : n \in 1..3}
Module(path) == [path |-> path, size |-> 1]
\* No name is that of a file and of a directory.
Together == {pair \in Paths \X Paths :
               \A i \in 1..2 : ~IsStrictPrefix(pair[i], pair[3 - i])}
MCInputs ==
  [files : {<<[path |-> p, size |-> s]>> : p \in Paths, s \in {1, 2}},
   entry : {1}, bundled : BOOLEAN]
  \cup [files : {<<Module(p), Module(q)>> : <<p, q>> \in Together}, entry : {2}, bundled : {TRUE}]
  \cup [files : {<<Module(<<5>>)>>, <<Module(<<2>>), Module(<<5>>)>>}, entry : {0}, bundled : {TRUE}]
MCSources ==
  [from : {".", ".."}, path : {p \in Paths : Len(p) < 3}]
  \cup [from : {"bare"}, path : {MCPrefix \o p : p \in Paths}]

=============================================================================
