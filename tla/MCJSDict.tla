------------------------------ MODULE MCJSDict ------------------------------
(* Two strings share bucket 0 with two symbols, so that chains of four      *)
(* entries arise and an entry can be first, second, in the middle or last;  *)
(* a third string has a bucket of its own.                                  *)
EXTENDS JSDict, TLC

CONSTANTS k1, k2, k3, s1, s2

MCKeys == {k1, k2, k3}
MCSymbols == {s1, s2}
MCHash == k1 :> 0 @@ k2 :> 0 @@ k3 :> 1

=============================================================================
