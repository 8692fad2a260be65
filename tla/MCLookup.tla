------------------------------ MODULE MCLookup ------------------------------
(* Every sorted bundle of at most four of six hashes.                       *)
EXTENDS Lookup, SequencesExt

MCHashes == 0..5
Ordered(S) == SetToSortSeq(S, LAMBDA a, b : a < b)
MCBundles == {Ordered(S) : S \in {S \in SUBSET MCHashes : Cardinality(S) \in 1..4}}

=============================================================================
