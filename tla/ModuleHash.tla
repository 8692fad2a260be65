----------------------------- MODULE ModuleHash -----------------------------
(***************************************************************************)
(* The hash of a module (hash.ts): hashString runs over a signature byte   *)
(* by byte, in a word of two halves. It is the Hash of Bundle; which paths *)
(* it confuses shows in the files that atomixc bundle refuses.             *)
(***************************************************************************)
EXTENDS Bundle, Bitwise

CONSTANTS FNV_OFFSET_BASIS, FNV_PRIME

ASSUME WordAssumption ==
  /\ \E k \in 1..HALF : HALF = 2^k
  /\ {FNV_OFFSET_BASIS, FNV_PRIME} \subseteq {h \in Hashes : h % 2 = 1}

Halves(h) == <<h % HALF, h \div HALF>>

\* Mutant: FNV-1a as it is defined.
hashStringFNV1a(signature) ==
  Halves(FoldLeft(LAMBDA h, b : ((h ^^ b) * FNV_PRIME) % (HALF * HALF),
                  FNV_OFFSET_BASIS, signature))

hashString(signature) ==
  Halves(FoldLeft(LAMBDA h, b : ((h * b) ^^ FNV_PRIME) % (HALF * HALF),
                  FNV_OFFSET_BASIS, signature))

-----------------------------------------------------------------------------

\* Two paths share an end; Gap is how far apart the hashes of what is in front of
\* it are. Each step of hashString multiplies by a byte, so that the factors of
\* two among the bytes of the end push the gap out of the word.
TwosIn(n) == Max({k \in 0..HALF : 2^k <= HALF * HALF /\ n % 2^k = 0})
CommonEnd(s, t) ==
  Max({n \in 0..Min({Len(s), Len(t)}) :
         SubSeq(s, Len(s) - n + 1, Len(s)) = SubSeq(t, Len(t) - n + 1, Len(t))})
Beginning(s, n) == SubSeq(s, 1, Len(s) - n)
Gap(s, t) ==
  LET n == CommonEnd(s, t)
      d == Written(hashString(Beginning(s, n))) - Written(hashString(Beginning(t, n)))
  IN  IF d < 0 THEN -d ELSE d
Erased(s, t) ==
  LET n == CommonEnd(s, t)
      End == SubSeq(s, Len(s) - n + 1, Len(s))
      Push == FoldLeft(LAMBDA k, b : k + TwosIn(b), 0, End)
  IN  Gap(s, t) # 0 /\ 2^(TwosIn(Gap(s, t)) + Push) >= HALF * HALF

\* Of files whose paths have different hashes up to the end they share, atomixc
\* bundle refuses two exactly when that end has erased the difference. (Paths that
\* collide in front of it, by accident or because they are one path, are left
\* aside. hashString against the check of bin/bundle.ts; in the 64-bit hash some
\* sixty-four factors of two in the shared end suffice, and every two files with
\* that end then have one hash.)
RejectsErasedPaths ==
  LET Signature(i) == PREFIX \o input.files[i].path
      pairs == {<<i, j>> \in (DOMAIN input.files) \X (DOMAIN input.files) : i < j}
  IN  mode # "bundling" /\ (\A p \in pairs : Gap(Signature(p[1]), Signature(p[2])) # 0) =>
        (mode = "rejected" <=> \E p \in pairs : Erased(Signature(p[1]), Signature(p[2])))

=============================================================================
