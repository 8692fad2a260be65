----------------------------- MODULE DictProofs -----------------------------
(***************************************************************************)
(* The hash table of dict.c implements a map, for any number of buckets,   *)
(* any hash and chains of any length. Every operation rewrites one chain;  *)
(* the argument is about the entries a chain holds, before and after.      *)
(***************************************************************************)
EXTENDS JSDict, SequenceTheorems, TLAPS

\* An entry of a chain: a string or a symbol, not both and not neither.
Entry == {e \in JSProperty : e.key = NULL <=> e.symbol # NULL}

\* chain may hang off bucket b: its entries belong there, one for each name.
GoodChain(b, chain) ==
  /\ chain \in Seq(Entry)
  /\ \A i \in 1..Len(chain) : BucketOf(NameOf(chain[i])) = b
  /\ \A i, j \in 1..Len(chain) : NameOf(chain[i]) = NameOf(chain[j]) => i = j

\* The inductive invariant behind OneEntryPerName and ImplementsMap.
DictInv ==
  /\ buckets \in [Buckets -> Seq(Entry)]
  /\ \A b \in Buckets : GoodChain(b, buckets[b])
  /\ result \in Values \cup BOOLEAN \cup {Absent}
  /\ up \in BOOLEAN

-----------------------------------------------------------------------------
(* Chains.                                                                 *)

\* What a lookup of n finds along a chain.
Hit(chain, n) == \E i \in DOMAIN chain : Matches(chain[i], n)
First(chain, n) ==
  CHOOSE i \in DOMAIN chain :
    Matches(chain[i], n) /\ \A j \in 1..(i - 1) : ~Matches(chain[j], n)
Find(chain, n) == IF Hit(chain, n) THEN chain[First(chain, n)].value ELSE Absent

LEMMA MatchIsName ==
  ASSUME NEW e \in Entry, NEW n \in Names
  PROVE  Matches(e, n) <=> NameOf(e) = n
BY DictAssumption DEF Entry, JSProperty, Names, Matches, NameOf

LEMMA EntryFields ==
  ASSUME NEW e \in Entry
  PROVE  e.value \in Values /\ e \in JSProperty /\ NameOf(e) \in Names
BY DEF Entry, JSProperty, NameOf, Names

LEMMA BucketType ==
  ASSUME NEW n \in Names
  PROVE  BucketOf(n) \in Buckets
BY DictAssumption DEF BucketOf, Buckets, Names

LEMMA ChainEntries ==
  ASSUME NEW b, NEW chain, GoodChain(b, chain)
  PROVE  /\ Len(chain) \in Nat /\ DOMAIN chain = 1..Len(chain)
         /\ \A i \in 1..Len(chain) : chain[i] \in Entry
BY DEF GoodChain

\* In a good chain the first entry for a name is the only one.
LEMMA FindEntry ==
  ASSUME NEW b, NEW chain, GoodChain(b, chain), NEW n \in Names,
         NEW i \in 1..Len(chain), NameOf(chain[i]) = n
  PROVE  Hit(chain, n) /\ First(chain, n) = i /\ Find(chain, n) = chain[i].value
<1>1. /\ Len(chain) \in Nat /\ DOMAIN chain = 1..Len(chain)
      /\ \A j \in 1..Len(chain) : chain[j] \in Entry
  BY ChainEntries
<1>2. \A j \in 1..Len(chain) : Matches(chain[j], n) <=> j = i
  <2> SUFFICES ASSUME NEW j \in 1..Len(chain) PROVE Matches(chain[j], n) <=> j = i
    OBVIOUS
  <2>1. Matches(chain[j], n) <=> NameOf(chain[j]) = n
    BY <1>1, MatchIsName
  <2> QED
    BY <2>1 DEF GoodChain
<1>3. \A j \in 1..(i - 1) : ~Matches(chain[j], n)
  BY <1>1, <1>2
<1>4. First(chain, n) = i
  <2> DEFINE IsFirst(k) == /\ Matches(chain[k], n)
                           /\ \A j \in 1..(k - 1) : ~Matches(chain[j], n)
  <2>1. \A k \in DOMAIN chain : IsFirst(k) <=> k = i
    BY <1>1, <1>2, <1>3
  <2>2. First(chain, n) = CHOOSE k \in DOMAIN chain : IsFirst(k)
    BY DEF First
  <2> HIDE DEF IsFirst
  <2> QED
    BY <1>1, <2>1, <2>2
<1> QED
  BY <1>1, <1>2, <1>4 DEF Hit, Find

LEMMA FindNothing ==
  ASSUME NEW b, NEW chain, GoodChain(b, chain), NEW n \in Names,
         \A i \in 1..Len(chain) : NameOf(chain[i]) # n
  PROVE  ~Hit(chain, n) /\ Find(chain, n) = Absent
<1>1. /\ DOMAIN chain = 1..Len(chain)
      /\ \A j \in 1..Len(chain) : chain[j] \in Entry
  BY ChainEntries
<1>2. \A j \in 1..Len(chain) : ~Matches(chain[j], n)
  BY <1>1, MatchIsName
<1> QED
  BY <1>1, <1>2 DEF Hit, Find

\* Two good chains that hold the same entries for a name answer the same.
LEMMA FindSame ==
  ASSUME NEW b, NEW chain, GoodChain(b, chain), NEW other, GoodChain(b, other),
         NEW n \in Names,
         \A i \in 1..Len(chain) : NameOf(chain[i]) = n =>
           \E j \in 1..Len(other) : other[j] = chain[i],
         \A j \in 1..Len(other) : NameOf(other[j]) = n =>
           \E i \in 1..Len(chain) : chain[i] = other[j]
  PROVE  Find(other, n) = Find(chain, n)
<1>1. CASE \E i \in 1..Len(chain) : NameOf(chain[i]) = n
  <2>1. PICK i \in 1..Len(chain) : NameOf(chain[i]) = n
    BY <1>1
  <2>2. PICK j \in 1..Len(other) : other[j] = chain[i]
    BY <2>1
  <2> QED
    BY <2>1, <2>2, FindEntry
<1>2. CASE \A i \in 1..Len(chain) : NameOf(chain[i]) # n
  <2>1. \A j \in 1..Len(other) : NameOf(other[j]) # n
    BY <1>2
  <2> QED
    BY <1>2, <2>1, FindNothing
<1> QED
  BY <1>1, <1>2

LEMMA HitIsEntry ==
  ASSUME NEW b, NEW chain, GoodChain(b, chain), NEW n \in Names
  PROVE  /\ Hit(chain, n) <=> \E i \in 1..Len(chain) : NameOf(chain[i]) = n
         /\ Hit(chain, n) <=> Find(chain, n) # Absent
         /\ Hit(chain, n) => /\ First(chain, n) \in 1..Len(chain)
                             /\ NameOf(chain[First(chain, n)]) = n
         /\ Find(chain, n) \in Values \cup {Absent}
<1>1. CASE \E i \in 1..Len(chain) : NameOf(chain[i]) = n
  <2>1. PICK i \in 1..Len(chain) : NameOf(chain[i]) = n
    BY <1>1
  <2>2. chain[i].value \in Values
    BY ChainEntries, EntryFields
  <2> QED
    BY <2>1, <2>2, FindEntry, DictAssumption
<1>2. CASE \A i \in 1..Len(chain) : NameOf(chain[i]) # n
  BY <1>2, FindNothing
<1> QED
  BY <1>1, <1>2

-----------------------------------------------------------------------------
(* The three ways an operation rewrites a chain.                           *)

\* The value of one entry is overwritten.
WithValue(chain, p, v) == [chain EXCEPT ![p].value = v]

LEMMA OverwriteChain ==
  ASSUME NEW b, NEW chain, GoodChain(b, chain), NEW n \in Names, Hit(chain, n),
         NEW v \in Values
  PROVE  LET new == WithValue(chain, First(chain, n), v)
         IN  /\ GoodChain(b, new)
             /\ Find(new, n) = v
             /\ \A m \in Names \ {n} : Find(new, m) = Find(chain, m)
<1> DEFINE new == WithValue(chain, First(chain, n), v)
<1>1. PICK p : p = First(chain, n)
  OBVIOUS
<1>2. p \in 1..Len(chain) /\ NameOf(chain[p]) = n /\ new = [chain EXCEPT ![p].value = v]
  BY <1>1, HitIsEntry DEF WithValue
<1>3. chain \in Seq(Entry) /\ Len(chain) \in Nat /\ \A i \in 1..Len(chain) : chain[i] \in Entry
  BY ChainEntries DEF GoodChain
<1>4. PICK e : e = [chain[p] EXCEPT !.value = v]
  OBVIOUS
<1>5. e \in Entry /\ NameOf(e) = n /\ e.value = v
  BY <1>2, <1>3, <1>4 DEF Entry, JSProperty, NameOf
<1>6. /\ new \in Seq(Entry) /\ Len(new) = Len(chain) /\ new[p] = e
      /\ \A i \in 1..Len(chain) : i # p => new[i] = chain[i]
  <2>1. new = [chain EXCEPT ![p] = e]
    BY <1>2, <1>4
  <2> HIDE DEF new
  <2>2. /\ new \in Seq(Entry) /\ Len(new) = Len(chain)
        /\ \A i \in 1..Len(chain) : new[i] = IF i = p THEN e ELSE chain[i]
    BY <1>2, <1>3, <1>5, <2>1, ExceptSeq
  <2> QED
    BY <1>2, <2>2
<1> HIDE DEF new
<1>7. \A i \in 1..Len(chain) : NameOf(new[i]) = NameOf(chain[i])
  BY <1>2, <1>5, <1>6
<1>8. GoodChain(b, new)
  BY <1>6, <1>7 DEF GoodChain
<1>9. Find(new, n) = v
  <2>1. PICK k \in 1..Len(new) : new[k] = e
    BY <1>2, <1>6
  <2> QED
    BY <1>5, <1>8, <2>1, FindEntry
<1>10. ASSUME NEW m \in Names \ {n} PROVE Find(new, m) = Find(chain, m)
  <2>1. \A i \in 1..Len(chain) :
          NameOf(chain[i]) = m \/ NameOf(new[i]) = m => new[i] = chain[i]
    BY <1>2, <1>6, <1>7
  <2>2. /\ \A i \in 1..Len(chain) : NameOf(chain[i]) = m =>
             \E j \in 1..Len(new) : new[j] = chain[i]
        /\ \A j \in 1..Len(new) : NameOf(new[j]) = m =>
             \E i \in 1..Len(chain) : chain[i] = new[j]
    BY <1>6, <2>1
  <2>3. m \in Names
    OBVIOUS
  <2> QED
    BY <1>8, <2>2, <2>3, FindSame
<1> QED
  BY <1>8, <1>9, <1>10 DEF new

\* A new head, for a name that is not in the chain.
LEMMA AddChain ==
  ASSUME NEW n \in Names, NEW chain, GoodChain(BucketOf(n), chain), ~Hit(chain, n),
         NEW v \in Values
  PROVE  LET new == <<NewEntry(n, v)>> \o chain
         IN  /\ GoodChain(BucketOf(n), new)
             /\ Find(new, n) = v
             /\ \A m \in Names \ {n} : Find(new, m) = Find(chain, m)
<1> DEFINE new == <<NewEntry(n, v)>> \o chain
<1>1. PICK e : e = NewEntry(n, v)
  OBVIOUS
<1>2. e \in Entry /\ NameOf(e) = n /\ e.value = v
  BY <1>1, DictAssumption DEF NewEntry, Entry, JSProperty, NameOf, Names
<1>3. chain \in Seq(Entry) /\ Len(chain) \in Nat
  BY ChainEntries DEF GoodChain
<1>4. /\ new \in Seq(Entry) /\ Len(new) = Len(chain) + 1 /\ new[1] = e
      /\ \A i \in 1..Len(chain) : new[i + 1] = chain[i]
  <2>1. <<e>> \in Seq(Entry) /\ Len(<<e>>) = 1 /\ <<e>>[1] = e
    BY <1>2
  <2>2. /\ new \in Seq(Entry) /\ Len(new) = 1 + Len(chain)
        /\ \A i \in 1..(1 + Len(chain)) : new[i] = IF i <= 1 THEN <<e>>[i] ELSE chain[i - 1]
    BY <1>1, <1>3, <2>1, ConcatProperties
  <2>3. ASSUME NEW i \in 1..Len(chain) PROVE new[i + 1] = chain[i]
    <3>1. i + 1 \in 1..(1 + Len(chain)) /\ ~(i + 1 <= 1) /\ (i + 1) - 1 = i
      BY <1>3
    <3> QED
      BY <2>2, <3>1
  <2>4. new[1] = e
    BY <1>3, <2>1, <2>2
  <2> QED
    BY <1>3, <2>2, <2>3, <2>4
<1> HIDE DEF new
<1>5. \A k \in 1..Len(new) : k = 1 \/ \E i \in 1..Len(chain) : k = i + 1
  <2> SUFFICES ASSUME NEW k \in 1..Len(new), k # 1 PROVE \E i \in 1..Len(chain) : k = i + 1
    OBVIOUS
  <2>1. k - 1 \in 1..Len(chain) /\ k = (k - 1) + 1
    BY <1>3, <1>4
  <2> QED
    BY <2>1
<1>6. \A i \in 1..Len(chain) : NameOf(chain[i]) # n /\ BucketOf(NameOf(chain[i])) = BucketOf(n)
  BY HitIsEntry DEF GoodChain
<1>7. GoodChain(BucketOf(n), new)
  <2>1. \A k \in 1..Len(new) : BucketOf(NameOf(new[k])) = BucketOf(n)
    BY <1>2, <1>4, <1>5, <1>6
  <2>2. ASSUME NEW k \in 1..Len(new), NEW l \in 1..Len(new), NameOf(new[k]) = NameOf(new[l])
        PROVE  k = l
    <3>1. CASE k = 1 \/ l = 1
      BY <1>2, <1>4, <1>5, <1>6, <2>2, <3>1
    <3>2. CASE k # 1 /\ l # 1
      <4>1. PICK i \in 1..Len(chain) : k = i + 1
        BY <1>5, <3>2
      <4>2. PICK j \in 1..Len(chain) : l = j + 1
        BY <1>5, <3>2
      <4>3. NameOf(chain[i]) = NameOf(chain[j])
        BY <1>4, <2>2, <4>1, <4>2
      <4> QED
        BY <4>1, <4>2, <4>3 DEF GoodChain
    <3> QED
      BY <3>1, <3>2
  <2> QED
    BY <1>4, <2>1, <2>2 DEF GoodChain
<1>8. 1 \in 1..Len(new) /\ \A i \in 1..Len(chain) : i + 1 \in 1..Len(new)
  BY <1>3, <1>4
<1>9. Find(new, n) = v
  <2>1. PICK k \in 1..Len(new) : new[k] = e
    BY <1>4, <1>8
  <2> QED
    BY <1>2, <1>7, <2>1, FindEntry
<1>10. ASSUME NEW m \in Names \ {n} PROVE Find(new, m) = Find(chain, m)
  <2>1. \A i \in 1..Len(chain) : \E k \in 1..Len(new) : new[k] = chain[i]
    BY <1>4, <1>8
  <2>2. \A k \in 1..Len(new) : NameOf(new[k]) = m => \E i \in 1..Len(chain) : chain[i] = new[k]
    BY <1>2, <1>4, <1>5
  <2>3. m \in Names
    OBVIOUS
  <2> QED
    BY <1>7, <2>1, <2>2, <2>3, FindSame
<1> QED
  BY <1>7, <1>9, <1>10 DEF new

\* The entry p is unlinked: those before it stay, those behind it move up.
LEMMA WithoutEntry ==
  ASSUME NEW S, NEW chain \in Seq(S), NEW p \in 1..Len(chain)
  PROVE  /\ Without(chain, p) \in Seq(S)
         /\ Len(Without(chain, p)) = Len(chain) - 1
         /\ \A k \in 1..(Len(chain) - 1) :
              Without(chain, p)[k] = IF k < p THEN chain[k] ELSE chain[k + 1]
<1> DEFINE left == SubSeq(chain, 1, p - 1)
           right == SubSeq(chain, p + 1, Len(chain))
<1>1. Len(chain) \in Nat /\ p \in Nat /\ \A i \in 1..Len(chain) : chain[i] \in S
  OBVIOUS
<1>2. /\ left \in Seq(S) /\ Len(left) = p - 1
      /\ \A k \in 1..(p - 1) : left[k] = chain[k]
  <2>1. \A i \in 1..(p - 1) : chain[i] \in S
    BY <1>1
  <2>2. /\ left \in Seq(S)
        /\ Len(left) = IF 1 <= p - 1 THEN (p - 1) - 1 + 1 ELSE 0
        /\ \A k \in 1..((p - 1) - 1 + 1) : left[k] = chain[1 + k - 1]
    BY <1>1, <2>1, SubSeqProperties
  <2> HIDE DEF left
  <2>3. \A k \in 1..(p - 1) : k \in 1..((p - 1) - 1 + 1) /\ 1 + k - 1 = k
    BY <1>1
  <2> QED
    BY <1>1, <2>2, <2>3
<1>3. /\ right \in Seq(S) /\ Len(right) = Len(chain) - p
      /\ \A k \in 1..(Len(chain) - p) : right[k] = chain[p + k]
  <2>1. \A i \in (p + 1)..Len(chain) : chain[i] \in S
    BY <1>1
  <2>2. /\ right \in Seq(S)
        /\ Len(right) = IF p + 1 <= Len(chain) THEN Len(chain) - (p + 1) + 1 ELSE 0
        /\ \A k \in 1..(Len(chain) - (p + 1) + 1) : right[k] = chain[(p + 1) + k - 1]
    BY <1>1, <2>1, SubSeqProperties
  <2> HIDE DEF right
  <2>3. \A k \in 1..(Len(chain) - p) :
          k \in 1..(Len(chain) - (p + 1) + 1) /\ (p + 1) + k - 1 = p + k
    BY <1>1
  <2> QED
    BY <1>1, <2>2, <2>3
<1> HIDE DEF left, right
<1>4. /\ left \o right \in Seq(S)
      /\ Len(left \o right) = (p - 1) + (Len(chain) - p)
      /\ \A k \in 1..((p - 1) + (Len(chain) - p)) :
           (left \o right)[k] = IF k <= p - 1 THEN left[k] ELSE right[k - (p - 1)]
  <2>1. /\ left \o right \in Seq(S)
        /\ Len(left \o right) = Len(left) + Len(right)
        /\ \A k \in 1..(Len(left) + Len(right)) :
             (left \o right)[k] = IF k <= Len(left) THEN left[k] ELSE right[k - Len(left)]
    BY <1>2, <1>3, ConcatProperties
  <2> QED
    BY <1>2, <1>3, <2>1
<1>5. ASSUME NEW k \in 1..(Len(chain) - 1)
      PROVE  (left \o right)[k] = IF k < p THEN chain[k] ELSE chain[k + 1]
  <2>1. k \in 1..((p - 1) + (Len(chain) - p))
    BY <1>1
  <2>2. CASE k < p
    <3>1. k <= p - 1 /\ k \in 1..(p - 1)
      BY <1>1, <2>2
    <3> QED
      BY <1>2, <1>4, <2>1, <2>2, <3>1
  <2>3. CASE ~(k < p)
    <3>1. ~(k <= p - 1) /\ k - (p - 1) \in 1..(Len(chain) - p) /\ p + (k - (p - 1)) = k + 1
      BY <1>1, <2>3
    <3> QED
      BY <1>3, <1>4, <2>1, <2>3, <3>1
  <2> QED
    BY <2>2, <2>3
<1>6. Without(chain, p) = left \o right
  BY DEF Without, left, right
<1> QED
  BY <1>1, <1>4, <1>5, <1>6

LEMMA DeleteChain ==
  ASSUME NEW b, NEW chain, GoodChain(b, chain), NEW n \in Names, Hit(chain, n)
  PROVE  LET new == Without(chain, First(chain, n))
         IN  /\ GoodChain(b, new)
             /\ Find(new, n) = Absent
             /\ \A m \in Names \ {n} : Find(new, m) = Find(chain, m)
<1> DEFINE new == Without(chain, First(chain, n))
<1>1. PICK p : p = First(chain, n)
  OBVIOUS
<1>2. p \in 1..Len(chain) /\ NameOf(chain[p]) = n
  BY <1>1, HitIsEntry
<1>3. chain \in Seq(Entry) /\ Len(chain) \in Nat
  BY ChainEntries DEF GoodChain
<1>4. /\ new \in Seq(Entry) /\ Len(new) = Len(chain) - 1
      /\ \A k \in 1..(Len(chain) - 1) : new[k] = IF k < p THEN chain[k] ELSE chain[k + 1]
  BY <1>1, <1>2, <1>3, WithoutEntry
<1> HIDE DEF new
\* Where the entry at k of the new chain lay.
<1> DEFINE Was(k) == IF k < p THEN k ELSE k + 1
<1>5. \A k \in 1..Len(new) :
        Was(k) \in 1..Len(chain) /\ Was(k) # p /\ new[k] = chain[Was(k)]
  BY <1>2, <1>3, <1>4
<1>6. \A k, l \in 1..Len(new) : Was(k) = Was(l) => k = l
  BY <1>2, <1>3, <1>4
<1>7. \A i \in 1..Len(chain) : i # p => \E k \in 1..Len(new) : new[k] = chain[i]
  <2> SUFFICES ASSUME NEW i \in 1..Len(chain), i # p
               PROVE  \E k \in 1..Len(new) : new[k] = chain[i]
    OBVIOUS
  <2>1. CASE i < p
    <3>1. i \in 1..(Len(chain) - 1)
      BY <1>2, <1>3, <2>1
    <3> QED
      BY <1>4, <2>1, <3>1
  <2>2. CASE ~(i < p)
    <3>1. i - 1 \in 1..(Len(chain) - 1) /\ ~(i - 1 < p) /\ (i - 1) + 1 = i
      BY <1>2, <1>3, <2>2
    <3> QED
      BY <1>4, <3>1
  <2> QED
    BY <2>1, <2>2
<1> HIDE DEF Was
<1>8. \A k \in 1..Len(new) : NameOf(new[k]) # n /\ BucketOf(NameOf(new[k])) = b
  BY <1>2, <1>5 DEF GoodChain
<1>9. GoodChain(b, new)
  <2>1. \A k, l \in 1..Len(new) : NameOf(new[k]) = NameOf(new[l]) => k = l
    BY <1>5, <1>6 DEF GoodChain
  <2> QED
    BY <1>4, <1>8, <2>1 DEF GoodChain
<1>10. Find(new, n) = Absent
  BY <1>8, <1>9, FindNothing
<1>11. ASSUME NEW m \in Names \ {n} PROVE Find(new, m) = Find(chain, m)
  <2>1. m \in Names /\ m # n
    OBVIOUS
  <2>2. \A i \in 1..Len(chain) : NameOf(chain[i]) = m => \E k \in 1..Len(new) : new[k] = chain[i]
    BY <1>2, <1>7, <2>1
  <2>3. \A k \in 1..Len(new) : NameOf(new[k]) = m => \E i \in 1..Len(chain) : chain[i] = new[k]
    BY <1>5
  <2> QED
    BY <1>9, <2>1, <2>2, <2>3, FindSame
<1> QED
  BY <1>9, <1>10, <1>11 DEF new

-----------------------------------------------------------------------------
(* The operations.                                                         *)

LEMMA LookupIsFind ==
  /\ \A n : IsIn(n) = Hit(Chain(n), n)
  /\ \A n : Position(n) = First(Chain(n), n)
  /\ \A n : dict_get(n) = Find(Chain(n), n)
  /\ \A n : dict_get(n)' = Find(buckets'[BucketOf(n)], n)
BY DEF IsIn, Hit, Position, First, dict_get, Find, Chain

LEMMA ChainOf ==
  ASSUME DictInv, NEW n \in Names
  PROVE  /\ BucketOf(n) \in Buckets /\ Chain(n) = buckets[BucketOf(n)]
         /\ GoodChain(BucketOf(n), Chain(n))
         /\ dict_get(n) \in Values \cup {Absent}
         /\ IsIn(n) \in BOOLEAN /\ (IsIn(n) <=> dict_get(n) # Absent)
<1>1. BucketOf(n) \in Buckets /\ GoodChain(BucketOf(n), Chain(n))
  BY BucketType DEF DictInv, Chain
<1>2. IsIn(n) = Hit(Chain(n), n) /\ dict_get(n) = Find(Chain(n), n)
  BY LookupIsFind
<1>3. IsIn(n) \in BOOLEAN
  BY DEF IsIn
<1> QED
  BY <1>1, <1>2, <1>3, HitIsEntry DEF Chain

\* The chain of n is rewritten so that the lookup of n answers w, and nothing
\* else changes.
Assigns(n, w) ==
  /\ buckets' \in [Buckets -> Seq(Entry)]
  /\ \A b \in Buckets : GoodChain(b, buckets'[b])
  /\ [k \in Names |-> dict_get(k)]' = [[k \in Names |-> dict_get(k)] EXCEPT ![n] = w]

LEMMA RewriteAssigns ==
  ASSUME DictInv, NEW n \in Names, NEW new, NEW w, buckets' = WithChain(n, new),
         GoodChain(BucketOf(n), new), Find(new, n) = w,
         \A m \in Names \ {n} : Find(new, m) = Find(Chain(n), m)
  PROVE  Assigns(n, w)
<1>1. BucketOf(n) \in Buckets /\ new \in Seq(Entry)
  BY BucketType DEF GoodChain
<1>2. /\ buckets' \in [Buckets -> Seq(Entry)]
      /\ \A b \in Buckets : buckets'[b] = IF b = BucketOf(n) THEN new ELSE buckets[b]
  BY <1>1 DEF DictInv, WithChain
<1>3. \A b \in Buckets : GoodChain(b, buckets'[b])
  BY <1>2 DEF DictInv
<1>4. ASSUME NEW m \in Names PROVE dict_get(m)' = IF m = n THEN w ELSE dict_get(m)
  <2>1. dict_get(m)' = Find(buckets'[BucketOf(m)], m) /\ dict_get(m) = Find(Chain(m), m)
    BY LookupIsFind
  <2>2. BucketOf(m) \in Buckets
    BY BucketType
  <2>3. CASE BucketOf(m) = BucketOf(n)
    <3>1. buckets'[BucketOf(m)] = new /\ Chain(m) = Chain(n)
      BY <1>1, <1>2, <2>3 DEF Chain
    <3> QED
      BY <2>1, <3>1
  <2>4. CASE BucketOf(m) # BucketOf(n)
    <3>1. buckets'[BucketOf(m)] = Chain(m) /\ m # n
      BY <1>2, <2>2, <2>4 DEF Chain
    <3> QED
      BY <2>1, <3>1
  <2> QED
    BY <2>3, <2>4
<1>5. [k \in Names |-> dict_get(k)]' = [[k \in Names |-> dict_get(k)] EXCEPT ![n] = w]
  BY <1>4
<1> QED
  BY <1>2, <1>3, <1>5 DEF Assigns

LEMMA OverwriteAssigns ==
  ASSUME DictInv, NEW n \in Names, NEW v \in Values, IsIn(n), buckets' = Overwritten(n, v)
  PROVE  Assigns(n, v)
<1>1. GoodChain(BucketOf(n), Chain(n)) /\ Hit(Chain(n), n) /\ Position(n) = First(Chain(n), n)
  BY ChainOf, LookupIsFind
<1> DEFINE new == WithValue(Chain(n), First(Chain(n), n), v)
<1>2. /\ GoodChain(BucketOf(n), new) /\ Find(new, n) = v
      /\ \A m \in Names \ {n} : Find(new, m) = Find(Chain(n), m)
  BY <1>1, OverwriteChain
<1>3. buckets' = WithChain(n, new)
  BY <1>1 DEF Overwritten, WithValue
<1> HIDE DEF new
<1> QED
  BY <1>2, <1>3, RewriteAssigns

LEMMA AddAssigns ==
  ASSUME DictInv, NEW n \in Names, NEW v \in Values, ~IsIn(n), buckets' = dict_add(n, v)
  PROVE  Assigns(n, v)
<1>1. GoodChain(BucketOf(n), Chain(n)) /\ ~Hit(Chain(n), n)
  BY ChainOf, LookupIsFind
<1> DEFINE new == <<NewEntry(n, v)>> \o Chain(n)
<1>2. /\ GoodChain(BucketOf(n), new) /\ Find(new, n) = v
      /\ \A m \in Names \ {n} : Find(new, m) = Find(Chain(n), m)
  BY <1>1, AddChain
<1>3. buckets' = WithChain(n, new)
  BY DEF dict_add
<1> HIDE DEF new
<1> QED
  BY <1>2, <1>3, RewriteAssigns

LEMMA UnlinkAssigns ==
  ASSUME DictInv, NEW n \in Names, IsIn(n),
         buckets' = WithChain(n, Without(Chain(n), Position(n)))
  PROVE  Assigns(n, Absent)
<1>1. GoodChain(BucketOf(n), Chain(n)) /\ Hit(Chain(n), n) /\ Position(n) = First(Chain(n), n)
  BY ChainOf, LookupIsFind
<1> DEFINE new == Without(Chain(n), First(Chain(n), n))
<1>2. /\ GoodChain(BucketOf(n), new) /\ Find(new, n) = Absent
      /\ \A m \in Names \ {n} : Find(new, m) = Find(Chain(n), m)
  BY <1>1, DeleteChain
<1>3. buckets' = WithChain(n, new)
  BY <1>1
<1> HIDE DEF new
<1> QED
  BY <1>2, <1>3, RewriteAssigns

\* What an operation on n does to the chains.
Rewrites(n) ==
  \/ UNCHANGED buckets
  \/ \E w \in Values \cup {Absent} : Assigns(n, w)

LEMMA RewriteKeepsInv ==
  ASSUME DictInv, NEW n \in Names, Rewrites(n),
         result' \in Values \cup BOOLEAN \cup {Absent}, up' \in BOOLEAN
  PROVE  DictInv'
<1>1. CASE UNCHANGED buckets
  <2>1. \A b \in Buckets : GoodChain(b, buckets'[b])
    BY <1>1 DEF DictInv
  <2>2. \A b \in Buckets : GoodChain(b, buckets[b])'
    BY <2>1 DEF GoodChain
  <2> QED
    BY <1>1, <2>2 DEF DictInv
<1>2. CASE \E w \in Values \cup {Absent} : Assigns(n, w)
  <2>1. \A b \in Buckets : GoodChain(b, buckets'[b])
    BY <1>2 DEF Assigns
  <2>2. \A b \in Buckets : GoodChain(b, buckets[b])'
    BY <2>1 DEF GoodChain
  <2> QED
    BY <1>2, <2>2 DEF DictInv, Assigns
<1> QED
  BY <1>1, <1>2 DEF Rewrites

\* An operation takes the state to the one a map would be in.
LEMMA PutSteps ==
  ASSUME DictInv, NEW n \in Names, NEW v \in Values, Put(n, v)
  PROVE  DictInv' /\ Map!Put(n, v)
<1>1. Assigns(n, v)
  BY OverwriteAssigns, AddAssigns DEF Put
<1>2. Map!Put(n, v)
  BY <1>1 DEF Put, Map!Put, Assigns
<1>3. DictInv'
  BY <1>1, RewriteKeepsInv DEF Rewrites, Put, DictInv
<1> QED
  BY <1>2, <1>3

LEMMA SameLookups ==
  ASSUME UNCHANGED buckets
  PROVE  [k \in Names |-> dict_get(k)]' = [k \in Names |-> dict_get(k)]
BY DEF dict_get, IsIn, Position, Chain

LEMMA UpdateSteps ==
  ASSUME DictInv, NEW n \in Names, NEW v \in Values, dict_update(n, v)
  PROVE  DictInv' /\ Map!Update(n, v)
<1>1. IsIn(n) \in BOOLEAN /\ (IsIn(n) <=> dict_get(n) # Absent)
  BY ChainOf
<1>2. Map!Has(n) = IsIn(n)
  BY <1>1 DEF Map!Has
<1>3. CASE IsIn(n)
  <2>1. Assigns(n, v)
    BY <1>3, OverwriteAssigns DEF dict_update
  <2>2. Map!Update(n, v)
    BY <1>2, <1>3, <2>1 DEF dict_update, Map!Update, Assigns
  <2> QED
    BY <1>1, <2>1, <2>2, RewriteKeepsInv DEF Rewrites, dict_update, DictInv
<1>4. CASE ~IsIn(n)
  <2>1. UNCHANGED buckets
    BY <1>4 DEF dict_update
  <2>2. Map!Update(n, v)
    BY <1>2, <1>4, <2>1, SameLookups DEF dict_update, Map!Update
  <2> QED
    BY <1>1, <2>1, <2>2, RewriteKeepsInv DEF Rewrites, dict_update, DictInv
<1> QED
  BY <1>3, <1>4

LEMMA GetSteps ==
  ASSUME DictInv, NEW n \in Names, Get(n)
  PROVE  DictInv' /\ Map!Get(n)
<1>1. dict_get(n) \in Values \cup {Absent}
  BY ChainOf
<1>2. Map!Get(n)
  BY SameLookups DEF Get, Map!Get
<1> QED
  BY <1>1, <1>2, RewriteKeepsInv DEF Rewrites, Get, DictInv

LEMMA DeleteSteps ==
  ASSUME DictInv, NEW n \in Names, dict_delete(n)
  PROVE  DictInv' /\ Map!Delete(n)
<1>1. IsIn(n) \in BOOLEAN /\ (IsIn(n) <=> dict_get(n) # Absent)
  BY ChainOf
<1>2. Map!Has(n) = IsIn(n)
  BY <1>1 DEF Map!Has
<1>3. CASE IsIn(n) /\ Position(n) = 2
  <2>1. UNCHANGED <<buckets, result>> /\ up' = FALSE
    BY <1>3 DEF dict_delete
  <2>2. Map!Delete(n)
    BY <1>2, <1>3, <2>1, SameLookups DEF dict_delete, Map!Delete
  <2> QED
    BY <2>1, <2>2, RewriteKeepsInv DEF Rewrites, DictInv
<1>4. CASE IsIn(n) /\ Position(n) # 2
  <2>1. Assigns(n, Absent)
    BY <1>4, UnlinkAssigns DEF dict_delete
  <2>2. Map!Delete(n)
    BY <1>2, <1>4, <2>1 DEF dict_delete, Map!Delete, Assigns
  <2> QED
    BY <1>1, <1>4, <2>1, <2>2, RewriteKeepsInv DEF Rewrites, dict_delete, DictInv
<1>5. CASE ~IsIn(n)
  <2>1. UNCHANGED <<buckets, up>> /\ result' = IsIn(n)
    BY <1>5 DEF dict_delete
  <2>2. [k \in Names |-> dict_get(k)] = [[k \in Names |-> dict_get(k)] EXCEPT ![n] = Absent]
    BY <1>1, <1>5
  <2>3. Map!Delete(n)
    BY <1>2, <2>1, <2>2, SameLookups DEF dict_delete, Map!Delete
  <2> QED
    BY <1>1, <2>1, <2>3, RewriteKeepsInv DEF Rewrites, DictInv
<1> QED
  BY <1>3, <1>4, <1>5

-----------------------------------------------------------------------------
(* The induction.                                                          *)

LEMMA InitDict == Init => DictInv /\ Map!Init
<1> SUFFICES ASSUME Init PROVE DictInv /\ Map!Init
  OBVIOUS
<1>1. /\ buckets = [b \in Buckets |-> <<>>] /\ result = Absent /\ up = TRUE
      /\ call = <<"create">>
  BY DEF Init, dict_create_dict
<1>2. \A b \in Buckets : GoodChain(b, <<>>)
  BY EmptySeq DEF GoodChain
<1>3. DictInv
  BY <1>1, <1>2 DEF DictInv, GoodChain
<1>4. ASSUME NEW n \in Names PROVE dict_get(n) = Absent
  <2>1. Chain(n) = <<>> /\ dict_get(n) = Find(Chain(n), n)
    BY <1>1, BucketType, LookupIsFind DEF Chain
  <2> QED
    BY <2>1 DEF Find, Hit
<1> QED
  BY <1>1, <1>3, <1>4 DEF Map!Init

LEMMA NextDict ==
  ASSUME DictInv, [Next]_vars
  PROVE  DictInv' /\ [Map!Next]_(Map!mapVars)
<1>1. CASE UNCHANGED vars
  <2>1. UNCHANGED <<call, buckets, result, up>>
    BY <1>1 DEF vars
  <2>2. DictInv'
    BY <2>1 DEF DictInv, GoodChain
  <2> QED
    BY <2>1, <2>2, SameLookups DEF Map!mapVars
<1>2. ASSUME NEW n \in Names, Get(n) PROVE DictInv' /\ Map!Next
  BY <1>2, GetSteps DEF Map!Next
<1>3. ASSUME NEW n \in Names, NEW v \in Values, dict_update(n, v) \/ Put(n, v)
      PROVE  DictInv' /\ Map!Next
  BY <1>3, UpdateSteps, PutSteps DEF Map!Next
<1>4. ASSUME NEW n \in Names, dict_delete(n) PROVE DictInv' /\ Map!Next
  BY <1>4, DeleteSteps DEF Map!Next
<1> QED
  BY <1>1, <1>2, <1>3, <1>4 DEF Next, Died

\* Each name has at most one entry, in the chain where lookups search for it,
\* after any sequence of operations and for any hash. (dict_add, and the lookups
\* that scope_declare and object_set_property make first.)
THEOREM NamesAreUnique == Spec => []OneEntryPerName
<1>1. DictInv => OneEntryPerName
  <2> SUFFICES ASSUME DictInv, NEW b \in Buckets, NEW c \in Buckets,
                      NEW i \in DOMAIN buckets[b], NEW j \in DOMAIN buckets[c]
               PROVE  /\ BucketOf(NameOf(buckets[b][i])) = b
                      /\ NameOf(buckets[b][i]) = NameOf(buckets[c][j]) => b = c /\ i = j
    BY DEF OneEntryPerName
  <2>1. GoodChain(b, buckets[b]) /\ GoodChain(c, buckets[c])
    BY DEF DictInv
  <2>2. i \in 1..Len(buckets[b]) /\ j \in 1..Len(buckets[c])
    BY <2>1, ChainEntries
  <2> QED
    BY <2>1, <2>2 DEF GoodChain
<1>2. Init => DictInv
  BY InitDict
<1>3. DictInv /\ [Next]_vars => DictInv'
  BY NextDict
<1> QED
  BY <1>1, <1>2, <1>3, PTL DEF Spec

\* A lookup answers with a value or finds nothing, and every chain holds entries.
THEOREM TableIsTyped == Spec => []TypeOK
<1>1. DictInv => TypeOK
  <2> SUFFICES ASSUME DictInv PROVE buckets \in [Buckets -> Seq(JSProperty)]
    BY DEF TypeOK, DictInv
  <2>1. Entry \subseteq JSProperty
    BY DEF Entry
  <2>2. \A b \in Buckets : buckets[b] \in Seq(JSProperty)
    BY <2>1, SeqMonotonic DEF DictInv
  <2> QED
    BY <2>2 DEF DictInv
<1>2. Init => DictInv
  BY InitDict
<1>3. DictInv /\ [Next]_vars => DictInv'
  BY NextDict
<1> QED
  BY <1>1, <1>2, <1>3, PTL DEF Spec

\* The hash table implements a map, whatever the hash does: each operation
\* changes what a lookup of its own name answers, and of no other. (All of dict.c,
\* with the faulty unlink of a second entry as a way for the process to die.)
THEOREM TableImplementsMap == Spec => ImplementsMap
<1>1. Init => DictInv /\ Map!Init
  BY InitDict
<1>2. DictInv /\ [Next]_vars => DictInv' /\ [Map!Next]_(Map!mapVars)
  BY NextDict
<1> QED
  BY <1>1, <1>2, PTL DEF Spec, ImplementsMap, Map!Spec

=============================================================================
