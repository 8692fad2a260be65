---------------------------- MODULE BundleProofs ----------------------------
(***************************************************************************)
(* From the compiler's modules to those in memory, for any hash and for    *)
(* bundles of any size. bundle_get_module finds what is there: Between     *)
(* says that the module lies between the bounds, and is inductive together *)
(* with TypeOK. BundleInv says what stands in the file that atomixc bundle *)
(* or the compiler wrote, and that the loader gets no further than the     *)
(* first module; it is inductive by itself.                                *)
(***************************************************************************)
EXTENDS Bundle, SequenceLemmas

-----------------------------------------------------------------------------
(* The search.                                                             *)

\* The middle of two bounds lies between them (mid of bundle_get_module).
LEMMA MiddleIsBetween ==
  ASSUME NEW a \in Nat, NEW b \in Nat, a <= b
  PROVE  /\ a + (b - a) \div 2 \in Nat
         /\ a <= a + (b - a) \div 2
         /\ a + (b - a) \div 2 <= b
  OBVIOUS

\* The arithmetic of uint16_t does not wrap around inside the range.
LEMMA NoWrap ==
  ASSUME NEW n \in Nat, n < COUNT
  PROVE  n % COUNT = n
  BY LookupAssumption

\* Every value of uint16_t arithmetic is one of COUNT values.
LEMMA Wraps ==
  ASSUME NEW n \in Int
  PROVE  n % COUNT \in 0..(COUNT - 1)
  BY LookupAssumption

Inv == TypeOK /\ Between

\* The bounds start outside the array (the first lines of bundle_get_module).
LEMMA InvHolds == Init => Inv
<1> SUFFICES ASSUME Init PROVE Inv
  OBVIOUS
<1>1. modules \in Seq(Hashes) /\ Len(modules) \in Nat /\ Len(modules) < COUNT
  BY LookupAssumption DEF Init
<1>2. TypeOK
  BY <1>1, LookupAssumption DEF Init, Searching, TypeOK
<1>3. Between
  BY <1>1 DEF Init, Searching, Between
<1> QED
  BY <1>2, <1>3 DEF Inv

\* One turn of the loop keeps a module that is present between the bounds.
LEMMA ProbeKeepsInv == Inv /\ Probe => Inv'
<1> SUFFICES ASSUME Inv, Probe PROVE Inv'
  OBVIOUS
<1> USE DEF Inv
<1>1. /\ modules \in Seq(Hashes) /\ Len(modules) \in Nat /\ Len(modules) < COUNT
      /\ COUNT \in Nat \ {0}
      /\ low \in Nat /\ high \in Nat /\ low <= high /\ high < COUNT
      /\ answer = "searching"
      /\ \A i \in 1..Len(modules) : modules[i] \in Nat
      /\ hash \in Nat
      /\ modules' = modules /\ hash' = hash
  <2>1. modules \in Seq(Hashes) /\ Len(modules) < COUNT /\ COUNT \in Nat \ {0}
    BY LookupAssumption DEF TypeOK
  <2>2. Len(modules) \in Nat /\ \A i \in 1..Len(modules) : modules[i] \in Hashes
    BY <2>1
  <2>3. hash \in Nat /\ \A i \in 1..Len(modules) : modules[i] \in Nat
    BY <2>2, LookupAssumption DEF TypeOK
  <2>4. low \in Nat /\ high \in Nat /\ high < COUNT
    BY <2>1 DEF TypeOK
  <2> QED
    BY <2>1, <2>2, <2>3, <2>4 DEF Probe
<1>2. mid \in Nat /\ low <= mid /\ mid <= high
  BY <1>1, MiddleIsBetween DEF mid
<1>3. Above \in 0..(COUNT - 1) /\ Below \in 0..(COUNT - 1)
  <2>1. mid + 1 \in Int /\ mid - 1 \in Int
    BY <1>2
  <2> QED
    BY <2>1, Wraps DEF Above, Below
<1>4. CASE mid >= Len(modules) /\ answer' = "overrun" /\ UNCHANGED <<low, high, found>>
  <2>1. TypeOK'
    BY <1>1, <1>4 DEF TypeOK
  <2>2. ASSUME NEW p \in 1..Len(modules), Sorted(modules), modules[p] = hash
        PROVE  FALSE
    \* The bounds enclose p, so mid can only be Len(modules) when high is; but
    \* then low is too, and p lies above it.
    <3>1. low + 1 <= p /\ p <= high + 1 /\ high <= Len(modules)
      BY <1>1, <2>2 DEF Between
    <3>2. low < Len(modules) /\ mid = Len(modules) /\ high = Len(modules)
      BY <1>1, <1>2, <1>4, <2>2, <3>1
    <3>3. low + (high - low) \div 2 < high
      BY <1>1, <3>2
    <3> QED
      BY <3>2, <3>3 DEF mid
  <2>3. Between'
    BY <1>1, <1>4, <2>2 DEF Between
  <2> QED
    BY <2>1, <2>3
<1>5. CASE /\ mid < Len(modules) /\ modules[mid + 1] = hash
           /\ answer' = "found" /\ found' = mid + 1 /\ UNCHANGED <<low, high>>
  <2>1. TypeOK'
    BY <1>1, <1>2, <1>5 DEF TypeOK
  <2>2. Between'
    BY <1>1, <1>2, <1>5 DEF Between
  <2> QED
    BY <2>1, <2>2
<1>6. CASE /\ mid < Len(modules) /\ modules[mid + 1] < hash
           /\ low' = Above /\ UNCHANGED <<high, found, answer>>
  <2>1. TypeOK'
    BY <1>1, <1>3, <1>6 DEF TypeOK
  <2>2. Above = mid + 1
    BY <1>1, <1>2, <1>6, NoWrap DEF Above
  <2>3. ASSUME NEW p \in 1..Len(modules), Sorted(modules), modules[p] = hash
        PROVE  mid + 2 <= p /\ p <= high + 1 /\ high <= Len(modules)
    <3>1. low + 1 <= p /\ p <= high + 1 /\ high <= Len(modules)
      BY <1>1, <2>3 DEF Between
    <3>2. ~(p < mid + 1) /\ p # mid + 1
      BY <1>1, <1>2, <1>6, <2>3 DEF Sorted
    <3> QED
      BY <1>2, <3>1, <3>2
  <2>4. Between'
    BY <1>1, <1>2, <1>6, <2>2, <2>3 DEF Between
  <2> QED
    BY <2>1, <2>4
<1>7. CASE /\ mid < Len(modules) /\ modules[mid + 1] > hash
           /\ high' = Below /\ UNCHANGED <<low, found, answer>>
  <2>1. TypeOK'
    BY <1>1, <1>3, <1>7 DEF TypeOK
  <2>2. ASSUME NEW p \in 1..Len(modules), Sorted(modules), modules[p] = hash
        PROVE  /\ Below = mid - 1
               /\ low + 1 <= p /\ p <= mid /\ mid - 1 <= Len(modules)
    <3>1. low + 1 <= p /\ p <= high + 1 /\ high <= Len(modules)
      BY <1>1, <2>2 DEF Between
    <3>2. ~(mid + 1 < p) /\ p # mid + 1
      BY <1>1, <1>2, <1>7, <2>2 DEF Sorted
    <3>3. p <= mid /\ mid - 1 \in Nat /\ mid - 1 < COUNT
      BY <1>1, <1>2, <1>7, <3>1, <3>2
    <3> QED
      BY <1>1, <1>2, <1>7, <3>1, <3>3, NoWrap DEF Below
  <2>3. Between'
    BY <1>1, <1>2, <1>7, <2>2 DEF Between
  <2> QED
    BY <2>1, <2>3
<1> QED
  BY <1>4, <1>5, <1>6, <1>7 DEF Probe

\* The panic after the loop is reached only when the module is not there.
LEMMA GiveUpKeepsInv == Inv /\ GiveUp => Inv'
<1> SUFFICES ASSUME Inv, GiveUp PROVE Inv'
  OBVIOUS
<1>1. TypeOK'
  BY DEF Inv, TypeOK, GiveUp
<1>2. low \in Nat /\ high \in Nat /\ Len(modules) \in Nat
  BY LookupAssumption DEF Inv, TypeOK
<1>3. Between'
  BY <1>2 DEF Inv, Between, GiveUp
<1> QED
  BY <1>1, <1>3 DEF Inv

\* A step of the search, or of nothing, keeps the invariant.
LEMMA NextKeepsInv == Inv /\ [Next]_vars => Inv'
<1>1. CASE UNCHANGED vars
  BY <1>1 DEF Inv, TypeOK, Between, Sorted, vars, search
<1>2. Inv /\ Done => Inv'
  BY <1>1 DEF Done, Inv, TypeOK, Between, Sorted, vars, search
<1> QED
  BY <1>1, <1>2, ProbeKeepsInv, GiveUpKeepsInv DEF Next, bundle_get_module

\* The bounds stay values of uint16_t and the index that is found one of the
\* array's, also in a bundle that is not sorted and when high wraps around.
THEOREM SearchIsTyped == Spec => []TypeOK
<1>1. Inv => TypeOK
  BY DEF Inv
<1> QED
  BY <1>1, InvHolds, NextKeepsInv, PTL DEF Spec

\* A module that is present lies between the bounds for as long as the loop of
\* bundle_get_module runs.
THEOREM StaysBetween == Spec => []Between
<1>1. Inv => Between
  BY DEF Inv
<1> QED
  BY <1>1, InvHolds, NextKeepsInv, PTL DEF Spec

\* bundle_get_module finds every module of a sorted bundle and reads no memory
\* behind it on the way.
THEOREM FindsWhatIsThere == Spec => []PresentIsFound
<1>1. Inv => PresentIsFound
  BY DEF Inv, Between, PresentIsFound, IsPresent
<1> QED
  BY <1>1, InvHolds, NextKeepsInv, PTL DEF Spec

-----------------------------------------------------------------------------
(* The order of the modules.                                               *)

ModuleRecord == [hash : Pairs, size : Nat \ {0}]

Distinct(S) == \A x, y \in S : x # y => x.hash # y.hash

InOrder(b) == \A i, j \in DOMAIN b : i < j => LowerHash(b[i], b[j])

\* Of modules with different hashes, one is lower than all others.
LEMMA LowestExists ==
  ASSUME NEW S \in SUBSET ModuleRecord, S # {}, Distinct(S)
  PROVE  \E x \in S : \A y \in S \ {x} : LowerHash(x, y)
<1>1. \A x \in S : /\ x.hash[1] \in Nat /\ x.hash[2] \in Nat
                   /\ \A y \in S : x.hash[1] = y.hash[1] /\ x.hash[2] = y.hash[2] => x.hash = y.hash
  <2>1. \A p, q \in Pairs : /\ p[1] \in Nat /\ p[2] \in Nat
                            /\ p[1] = q[1] /\ p[2] = q[2] => p = q
    BY BundleAssumption DEF Pairs
  <2> QED
    BY <2>1 DEF ModuleRecord
<1> DEFINE Firsts == {x.hash[1] : x \in S}
<1>2. PICK m \in Firsts : \A n \in Firsts : m <= n
  <2>1. Firsts \subseteq Nat /\ Firsts # {}
    BY <1>1
  <2> HIDE DEF Firsts
  <2> QED
    BY <2>1, LeastNat
<1> DEFINE Low == {x \in S : x.hash[1] = m}
           Seconds == {x.hash[2] : x \in Low}
<1>3. PICK k \in Seconds : \A n \in Seconds : k <= n
  <2>1. Seconds \subseteq Nat /\ Seconds # {}
    BY <1>1, <1>2
  <2> HIDE DEF Seconds
  <2> QED
    BY <2>1, LeastNat
<1>4. PICK x \in S : x.hash[1] = m /\ x.hash[2] = k
  BY <1>3
<1>5. ASSUME NEW y \in S \ {x} PROVE LowerHash(x, y)
  <2>1. y.hash[1] \in Nat /\ y.hash[2] \in Nat /\ m \in Nat /\ k \in Nat
    BY <1>1, <1>4
  <2>2. m <= y.hash[1]
    BY <1>2
  <2>3. y.hash[1] = m => k <= y.hash[2] /\ k # y.hash[2]
    BY <1>1, <1>3, <1>4 DEF Distinct
  <2> QED
    BY <1>4, <2>1, <2>2, <2>3 DEF LowerHash
<1> QED
  BY <1>5

\* So they can be sorted, however many there are.
LEMMA SortingExists ==
  \A n \in Nat : \A S \in SUBSET ModuleRecord :
    IsFiniteSet(S) /\ Cardinality(S) = n /\ Distinct(S) => \E b \in SetToSeqs(S) : InOrder(b)
<1> DEFINE Sortable(S) == \E b \in SetToSeqs(S) : InOrder(b)
           N == {n \in Nat : \A S \in SUBSET ModuleRecord :
                   IsFiniteSet(S) /\ Cardinality(S) = n /\ Distinct(S) => Sortable(S)}
<1>1. 0 \in N
  <2> SUFFICES ASSUME NEW S, S = {} PROVE Sortable(S)
    BY FS_EmptySet
  <2> DEFINE b == [i \in 1..0 |-> i]
  <2>1. Cardinality(S) = 0
    BY FS_EmptySet
  <2>2. b \in [1..Cardinality(S) -> S]
    BY <2>1
  <2>3. b \in SetToSeqs(S)
    BY <2>1, <2>2 DEF SetToSeqs
  <2>4. InOrder(b)
    BY DEF InOrder
  <2> QED
    BY <2>3, <2>4
<1>2. ASSUME NEW n \in Nat, n \in N PROVE n + 1 \in N
  <2> SUFFICES ASSUME NEW S \in SUBSET ModuleRecord, IsFiniteSet(S), Cardinality(S) = n + 1,
                      Distinct(S)
               PROVE  Sortable(S)
    OBVIOUS
  <2>1. PICK x \in S : \A y \in S \ {x} : LowerHash(x, y)
    <3>1. S # {}
      BY FS_EmptySet
    <3> QED
      BY <3>1, LowestExists
  <2> DEFINE T == S \ {x}
  <2>2. IsFiniteSet(T) /\ Cardinality(T) = n
    BY FS_RemoveElement
  <2>3. PICK f \in SetToSeqs(T) : InOrder(f)
    <3>1. T \in SUBSET ModuleRecord /\ Distinct(T)
      BY DEF Distinct
    <3> QED
      BY <1>2, <2>2, <3>1
  <2>4. /\ f \in [1..n -> T]
        /\ \A i, j \in 1..n : i # j => f[i] # f[j]
        /\ \A i, j \in 1..n : i < j => LowerHash(f[i], f[j])
    BY <2>2, <2>3 DEF SetToSeqs, InOrder
  <2> DEFINE b == [i \in 1..(n + 1) |-> IF i = 1 THEN x ELSE f[i - 1]]
  <2>5. \A i \in 2..(n + 1) : i - 1 \in 1..n /\ b[i] = f[i - 1] /\ b[i] \in T
    BY <2>4
  <2>6. b[1] = x
    OBVIOUS
  <2>7. b \in [1..(n + 1) -> S]
    BY <2>5, <2>6
  <2>8. ASSUME NEW i \in 1..(n + 1), NEW j \in 1..(n + 1), i < j
        PROVE  b[i] # b[j] /\ LowerHash(b[i], b[j])
    <3>1. j \in 2..(n + 1)
      BY <2>8
    <3>2. CASE i = 1
      BY <2>1, <2>5, <2>6, <3>1, <3>2
    <3>3. CASE i # 1
      <4>1. i \in 2..(n + 1) /\ i - 1 < j - 1 /\ i - 1 # j - 1
        BY <2>8, <3>3
      <4> QED
        BY <2>4, <2>5, <3>1, <4>1
    <3> QED
      BY <3>2, <3>3
  <2> HIDE DEF b
  <2>9. b \in SetToSeqs(S)
    <3>1. \A i, j \in 1..(n + 1) : i # j => i < j \/ j < i
      OBVIOUS
    <3> QED
      BY <2>7, <2>8, <3>1 DEF SetToSeqs
  <2>10. InOrder(b)
    BY <2>7, <2>8 DEF InOrder
  <2> QED
    BY <2>9, <2>10
<1> HIDE DEF N
<1>3. \A n \in Nat : n \in N
  BY <1>1, <1>2, NumberInduction
<1> QED
  BY <1>3 DEF N

\* No two files have the same hash: atomixc bundle goes on.
AllDiffer(files) == ~ \E i, j \in DOMAIN files : i # j /\ files[i].hash = files[j].hash

\* buildBundle has as many modules as it is given, and no others.
LEMMA BuildBundle ==
  ASSUME NEW files \in Seq(ModuleRecord), AllDiffer(files)
  PROVE  /\ buildBundle(files) \in Seq(ModuleRecord)
         /\ Len(buildBundle(files)) = Len(files)
         /\ \A i \in 1..Len(files) : \E j \in 1..Len(files) : buildBundle(files)[i] = files[j]
<1> DEFINE S == ToSet(files)
           n == Len(files)
<1>1. n \in Nat /\ DOMAIN files = 1..n /\ \A i \in 1..n : files[i] \in ModuleRecord
  BY LenProperties, ElementOfSeq
<1>2. S \in SUBSET ModuleRecord /\ Distinct(S)
  BY <1>1 DEF ToSet, Distinct, AllDiffer
<1>3. IsFiniteSet(S) /\ Cardinality(S) = n
  <2>1. files \in [1..n -> S]
    BY <1>1, LenProperties DEF ToSet
  <2>2. files \in Bijection(1..n, S)
    BY <1>1, <2>1 DEF Bijection, Injection, Surjection, IsInjective, ToSet, AllDiffer
  <2>3. ExistsBijection(1..n, S)
    BY <2>2 DEF ExistsBijection
  <2> QED
    BY <1>1, <2>3, FS_NatBijection, FS_CountingElements
<1>4. PICK b : b = buildBundle(files) /\ b \in SetToSeqs(S) /\ InOrder(b)
  BY <1>1, <1>2, <1>3, SortingExists DEF buildBundle, InOrder
<1>5. b \in [1..n -> S]
  BY <1>3, <1>4 DEF SetToSeqs
<1>6. b \in Seq(ModuleRecord) /\ Len(b) = n
  <2>1. b \in [1..n -> ModuleRecord]
    BY <1>2, <1>5
  <2> QED
    BY <1>1, <2>1, FunctionIsSeq
<1> QED
  BY <1>1, <1>4, <1>5, <1>6 DEF ToSet

-----------------------------------------------------------------------------
(* The hash, and the file.                                                 *)

\* A hash is read back as one number.
LEMMA HashIsNumber ==
  \A p \in Pairs : Written(p) \in Hashes /\ Requested(p) \in Hashes
<1>1. HALF \in Nat /\ HALF # 0 /\ Hashes = 0..(HALF * HALF - 1)
  BY BundleAssumption
<1> SUFFICES ASSUME NEW p \in Pairs PROVE Written(p) \in Hashes /\ Requested(p) \in Hashes
  OBVIOUS
<1>2. PICK a \in Nat, b \in Nat : a = p[1] /\ b = p[2] /\ a < HALF /\ b < HALF
  BY <1>1 DEF Pairs
<1>3. \A x, y \in Nat : x < HALF /\ y < HALF => x + HALF * y \in 0..(HALF * HALF - 1)
  <2> SUFFICES ASSUME NEW x \in Nat, NEW y \in Nat, x < HALF, y < HALF
               PROVE  x + HALF * y \in 0..(HALF * HALF - 1)
    OBVIOUS
  <2>1. HALF * y \in Nat /\ HALF * HALF \in Nat /\ HALF * (HALF - 1) = HALF * HALF - HALF
    BY <1>1
  <2>2. HALF * y <= HALF * (HALF - 1)
    BY <1>1
  <2> QED
    BY <1>1, <2>1, <2>2
<1>4. HALF * a + b = b + HALF * a
  BY <1>1
<1> QED
  BY <1>1, <1>2, <1>3, <1>4 DEF Written, Requested

\* What files consist of.
Cells ==
  [kind : {"module"}, hash : Hashes, table : {1}, data : Nat]
  \cup [kind : {"table", "data"}, of : Pairs]

\* A module in a file: the header, the string table and the data section where the
\* header says they are.
LEMMA ModuleCellsAre ==
  ASSUME NEW m \in ModuleRecord
  PROVE  /\ ModuleCells(m) \in Seq(Cells)
         /\ Len(ModuleCells(m)) = m.size + 2
         /\ ModuleCells(m)[1]
              = [kind |-> "module", hash |-> Written(m.hash), table |-> 1, data |-> 1 + m.size]
         /\ ModuleCells(m)[2] = [kind |-> "table", of |-> m.hash]
         /\ ModuleCells(m)[m.size + 2] = [kind |-> "data", of |-> m.hash]
<1>1. m.size \in Nat /\ m.size >= 1 /\ m.hash \in Pairs /\ Written(m.hash) \in Hashes
  BY HashIsNumber DEF ModuleRecord
<1> DEFINE header == [kind |-> "module", hash |-> Written(m.hash), table |-> 1,
                      data |-> 1 + m.size]
           tables == [i \in 1..m.size |-> [kind |-> "table", of |-> m.hash]]
           data == [kind |-> "data", of |-> m.hash]
<1>2. header \in Cells /\ data \in Cells /\ [kind |-> "table", of |-> m.hash] \in Cells
  BY <1>1 DEF Cells
<1>3. tables \in Seq(Cells) /\ Len(tables) = m.size
      /\ \A i \in 1..m.size : tables[i] = [kind |-> "table", of |-> m.hash]
  <2>1. tables \in [1..m.size -> Cells]
    BY <1>2
  <2> QED
    BY <1>1, <2>1, FunctionIsSeq
<1>4. ModuleCells(m) = (<<header>> \o tables) \o <<data>>
  BY DEF ModuleCells
<1>5. <<header>> \in Seq(Cells) /\ <<data>> \in Seq(Cells)
      /\ <<header>>[1] = header /\ <<data>>[1] = data
      /\ Len(<<header>>) = 1 /\ Len(<<data>>) = 1
  BY <1>2
<1> HIDE DEF header, tables, data
<1> DEFINE front == <<header>> \o tables
<1>6. /\ front \in Seq(Cells) /\ Len(front) = 1 + m.size
      /\ Holds(front, 0, <<header>>) /\ Holds(front, 1, tables)
  <2>1. PICK u \in Seq(Cells) : u = <<header>>
    BY <1>5
  <2>2. Holds(u \o tables, 0, u) /\ Holds(u \o tables, Len(u), tables)
    BY <1>3, HoldsFirst, HoldsSecond
  <2>3. u \o tables \in Seq(Cells) /\ Len(u \o tables) = Len(u) + Len(tables)
    BY <1>3, ConcatProperties
  <2> QED
    BY <1>3, <1>5, <2>1, <2>2, <2>3
<1> HIDE DEF front
<1>7. /\ front \o <<data>> \in Seq(Cells) /\ Len(front \o <<data>>) = (1 + m.size) + 1
      /\ Holds(front \o <<data>>, 0, front) /\ Holds(front \o <<data>>, 1 + m.size, <<data>>)
  <2>1. PICK u \in Seq(Cells) : u = <<data>>
    BY <1>5
  <2>2. Holds(front \o u, 0, front) /\ Holds(front \o u, Len(front), u)
    BY <1>6, HoldsFirst, HoldsSecond
  <2>3. front \o u \in Seq(Cells) /\ Len(front \o u) = Len(front) + Len(u)
    BY <1>6, ConcatProperties
  <2> QED
    BY <1>5, <1>6, <2>1, <2>2, <2>3
<1>8. (front \o <<data>>)[1] = front[1] /\ (front \o <<data>>)[2] = front[2]
  <2>1. 1 \in 1..Len(front) /\ 2 \in 1..Len(front)
    BY <1>1, <1>6
  <2> QED
    BY <1>7, <2>1 DEF Holds
<1>9. front[1] = header /\ front[2] = tables[1]
  <2>1. 1 \in 1..Len(tables) /\ 1 \in 1..Len(<<header>>)
    BY <1>1, <1>3, <1>5
  <2>2. front[0 + 1] = <<header>>[1] /\ front[1 + 1] = tables[1]
    BY <1>6, <2>1 DEF Holds
  <2> QED
    BY <1>5, <2>2
<1>10. (front \o <<data>>)[m.size + 2] = data
  <2>1. (front \o <<data>>)[(1 + m.size) + 1] = <<data>>[1]
    BY <1>5, <1>7 DEF Holds
  <2>2. (1 + m.size) + 1 = m.size + 2
    BY <1>1
  <2> QED
    BY <1>5, <2>1, <2>2
<1>11. front \o <<data>> = ModuleCells(m)
  BY <1>4 DEF front
<1>12. tables[1] = [kind |-> "table", of |-> m.hash]
  BY <1>1, <1>3
<1>13. (1 + m.size) + 1 = m.size + 2
  BY <1>1
<1> QED
  BY <1>7, <1>8, <1>9, <1>10, <1>11, <1>12, <1>13 DEF header, data

\* Behind its header, a bundle holds the first of its modules.
LEMMA BundleCellsAre ==
  ASSUME NEW b \in Seq(ModuleRecord), Len(b) # 0, NEW h
  PROVE  /\ BundleCells(b, h)[1] = [kind |-> "bundle", entry |-> Written(h), count |-> Len(b)]
         /\ Holds(BundleCells(b, h), 1, ModuleCells(b[1]))
<1> DEFINE header == [kind |-> "bundle", entry |-> Written(h), count |-> Len(b)]
           parts == [i \in DOMAIN b |-> ModuleCells(b[i])]
           All == Cells \cup {header}
<1>1. Len(b) \in Nat /\ 1 \in 1..Len(b) /\ DOMAIN b = 1..Len(b)
      /\ \A i \in 1..Len(b) : b[i] \in ModuleRecord
  BY LenProperties, ElementOfSeq
<1>2. parts \in Seq(Seq(Cells)) /\ Len(parts) = Len(b) /\ parts[1] = ModuleCells(b[1])
  <2>1. parts \in [1..Len(b) -> Seq(Cells)]
    BY <1>1, ModuleCellsAre
  <2> HIDE DEF parts
  <2>2. parts[1] = ModuleCells(b[1])
    BY <1>1 DEF parts
  <2> QED
    BY <1>1, <2>1, <2>2, FunctionIsSeq
<1>3. BundleCells(b, h) = <<header>> \o FlattenSeq(parts)
  BY DEF BundleCells
<1> HIDE DEF parts, header
<1>4. FlattenSeq(parts) \in Seq(Cells) /\ Holds(FlattenSeq(parts), 0, ModuleCells(b[1]))
  <2>1. Before(parts, 1 - 1) = 0
    BY <1>2, BeforeSteps
  <2> QED
    BY <1>1, <1>2, <2>1, FlattenType, FlattenHolds
<1>5. FlattenSeq(parts) \in Seq(All) /\ <<header>> \in Seq(All) /\ ModuleCells(b[1]) \in Seq(All)
  <2>1. Cells \subseteq All /\ header \in All
    OBVIOUS
  <2> HIDE DEF All
  <2>2. \A s \in Seq(Cells) : s \in Seq(All)
    BY <2>1
  <2>3. <<header>> \in Seq(All)
    BY <2>1
  <2> QED
    BY <1>1, <1>4, <2>2, <2>3, ModuleCellsAre
<1>6. <<header>>[1] = header /\ Len(<<header>>) = 1
  OBVIOUS
<1> DEFINE rest == FlattenSeq(parts)
<1> HIDE DEF rest, All
<1>7. /\ <<header>> \o rest \in Seq(All)
      /\ Holds(<<header>> \o rest, 0, <<header>>)
      /\ Holds(<<header>> \o rest, 1, rest)
  BY <1>5, <1>6, HoldsFirst, HoldsSecond, ConcatProperties DEF rest
<1>8. (<<header>> \o rest)[0 + 1] = <<header>>[1]
  BY <1>6, <1>7 DEF Holds
<1>9. Holds(<<header>> \o rest, 1 + 0, ModuleCells(b[1]))
  BY <1>4, <1>5, <1>7, HoldsInside DEF rest
<1> QED
  BY <1>3, <1>6, <1>8, <1>9 DEF rest, header

-----------------------------------------------------------------------------
(* The invariant.                                                          *)

\* The modules of the command line, and the one that comes first in the file.
Files(in) == [i \in DOMAIN in.files |-> Compiled(in.files[i])]
Foremost(in) == IF in.bundled THEN buildBundle(Files(in))[1] ELSE Files(in)[1]

\* The header of a bundle takes one cell.
Begin(in) == IF in.bundled THEN 1 ELSE 0

\* The types of the variables.
Kinds ==
  /\ input \in Inputs
  /\ hash \in Hashes
  /\ low \in 0..(COUNT - 1) /\ high \in 0..(COUNT - 1)
  /\ found \in 0..Len(modules)
  /\ requested \in {<<>>} \cup (ToSet(input.files) \X Sources)
  /\ mode \in {"bundling", "loading", "entry", "running", "import", "exit"} \cup Faults

\* Nothing is written before atomixc bundle has looked at the hashes.
Unwritten ==
  /\ file = <<>> /\ modules = <<>> /\ sections = <<>>
  /\ position = IF mode = "bundling" THEN 0 ELSE 1

\* The file starts with the header of a bundle, if it is one, and the first module.
Filed ==
  /\ input.bundled =>
       /\ AllDiffer(Files(input))
       /\ file[1] = [kind |-> "bundle", entry |-> Written(EntryHash(input)),
                     count |-> Len(Files(input))]
  /\ Holds(file, Begin(input), ModuleCells(Foremost(input)))

\* The loader has read nothing yet, or the first module.
LoadedFirst ==
  /\ modules = <<Written(Foremost(input).hash)>>
  /\ sections = <<<<[kind |-> "table", of |-> Foremost(input).hash],
                    [kind |-> "data", of |-> Foremost(input).hash]>>>>
  /\ position = Begin(input) + 1
Loading ==
  \/ modules = <<>> /\ sections = <<>> /\ position = Begin(input)
  \/ LoadedFirst

\* A bundle that has been loaded is one of a single module, which is its entry point.
Entering ==
  /\ modules = <<Written(EntryHash(input))>>
  /\ hash = Written(EntryHash(input))
  /\ \/ answer = "searching" /\ low = 0 /\ high = 1
     \/ answer = "found" /\ found = 1

\* A bundle that has run nothing has no entry point, or one whose hash is 0.
NothingToStart ==
  input.bundled /\ answer = "idle" =>
    \/ input.entry = 0
    \/ hashFilePath(input.files[input.entry].path) = <<0, 0>>

BundleInv ==
  /\ Kinds
  /\ mode \in {"bundling", "rejected"} => Unwritten
  /\ mode \notin {"bundling", "rejected"} => Filed /\ Loading
  /\ mode = "entry" => Entering
  /\ mode \in {"running", "exit", "import"} => NothingToStart

-----------------------------------------------------------------------------
(* What is known of the modules of the command line.                       *)

LEMMA FilesType ==
  ASSUME NEW in \in Inputs
  PROVE  /\ Len(in.files) \in Nat /\ 1 <= Len(in.files) /\ Len(in.files) < COUNT
         /\ DOMAIN in.files = 1..Len(in.files)
         /\ Files(in) \in Seq(ModuleRecord) /\ Len(Files(in)) = Len(in.files)
         /\ \A i \in 1..Len(in.files) : Files(in)[i].hash = hashFilePath(in.files[i].path)
<1> DEFINE Source == [path : Seq(Bytes) \ {<<>>}, size : Nat \ {0}]
<1>1. in.files \in Seq(Source) /\ Len(in.files) \in 1..(COUNT - 1)
  BY BundleAssumption
<1>2. /\ Len(in.files) \in Nat /\ DOMAIN in.files = 1..Len(in.files)
      /\ \A i \in 1..Len(in.files) : in.files[i] \in Source
  BY <1>1, LenProperties, ElementOfSeq
<1>3. 1 <= Len(in.files) /\ Len(in.files) < COUNT
  BY <1>1, LookupAssumption
<1>4. ASSUME NEW i \in 1..Len(in.files)
      PROVE  /\ Compiled(in.files[i]) \in ModuleRecord
             /\ Compiled(in.files[i]).hash = hashFilePath(in.files[i].path)
  <2>1. hashFilePath(in.files[i].path) \in Pairs
    BY <1>2, HashAssumption
  <2>2. in.files[i].size \in Nat \ {0}
    BY <1>2
  <2> QED
    BY <2>1, <2>2 DEF Compiled, ModuleRecord
<1>5. Files(in) \in [1..Len(in.files) -> ModuleRecord]
  BY <1>2, <1>4 DEF Files
<1>6. Files(in) \in Seq(ModuleRecord) /\ Len(Files(in)) = Len(in.files)
  BY <1>2, <1>5, FunctionIsSeq
<1>7. \A i \in 1..Len(in.files) : Files(in)[i].hash = hashFilePath(in.files[i].path)
  BY <1>2, <1>4 DEF Files
<1> QED
  BY <1>2, <1>3, <1>6, <1>7

LEMMA ForemostType ==
  ASSUME NEW in \in Inputs, in.bundled => AllDiffer(Files(in))
  PROVE  /\ Foremost(in) \in ModuleRecord
         /\ \E i \in 1..Len(in.files) : Foremost(in) = Files(in)[i]
<1>1. \E i \in 1..Len(in.files) : Foremost(in) = Files(in)[i]
  <2>1. 1 \in 1..Len(in.files) /\ Len(Files(in)) = Len(in.files)
    BY FilesType
  <2>2. CASE in.bundled
    BY <2>1, <2>2, FilesType, BuildBundle DEF Foremost
  <2>3. CASE ~in.bundled
    BY <2>1, <2>3 DEF Foremost
  <2> QED
    BY <2>2, <2>3
<1>2. \A i \in 1..Len(in.files) : Files(in)[i] \in ModuleRecord
  BY FilesType, ElementOfSeq
<1> QED
  BY <1>1, <1>2

\* Only the hash of two halves 0 is written as the 0 that main takes for no entry point.
LEMMA OnlyZeroIsZero ==
  ASSUME NEW p \in Pairs, Written(p) = 0
  PROVE  p = <<0, 0>>
<1>1. HALF \in Nat /\ HALF >= 1
  BY BundleAssumption
<1>2. PICK a \in Nat, b \in Nat : p = <<a, b>> /\ a + HALF * b = 0
  BY <1>1 DEF Pairs, Written
<1>3. \A y \in Nat : HALF * y >= y
  BY <1>1
<1>4. a = 0 /\ b = 0
  BY <1>1, <1>2, <1>3
<1> QED
  BY <1>2, <1>4

LEMMA EntryType ==
  ASSUME NEW in \in Inputs
  PROVE  EntryHash(in) \in Pairs
<1>1. <<0, 0>> \in Pairs
  BY BundleAssumption DEF Pairs
<1>2. CASE in.entry = 0
  BY <1>1, <1>2 DEF EntryHash
<1>3. CASE in.entry # 0
  <2>1. in.entry \in DOMAIN in.files
    BY <1>3, FilesType, BundleAssumption
  <2> QED
    BY <1>3, <2>1, HashAssumption DEF EntryHash
<1> QED
  BY <1>2, <1>3

\* The first cells that the loader looks at.
LEMMA FirstCells ==
  ASSUME input \in Inputs, Filed
  PROVE  LET m == Foremost(input)
             p == Begin(input)
         IN  /\ m \in ModuleRecord /\ p \in {0, 1} /\ m.size \in Nat /\ m.size >= 1
             /\ Len(file) >= p + m.size + 2
             /\ Cell(p) = [kind |-> "module", hash |-> Written(m.hash), table |-> 1,
                           data |-> 1 + m.size]
             /\ Cell(p + 1) = [kind |-> "table", of |-> m.hash]
             /\ Cell(p + (1 + m.size)) = [kind |-> "data", of |-> m.hash]
<1> DEFINE m == Foremost(input)
           p == Begin(input)
<1>1. m \in ModuleRecord /\ m.size \in Nat /\ m.size >= 1
  BY ForemostType DEF Filed, ModuleRecord
<1>2. p \in {0, 1}
  BY DEF Begin
<1>3. Holds(file, p, ModuleCells(m))
  BY DEF Filed
<1> HIDE DEF m, p
<1>4. /\ p + (m.size + 2) <= Len(file)
      /\ \A j \in 1..(m.size + 2) : file[p + j] = ModuleCells(m)[j]
  BY <1>1, <1>3, ModuleCellsAre DEF Holds
<1>5. 1 \in 1..(m.size + 2) /\ 2 \in 1..(m.size + 2) /\ m.size + 2 \in 1..(m.size + 2)
  BY <1>1
<1>6. p + 2 = (p + 1) + 1 /\ p + (m.size + 2) = (p + (1 + m.size)) + 1
      /\ p + (m.size + 2) = p + m.size + 2
  BY <1>1, <1>2
<1>7. /\ file[p + 1] = ModuleCells(m)[1] /\ file[(p + 1) + 1] = ModuleCells(m)[2]
      /\ file[(p + (1 + m.size)) + 1] = ModuleCells(m)[m.size + 2]
  BY <1>4, <1>5, <1>6
<1>8. Len(file) >= p + m.size + 2
  BY <1>1, <1>2, <1>4, <1>6, ModuleCellsAre DEF Holds
<1> QED
  BY <1>1, <1>2, <1>7, <1>8, ModuleCellsAre DEF Cell, m, p

\* The first cell tells a bundle from a module.
LEMMA CellZero ==
  ASSUME input \in Inputs, Filed
  PROVE  /\ Cell(0).kind \in {"bundle", "module"}
         /\ input.bundled => /\ Cell(0).kind = "bundle" /\ Cell(0).count = Len(input.files)
                             /\ Cell(0).entry = Written(EntryHash(input))
                             /\ ModuleCount = Len(input.files)
         /\ ~input.bundled => Cell(0).kind = "module" /\ ModuleCount = 1
<1>1. CASE input.bundled
  BY <1>1, FilesType DEF Filed, Cell, ModuleCount
<1>2. CASE ~input.bundled
  BY <1>2, FirstCells DEF Begin, ModuleCount
<1> QED
  BY <1>1, <1>2

-----------------------------------------------------------------------------
(* Every step keeps the invariant.                                         *)

LEMMA InitKeeps == BundleInit => BundleInv
<1> SUFFICES ASSUME BundleInit PROVE BundleInv
  OBVIOUS
<1>1. 0 \in Hashes /\ 0 \in 0..(COUNT - 1)
  BY BundleAssumption, LookupAssumption
<1>2. Kinds
  BY <1>1 DEF BundleInit, Kinds
<1> QED
  BY <1>2 DEF BundleInit, BundleInv, Unwritten

\* atomixc bundle.
LEMMA bundleKeeps == BundleInv /\ bundle => BundleInv'
<1> SUFFICES ASSUME BundleInv, bundle PROVE BundleInv'
  OBVIOUS
<1>1. /\ Kinds /\ Unwritten /\ input.bundled /\ position' = 1
      /\ UNCHANGED <<modules, hash, low, high, found, answer, input, sections, requested>>
  BY DEF BundleInv, bundle, vars, search
<1>2. mode' \in {"rejected", "loading"}
  BY DEF bundle
<1>3. Kinds'
  BY <1>1, <1>2 DEF Kinds, Faults
<1>4. CASE ~AllDiffer(Files(input))
  <2>1. mode' = "rejected" /\ file' = file
    BY <1>4 DEF bundle, AllDiffer, Files
  <2>2. Unwritten'
    BY <1>1, <2>1 DEF Unwritten
  <2> QED
    BY <1>3, <2>1, <2>2 DEF BundleInv
<1>5. CASE AllDiffer(Files(input))
  <2>1. mode' = "loading" /\ file' = BundleCells(buildBundle(Files(input)), EntryHash(input))
    BY <1>5 DEF bundle, AllDiffer, Files
  <2>2. /\ Files(input) \in Seq(ModuleRecord)
        /\ Len(Files(input)) \in Nat /\ Len(Files(input)) # 0
    BY <1>1, FilesType DEF Kinds
  <2>3. /\ buildBundle(Files(input)) \in Seq(ModuleRecord)
        /\ Len(buildBundle(Files(input))) = Len(Files(input))
    BY <1>5, <2>2, BuildBundle
  <2>4. /\ file'[1] = [kind |-> "bundle", entry |-> Written(EntryHash(input)),
                       count |-> Len(Files(input))]
        /\ Holds(file', 1, ModuleCells(buildBundle(Files(input))[1]))
    BY <2>1, <2>2, <2>3, BundleCellsAre
  <2>5. Filed'
    BY <1>1, <1>5, <2>4 DEF Filed, Begin, Foremost
  <2>6. Loading'
    BY <1>1 DEF Unwritten, Loading, Begin
  <2> QED
    BY <1>3, <2>1, <2>5, <2>6 DEF BundleInv
<1> QED
  BY <1>4, <1>5

\* A module that is run as it was compiled.
LEMMA parseFileKeeps == BundleInv /\ parseFile => BundleInv'
<1> SUFFICES ASSUME BundleInv, parseFile PROVE BundleInv'
  OBVIOUS
<1>1. /\ Kinds /\ Unwritten /\ position = 0 /\ ~input.bundled /\ mode' = "loading"
      /\ file' = ModuleCells(Compiled(input.files[1]))
      /\ UNCHANGED <<modules, hash, low, high, found, answer, input, position, sections,
                     requested>>
  BY DEF BundleInv, Unwritten, parseFile, vars, search
<1>2. Kinds'
  BY <1>1 DEF Kinds, Faults
<1>3. Files(input)[1] = Compiled(input.files[1])
  BY <1>1, FilesType DEF Kinds, Files
<1>4. Foremost(input) = Compiled(input.files[1]) /\ Foremost(input) \in ModuleRecord
  BY <1>1, <1>3, ForemostType DEF Kinds, Foremost
<1>5. Holds(file', 0, ModuleCells(Foremost(input)))
  BY <1>1, <1>4, ModuleCellsAre, LenProperties DEF Holds
<1>6. Filed'
  BY <1>1, <1>5 DEF Filed, Begin, Foremost
<1>7. Loading'
  BY <1>1 DEF Unwritten, Loading, Begin
<1> QED
  BY <1>1, <1>2, <1>6, <1>7 DEF BundleInv

\* The loader reads the first module, and behind its header no other: what stands
\* there is the string table.
LEMMA loadKeeps == BundleInv /\ module_load_from_buffer_offset => BundleInv'
<1> SUFFICES ASSUME BundleInv, module_load_from_buffer_offset PROVE BundleInv'
  OBVIOUS
<1>1. /\ Kinds /\ Filed /\ Loading /\ mode = "loading" /\ Len(modules) < ModuleCount
      /\ UNCHANGED <<hash, low, high, found, answer, input, file, requested>>
  BY DEF BundleInv, module_load_from_buffer_offset, search
<1>2. input \in Inputs
  BY <1>1 DEF Kinds
<1> DEFINE m == Foremost(input)
           p == Begin(input)
<1>3. /\ p \in {0, 1} /\ m.hash \in Pairs
      /\ Cell(p) = [kind |-> "module", hash |-> Written(m.hash), table |-> 1,
                    data |-> 1 + m.size]
      /\ Cell(p + 1) = [kind |-> "table", of |-> m.hash]
      /\ Cell(p + (1 + m.size)) = [kind |-> "data", of |-> m.hash]
  BY <1>1, <1>2, FirstCells DEF ModuleRecord
<1>4. Filed'
  BY <1>1 DEF Filed
<1>5. CASE modules = <<>> /\ sections = <<>> /\ position = p
  <2>1. /\ mode' = mode /\ position' = p + 1
        /\ modules' = Append(modules, Written(m.hash))
        /\ sections' = Append(sections, <<Cell(p + 1), Cell(p + (1 + m.size))>>)
    BY <1>3, <1>5 DEF module_load_from_buffer_offset
  <2>2. modules' = <<Written(m.hash)>>
    BY <1>5, <2>1
  <2>3. sections' = <<<<Cell(p + 1), Cell(p + (1 + m.size))>>>>
    BY <1>5, <2>1
  <2>4. LoadedFirst'
    BY <1>1, <1>3, <2>1, <2>2, <2>3 DEF LoadedFirst
  <2>5. found' \in 0..Len(modules')
    <3>1. found = 0
      BY <1>1, <1>5 DEF Kinds
    <3> QED
      BY <1>1, <2>2, <3>1
  <2>6. Kinds'
    BY <1>1, <2>1, <2>5 DEF Kinds
  <2> QED
    BY <1>1, <1>4, <2>1, <2>4, <2>6 DEF BundleInv, Loading
<1>6. CASE LoadedFirst
  <2>1. Cell(position).kind = "table"
    BY <1>3, <1>6 DEF LoadedFirst
  <2>2. mode' = "Invalid magic number" /\ UNCHANGED <<modules, sections, position>>
    BY <2>1 DEF module_load_from_buffer_offset
  <2>3. LoadedFirst'
    BY <1>1, <1>6, <2>2 DEF LoadedFirst
  <2>4. Kinds'
    BY <1>1, <2>2 DEF Kinds, Faults
  <2> QED
    BY <1>4, <2>2, <2>3, <2>4 DEF BundleInv, Loading
<1> QED
  BY <1>1, <1>5, <1>6 DEF Loading

\* A search starts: there is at most one module.
LEMMA SearchStarts ==
  ASSUME Kinds, Loading, NEW h \in Hashes, StartSearch(h),
         modules' = modules
  PROVE  /\ hash' \in Hashes
         /\ low' \in 0..(COUNT - 1) /\ high' \in 0..(COUNT - 1)
         /\ found' \in 0..Len(modules')
<1>1. Len(modules) \in {0, 1}
  BY DEF Loading, LoadedFirst
<1>2. COUNT \in Nat /\ 1 < COUNT
  BY FilesType, LookupAssumption DEF Kinds
<1> QED
  BY <1>1, <1>2 DEF StartSearch

\* main looks for the entry point of a bundle.
LEMMA mainKeeps == BundleInv /\ main => BundleInv'
<1> SUFFICES ASSUME BundleInv, main PROVE BundleInv'
  OBVIOUS
<1>1. /\ Kinds /\ Filed /\ Loading /\ mode = "loading" /\ Len(modules) = ModuleCount
      /\ UNCHANGED <<modules, input, file, position, sections, requested>>
  BY DEF BundleInv, main
<1>2. input \in Inputs
  BY <1>1 DEF Kinds
<1>3. Filed' /\ Loading'
  BY <1>1 DEF Filed, Loading, LoadedFirst
<1>4. CASE mode' \in {"running", "exit"} /\ UNCHANGED search /\ NothingToStart
  <2>1. Kinds'
    BY <1>1, <1>4 DEF Kinds, search
  <2>2. NothingToStart'
    BY <1>1, <1>4 DEF NothingToStart, search
  <2> QED
    BY <1>3, <1>4, <2>1, <2>2 DEF BundleInv
<1>5. CASE /\ Cell(0).kind = "bundle" /\ Cell(0).entry # 0
           /\ mode' = "entry" /\ StartSearch(Cell(0).entry)
  <2>1. /\ input.bundled /\ Cell(0).entry = Written(EntryHash(input))
        /\ Len(modules) = Len(input.files)
    BY <1>1, <1>2, <1>5, CellZero
  <2>2. LoadedFirst /\ Len(modules) = 1
    <3>1. Len(input.files) # 0
      BY <1>2, FilesType
    <3> QED
      BY <1>1, <2>1, <3>1 DEF Loading, LoadedFirst
  <2>3. Foremost(input).hash = EntryHash(input)
    <3>1. Foremost(input) = Files(input)[1]
      <4>1. \E i \in 1..1 : Foremost(input) = Files(input)[i]
        BY <1>1, <1>2, <2>1, <2>2, ForemostType DEF Filed
      <4> QED
        BY <4>1
    <3>2. Files(input)[1].hash = hashFilePath(input.files[1].path)
      BY <1>2, <2>1, <2>2, FilesType
    <3>3. input.entry # 0
      <4>1. Written(<<0, 0>>) = 0
        BY BundleAssumption DEF Written
      <4> QED
        BY <1>5, <2>1, <4>1 DEF EntryHash
    <3>4. input.entry = 1
      BY <1>2, <2>1, <2>2, <3>3, BundleAssumption
    <3> QED
      BY <3>1, <3>2, <3>3, <3>4 DEF EntryHash
  <2>4. Written(EntryHash(input)) \in Hashes
    BY <1>2, EntryType, HashIsNumber
  <2>5. Entering'
    BY <1>1, <1>5, <2>1, <2>2, <2>3 DEF Entering, LoadedFirst, StartSearch
  <2>6. /\ hash' \in Hashes
        /\ low' \in 0..(COUNT - 1) /\ high' \in 0..(COUNT - 1)
        /\ found' \in 0..Len(modules')
    BY <1>1, <1>5, <2>1, <2>4, SearchStarts
  <2>7. Kinds'
    BY <1>1, <1>5, <2>6 DEF Kinds
  <2> QED
    BY <1>3, <1>5, <2>5, <2>7 DEF BundleInv
<1>6. Cell(0).kind \in {"bundle", "module"}
  BY <1>1, <1>2, CellZero
<1>7. CASE Cell(0).kind = "module"
  <2>1. ~input.bundled
    BY <1>1, <1>2, <1>7, CellZero
  <2> QED
    BY <1>4, <1>7, <2>1 DEF main, NothingToStart
<1>8. CASE Cell(0).kind = "bundle" /\ Cell(0).entry = 0
  <2>1. EntryHash(input) \in Pairs /\ Written(EntryHash(input)) = 0
    BY <1>1, <1>2, <1>8, CellZero, EntryType
  <2>2. EntryHash(input) = <<0, 0>>
    BY <2>1, OnlyZeroIsZero
  <2> QED
    BY <1>4, <1>8, <2>2 DEF main, NothingToStart, EntryHash
<1>9. CASE Cell(0).kind = "bundle" /\ Cell(0).entry # 0
  BY <1>5, <1>9 DEF main
<1> QED
  BY <1>6, <1>7, <1>8, <1>9

\* One turn of the search, for the entry point or for an import.
LEMMA LookupsKeep == BundleInv /\ Lookups => BundleInv'
<1> SUFFICES ASSUME BundleInv, Lookups PROVE BundleInv'
  OBVIOUS
<1>1. /\ Kinds /\ Filed /\ Loading /\ mode \in {"entry", "import"}
      /\ UNCHANGED <<modules, hash, input, file, position, sections, requested, mode>>
      /\ Probe \/ GiveUp
  BY DEF BundleInv, Lookups, bundleVars, bundle_get_module, Probe, GiveUp
<1>2. Filed' /\ Loading'
  BY <1>1 DEF Filed, Loading, LoadedFirst
<1>3. /\ low \in Nat /\ high \in Nat /\ COUNT \in Nat
      /\ Len(modules) \in Nat /\ found \in 0..Len(modules)
  BY <1>1, LookupAssumption DEF Kinds, Loading, LoadedFirst
<1>4. /\ low' \in 0..(COUNT - 1) /\ high' \in 0..(COUNT - 1) /\ found' \in 0..Len(modules)
  <2>1. CASE GiveUp
    BY <1>1, <2>1 DEF GiveUp, Kinds
  <2>2. CASE Probe
    <3>1. mid \in Nat
      BY <1>3, <2>2, MiddleIsBetween DEF Probe, mid
    <3>2. mid + 1 \in Int /\ mid - 1 \in Int
      BY <3>1
    <3>3. Above \in 0..(COUNT - 1) /\ Below \in 0..(COUNT - 1)
      BY <3>2, Wraps DEF Above, Below
    <3>4. mid < Len(modules) => mid + 1 \in 0..Len(modules)
      BY <1>3, <3>1
    <3> QED
      BY <1>1, <2>2, <3>3, <3>4 DEF Probe, Kinds
  <2> QED
    BY <1>1, <2>1, <2>2
<1>5. Kinds'
  BY <1>1, <1>4 DEF Kinds
<1>6. ASSUME mode = "entry" PROVE Entering'
  <2>1. Entering
    BY <1>6 DEF BundleInv
  <2>2. answer = "searching" /\ low = 0 /\ high = 1
    BY <1>1, <2>1 DEF Entering, Probe, GiveUp
  <2>3. ~GiveUp
    BY <2>2 DEF GiveUp
  <2>4. mid = 0
    BY <2>2 DEF mid
  <2>5. Len(modules) = 1 /\ modules[1] = hash
    BY <2>1 DEF Entering
  <2>6. hash \in Nat
    BY <1>1, LookupAssumption DEF Kinds
  <2>7. answer' = "found" /\ found' = 1
    BY <1>1, <2>3, <2>4, <2>5, <2>6 DEF Probe
  <2> QED
    BY <1>1, <2>1, <2>7 DEF Entering
<1>7. answer' # "idle"
  BY <1>1 DEF Probe, GiveUp
<1>8. NothingToStart'
  BY <1>7 DEF NothingToStart
<1> QED
  BY <1>1, <1>2, <1>5, <1>6, <1>8 DEF BundleInv

\* The entry point runs, or importModule has returned.
LEMMA RunsKeeps == BundleInv /\ Runs => BundleInv'
<1> SUFFICES ASSUME BundleInv, Runs PROVE BundleInv'
  OBVIOUS
<1>1. /\ Kinds /\ Filed /\ Loading /\ mode' = "running" /\ requested' = <<>>
      /\ UNCHANGED <<modules, hash, low, high, found, answer, input, file, position, sections>>
  BY DEF BundleInv, Runs, vars, search
<1>2. Filed' /\ Loading'
  BY <1>1 DEF Filed, Loading, LoadedFirst
<1>3. Kinds'
  BY <1>1 DEF Kinds
<1>4. NothingToStart'
  BY DEF Runs, NothingToStart, vars, search
<1> QED
  BY <1>1, <1>2, <1>3, <1>4 DEF BundleInv

\* An import statement.
LEMMA importKeeps == BundleInv /\ module_import_module => BundleInv'
<1> SUFFICES ASSUME BundleInv, module_import_module PROVE BundleInv'
  OBVIOUS
<1>1. /\ Kinds /\ Filed /\ Loading /\ mode' = "import"
      /\ UNCHANGED <<modules, input, file, position, sections>>
  BY DEF BundleInv, module_import_module
<1>2. Filed' /\ Loading'
  BY <1>1 DEF Filed, Loading, LoadedFirst
<1>3. PICK importer \in ToSet(input.files), source \in Sources :
        /\ requested' = <<importer, source>>
        /\ \/ UNCHANGED <<hash, low, high, found>>
           \/ StartSearch(Requested(SourceHash(importer, source)))
  BY DEF module_import_module
<1>4. Requested(SourceHash(importer, source)) \in Hashes
  <2>1. PICK i \in DOMAIN input.files : importer = input.files[i]
    BY DEF ToSet
  <2> QED
    BY <1>1, <2>1, HashAssumption, HashIsNumber DEF Kinds
<1>5. /\ hash' \in Hashes
      /\ low' \in 0..(COUNT - 1) /\ high' \in 0..(COUNT - 1)
      /\ found' \in 0..Len(modules')
  <2>1. CASE UNCHANGED <<hash, low, high, found>>
    BY <1>1, <2>1 DEF Kinds
  <2>2. CASE StartSearch(Requested(SourceHash(importer, source)))
    BY <1>1, <1>4, <2>2, SearchStarts
  <2> QED
    BY <1>3, <2>1, <2>2
<1>6. Kinds'
  BY <1>1, <1>3, <1>5 DEF Kinds
<1>7. NothingToStart'
  BY DEF module_import_module, StartSearch, NothingToStart
<1> QED
  BY <1>1, <1>2, <1>6, <1>7 DEF BundleInv

\* The end of the program, and steps that change nothing.
LEMMA RestKeeps ==
  BundleInv /\ (Exit \/ Stopped \/ UNCHANGED <<vars, bundleVars>>) => BundleInv'
<1> SUFFICES ASSUME BundleInv, Exit \/ Stopped \/ UNCHANGED <<vars, bundleVars>>
             PROVE  BundleInv'
  OBVIOUS
<1>1. /\ UNCHANGED <<modules, hash, low, high, found, answer, input, file, position, sections,
                     requested>>
      /\ mode' = mode \/ (mode = "running" /\ mode' = "exit")
  BY DEF Exit, Stopped, vars, search, bundleVars
<1>2. (Filed => Filed') /\ (Loading => Loading') /\ (Unwritten => Unwritten')
      /\ (Entering => Entering') /\ (NothingToStart => NothingToStart')
  BY <1>1 DEF Filed, Loading, LoadedFirst, Unwritten, Entering, NothingToStart
<1>3. Kinds'
  BY <1>1 DEF BundleInv, Kinds
<1> QED
  BY <1>1, <1>2, <1>3 DEF BundleInv

LEMMA BundleNextKeeps == BundleInv /\ [BundleNext]_<<vars, bundleVars>> => BundleInv'
BY bundleKeeps, parseFileKeeps, loadKeeps, mainKeeps, LookupsKeep, RunsKeeps, importKeeps,
   RestKeeps
DEF BundleNext

-----------------------------------------------------------------------------
(* The theorems about bundles.                                             *)

\* What stands in the file, and how far the loader gets, for any hash and bundles of
\* any size: the second module of a bundle is never read. (bundle, writeTo,
\* module_load_from_buffer_offset, main, module_import_module.)
THEOREM OnlyTheFirstIsLoaded == BundleSpec => []BundleInv
BY InitKeeps, BundleNextKeeps, PTL DEF BundleSpec

\* The loader stays inside the file, and the searches within uint16_t.
THEOREM BundleIsTyped == BundleSpec => []BundleTypeOK
<1>1. BundleInv => BundleTypeOK
  <2> SUFFICES ASSUME BundleInv PROVE BundleTypeOK
    OBVIOUS
  <2>1. Kinds
    BY DEF BundleInv
  <2>2. CASE mode \in {"bundling", "rejected"}
    <3>1. Unwritten
      BY <2>2 DEF BundleInv
    <3>2. modules \in Seq(Hashes) /\ Len(sections) = Len(modules)
          /\ position \in 0..(Len(file) + 1)
      BY <3>1 DEF Unwritten
    <3> QED
      BY <2>1, <3>2 DEF Kinds, BundleTypeOK
  <2>3. CASE mode \notin {"bundling", "rejected"}
    <3>1. Filed /\ Loading /\ input \in Inputs
      BY <2>1, <2>3 DEF BundleInv, Kinds
    <3>2. /\ Foremost(input) \in ModuleRecord /\ Begin(input) \in {0, 1}
          /\ Foremost(input).size \in Nat /\ Len(file) >= Begin(input) + Foremost(input).size + 2
      BY <3>1, FirstCells
    <3>3. Len(file) \in Nat
      BY <3>1 DEF Filed, Holds
    <3>4. Written(Foremost(input).hash) \in Hashes
      BY <3>2, HashIsNumber DEF ModuleRecord
    <3>5. modules \in Seq(Hashes) /\ Len(sections) = Len(modules)
      <4>1. CASE LoadedFirst
        <5>1. PICK h \in Hashes : h = Written(Foremost(input).hash)
          BY <3>4
        <5>2. <<h>> \in Seq(Hashes) /\ Len(<<h>>) = 1
          OBVIOUS
        <5>3. modules = <<h>> /\ Len(sections) = 1
          BY <4>1, <5>1 DEF LoadedFirst
        <5> QED
          BY <5>2, <5>3
      <4>2. CASE modules = <<>> /\ sections = <<>>
        BY <4>2
      <4> QED
        BY <3>1, <4>1, <4>2 DEF Loading
    <3>6. position \in 0..(Len(file) + 1)
      BY <3>1, <3>2, <3>3 DEF Loading, LoadedFirst
    <3> QED
      BY <2>1, <3>5, <3>6 DEF Kinds, BundleTypeOK
  <2> QED
    BY <2>2, <2>3
<1> QED
  BY <1>1, OnlyTheFirstIsLoaded, PTL

\* A module that is loaded has its own string table and data section.
\* (ModuleFormat.writeTo, and module_load_from_buffer_offset.)
THEOREM SectionsStayWithTheirModule == BundleSpec => []SectionsMatch
<1>1. BundleInv => SectionsMatch
  <2> SUFFICES ASSUME BundleInv, NEW i \in DOMAIN modules
               PROVE  /\ [s \in 1..2 |-> sections[i][s].kind] = <<"table", "data">>
                      /\ \A s \in 1..2 : Written(sections[i][s].of) = modules[i]
    BY DEF SectionsMatch
  <2>1. LoadedFirst
    BY DEF BundleInv, Unwritten, Loading
  <2>2. i = 1 /\ modules[i] = Written(Foremost(input).hash)
    BY <2>1 DEF LoadedFirst
  <2>3. /\ sections[1][1] = [kind |-> "table", of |-> Foremost(input).hash]
        /\ sections[1][2] = [kind |-> "data", of |-> Foremost(input).hash]
    BY <2>1 DEF LoadedFirst
  <2>4. \A s \in 1..2 : s = 1 \/ s = 2
    OBVIOUS
  <2> QED
    BY <2>2, <2>3, <2>4
<1> QED
  BY <1>1, OnlyTheFirstIsLoaded, PTL

\* A bundle that loads starts with its entry point: it has one module, whose hash stands
\* in the header of the bundle, and the search finds it. It starts nothing only where it
\* has no entry point or one whose hash is 0. (bundle, main.)
THEOREM EntryPointIsFound == BundleSpec => []EntryIsFound
<1>1. BundleInv => EntryIsFound
  BY DEF BundleInv, Entering, NothingToStart, EntryIsFound
<1> QED
  BY <1>1, OnlyTheFirstIsLoaded, PTL

=============================================================================
