------------------------------- MODULE JSDict -------------------------------
(***************************************************************************)
(* The hash table of core/dict.c behind every scope and every object: an   *)
(* array of buckets, each a linked list of entries. A string key goes to   *)
(* the bucket of its hash; a symbol always goes to bucket 0, in an entry   *)
(* whose key is NULL. The actions are the operations of scopes and objects *)
(* on their own table (core/scope.c, core/object.c): add is only reached   *)
(* after a lookup that failed.                                             *)
(***************************************************************************)
EXTENDS Naturals, Sequences

CONSTANTS
  Keys,          \* the strings used as keys
  Symbols,       \* the addresses of symbols
  Values,        \* the values of properties and variables
  NULL,
  Absent,        \* what a lookup that finds nothing returns
  bucket_count,
  hash_string    \* hash_string[k]: the bucket of key k

Buckets == 0..(bucket_count - 1)
Names == Keys \cup Symbols

ASSUME DictAssumption ==
  /\ bucket_count \in Nat \ {0}
  /\ hash_string \in [Keys -> Buckets]
  /\ Keys \cap Symbols = {}
  /\ NULL \notin Names
  /\ Absent \notin Values \cup BOOLEAN

JSProperty ==
  [key : Keys \cup {NULL}, symbol : Symbols \cup {NULL}, value : Values]

VARIABLES
  call,     \* the last operation and its operands
  buckets,  \* dict->buckets: the chain of each bucket, its head first
  result,   \* what the last operation returned
  up        \* FALSE: the process has died of a NULL pointer

vars == <<call, buckets, result, up>>

\* A lookup that finds nothing answers Absent, and update and delete answer
\* with a truth value.
TypeOK ==
  /\ buckets \in [Buckets -> Seq(JSProperty)]
  /\ result \in Values \cup BOOLEAN \cup {Absent}
  /\ up \in BOOLEAN

-----------------------------------------------------------------------------
(* The walk along a chain.                                                 *)

BucketOf(n) == IF n \in Symbols THEN 0 ELSE hash_string[n]

\* dict_get skips entries without a key; dict_get_by_symbol compares the symbol
\* of every entry, which is NULL in those of strings.
Matches(e, n) == IF n \in Symbols THEN e.symbol = n ELSE e.key = n

Chain(n) == buckets[BucketOf(n)]

\* The first entry for n in its chain.
IsIn(n) == \E i \in DOMAIN Chain(n) : Matches(Chain(n)[i], n)
Position(n) ==
  LET chain == Chain(n)
  IN  CHOOSE i \in DOMAIN chain :
        Matches(chain[i], n) /\ \A j \in 1..(i - 1) : ~Matches(chain[j], n)

\* Mutant: the value is not stored.
NewEntryUnset(n, v) ==
  IF n \in Symbols THEN [key |-> NULL, symbol |-> n, value |-> NULL]
                   ELSE [key |-> n, symbol |-> NULL, value |-> NULL]

NewEntry(n, v) ==
  IF n \in Symbols THEN [key |-> NULL, symbol |-> n, value |-> v]
                   ELSE [key |-> n, symbol |-> NULL, value |-> v]

WithChain(n, chain) == [buckets EXCEPT ![BucketOf(n)] = chain]

-----------------------------------------------------------------------------
(* Operations on the table.                                                *)

\* dict_get and dict_get_by_symbol.
dict_get(n) == IF IsIn(n) THEN Chain(n)[Position(n)].value ELSE Absent

\* The value behind the pointer that a lookup returned is overwritten.
Overwritten(n, v) == WithChain(n, [Chain(n) EXCEPT ![Position(n)].value = v])

\* dict_add and dict_add_with_symbol: a new head.
dict_add(n, v) == WithChain(n, <<NewEntry(n, v)>> \o Chain(n))

\* Mutant: the entry behind the one looked for is unlinked.
WithoutNext(chain, i) == SubSeq(chain, 1, i) \o SubSeq(chain, i + 2, Len(chain))
\* The chain without its entry i.
Without(chain, i) == SubSeq(chain, 1, i - 1) \o SubSeq(chain, i + 1, Len(chain))

dict_create_dict ==
  /\ call = <<"create">>
  /\ buckets = [b \in Buckets |-> <<>>]
  /\ result = Absent
  /\ up = TRUE

Get(n) ==
  /\ up
  /\ call' = <<"get", n>>
  /\ result' = dict_get(n)
  /\ UNCHANGED <<buckets, up>>

\* dict_update, dict_update_with_symbol, and scope_set on the scope itself.
dict_update(n, v) ==
  /\ up
  /\ call' = <<"update", n, v>>
  /\ buckets' = IF IsIn(n) THEN Overwritten(n, v) ELSE buckets
  /\ result' = IsIn(n)
  /\ UNCHANGED up

\* Mutant: the new entry is added without a look for an old one.
PutBlindly(n, v) ==
  /\ up
  /\ call' = <<"put", n, v>>
  /\ buckets' = dict_add(n, v)
  /\ result' = Absent
  /\ UNCHANGED up

\* scope_declare, object_set_property and object_set_property_with_symbol.
Put(n, v) ==
  /\ up
  /\ call' = <<"put", n, v>>
  /\ buckets' = IF IsIn(n) THEN Overwritten(n, v) ELSE dict_add(n, v)
  /\ result' = Absent
  /\ UNCHANGED up

\* dict_delete and dict_delete_by_symbol. The entry before the one to unlink
\* is looked for from the second entry on: when that is the entry itself, the
\* walk runs to the end of the chain and reads through NULL.
dict_delete(n) ==
  /\ up
  /\ call' = <<"delete", n>>
  /\ IF IsIn(n) /\ Position(n) = 2
     THEN up' = FALSE /\ UNCHANGED <<buckets, result>>
     ELSE /\ buckets' = IF IsIn(n) THEN WithChain(n, Without(Chain(n), Position(n)))
                                   ELSE buckets
          /\ result' = IsIn(n)
          /\ UNCHANGED up

Died == ~up /\ UNCHANGED vars

Init == dict_create_dict

Next ==
  \/ \E n \in Names :
       \/ Get(n)
       \/ \E v \in Values : dict_update(n, v) \/ Put(n, v)
       \/ dict_delete(n)
  \/ Died

Spec == Init /\ [][Next]_vars

-----------------------------------------------------------------------------

NameOf(e) == IF e.key = NULL THEN e.symbol ELSE e.key

\* No name occurs twice, and each lies in the chain where lookups search for
\* it. A second entry would shadow the first and come back when the newer one
\* is deleted. (dict_add does not look for an old entry: its callers
\* scope_declare and object_set_property do.)
OneEntryPerName ==
  \A b, c \in Buckets : \A i \in DOMAIN buckets[b], j \in DOMAIN buckets[c] :
    LET n == NameOf(buckets[b][i])
    IN  /\ BucketOf(n) = b
        /\ n = NameOf(buckets[c][j]) => b = c /\ i = j

Map == INSTANCE PropertyMap WITH map <- [n \in Names |-> dict_get(n)]

\* The table implements a map: each operation changes what a lookup of its own
\* name answers, and of no other name, whatever else lies in the same chain,
\* strings and symbols included. (All of dict.c.)
ImplementsMap == Map!Spec

=============================================================================
