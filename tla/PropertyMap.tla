---------------------------- MODULE PropertyMap ----------------------------
(***************************************************************************)
(* What a dictionary promises the scopes and objects that keep their       *)
(* variables and properties in it: a map from names to values. A name is a *)
(* string or a symbol. This is the dictionary of Runtime.                  *)
(***************************************************************************)
CONSTANTS Names, Values, Absent

VARIABLES
  call,    \* the last operation and its operands
  map,     \* the value of each name, Absent when it has none
  result,  \* what the last operation returned
  up       \* FALSE: the process has died

mapVars == <<call, map, result, up>>

Init ==
  /\ call = <<"create">>
  /\ map = [n \in Names |-> Absent]
  /\ result = Absent
  /\ up = TRUE

Has(n) == map[n] # Absent

\* A lookup returns the value and changes nothing.
Get(n) ==
  /\ up
  /\ call' = <<"get", n>>
  /\ result' = map[n]
  /\ UNCHANGED <<map, up>>

\* An assignment to a name that is there; FALSE when it is not.
Update(n, v) ==
  /\ up
  /\ call' = <<"update", n, v>>
  /\ map' = IF Has(n) THEN [map EXCEPT ![n] = v] ELSE map
  /\ result' = Has(n)
  /\ UNCHANGED up

\* A declaration: the name is there afterwards, with this value.
Put(n, v) ==
  /\ up
  /\ call' = <<"put", n, v>>
  /\ map' = [map EXCEPT ![n] = v]
  /\ result' = Absent
  /\ UNCHANGED up

\* A deletion takes the name away and tells whether it was there. Deleting a
\* name that is there may kill the process.
Delete(n) ==
  /\ up
  /\ call' = <<"delete", n>>
  /\ \/ /\ map' = [map EXCEPT ![n] = Absent]
        /\ result' = Has(n)
        /\ UNCHANGED up
     \/ Has(n) /\ up' = FALSE /\ UNCHANGED <<map, result>>

Next ==
  \E n \in Names :
    \/ Get(n)
    \/ \E v \in Values : Update(n, v) \/ Put(n, v)
    \/ Delete(n)

Spec == Init /\ [][Next]_mapVars

=============================================================================
