---------------------------- MODULE MCTestSuite ----------------------------
(* Two workers and up to three tests of every kind. The second version of a *)
(* test prints something else. "a+" is the output "a" with \r\n for \n.     *)
EXTENDS TestSuite

P(node, compiles, machine) == [node |-> node, compiles |-> compiles, machine |-> machine]

MCPrograms ==
  [t \in {"same", "differs", "silent", "panics", "refused", "throws", "returns"} |->
     CASE t = "same"    -> <<P("a", TRUE, "a"), P("b", TRUE, "b")>>
       [] t = "differs" -> <<P("a", TRUE, "b"), P("b", TRUE, "b")>>
       [] t = "silent"  -> <<P("a", TRUE, ""), P("", TRUE, "")>>
       [] t = "panics"  -> <<P("a", TRUE, Dies), P("a", TRUE, "a")>>
       [] t = "refused" -> <<P("a", FALSE, Dies), P("a", TRUE, "a")>>
       [] t = "throws"  -> <<P(Dies, TRUE, "a"), P(Dies, TRUE, "a")>>
       [] t = "returns" -> <<P("a+", TRUE, "a+"), P("a", TRUE, "a+")>>]
MCUnix == [o \in Outputs |-> IF o = "a+" THEN "a" ELSE o]
MCSuites ==
  {<<>>, <<"same">>, <<"same", "silent">>, <<"same", "differs", "silent">>,
   <<"panics", "silent", "same">>, <<"refused", "same">>, <<"same", "throws">>,
   <<"returns", "same">>}

=============================================================================
