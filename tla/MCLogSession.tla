--------------------------- MODULE MCLogSession ---------------------------
(* Constants of the runs of LogSession. *)
EXTENDS LogSession

RuleNames == {"run"}
FixedNames == {"fixed"}
Given == {0, 1}
App == {-1, 2}

===========================================================================
