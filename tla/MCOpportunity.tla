----------------------------- MODULE MCOpportunity -----------------------------
(* A pair of an account that has a router, and one of an account that has none. *)
EXTENDS Opportunity

CONSTANTS a, c

NoFit == [fits |-> FALSE, score |-> 0, factor |-> 100]
Good  == [fits |-> TRUE, score |-> 70, factor |-> 100]
Large == [fits |-> TRUE, score |-> 90, factor |-> 40]

MCFacts == {NoFit, Good, Large}
MCFirst == [o \in {a, c} |-> NoFit]
================================================================================
