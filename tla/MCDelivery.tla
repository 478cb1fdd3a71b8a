------------------------------ MODULE MCDelivery ------------------------------
(* One account over two weeks, with two opportunities. *)
EXTENDS Delivery, TLC

CONSTANTS a, b

Gone  == [listed |-> FALSE, passes |-> FALSE, auto |-> FALSE, easy |-> FALSE]
Held  == [listed |-> TRUE, passes |-> TRUE, auto |-> FALSE, easy |-> FALSE]
Plain == [listed |-> TRUE, passes |-> TRUE, auto |-> TRUE, easy |-> FALSE]
Easy  == [listed |-> TRUE, passes |-> TRUE, auto |-> TRUE, easy |-> TRUE]

MCFacts  == {Gone, Held, Plain, Easy}
MCFirst  == Easy
Symmetry == Permutations({a, b})
===============================================================================
