---------------------------- MODULE MCCuRequests -----------------------------
(* Two lanes that store to the same line, twice.                           *)
EXTENDS CuRequests

CONSTANT a

Store == [re |-> FALSE, simd |-> FALSE, en |-> Lanes, line |-> [i \in Lanes |-> a]]

MCPrograms == {<<Store, Store>>}
=============================================================================
