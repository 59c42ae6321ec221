------------------------------- MODULE MCLogin -------------------------------
(***************************************************************************)
(* Login for TLC: requests, tokens and sources are interchangeable, and    *)
(* every property checked is an invariant that names none of them.         *)
(***************************************************************************)
EXTENDS Login, TLC

Symmetry == Permutations(Handlers) \cup Permutations(Tokens) \cup Permutations(Sources)
=============================================================================
