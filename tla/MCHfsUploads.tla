---------------------------- MODULE MCHfsUploads ----------------------------
(***************************************************************************)
(* HfsUploads for TLC: requests and names are interchangeable, and every   *)
(* property checked is an invariant or a step property that names none of  *)
(* them.                                                                   *)
(***************************************************************************)
EXTENDS HfsUploads, TLC

Symmetry == Permutations(Requests) \cup Permutations(Names)
=============================================================================
