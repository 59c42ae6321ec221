------------------------------ MODULE MCIngest ------------------------------
(***************************************************************************)
(* Ingest for TLC: uploads, contents and identifiers are interchangeable,  *)
(* and every property checked is an invariant or a step property that      *)
(* names none of them.                                                     *)
(***************************************************************************)
EXTENDS Ingest, TLC

Symmetry ==
    UNION {Permutations(S) : S \in {Uploads, Contents, Ids, RepairIds}}
=============================================================================
