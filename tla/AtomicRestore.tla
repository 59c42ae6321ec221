--------------------------- MODULE AtomicRestore ---------------------------
(***************************************************************************)
(* What a web restore promises, with no files in sight: a restore that was *)
(* recorded is pending, it is installed as a whole in one step, and        *)
(* nothing else ever replaces the database the server continues from.      *)
(* RestoreSwap, the file-by-file procedure of internal/uirestore, is       *)
(* checked against this specification.                                     *)
(***************************************************************************)
CONSTANTS Works,     \* the restores that may be recorded
          Original,  \* the database the data directory starts with
          None       \* no restore is pending

VARIABLES installed, \* the database the server continues from
          pending    \* the recorded restore, or None

vars == <<installed, pending>>

Init ==
    /\ installed = Original
    /\ pending = None

Record ==
    /\ pending = None
    /\ pending' \in Works
    /\ UNCHANGED installed

Install ==
    /\ pending \in Works
    /\ installed' = pending
    /\ pending' = None

Next == Record \/ Install

Spec == Init /\ [][Next]_vars
=============================================================================
