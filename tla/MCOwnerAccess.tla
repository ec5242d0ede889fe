--------------------------- MODULE MCOwnerAccess ---------------------------
(***************************************************************************)
(* A small instance of OwnerAccess for TLC.                                 *)
(***************************************************************************)
EXTENDS OwnerAccess, TLC

\* Requests and passwords are only names.
MCSymmetry == Permutations(Req) \cup Permutations(Password)
=============================================================================
