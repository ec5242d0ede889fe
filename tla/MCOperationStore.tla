--------------------------- MODULE MCOperationStore ---------------------------
(* TLC instance of the operations ledger.                                    *)
EXTENDS OperationStore, TLC

CONSTANTS rA, rB

\* The two resources of this instance may be swapped.
ResourceSymmetry == Permutations({rA, rB})
=============================================================================
