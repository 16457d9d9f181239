------------------------------ MODULE MCLedger ------------------------------
(* Instances of Ledger for TLC. *)
EXTENDS Ledger, TLC

CONSTANTS p1, p2, b1, b2

\* The processes run the same program and are told apart nowhere else.
Symmetry == Permutations(Proc)
=============================================================================
