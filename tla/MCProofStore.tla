---------------------------- MODULE MCProofStore ----------------------------
(* Instances of ProofStore for TLC. *)
EXTENDS ProofStore, TLC

CONSTANTS p1, p2, q1, q2

\* Processes run the same programs, proofs are told apart by nothing.
Symmetry == Permutations(Proc) \cup Permutations(Proof)
=============================================================================
