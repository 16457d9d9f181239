------------------------------ MODULE MCRunner ------------------------------
(* An instance of Runner for TLC. *)
EXTENDS Runner

MCHelpers == {"h1", "h2"}
=============================================================================
