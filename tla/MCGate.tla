------------------------------- MODULE MCGate -------------------------------
(* Instances of Gate for TLC. *)
EXTENDS Gate, TLC

CONSTANTS dir, key, cert, copy   \* paths

\* A directory, two files in it that a guard protects, and the copy that the
\* recovery reads.
MCGlob    == {<<v, v>> : v \in {key, cert, copy}}
MCBeneath == {<<dir, key>>, <<dir, cert>>}

None == [d \in Dim |-> {}]
On(paths, action) == [None EXCEPT !.paths = paths, !.actions = {action}]

Recipe(n) == [steps |-> n, deps |-> [None EXCEPT !.paths = {copy}]]
MCRecipes == {Recipe(1), Recipe(2)}

G(paths, e, age, bound) ==
  [kind |-> "lifeline", match |-> [None EXCEPT !.paths = paths], proofs |-> {"q"},
   facts |-> {"f"}, enforcement |-> e, maxAge |-> age, requireVerified |-> bound,
   requireBound |-> bound]
P(guards, loosened) == [guards |-> guards, coverage |-> {}, loosened |-> loosened]

Bound    == P([x |-> G({key, cert}, "block", 1, TRUE),
               y |-> [G({copy}, "warn", 0, FALSE) EXCEPT !.proofs = {}]], {})
Lenient  == P([x |-> G({key}, "warn", 0, FALSE)], {<<"x", 2>>})
MCPolicies == {Bound, Lenient}

\* --diff, or the paths of one intent.
R(intents, strict, failOnWarn, plan, asOf) ==
  [intents |-> intents, strict |-> strict, failOnWarn |-> failOnWarn, ledger |-> TRUE,
   plan |-> plan, asOf |-> asOf]
MCRequests ==
  {R({On({key}, "modify_file")}, TRUE, FALSE, FALSE, 0),
   R({On({key}, "modify_file"), On({copy}, "delete_file")}, FALSE, FALSE, FALSE, 0),
   R({On({dir}, "delete_file")}, TRUE, TRUE, FALSE, 0),
   R({On({cert}, "modify_file")}, FALSE, FALSE, TRUE, 2),
   [R({On({key}, "modify_file")}, FALSE, TRUE, FALSE, 0) EXCEPT !.ledger = FALSE]}

BoundOnly  == {Bound}
OnePath    == {R({On({key}, "modify_file")}, FALSE, FALSE, FALSE, 0)}
TwoPaths   == {R({On({key}, "modify_file")}, FALSE, FALSE, FALSE, 0),
               R({On({cert}, "modify_file")}, FALSE, FALSE, FALSE, 0),
               R({On({key, cert}, "modify_file")}, TRUE, FALSE, FALSE, 0)}
MCFacts == [f \in {"f"} |-> 2]
=============================================================================
