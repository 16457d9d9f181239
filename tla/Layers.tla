------------------------------- MODULE Layers -------------------------------
(***************************************************************************)
(* internal/policy: how the context files of several layers, the            *)
(* organisation's first and the host's last, become one policy.  A later     *)
(* layer may add a guard or tighten one; a guard that loosens an earlier one  *)
(* is not applied and is reported.                                          *)
(***************************************************************************)
EXTENDS Rules

EnforcementRank(e) == IF e = "block" THEN 1 ELSE 0

\* Mutant: an unbounded age passes for the strictest.
AgeZeroIsStrict(existing, candidate) == existing # 0 => candidate <= existing

\* 0 hours: unbounded.
AgeTightensOrEqual(existing, candidate) ==
  existing # 0 => candidate # 0 /\ candidate <= existing

\* tightens: the named dimensions only get stricter.
Tightens(existing, candidate) ==
  /\ existing.requireBound => candidate.requireBound
  /\ EnforcementRank(candidate.enforcement) >= EnforcementRank(existing.enforcement)
  /\ existing.proofs \subseteq candidate.proofs
  /\ existing.facts \subseteq candidate.facts
  /\ AgeTightensOrEqual(existing.maxAge, candidate.maxAge)
  /\ existing.match.paths \subseteq candidate.match.paths

Nothing == [guards |-> <<>>, coverage |-> {}, loosened |-> {}]

Put(f, x, y) == [z \in DOMAIN f \cup {x} |-> IF z = x THEN y ELSE f[z]]

\* One guard of a file, folded into what earlier files and guards left.
MergeGuard(acc, file, x, g) ==
  IF x \in DOMAIN acc.guards /\ ~Tightens(acc.guards[x], g)
  THEN [acc EXCEPT !.loosened = @ \cup {<<x, file>>}]
  ELSE [acc EXCEPT !.guards = Put(@, x, g)]
=============================================================================
