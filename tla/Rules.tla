------------------------------- MODULE Rules -------------------------------
(***************************************************************************)
(* The decision core, which keeps no state: guard matching, heuristics and  *)
(* strict coverage (internal/rules), the checks of proofs and facts           *)
(* (internal/contextspec), verdicts and overrides (internal/engine).          *)
(*                                                                         *)
(* A change intent and the matcher of a guard give, for every dimension, a   *)
(* set of values; those of an intent are what it addresses, those of a guard *)
(* are patterns.  A digest is the thing it was computed from.                *)
(***************************************************************************)
EXTENDS Naturals, FiniteSets, Sequences

CONSTANTS Glob,     \* <<pattern, value>>: the pattern matches the value
          Beneath,  \* <<path, pattern>>: the pattern lies below the path
          Risky,    \* values of the built-in heuristic patterns
          Absent    \* a recipe digest, a dependency list or a drill that is not there

Dim == {"paths", "commands", "packages", "actions", "actors", "windows"}

Kind        == {"lifeline", "guard"}
Enforcement == {"warn", "block"}
Verdict     == {"pass", "warn", "block"}

-----------------------------------------------------------------------------
(* Which guards a change touches                                           *)

DestroysSubtree(ci) == ci.actions \cap {"delete_file", "move_file"} # {}

\* Deleting or moving a directory reaches what lies below it.
PathHits(patterns, ci) ==
  LET named == {v \in ci.paths : \E p \in patterns : <<p, v>> \in Glob}
      below == {vp \in ci.paths \X patterns : vp \in Beneath}
  IN  IF named # {} THEN named ELSE IF DestroysSubtree(ci) THEN below ELSE {}

Hits(dim, patterns, ci) ==
  CASE dim = "paths"                  -> PathHits(patterns, ci)
    [] dim \in {"actions", "windows"} -> ci[dim] \cap patterns
    [] OTHER                          -> {v \in ci[dim] : \E p \in patterns : <<p, v>> \in Glob}

Populated(g) == {d \in Dim : g.match[d] # {}}

\* Every dimension that the guard constrains must match.
GuardMatches(g, ci) ==
  /\ Populated(g) # {}
  /\ \A d \in Populated(g) : Hits(d, g.match[d], ci) # {}

Naming == <<"paths", "commands", "packages">>

PrimaryResource(ci) ==
  LET named == SelectSeq(Naming, LAMBDA d : ci[d] # {})
  IN  CHOOSE v \in (IF named # <<>> THEN ci[named[1]] ELSE ci.actors \cup {Absent}) : TRUE

\* What a finding is labelled with: the first concrete value that matched.
Resource(g, ci) ==
  LET named == SelectSeq(Naming, LAMBDA d : d \in Populated(g))
  IN  IF named = <<>> THEN PrimaryResource(ci)
      ELSE CHOOSE v \in Hits(named[1], g.match[named[1]], ci) : TRUE

-----------------------------------------------------------------------------
(* What is proved                                                          *)

\* EvaluateProof: what the record claims on its own.  The signature fails for
\* a record changed after it was signed.
EvaluateProof(r, now) ==
  IF r.status = "unreachable" THEN "unreachable"
  ELSE IF r.status = "disputed" \/ r.signature = "bad" THEN "contradicted"
  ELSE IF (r.expires # 0 /\ now > r.expires) \/ r.status = "stale" THEN "stale"
  ELSE "present"

\* Mutant: a digest and a dependency list have to be there, not to be right.
BindingOfAny(r, drill, requireBound) ==
  IF r.digest = Absent /\ r.deps = Absent /\ requireBound THEN "missing" ELSE "present"

\* validateProofBinding, for a record that is otherwise present.
Binding(r, drill, requireBound) ==
  IF r.digest = Absent /\ r.deps = Absent THEN (IF requireBound THEN "missing" ELSE "present")
  ELSE IF \/ r.digest = Absent \/ r.deps = Absent \/ drill = Absent
          \/ r.digest # drill \/ r.deps # drill.deps THEN "contradicted"
  ELSE "present"

\* applyProofRequirements: what the guard demands of the record.
Demands(g, r, now) ==
  IF g.requireVerified /\ ~r.verified THEN "missing"
  ELSE IF g.maxAge > 0 /\ now > r.observed + g.maxAge THEN "stale" ELSE "present"

CheckProofWithBinding(g, q, c, now) ==
  IF q \notin DOMAIN c.proofs THEN "missing"
  ELSE LET r       == c.proofs[q]
           drill   == IF q \in DOMAIN c.drills THEN c.drills[q] ELSE Absent
           binding == Binding(r, drill, g.requireBound)
       IN  IF EvaluateProof(r, now) # "present" THEN EvaluateProof(r, now)
           ELSE IF binding # "present" THEN binding
           ELSE Demands(g, r, now)

CheckFact(f, c, now) ==
  IF f \notin DOMAIN c.facts THEN "missing"
  ELSE IF c.facts[f] # 0 /\ now > c.facts[f] THEN "stale" ELSE "present"

\* A change that touches what the recovery itself needs contradicts the proof.
Touches(deps, ci) == /\ deps # Absent
                     /\ \E d \in {"paths", "commands", "packages"} : Hits(d, deps[d], ci) # {}

Conflict(q, intents, c) == /\ q \in DOMAIN c.proofs
                           /\ \E ci \in intents : Touches(c.proofs[q].deps, ci)

ProofStates(g, intents, c, now) ==
  {IF Conflict(q, intents, c) THEN "contradicted" ELSE CheckProofWithBinding(g, q, c, now) :
     q \in g.proofs} \cup {CheckFact(f, c, now) : f \in g.facts}

\* worstState; contradicted and unreachable share a rank.
Worst(states) ==
  LET failed == states \cap {"contradicted", "unreachable"}
  IN  IF failed # {} THEN CHOOSE s \in failed : TRUE
      ELSE IF "missing" \in states THEN "missing"
      ELSE IF "stale" \in states THEN "stale" ELSE "present"

-----------------------------------------------------------------------------
(* Verdicts                                                                *)

Demanding(g) == g.proofs \cup g.facts # {}

ProofStatus(g, intents, c, now) ==
  IF Demanding(g) THEN Worst(ProofStates(g, intents, c, now))
  ELSE IF g.kind = "lifeline" THEN "missing" ELSE "not_required"

\* Decide: anything unproven blocks, unless the guard only warns.
Decide(status, enforcement) ==
  IF status \in {"present", "not_required"} THEN "pass" ELSE enforcement

Judge(g, intents, c, now) == Decide(ProofStatus(g, intents, c, now), g.enforcement)

Finding(id, v) == [id |-> id, verdict |-> v]

\* findingID hashes kind, guard id and resource: the action is not in it.
GuardFindings(ci, intents, c, now) ==
  {Finding(<<c.guards[x].kind, x, Resource(c.guards[x], ci)>>,
           Judge(c.guards[x], intents, c, now)) :
     x \in {y \in DOMAIN c.guards : GuardMatches(c.guards[y], ci)}}

\* HeuristicRule: the first concern of packages, paths and system updates.
Heuristic(ci) ==
  CASE ci.packages \cap Risky # {} ->
         {<<"guard", "risky-package-update", CHOOSE v \in ci.packages \cap Risky : TRUE>>}
    [] ci.packages \cap Risky = {} /\ ci.paths \cap Risky # {} ->
         {<<"guard", "sensitive-path-change", CHOOSE v \in ci.paths \cap Risky : TRUE>>}
    [] OTHER -> IF "system_update" \in ci.actions
                THEN {<<"guard", "whole-system-update", PrimaryResource(ci)>>} ELSE {}

\* strictIntentClassifiable: the action is known and addresses what it acts on.
Classifiable(ci) ==
  LET acts(A) == ci.actions \cap A # {}
  IN  /\ ci.paths \cup ci.packages \cup ci.commands # {}
      /\ \/ acts({"delete_file", "modify_file", "move_file"}) /\ ci.paths # {}
         \/ acts({"package_update", "install_package", "remove_package"}) /\ ci.packages # {}
         \/ acts({"run_command"}) /\ ci.commands # {}
         \/ acts({"system_update"})

\* Mutant: a guard on what lies below a path covers the path.
CoversBelow(g, ci, dim, v) ==
  /\ Populated(g) \cap {"paths", "commands", "packages"} # {} => dim \in Populated(g)
  /\ GuardMatches(g, [ci EXCEPT ![dim] = {v}])

\* guardCoversResource: the guard names this resource itself.
Covers(g, ci, dim, v) ==
  /\ Populated(g) \cap {"paths", "commands", "packages"} # {} => dim \in Populated(g)
  /\ dim = "paths" /\ g.match.paths # {} => \E p \in g.match.paths : <<p, v>> \in Glob
  /\ GuardMatches(g, [ci EXCEPT ![dim] = {v}])

Uncovered(ci, c) ==
  {dv \in UNION {{d} \X ci[d] : d \in {"paths", "commands", "packages"}} :
     \A x \in DOMAIN c.guards : ~Covers(c.guards[x], ci, dv[1], dv[2])}

CoverageFindings(ci, c) ==
  {Finding(<<"coverage", ci.actions, dv[2]>>, "block") : dv \in Uncovered(ci, c)}
  \cup IF Classifiable(ci) THEN {} ELSE {Finding(<<"coverage", ci.actions, "intent">>, "block")}

\* EvaluateWithOptions, for one of the intents of a change.
EvaluateIntent(ci, intents, c, now, requireCoverage) ==
  LET matched == GuardFindings(ci, intents, c, now)
      strict  == \/ requireCoverage
                 \/ "run_command" \in ci.actions /\ Hits("commands", c.coverage, ci) # {}
      advice  == IF matched = {} /\ (strict => Classifiable(ci))
                 THEN {Finding(h, "warn") : h \in Heuristic(ci)} ELSE {}
  IN  matched \cup advice \cup (IF strict THEN CoverageFindings(ci, c) ELSE {})

Evaluate(intents, c, now, requireCoverage) ==
  UNION {EvaluateIntent(ci, intents, c, now, requireCoverage) : ci \in intents}

\* overridden: the ids of the findings that an active override names.
ApplyOverrides(findings, overridden) ==
  {IF f.id \in overridden THEN Finding(f.id, "pass") ELSE f : f \in findings}

\* Mutant: the first severity looked for is not the worst.
OverallWarnFirst(findings) ==
  LET vs == {f.verdict : f \in findings}
  IN  IF "warn" \in vs THEN "warn" ELSE IF "block" \in vs THEN "block" ELSE "pass"

Overall(findings) ==
  LET vs == {f.verdict : f \in findings}
  IN  IF "block" \in vs THEN "block" ELSE IF "warn" \in vs THEN "warn" ELSE "pass"

ExitCode(v, failOnWarn) == IF v = "block" \/ (v = "warn" /\ failOnWarn) THEN 1 ELSE 0
=============================================================================
