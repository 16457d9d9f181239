-------------------------------- MODULE Lint --------------------------------
(***************************************************************************)
(* restoregap context lint (internal/contextspec/lint.go): what it says of *)
(* a context file c, without evidence and without a change.                *)
(***************************************************************************)
EXTENDS Rules

LintFinding(severity, rule, subject) == [severity |-> severity, rule |-> rule, subject |-> subject]

\* A lifeline that requires nothing fails closed, whatever happens.
LintUnsatisfiableGuards(c) ==
  {LintFinding(IF c.guards[x].enforcement = "warn" THEN "warn" ELSE "error", "guard-never-satisfiable", x) :
     x \in {y \in DOMAIN c.guards : c.guards[y].kind = "lifeline" /\ ~Demanding(c.guards[y])}}

LintUndeclaredProofs(c) ==
  {LintFinding("error", "proof-not-declared", x) :
     x \in {y \in DOMAIN c.guards : ~(c.guards[y].proofs \subseteq DOMAIN c.proofs)}}
  \cup {LintFinding("error", "fact-not-declared", x) :
          x \in {y \in DOMAIN c.guards : ~(c.guards[y].facts \subseteq DOMAIN c.facts)}}

LintOrphanProofs(c) ==
  {LintFinding("warn", "proof-gates-nothing", q) :
     q \in DOMAIN c.proofs \ UNION {c.guards[x].proofs : x \in DOMAIN c.guards}}

\* Mutant: guards that match alike are duplicates.
SubstanceByMatch(g) == <<g.kind, g.match, g.enforcement, g.proofs, g.facts>>

\* guardSubstanceKey: require_bound is not in it.
Substance(g) == <<g.kind, g.match, g.enforcement, g.maxAge, g.requireVerified, g.proofs, g.facts>>

Alike(x, c) == {y \in DOMAIN c.guards : Substance(c.guards[y]) = Substance(c.guards[x])}

\* All of them but the first in the file, which may be any of them here.
LintDuplicateGuards(c) ==
  {LintFinding("warn", "guard-duplicates", x) : x \in {y \in DOMAIN c.guards : Alike(y, c) # {y}}}

LintContext(c) == LintUnsatisfiableGuards(c) \cup LintUndeclaredProofs(c)
                  \cup LintOrphanProofs(c) \cup LintDuplicateGuards(c)

HasErrors(findings) == \E f \in findings : f.severity = "error"

Subjects(rule, c) == {f.subject : f \in {h \in LintContext(c) : h.rule = rule}}
=============================================================================
