------------------------------- MODULE Policy -------------------------------
(***************************************************************************)
(* One run of policy.Merge over the context files of a machine: every file  *)
(* is read and checked against those before it (contextspec.LoadLayers), then *)
(* the guards of each are folded into the policy, in order.                   *)
(***************************************************************************)
EXTENDS Layers, Lint

CONSTANTS Id,         \* guard ids
          Value,      \* patterns and values
          Evidence,   \* ids of proofs and facts
          LayerSet,   \* what a context file may say
          MaxLayers,  \* bound: files in force
          LintedLayers, \* bound: files whose guards are linted as one
          Changes,    \* sets of intents    \
          Worlds,     \* contexts            |  what a policy is judged on
          Times       \* moments            /

Guard == [kind : Kind, match : [Dim -> SUBSET Value], proofs : SUBSET Evidence,
          facts : SUBSET Evidence, enforcement : Enforcement, maxAge : Nat,
          requireVerified : BOOLEAN, requireBound : BOOLEAN]

IsGuards(f) == DOMAIN f \subseteq Id /\ f \in [DOMAIN f -> Guard]

\* ids: the proofs, facts and drills that a file declares.
IsLayer(l) == /\ l.version \in Nat /\ l.ids \subseteq Evidence
              /\ l.coverage \subseteq Value /\ IsGuards(l.guards)

ASSUME LayerAssumption == \A l \in LayerSet : IsLayer(l)
\* fromRawGuard rejects a guard whose matcher is empty.
ASSUME MatchAssumption ==
         \A l \in LayerSet : \A x \in DOMAIN l.guards : Populated(l.guards[x]) # {}
ASSUME BoundAssumption == MaxLayers \in Nat /\ LintedLayers \in Nat
\* fromRawProof rejects a proof that was never observed.
ASSUME WorldAssumption ==
         /\ Times \subseteq Nat
         /\ \A c \in Worlds : \A q \in DOMAIN c.proofs : c.proofs[q].observed \in Nat

\* Evidence at its best: sound, verified, bound, fresh, and the change touches
\* nothing that the recovery needs.
AtBest(d, change, now) ==
  /\ \A q \in DOMAIN d.proofs :
       LET r == d.proofs[q]
       IN  /\ EvaluateProof(r, now) = "present" /\ r.verified /\ now <= r.observed
           /\ Binding(r, IF q \in DOMAIN d.drills THEN d.drills[q] ELSE Absent, TRUE) = "present"
           /\ ~Conflict(q, change, d)
  /\ \A f \in DOMAIN d.facts : CheckFact(f, d, now) = "present"

\* Worlds, Changes and Times are rich enough to tell what can be satisfied: for
\* what is declared somewhere there may be evidence at its best when a change
\* comes that the guard matches.
ASSUME EvidenceAssumption ==
  \A w \in Worlds : \A l \in LayerSet : \A x \in DOMAIN l.guards :
    \E d \in Worlds : \E change \in Changes : \E now \in Times :
      /\ DOMAIN d.proofs = DOMAIN w.proofs /\ DOMAIN d.facts = DOMAIN w.facts
      /\ \E ci \in change : GuardMatches(l.guards[x], ci)
      /\ AtBest(d, change, now)

VARIABLES phase,   \* "load", "merge", "done" or "failed"
          layers,  \* the files read so far
          at,      \* the layer being merged
          todo,    \* its guards not yet merged
          acc      \* mergeState: guards, coverage, loosening attempts

vars == <<phase, layers, at, todo, acc>>

TypeOK ==
  /\ phase \in {"load", "merge", "done", "failed"}
  /\ layers \in Seq(LayerSet)
  /\ at \in 0..Len(layers) /\ todo \subseteq Id
  /\ acc \in [guards : {acc.guards}, coverage : SUBSET Value, loosened : SUBSET (Id \X Nat)]
  /\ IsGuards(acc.guards)
  /\ at > 0 => todo \subseteq DOMAIN layers[at].guards

Init == /\ phase = "load" /\ layers = <<>>
        /\ at = 0 /\ todo = {} /\ acc = Nothing

-----------------------------------------------------------------------------
\* The checks of LoadLayers on the next file.
Acceptable(l) ==
  \A i \in DOMAIN layers : layers[i].version = l.version /\ layers[i].ids \cap l.ids = {}

ReadLayer ==
  /\ phase = "load" /\ Len(layers) < MaxLayers
  /\ \E l \in LayerSet : Acceptable(l) /\ layers' = Append(layers, l)
  /\ UNCHANGED <<phase, at, todo, acc>>

\* Another version, an id declared twice, or a file that is no context document.
Reject ==
  /\ phase = "load" /\ Len(layers) < MaxLayers
  /\ phase' = "failed"
  /\ UNCHANGED <<layers, at, todo, acc>>

Turn(i) == /\ at' = i /\ todo' = DOMAIN layers[i].guards
           /\ acc' = [acc EXCEPT !.coverage = @ \cup layers[i].coverage]

StartMerge ==
  /\ phase = "load" /\ layers # <<>>
  /\ phase' = "merge" /\ Turn(1)
  /\ UNCHANGED layers

\* Mutant: a loosening attempt is ignored and not reported.
MergeSilently ==
  /\ phase = "merge"
  /\ \E x \in todo : /\ todo' = todo \ {x}
                     /\ acc' = [MergeGuard(acc, at, x, layers[at].guards[x])
                                  EXCEPT !.loosened = acc.loosened]
  /\ UNCHANGED <<phase, layers, at>>

Merge ==
  /\ phase = "merge"
  /\ \E x \in todo : /\ todo' = todo \ {x}
                     /\ acc' = MergeGuard(acc, at, x, layers[at].guards[x])
  /\ UNCHANGED <<phase, layers, at>>

NextLayer ==
  /\ phase = "merge" /\ todo = {} /\ at < Len(layers)
  /\ Turn(at + 1)
  /\ UNCHANGED <<phase, layers>>

Finish ==
  /\ phase = "merge" /\ todo = {} /\ at = Len(layers)
  /\ phase' = "done"
  /\ UNCHANGED <<layers, at, todo, acc>>

Next == ReadLayer \/ Reject \/ StartMerge \/ Merge \/ NextLayer \/ Finish

Spec == Init /\ [][Next]_vars

-----------------------------------------------------------------------------
(* Properties                                                              *)

\* The declarations folded so far.
Folded(i, x) == /\ i \in 1..at /\ x \in DOMAIN layers[i].guards
                /\ i = at => x \notin todo

Applied(i, x) == Folded(i, x) /\ <<x, i>> \notin acc.loosened

\* Whatever order and however many layers: each declaration is either met by
\* the policy, in every dimension that "tightens" compares, or reported as a
\* loosening attempt.  Tightening one layer at a time never undoes a floor that
\* a layer further down has set (Merge).
NothingSilent ==
  \A i \in 1..at : \A x \in Id :
    Applied(i, x) => x \in DOMAIN acc.guards /\ Tightens(layers[i].guards[x], acc.guards[x])

\* The first layer that declares a guard sets its floor, and every later layer
\* leaves the policy at or above it ("an org's fleet-wide floor cannot be
\* silently narrowed by a per-host file", Merge).
FloorHolds ==
  \A i \in 1..at : \A x \in Id :
    Folded(i, x) /\ (\A j \in 1..(i - 1) : x \notin DOMAIN layers[j].guards) =>
      x \in DOMAIN acc.guards /\ Tightens(layers[i].guards[x], acc.guards[x])

Severity(v) == CASE v = "pass" -> 0 [] v = "warn" -> 1 [] v = "block" -> 2

VerdictOn(g, ci, change, c, now) ==
  IF GuardMatches(g, ci) THEN Judge(g, change, c, now) ELSE "pass"

AtLeastAsStrict(g, h) ==
  \A change \in Changes : \A ci \in change : \A c \in Worlds : \A now \in Times :
    Severity(VerdictOn(h, ci, change, c, now)) >= Severity(VerdictOn(g, ci, change, c, now))

\* The dimensions that "tightens" does not look at did not get weaker: the
\* guard can be met at all, asks for no more verification than the
\* other, and the other matches no less.
SameElsewhere(g, h) ==
  /\ Demanding(g) \/ g.kind = "guard"
  /\ g.requireVerified => h.requireVerified
  /\ \A d \in Populated(h) : d \in Populated(g) /\ (d # "paths" => g.match[d] \subseteq h.match[d])

\* What the dimensions of "tightens" are for: whatever the change, the evidence
\* and the time, the policy in force judges a change at least as strictly as a
\* layer whose declaration it has applied, when nothing else about the guard differs.
FloorEnforced ==
  phase = "done" => \A i \in 1..at : \A x \in Id :
    Applied(i, x) /\ SameElsewhere(layers[i].guards[x], acc.guards[x]) =>
      AtLeastAsStrict(layers[i].guards[x], acc.guards[x])

\* The floor of each guard stands, in the guards and in the verdicts.
FloorStands == FloorHolds /\ FloorEnforced

-----------------------------------------------------------------------------
(* context lint, of a file that declares the policy that was merged.       *)

File(guards, c) == [guards |-> guards, proofs |-> c.proofs, facts |-> c.facts, drills |-> c.drills]

VerdictOf(c, change, now) ==
  Overall(UNION {GuardFindings(ci, change, c, now) : ci \in change})

\* Two files judge alike, whatever the change and the time.
SameVerdicts(c, d) ==
  \A change \in Changes : \A now \in Times : VerdictOf(c, change, now) = VerdictOf(d, change, now)

Faulty(x, c) == \E f \in LintContext(c) : f.subject = x /\ f.rule \in
                  {"guard-never-satisfiable", "proof-not-declared", "fact-not-declared"}

\* Whatever the evidence for what the file declares.
NeverPasses(x, c) ==
  \A d \in Worlds : \A change \in Changes : \A now \in Times :
    /\ DOMAIN d.proofs = DOMAIN c.proofs /\ DOMAIN d.facts = DOMAIN c.facts
    /\ \E ci \in change : GuardMatches(c.guards[x], ci)
    => Judge(c.guards[x], change, d, now) # "pass"

\* A guard with one of these findings never passes a change, a guard without
\* one can; and a file that exits with 0 blocks nothing for good.
FaultyNeverPasses(c) ==
  /\ \A x \in DOMAIN c.guards : Faulty(x, c) <=> NeverPasses(x, c)
  /\ ~HasErrors(LintContext(c)) =>
       \A x \in DOMAIN c.guards : c.guards[x].enforcement = "block" => ~NeverPasses(x, c)

\* A proof that "gates no change" can go and every verdict stays.
OrphansGateNothing(c) ==
  \A q \in Subjects("proof-gates-nothing", c) :
    SameVerdicts(c, [c EXCEPT !.proofs = [p \in DOMAIN @ \ {q} |-> @[p]]])

\* A duplicate can go and every verdict stays ("deleting one loses nothing",
\* guardSubstanceKey).
DuplicatesLoseNothing(c) ==
  \A x \in Subjects("guard-duplicates", c) :
    SameVerdicts(c, [c EXCEPT !.guards = [y \in DOMAIN @ \ {x} |-> @[y]]])

\* What lint leaves out when it compares two guards.
AlikeInBinding(c) ==
  \A x \in DOMAIN c.guards : \A y \in Alike(x, c) : c.guards[x].requireBound = c.guards[y].requireBound

\* What context lint says before any change is what the gate does later: it
\* names the guards that nothing can satisfy, all of them, and what it calls
\* idle is idle. Duplicates only where the guards agree on require_bound,
\* which lint does not compare. (A file with the guards of LintedLayers files:
\* two have every pair of guards.)
LintForetells ==
  phase = "done" /\ Len(layers) <= LintedLayers =>
    \A w \in Worlds :
      LET c == File(acc.guards, w)
      IN  /\ FaultyNeverPasses(c) /\ OrphansGateNothing(c)
          /\ AlikeInBinding(c) => DuplicatesLoseNothing(c)

\* The same without the exception, as lint.go:203 puts it.
LintForetellsBinding ==
  phase = "done" => \A w \in Worlds : DuplicatesLoseNothing(File(acc.guards, w))

-----------------------------------------------------------------------------
\* "it may never loosen or remove one" (docs/SCHEMA.md, section 5): the same, of
\* every guard.
NeverLoosened ==
  phase = "done" => \A i \in 1..at : \A x \in Id :
    Applied(i, x) => AtLeastAsStrict(layers[i].guards[x], acc.guards[x])
=============================================================================
