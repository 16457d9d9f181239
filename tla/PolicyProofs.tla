---------------------------- MODULE PolicyProofs ----------------------------
(***************************************************************************)
(* What is proved about context files.                                      *)
(*                                                                         *)
(* Policy: for any guards, any number of files in any order, and any         *)
(* evidence, merging layers keeps every floor, reports what it does not      *)
(* apply, and leaves a policy that judges no change more leniently in the    *)
(* dimensions that "tightens" compares.                                     *)
(*                                                                         *)
(* Estate: for any machines, files, edits, ledgers and days, the reports     *)
(* on a machine agree with each other, time alone makes none of them         *)
(* better, and the bundles that leave it tell what it said of itself.        *)
(***************************************************************************)
EXTENDS Policy, Estate, FiniteSetTheorems, SequenceTheorems, WellFoundedInduction, TLAPS

-----------------------------------------------------------------------------
(* The order on guards                                                     *)

\* A guard tightens itself.
LEMMA TightensReflexive ==
  ASSUME NEW g \in Guard  PROVE Tightens(g, g)
<1>1. g.maxAge \in Nat /\ EnforcementRank(g.enforcement) \in Nat
  BY DEF Guard, EnforcementRank
<1> QED BY <1>1 DEF Tightens, AgeTightensOrEqual

\* A guard tightened twice is tightened: merging one file at a time is safe.
LEMMA TightensTransitive ==
  ASSUME NEW f \in Guard, NEW g \in Guard, NEW h \in Guard,
         Tightens(f, g), Tightens(g, h)
  PROVE  Tightens(f, h)
<1>1. \A x \in {f, g, h} : x.maxAge \in Nat /\ EnforcementRank(x.enforcement) \in Nat
  BY DEF Guard, EnforcementRank
<1>2. EnforcementRank(h.enforcement) >= EnforcementRank(f.enforcement)
  BY <1>1 DEF Tightens
<1>3. AgeTightensOrEqual(f.maxAge, h.maxAge)
  BY <1>1 DEF Tightens, AgeTightensOrEqual
<1>4. /\ f.requireBound => h.requireBound
      /\ f.proofs \subseteq h.proofs /\ f.facts \subseteq h.facts
      /\ f.match.paths \subseteq h.match.paths
  BY DEF Tightens
<1> QED BY <1>2, <1>3, <1>4 DEF Tightens

-----------------------------------------------------------------------------
(* What tightening means for a verdict                                     *)

\* More patterns never hit less.
LEMMA HitsGrow ==
  ASSUME NEW ci, NEW d \in Dim, NEW P, NEW Q, P \subseteq Q, Hits(d, P, ci) # {}
  PROVE  Hits(d, Q, ci) # {}
<1>1. CASE d = "paths"
  <2>1. Hits(d, P, ci) = PathHits(P, ci) /\ Hits(d, Q, ci) = PathHits(Q, ci)
    BY <1>1 DEF Hits
  <2>2. PathHits(P, ci) # {}
    BY <2>1
  <2>3. CASE {v \in ci.paths : \E p \in P : <<p, v>> \in Glob} # {}
    <3>1. {v \in ci.paths : \E p \in Q : <<p, v>> \in Glob} # {}
      BY <2>3
    <3> QED BY <2>1, <3>1 DEF PathHits
  <2>4. CASE {v \in ci.paths : \E p \in P : <<p, v>> \in Glob} = {}
    <3>1. DestroysSubtree(ci) /\ {vp \in ci.paths \X P : vp \in Beneath} # {}
      BY <2>2, <2>4 DEF PathHits
    <3>2. {vp \in ci.paths \X Q : vp \in Beneath} # {}
      BY <3>1
    <3> QED BY <2>1, <3>1, <3>2 DEF PathHits
  <2> QED BY <2>3, <2>4
<1>2. CASE d # "paths" /\ d \in {"actions", "windows"}
  BY <1>2 DEF Hits
<1>3. CASE d # "paths" /\ d \notin {"actions", "windows"}
  BY <1>3 DEF Hits
<1> QED BY <1>1, <1>2, <1>3

\* A change that a guard matches, a tightening of it matches too.
LEMMA MatchesNoLess ==
  ASSUME NEW g \in Guard, NEW h \in Guard, NEW ci,
         Tightens(g, h), SameElsewhere(g, h), Populated(h) # {}, GuardMatches(g, ci)
  PROVE  GuardMatches(h, ci)
<1>1. ASSUME NEW d \in Populated(h)  PROVE Hits(d, h.match[d], ci) # {}
  <2>1. d \in Populated(g) /\ d \in Dim
    BY <1>1 DEF SameElsewhere, Populated
  <2>2. g.match["paths"] \subseteq h.match["paths"]
    BY DEF Tightens
  <2>3. g.match[d] \subseteq h.match[d]
    BY <1>1, <2>2 DEF SameElsewhere
  <2>4. Hits(d, g.match[d], ci) # {}
    BY <2>1 DEF GuardMatches
  <2> QED BY <2>1, <2>3, <2>4, HitsGrow
<1> QED BY <1>1 DEF GuardMatches

\* A proof that satisfies a guard satisfies every guard it tightens.
LEMMA ProofSatisfiesLess ==
  ASSUME NEW g \in Guard, NEW h \in Guard, NEW q, NEW c, NEW day \in Nat,
         \A p \in DOMAIN c.proofs : c.proofs[p].observed \in Nat,
         Tightens(g, h), g.requireVerified => h.requireVerified,
         CheckProofWithBinding(h, q, c, day) = "present"
  PROVE  CheckProofWithBinding(g, q, c, day) = "present"
<1> DEFINE r     == c.proofs[q]
           drill == IF q \in DOMAIN c.drills THEN c.drills[q] ELSE Absent
<1>1. q \in DOMAIN c.proofs
  BY DEF CheckProofWithBinding
<1>2. /\ EvaluateProof(r, day) = "present"
      /\ Binding(r, drill, h.requireBound) = "present"
      /\ Demands(h, r, day) = "present"
  BY <1>1 DEF CheckProofWithBinding
<1>3. Binding(r, drill, g.requireBound) = "present"
  <2>1. g.requireBound => h.requireBound
    BY DEF Tightens
  <2> QED BY <1>2, <2>1 DEF Binding
<1>4. Demands(g, r, day) = "present"
  <2>1. g.maxAge \in Nat /\ h.maxAge \in Nat /\ r.observed \in Nat
    BY <1>1 DEF Guard
  <2>2. ~(h.requireVerified /\ ~r.verified) /\ ~(h.maxAge > 0 /\ day > r.observed + h.maxAge)
    BY <1>2 DEF Demands
  <2>3. g.maxAge # 0 => h.maxAge # 0 /\ h.maxAge <= g.maxAge
    BY DEF Tightens, AgeTightensOrEqual
  <2>4. ~(g.maxAge > 0 /\ day > r.observed + g.maxAge)
    BY <2>1, <2>2, <2>3
  <2>5. ~(g.requireVerified /\ ~r.verified)
    BY <2>2
  <2> QED BY <2>4, <2>5 DEF Demands
<1> QED BY <1>1, <1>2, <1>3, <1>4 DEF CheckProofWithBinding

\* The worst of some states is "present" only when all of them are.
LEMMA WorstPresent ==
  ASSUME NEW S,
         S \subseteq {"present", "stale", "missing", "contradicted", "unreachable"}
  PROVE  Worst(S) = "present" <=> S \subseteq {"present"}
<1>1. CASE S \cap {"contradicted", "unreachable"} # {}
  <2>1. Worst(S) \in S \cap {"contradicted", "unreachable"}
    BY <1>1 DEF Worst
  <2> QED BY <1>1, <2>1
<1>2. CASE S \cap {"contradicted", "unreachable"} = {}
  BY <1>2 DEF Worst
<1> QED BY <1>1, <1>2

\* Every state of a proof or fact has a rank in worstState.
LEMMA StatesKnown ==
  ASSUME NEW g, NEW change, NEW c, NEW day
  PROVE  ProofStates(g, change, c, day) \subseteq
           {"present", "stale", "missing", "contradicted", "unreachable"}
<1>1. ASSUME NEW q
      PROVE  CheckProofWithBinding(g, q, c, day) \in
               {"present", "stale", "missing", "contradicted", "unreachable"}
  BY DEF CheckProofWithBinding, EvaluateProof, Binding, Demands
<1>2. ASSUME NEW f  PROVE CheckFact(f, c, day) \in {"present", "stale", "missing"}
  BY DEF CheckFact
<1> QED BY <1>1, <1>2 DEF ProofStates

\* A guard without demands keeps its kind of verdict; one with demands is
\* satisfied exactly when every demand is.
LEMMA JudgeWhenDemanding ==
  ASSUME NEW g, NEW change, NEW c, NEW day, Demanding(g), g.enforcement \in Enforcement
  PROVE  /\ Judge(g, change, c, day) \in {"pass", g.enforcement}
         /\ Judge(g, change, c, day) = "pass" <=>
              ProofStates(g, change, c, day) \subseteq {"present"}
<1> DEFINE S == ProofStates(g, change, c, day)
<1>1. S \subseteq {"present", "stale", "missing", "contradicted", "unreachable"}
  BY StatesKnown
<1> HIDE DEF S
<1>2. Worst(S) = "present" <=> S \subseteq {"present"}
  BY <1>1, WorstPresent
<1>3. Worst(S) # "not_required"
  <2>1. CASE S \cap {"contradicted", "unreachable"} # {}
    <3>1. Worst(S) \in S \cap {"contradicted", "unreachable"}
      BY <2>1 DEF Worst
    <3> QED BY <3>1
  <2>2. CASE S \cap {"contradicted", "unreachable"} = {}
    BY <2>2 DEF Worst
  <2> QED BY <2>1, <2>2
<1>4. Judge(g, change, c, day) = IF Worst(S) \in {"present", "not_required"}
                                 THEN "pass" ELSE g.enforcement
  BY DEF Judge, ProofStatus, Decide, S
<1>5. g.enforcement # "pass"
  BY DEF Enforcement
<1> QED BY <1>2, <1>3, <1>4, <1>5 DEF S

\* Whatever the change, the evidence and the time, a tightening is at least as
\* strict when nothing else about the guard got weaker (policy.tightens).
THEOREM TighteningIsStricter ==
  ASSUME NEW g \in Guard, NEW h \in Guard, NEW ci, NEW change, NEW c, NEW day \in Nat,
         \A p \in DOMAIN c.proofs : c.proofs[p].observed \in Nat,
         Tightens(g, h), SameElsewhere(g, h), Populated(h) # {}
  PROVE  Severity(VerdictOn(h, ci, change, c, day)) >= Severity(VerdictOn(g, ci, change, c, day))
<1> DEFINE V(x) == Judge(x, change, c, day)
<1>1. g.enforcement \in Enforcement /\ h.enforcement \in Enforcement
  BY DEF Guard
<1>2. h.enforcement = "block" \/ g.enforcement = "warn"
  BY <1>1 DEF Tightens, EnforcementRank, Enforcement
<1>3. ASSUME Demanding(g), V(h) = "pass"  PROVE V(g) = "pass"
  <2>1. Demanding(h)
    BY <1>3 DEF Demanding, Tightens
  <2>2. ProofStates(h, change, c, day) \subseteq {"present"}
    BY <1>1, <1>3, <2>1, JudgeWhenDemanding
  <2>3. ASSUME NEW q \in g.proofs
        PROVE  ~Conflict(q, change, c) /\ CheckProofWithBinding(g, q, c, day) = "present"
    <3>1. q \in h.proofs
      BY DEF Tightens
    <3>2. ~Conflict(q, change, c) /\ CheckProofWithBinding(h, q, c, day) = "present"
      <4>1. (IF Conflict(q, change, c) THEN "contradicted"
             ELSE CheckProofWithBinding(h, q, c, day)) \in {"present"}
        BY <2>2, <3>1 DEF ProofStates
      <4> QED BY <4>1
    <3>3. g.requireVerified => h.requireVerified
      BY DEF SameElsewhere
    <3> QED BY <3>2, <3>3, ProofSatisfiesLess
  <2>4. ASSUME NEW f \in g.facts  PROVE CheckFact(f, c, day) = "present"
    <3>1. f \in h.facts
      BY DEF Tightens
    <3> QED BY <2>2, <3>1 DEF ProofStates
  <2>5. ProofStates(g, change, c, day) \subseteq {"present"}
    BY <2>3, <2>4 DEF ProofStates
  <2> QED BY <1>1, <1>3, <2>5, JudgeWhenDemanding
<1>4. ASSUME Demanding(g)  PROVE Severity(V(h)) >= Severity(V(g))
  <2>1. Demanding(h)
    BY <1>4 DEF Demanding, Tightens
  <2>2. V(g) \in {"pass", g.enforcement} /\ V(h) \in {"pass", h.enforcement}
    BY <1>1, <1>4, <2>1, JudgeWhenDemanding
  <2>3. V(h) = "pass" => V(g) = "pass"
    BY <1>3, <1>4
  <2>4. \/ V(g) = "pass" /\ V(h) \in {"pass", "warn", "block"}
        \/ V(g) = "warn" /\ V(h) \in {"warn", "block"}
        \/ V(g) = "block" /\ V(h) = "block"
    BY <1>1, <1>2, <2>2, <2>3 DEF Enforcement
  <2> HIDE DEF V
  <2> QED BY <2>4 DEF Severity
<1>5. ASSUME ~Demanding(g), g.kind = "guard"  PROVE V(g) = "pass"
  BY <1>5 DEF Judge, ProofStatus, Decide
<1>6. V(h) \in {"pass", "warn", "block"}
  BY <1>1 DEF Judge, Decide, Enforcement
<1>7. Severity(V(h)) >= Severity(V(g))
  <2>1. CASE Demanding(g)
    BY <1>4, <2>1
  <2>2. CASE ~Demanding(g)
    <3>1. V(g) = "pass"
      BY <1>5, <2>2 DEF SameElsewhere
    <3> HIDE DEF V
    <3> QED BY <1>6, <3>1 DEF Severity
  <2> QED BY <2>1, <2>2
<1>8. CASE GuardMatches(g, ci)
  BY <1>7, <1>8, MatchesNoLess DEF VerdictOn
<1>9. CASE ~GuardMatches(g, ci)
  <2>1. VerdictOn(g, ci, change, c, day) = "pass"
    BY <1>9 DEF VerdictOn
  <2>2. VerdictOn(h, ci, change, c, day) \in {"pass", "warn", "block"}
    BY <1>6 DEF VerdictOn
  <2> QED BY <2>1, <2>2 DEF Severity
<1> QED BY <1>8, <1>9

-----------------------------------------------------------------------------
(* The inductive invariant                                                 *)

\* Merging begins once files are no longer read.
NotBegun == /\ phase = "load" => at = 0
            /\ phase = "merge" => at # 0
            /\ at = 0 => todo = {}

\* A guard is in the policy because a file declares it.
Declared == \A x \in DOMAIN acc.guards : \E i \in 1..at : Folded(i, x)

\* Only what was folded is reported, and never the first declaration.
ReportedLater ==
  \A i \in Nat : \A x \in Id :
    <<x, i>> \in acc.loosened => Folded(i, x) /\ \E j \in 1..(i - 1) : x \in DOMAIN layers[j].guards

\* Every guard of the policy can match something.
CanMatch == \A x \in DOMAIN acc.guards : Populated(acc.guards[x]) # {}

IInv == TypeOK /\ NotBegun /\ Declared /\ ReportedLater /\ CanMatch /\ NothingSilent

\* The files read so far are layers.
LEMMA LayersTyped ==
  ASSUME TypeOK
  PROVE  /\ Len(layers) \in Nat /\ DOMAIN layers = 1..Len(layers) /\ at \in 0..Len(layers)
         /\ \A i \in 1..Len(layers) : layers[i] \in LayerSet /\ IsLayer(layers[i])
<1>1. layers \in Seq(LayerSet) /\ at \in 0..Len(layers)
  BY DEF TypeOK
<1>2. Len(layers) \in Nat /\ DOMAIN layers = 1..Len(layers)
  BY <1>1, LenProperties
<1>3. \A i \in 1..Len(layers) : layers[i] \in LayerSet
  BY <1>1, <1>2, ElementOfSeq
<1> QED BY <1>1, <1>2, <1>3, LayerAssumption

\* A guard that a file declares is a guard.
LEMMA GuardTyped ==
  ASSUME NEW f, IsGuards(f), NEW x \in DOMAIN f
  PROVE  x \in Id /\ f[x] \in Guard
BY DEF IsGuards

\* Before the first file the invariant holds.
LEMMA InitIInv == Init => IInv
<1> SUFFICES ASSUME Init PROVE IInv
  OBVIOUS
<1> USE DEF Init, Nothing
<1>1. acc.guards = <<>> /\ DOMAIN acc.guards = {} /\ acc.loosened = {} /\ acc.coverage = {}
  BY EmptySeq
<1>2. IsGuards(acc.guards)
  BY <1>1 DEF IsGuards
<1>3. layers \in Seq(LayerSet) /\ Len(layers) = 0
  BY EmptySeq
<1>4. acc \in [guards : {acc.guards}, coverage : SUBSET Value, loosened : SUBSET (Id \X Nat)]
  OBVIOUS
<1>5. TypeOK
  BY <1>2, <1>3, <1>4 DEF TypeOK
<1> QED BY <1>1, <1>5 DEF IInv, NotBegun, Declared, ReportedLater, CanMatch, NothingSilent

\* Nothing changes but the phase, or the files read before merging begins.
LEMMA ReadKeeps == IInv /\ (ReadLayer \/ Reject) => IInv'
<1> SUFFICES ASSUME IInv, ReadLayer \/ Reject  PROVE IInv'
  OBVIOUS
<1>1. at = 0 /\ UNCHANGED <<at, todo, acc>>
  BY DEF IInv, NotBegun, ReadLayer, Reject
<1>2. layers' \in Seq(LayerSet) /\ Len(layers') \in Nat /\ phase' \in {"load", "failed"}
  <2>1. CASE ReadLayer
    <3>1. PICK l \in LayerSet : layers' = Append(layers, l)
      BY <2>1 DEF ReadLayer
    <3> QED BY <2>1, <3>1, AppendProperties, LenProperties DEF IInv, TypeOK, ReadLayer
  <2>2. CASE Reject
    BY <2>2, LenProperties DEF IInv, TypeOK, Reject
  <2> QED BY <2>1, <2>2
<1>3. TypeOK'
  BY <1>1, <1>2 DEF IInv, TypeOK
<1>4. DOMAIN acc.guards = {} /\ \A i \in Nat : \A x \in Id : <<x, i>> \notin acc.loosened
  BY <1>1 DEF IInv, Declared, ReportedLater, Folded
<1>5. NotBegun'
  BY <1>1 DEF IInv, NotBegun, TypeOK, ReadLayer, Reject
<1> QED BY <1>1, <1>3, <1>4, <1>5
     DEF IInv, Declared, ReportedLater, CanMatch, NothingSilent

\* A turn folds nothing by itself.
LEMMA TurnKeeps ==
  ASSUME IInv, NEW i \in 1..Len(layers), i = at + 1, todo = {}, Turn(i),
         UNCHANGED layers, phase' = "merge"
  PROVE  IInv'
<1>1. /\ Len(layers) \in Nat /\ at \in 0..Len(layers) /\ IsLayer(layers[i])
      /\ acc' = [acc EXCEPT !.coverage = @ \cup layers[i].coverage]
      /\ acc \in [guards : {acc.guards}, coverage : SUBSET Value, loosened : SUBSET (Id \X Nat)]
  BY LayersTyped DEF IInv, TypeOK, Turn
<1>2. acc'.guards = acc.guards /\ acc'.loosened = acc.loosened
  BY <1>1
<1>3. TypeOK'
  <2>1. acc' \in [guards : {acc'.guards}, coverage : SUBSET Value, loosened : SUBSET (Id \X Nat)]
    BY <1>1, <1>2 DEF IsLayer
  <2>2. at' \in 0..Len(layers') /\ todo' = DOMAIN layers'[at'].guards /\ todo' \subseteq Id
    BY <1>1 DEF Turn, IsLayer, IsGuards
  <2> QED BY <1>2, <2>1, <2>2 DEF IInv, TypeOK
<1>4. \A j \in Nat : \A x \in Id : Folded(j, x)' <=> Folded(j, x)
  BY <1>1 DEF Folded, Turn
<1>5. \A x \in DOMAIN acc.guards : x \in Id
  BY DEF IInv, TypeOK, IsGuards
<1>6. Declared'
  BY <1>1, <1>2, <1>4, <1>5 DEF IInv, Declared, Folded, Turn
<1>7. ReportedLater'
  BY <1>2, <1>4 DEF IInv, ReportedLater
<1>8. NothingSilent'
  <2> SUFFICES ASSUME NEW j \in (1..at)', NEW x \in Id, Applied(j, x)'
               PROVE  (x \in DOMAIN acc.guards /\ Tightens(layers[j].guards[x], acc.guards[x]))'
    BY DEF NothingSilent
  <2>1. Folded(j, x) /\ j \in 1..at /\ <<x, j>> \notin acc.loosened
    BY <1>1, <1>2, <1>4 DEF Applied, Folded, Turn
  <2> QED BY <1>2, <2>1 DEF IInv, NothingSilent, Applied
<1>9. NotBegun'
  BY <1>1 DEF NotBegun, Turn
<1> QED BY <1>2, <1>3, <1>6, <1>7, <1>8, <1>9 DEF IInv, CanMatch

\* What one guard of the current file does to the invariant.
LEMMA MergeKeeps ==
  ASSUME IInv, Merge  PROVE IInv'
<1>1. PICK x \in todo : /\ todo' = todo \ {x}
                        /\ acc' = MergeGuard(acc, at, x, layers[at].guards[x])
  BY DEF Merge
<1> DEFINE g == layers[at].guards[x]
<1>2. /\ at \in Nat /\ at \in 1..Len(layers) /\ x \in DOMAIN layers[at].guards
      /\ UNCHANGED <<phase, layers, at>> /\ phase = "merge"
  <2>1. at \in 0..Len(layers) /\ Len(layers) \in Nat
    BY LayersTyped DEF IInv
  <2>2. at # 0
    BY <1>1 DEF IInv, NotBegun
  <2> QED BY <1>1, <2>1, <2>2 DEF IInv, TypeOK, Merge
<1>3. x \in Id /\ g \in Guard /\ Populated(g) # {}
  <2>1. layers[at] \in LayerSet /\ IsLayer(layers[at])
    BY <1>2, LayersTyped DEF IInv
  <2>2. x \in Id /\ g \in Guard
    BY <1>2, <2>1, GuardTyped DEF IsLayer
  <2> QED BY <1>2, <2>1, <2>2, MatchAssumption
<1>4. /\ acc \in [guards : {acc.guards}, coverage : SUBSET Value, loosened : SUBSET (Id \X Nat)]
      /\ IsGuards(acc.guards)
  BY DEF IInv, TypeOK
<1>5. \A j \in Nat : \A y \in Id : Folded(j, y)' <=> Folded(j, y) \/ (j = at /\ y = x)
  BY <1>1, <1>2 DEF Folded
<1>6. ~Folded(at, x)
  BY <1>1 DEF Folded
<1>7. CASE x \in DOMAIN acc.guards /\ ~Tightens(acc.guards[x], g)
  <2>1. acc' = [acc EXCEPT !.loosened = @ \cup {<<x, at>>}]
    BY <1>1, <1>7 DEF MergeGuard
  <2>2. acc'.guards = acc.guards /\ acc'.loosened = acc.loosened \cup {<<x, at>>}
    BY <1>4, <2>1
  <2>3. acc' \in [guards : {acc'.guards}, coverage : SUBSET Value, loosened : SUBSET (Id \X Nat)]
    BY <1>2, <1>3, <1>4, <2>1, <2>2
  <2>4. TypeOK'
    BY <1>1, <1>2, <1>4, <2>2, <2>3 DEF IInv, TypeOK
  <2>5. Declared'
    BY <1>2, <1>4, <1>5, <2>2 DEF IInv, Declared, IsGuards
  <2>6. ReportedLater'
    <3>1. PICK i \in 1..at : Folded(i, x)
      BY <1>7 DEF IInv, Declared
    <3>2. i \in 1..(at - 1) /\ x \in DOMAIN layers[i].guards
      BY <1>2, <1>6, <3>1 DEF Folded
    <3> QED BY <1>2, <1>5, <2>2, <3>2 DEF IInv, ReportedLater
  <2>7. NothingSilent'
    <3> SUFFICES ASSUME NEW j \in (1..at)', NEW y \in Id, Applied(j, y)'
                 PROVE  (y \in DOMAIN acc.guards /\ Tightens(layers[j].guards[y], acc.guards[y]))'
      BY DEF NothingSilent
    <3>1. Applied(j, y) /\ j \in 1..at
      BY <1>2, <1>5, <2>2 DEF Applied
    <3> QED BY <1>2, <2>2, <3>1 DEF IInv, NothingSilent
  <2> QED BY <1>2, <2>2, <2>4, <2>5, <2>6, <2>7 DEF IInv, NotBegun, CanMatch
<1>8. CASE ~(x \in DOMAIN acc.guards /\ ~Tightens(acc.guards[x], g))
  <2>1. acc' = [acc EXCEPT !.guards = Put(@, x, g)]
    BY <1>1, <1>8 DEF MergeGuard
  <2>2. acc'.guards = Put(acc.guards, x, g) /\ acc'.loosened = acc.loosened
    BY <1>4, <2>1
  <2>3. /\ DOMAIN acc'.guards = DOMAIN acc.guards \cup {x}
        /\ acc'.guards[x] = g
        /\ \A y \in DOMAIN acc.guards : y # x => acc'.guards[y] = acc.guards[y]
    BY <2>2 DEF Put
  <2>4. IsGuards(acc'.guards)
    BY <1>3, <1>4, <2>2, <2>3 DEF IsGuards, Put
  <2>5. acc' \in [guards : {acc'.guards}, coverage : SUBSET Value, loosened : SUBSET (Id \X Nat)]
    BY <1>4, <2>1, <2>2
  <2>6. TypeOK'
    BY <1>1, <1>2, <2>4, <2>5 DEF IInv, TypeOK
  <2>7. Declared'
    <3> SUFFICES ASSUME NEW y \in DOMAIN acc'.guards  PROVE \E i \in 1..at : Folded(i, y)'
      BY <1>2 DEF Declared
    <3>1. CASE y = x
      BY <1>2, <1>3, <1>5, <3>1
    <3>2. CASE y # x
      <4>1. y \in DOMAIN acc.guards /\ y \in Id
        BY <1>4, <2>3, <3>2 DEF IsGuards
      <4> QED BY <1>2, <1>5, <4>1 DEF IInv, Declared
    <3> QED BY <3>1, <3>2
  <2>8. ReportedLater'
    BY <1>2, <1>5, <2>2 DEF IInv, ReportedLater
  <2>9. CanMatch'
    BY <1>3, <2>3 DEF IInv, CanMatch
  <2>10. NothingSilent'
    <3> SUFFICES ASSUME NEW j \in (1..at)', NEW y \in Id, Applied(j, y)'
                 PROVE  y \in DOMAIN acc'.guards /\ Tightens(layers[j].guards[y], acc'.guards[y])
      BY <1>2 DEF NothingSilent
    <3>1. CASE j = at /\ y = x
      BY <1>3, <2>3, <3>1, TightensReflexive
    <3>2. CASE ~(j = at /\ y = x)
      <4>1. Applied(j, y) /\ j \in 1..at
        BY <1>2, <1>5, <2>2, <3>2 DEF Applied
      <4>2. y \in DOMAIN acc.guards /\ Tightens(layers[j].guards[y], acc.guards[y])
        BY <4>1 DEF IInv, NothingSilent
      <4>3. CASE y # x
        BY <2>3, <4>2, <4>3
      <4>4. CASE y = x
        <5>1. Tightens(acc.guards[x], g) /\ acc.guards[x] \in Guard
          BY <1>4, <1>8, <4>2, <4>4, GuardTyped
        <5>2. layers[j].guards[x] \in Guard
          <6>1. j \in 1..Len(layers) /\ x \in DOMAIN layers[j].guards
            BY <1>2, <4>1, <4>4, LayersTyped DEF IInv, Applied, Folded
          <6> QED BY <6>1, LayersTyped, GuardTyped DEF IInv, IsLayer
        <5> QED BY <1>3, <2>3, <4>2, <4>4, <5>1, <5>2, TightensTransitive
      <4> QED BY <4>3, <4>4
    <3> QED BY <3>1, <3>2
  <2> QED BY <1>2, <2>6, <2>7, <2>8, <2>9, <2>10 DEF IInv, NotBegun
<1> QED BY <1>7, <1>8

\* Every step of LoadLayers and Merge keeps it.
LEMMA NextIInv == IInv /\ [Next]_vars => IInv'
<1> SUFFICES ASSUME IInv, [Next]_vars  PROVE IInv'
  OBVIOUS
<1>1. CASE ReadLayer \/ Reject
  BY <1>1, ReadKeeps
<1>2. CASE StartMerge
  <2>1. 1 \in 1..Len(layers) /\ at = 0 /\ todo = {}
    <3>1. layers # <<>> /\ layers \in Seq(LayerSet) /\ phase = "load"
      BY <1>2 DEF StartMerge, IInv, TypeOK
    <3>2. Len(layers) # 0 /\ Len(layers) \in Nat
      BY <3>1, EmptySeq, LenProperties
    <3> QED BY <3>1, <3>2 DEF IInv, NotBegun, TypeOK
  <2> QED BY <1>2, <2>1, TurnKeeps DEF StartMerge
<1>3. CASE Merge
  BY <1>3, MergeKeeps
<1>4. CASE NextLayer
  <2>1. at + 1 \in 1..Len(layers) /\ phase' = "merge"
    BY <1>4, LayersTyped DEF NextLayer, IInv
  <2> QED BY <1>4, <2>1, TurnKeeps DEF NextLayer
<1>5. CASE Finish
  BY <1>5 DEF Finish, IInv, TypeOK, NotBegun, Declared, ReportedLater, CanMatch,
              NothingSilent, Applied, Folded
<1>6. CASE UNCHANGED vars
  BY <1>6 DEF vars, IInv, TypeOK, NotBegun, Declared, ReportedLater, CanMatch,
              NothingSilent, Applied, Folded
<1> QED BY <1>1, <1>2, <1>3, <1>4, <1>5, <1>6 DEF Next

\* The inductive invariant holds in every state of LoadLayers and Merge.
THEOREM Invariance == Spec => []IInv
<1>1. IInv /\ [Next]_vars => IInv'
  BY NextIInv
<1> QED BY InitIInv, <1>1, PTL DEF Spec

-----------------------------------------------------------------------------
(* What it gives                                                           *)

\* The guards in force and those they came from are guards.
LEMMA GuardsInPlace ==
  ASSUME IInv, NEW i \in 1..at, NEW x \in Id, Applied(i, x)
  PROVE  /\ x \in DOMAIN acc.guards /\ x \in DOMAIN layers[i].guards
         /\ acc.guards[x] \in Guard /\ layers[i].guards[x] \in Guard
         /\ Tightens(layers[i].guards[x], acc.guards[x])
<1>1. x \in DOMAIN acc.guards /\ Tightens(layers[i].guards[x], acc.guards[x])
  BY DEF IInv, NothingSilent
<1>2. x \in DOMAIN layers[i].guards /\ i \in 1..Len(layers)
  BY LayersTyped DEF IInv, Applied, Folded
<1>3. layers[i].guards[x] \in Guard
  BY <1>2, LayersTyped, GuardTyped DEF IInv, IsLayer
<1>4. acc.guards[x] \in Guard
  BY <1>1, GuardTyped DEF IInv, TypeOK
<1> QED BY <1>1, <1>2, <1>3, <1>4

\* Merge's variables keep their types.
THEOREM TypeCorrect == Spec => []TypeOK
<1>1. IInv => TypeOK
  BY DEF IInv
<1> QED BY <1>1, Invariance, PTL

\* No declaration is dropped without being reported, however many files there
\* are and in whatever order their guards come (mergeGuards).
THEOREM EverythingReported == Spec => []NothingSilent
<1>1. IInv => NothingSilent
  BY DEF IInv
<1> QED BY <1>1, Invariance, PTL

\* The layer that declares a guard first sets a floor that no later layer
\* lowers (mergeGuards, tightens).
THEOREM FloorIsKept == Spec => []FloorHolds
<1>1. ASSUME IInv  PROVE FloorHolds
  <2> SUFFICES ASSUME NEW i \in 1..at, NEW x \in Id, Folded(i, x),
                      \A j \in 1..(i - 1) : x \notin DOMAIN layers[j].guards
               PROVE  x \in DOMAIN acc.guards /\ Tightens(layers[i].guards[x], acc.guards[x])
    BY DEF FloorHolds
  <2>1. i \in Nat /\ <<x, i>> \notin acc.loosened
    BY <1>1 DEF IInv, ReportedLater
  <2> QED BY <1>1, <2>1, GuardsInPlace DEF Applied
<1> QED BY <1>1, Invariance, PTL

\* Whatever the change, the evidence and the time: the policy judges no change
\* more leniently than a declaration it has applied, unless the two differ in what
\* tightens does not compare.
THEOREM FloorIsEnforced == Spec => []FloorEnforced
<1>1. ASSUME IInv  PROVE FloorEnforced
  <2> SUFFICES ASSUME NEW i \in 1..at, NEW x \in Id, Applied(i, x),
                      SameElsewhere(layers[i].guards[x], acc.guards[x])
               PROVE  AtLeastAsStrict(layers[i].guards[x], acc.guards[x])
    BY DEF FloorEnforced
  <2>1. /\ acc.guards[x] \in Guard /\ layers[i].guards[x] \in Guard
        /\ Tightens(layers[i].guards[x], acc.guards[x]) /\ x \in DOMAIN acc.guards
    BY <1>1, GuardsInPlace
  <2>2. Populated(acc.guards[x]) # {}
    BY <1>1, <2>1 DEF IInv, CanMatch
  <2>3. \A day \in Times : day \in Nat
    BY WorldAssumption
  <2> QED BY <2>1, <2>2, <2>3, TighteningIsStricter, WorldAssumption DEF AtLeastAsStrict
<1> QED BY <1>1, Invariance, PTL
\* The floor of each guard stands, for any layers, changes and evidence.
THEOREM FloorAlwaysStands == Spec => []FloorStands
BY FloorIsKept, FloorIsEnforced, PTL DEF FloorStands


-----------------------------------------------------------------------------
(* What lint says, and what the gate does                                  *)

\* The three findings that lint has about a guard nothing can satisfy.
LEMMA FaultyIs ==
  ASSUME NEW c, NEW x \in DOMAIN c.guards
  PROVE  Faulty(x, c) <=> \/ c.guards[x].kind = "lifeline" /\ ~Demanding(c.guards[x])
                          \/ ~(c.guards[x].proofs \subseteq DOMAIN c.proofs)
                          \/ ~(c.guards[x].facts \subseteq DOMAIN c.facts)
<1> DEFINE g == c.guards[x]
<1>1. ASSUME NEW f \in LintOrphanProofs(c) \cup LintDuplicateGuards(c)
      PROVE  f.rule \in {"proof-gates-nothing", "guard-duplicates"}
  BY DEF LintOrphanProofs, LintDuplicateGuards, LintFinding
<1>2. (\E f \in LintUnsatisfiableGuards(c) : f.subject = x) <=> g.kind = "lifeline" /\ ~Demanding(g)
  <2> DEFINE U == {y \in DOMAIN c.guards : c.guards[y].kind = "lifeline" /\ ~Demanding(c.guards[y])}
             Said(y) == LintFinding(IF c.guards[y].enforcement = "warn" THEN "warn" ELSE "error",
                                    "guard-never-satisfiable", y)
  <2>1. LintUnsatisfiableGuards(c) = {Said(y) : y \in U}
    BY DEF LintUnsatisfiableGuards
  <2>2. \A y : Said(y).subject = y
    BY DEF LintFinding
  <2> HIDE DEF Said, U
  <2>3. (\E f \in LintUnsatisfiableGuards(c) : f.subject = x) <=> x \in U
    BY <2>1, <2>2
  <2> QED BY <2>3 DEF U
<1>3. (\E f \in LintUndeclaredProofs(c) : f.subject = x) <=>
        \/ ~(g.proofs \subseteq DOMAIN c.proofs)
        \/ ~(g.facts \subseteq DOMAIN c.facts)
  <2> DEFINE P == {y \in DOMAIN c.guards : ~(c.guards[y].proofs \subseteq DOMAIN c.proofs)}
             Q == {y \in DOMAIN c.guards : ~(c.guards[y].facts \subseteq DOMAIN c.facts)}
             SaidP(y) == LintFinding("error", "proof-not-declared", y)
             SaidF(y) == LintFinding("error", "fact-not-declared", y)
  <2>1. LintUndeclaredProofs(c) = {SaidP(y) : y \in P} \cup {SaidF(y) : y \in Q}
    BY DEF LintUndeclaredProofs
  <2>2. \A y : SaidP(y).subject = y /\ SaidF(y).subject = y
    BY DEF LintFinding
  <2> HIDE DEF SaidP, SaidF, P, Q
  <2>3. (\E f \in LintUndeclaredProofs(c) : f.subject = x) <=> x \in P \/ x \in Q
    BY <2>1, <2>2
  <2> QED BY <2>3 DEF P, Q
<1>4. ASSUME NEW f \in LintUnsatisfiableGuards(c) \cup LintUndeclaredProofs(c)
      PROVE  f.rule \in {"guard-never-satisfiable", "proof-not-declared", "fact-not-declared"}
  BY DEF LintUnsatisfiableGuards, LintUndeclaredProofs, LintFinding
<1>5. Faulty(x, c) <=> \E f \in LintUnsatisfiableGuards(c) \cup LintUndeclaredProofs(c) : f.subject = x
  BY <1>1, <1>4 DEF Faulty, LintContext
<1> HIDE DEF g
<1> QED BY <1>2, <1>3, <1>5 DEF g

\* Such a finding on a guard that blocks makes lint fail.
LEMMA FaultyIsError ==
  ASSUME NEW c, NEW x \in DOMAIN c.guards, Faulty(x, c), c.guards[x].enforcement # "warn"
  PROVE  HasErrors(LintContext(c))
<1>1. PICK f \in LintContext(c) : f.subject = x /\ f.rule \in
             {"guard-never-satisfiable", "proof-not-declared", "fact-not-declared"}
  BY DEF Faulty
<1>2. ~(f \in LintOrphanProofs(c) \cup LintDuplicateGuards(c))
  BY <1>1 DEF LintOrphanProofs, LintDuplicateGuards, LintFinding
<1>3. CASE f \in LintUnsatisfiableGuards(c)
  <2>1. f.severity = "error"
    BY <1>1, <1>3 DEF LintUnsatisfiableGuards, LintFinding
  <2> QED BY <2>1, <1>1 DEF HasErrors
<1>4. CASE f \in LintUndeclaredProofs(c)
  <2>1. f.severity = "error"
    BY <1>4 DEF LintUndeclaredProofs, LintFinding
  <2> QED BY <2>1, <1>1 DEF HasErrors
<1> QED BY <1>1, <1>2, <1>3, <1>4 DEF LintContext

\* What a guard makes of a change: it passes when everything that it asks for is
\* there, or when it asks for nothing and is no lifeline.
LEMMA PassesWhen ==
  ASSUME NEW g \in Guard, NEW change, NEW d, NEW day
  PROVE  Judge(g, change, d, day) = "pass" <=>
           IF Demanding(g) THEN ProofStates(g, change, d, day) \subseteq {"present"}
           ELSE g.kind # "lifeline"
<1>1. g.enforcement \in Enforcement
  BY DEF Guard
<1>2. CASE Demanding(g)
  BY <1>1, <1>2, JudgeWhenDemanding
<1>3. CASE ~Demanding(g)
  BY <1>1, <1>3 DEF Judge, ProofStatus, Decide, Enforcement
<1> QED BY <1>2, <1>3

\* A guard with one of the findings passes no change, whatever the evidence.
LEMMA FaultyBlocks ==
  ASSUME NEW c, NEW x \in DOMAIN c.guards, c.guards[x] \in Guard, Faulty(x, c),
         NEW d, DOMAIN d.proofs = DOMAIN c.proofs, DOMAIN d.facts = DOMAIN c.facts,
         NEW change, NEW day
  PROVE  Judge(c.guards[x], change, d, day) # "pass"
<1> DEFINE g == c.guards[x]
<1>1. CASE g.kind = "lifeline" /\ ~Demanding(g)
  BY <1>1, PassesWhen
<1>2. CASE ~(g.proofs \subseteq DOMAIN c.proofs)
  <2>1. PICK q \in g.proofs : q \notin DOMAIN d.proofs
    BY <1>2
  <2>2. "missing" \in ProofStates(g, change, d, day) /\ Demanding(g)
    BY <2>1 DEF ProofStates, Conflict, CheckProofWithBinding, Demanding
  <2> QED BY <2>2, PassesWhen
<1>3. CASE ~(g.facts \subseteq DOMAIN c.facts)
  <2>1. PICK f \in g.facts : f \notin DOMAIN d.facts
    BY <1>3
  <2>2. "missing" \in ProofStates(g, change, d, day) /\ Demanding(g)
    BY <2>1 DEF ProofStates, CheckFact, Demanding
  <2> QED BY <2>2, PassesWhen
<1> QED BY <1>1, <1>2, <1>3, FaultyIs

\* A guard without such a finding passes a change when the evidence is at its best.
LEMMA SoundPasses ==
  ASSUME NEW c, NEW x \in DOMAIN c.guards, c.guards[x] \in Guard, ~Faulty(x, c),
         NEW d, DOMAIN d.proofs = DOMAIN c.proofs, DOMAIN d.facts = DOMAIN c.facts,
         NEW change, NEW day \in Nat, AtBest(d, change, day),
         \A q \in DOMAIN d.proofs : d.proofs[q].observed \in Nat
  PROVE  Judge(c.guards[x], change, d, day) = "pass"
<1> DEFINE g == c.guards[x]
<1>1. /\ g.kind = "lifeline" => Demanding(g)
      /\ g.proofs \subseteq DOMAIN d.proofs /\ g.facts \subseteq DOMAIN d.facts
  BY FaultyIs
<1>2. ASSUME NEW q \in g.proofs
      PROVE  ~Conflict(q, change, d) /\ CheckProofWithBinding(g, q, d, day) = "present"
  <2> DEFINE r     == d.proofs[q]
             drill == IF q \in DOMAIN d.drills THEN d.drills[q] ELSE Absent
  <2>1. /\ EvaluateProof(r, day) = "present" /\ r.verified /\ day <= r.observed
        /\ Binding(r, drill, TRUE) = "present" /\ ~Conflict(q, change, d)
        /\ q \in DOMAIN d.proofs /\ r.observed \in Nat
    BY <1>1, <1>2 DEF AtBest
  <2>2. Binding(r, drill, g.requireBound) = "present"
    BY <2>1 DEF Binding
  <2>3. Demands(g, r, day) = "present"
    <3>1. g.maxAge \in Nat
      BY DEF Guard
    <3>2. ~(g.maxAge > 0 /\ day > r.observed + g.maxAge)
      BY <2>1, <3>1
    <3> QED BY <2>1, <3>2 DEF Demands
  <2> QED BY <2>1, <2>2, <2>3 DEF CheckProofWithBinding
<1>3. \A f \in g.facts : CheckFact(f, d, day) = "present"
  BY <1>1 DEF AtBest
<1>4. ProofStates(g, change, d, day) \subseteq {"present"}
  BY <1>2, <1>3 DEF ProofStates
<1> QED BY <1>1, <1>4, PassesWhen

\* Every guard in force is written in some file.
FromAFile == \A x \in DOMAIN acc.guards : \E l \in LayerSet : x \in DOMAIN l.guards /\ acc.guards[x] = l.guards[x]

\* What lint says that nothing can satisfy is what nothing can satisfy.
LEMMA FaultyIsNeverPassing ==
  ASSUME IInv, FromAFile, NEW w \in Worlds  PROVE FaultyNeverPasses(File(acc.guards, w))
<1> DEFINE c == File(acc.guards, w)
<1>1. c.guards = acc.guards /\ c.proofs = w.proofs /\ c.facts = w.facts
  BY DEF File
<1> HIDE DEF c
<1>2. \A x \in DOMAIN c.guards : c.guards[x] \in Guard
  BY <1>1, GuardTyped DEF IInv, TypeOK
<1>3. ASSUME NEW x \in DOMAIN c.guards  PROVE Faulty(x, c) => NeverPasses(x, c)
  BY <1>2, FaultyBlocks DEF NeverPasses
<1>4. ASSUME NEW x \in DOMAIN c.guards, NeverPasses(x, c)  PROVE Faulty(x, c)
  <2>1. PICK l \in LayerSet : x \in DOMAIN l.guards /\ acc.guards[x] = l.guards[x]
    BY <1>1 DEF FromAFile
  <2>2. PICK d \in Worlds, change \in Changes, day \in Times :
          /\ DOMAIN d.proofs = DOMAIN w.proofs /\ DOMAIN d.facts = DOMAIN w.facts
          /\ \E ci \in change : GuardMatches(l.guards[x], ci)
          /\ AtBest(d, change, day)
    BY <2>1, EvidenceAssumption
  <2>3. Judge(c.guards[x], change, d, day) # "pass"
    BY <1>1, <1>4, <2>1, <2>2 DEF NeverPasses
  <2>4. day \in Nat /\ \A q \in DOMAIN d.proofs : d.proofs[q].observed \in Nat
    BY WorldAssumption
  <2> QED BY <1>1, <1>2, <2>2, <2>3, <2>4, SoundPasses
<1>5. ASSUME ~HasErrors(LintContext(c)), NEW x \in DOMAIN c.guards, c.guards[x].enforcement = "block"
      PROVE  ~NeverPasses(x, c)
  BY <1>4, <1>5, FaultyIsError
<1> QED BY <1>3, <1>4, <1>5 DEF FaultyNeverPasses, c

\* The overall verdict is a matter of the verdicts of the findings.
LEMMA SameOverall ==
  ASSUME NEW A, NEW B, {f.verdict : f \in A} = {f.verdict : f \in B}
  PROVE  Overall(A) = Overall(B)
BY DEF Overall

\* The guards that have a say in a change.
Concerned(guards, change) == {x \in DOMAIN guards : \E ci \in change : GuardMatches(guards[x], ci)}

\* Their findings, and what they judge.
FindingsOf(c, change, day) == UNION {GuardFindings(ci, change, c, day) : ci \in change}
JudgedBy(c, change, day) == {Judge(c.guards[x], change, c, day) : x \in Concerned(c.guards, change)}

\* The verdicts on a change are those of the guards that have a say.
LEMMA VerdictsOn ==
  ASSUME NEW c, NEW change, NEW day
  PROVE  {f.verdict : f \in FindingsOf(c, change, day)} = JudgedBy(c, change, day)
<1> DEFINE F == FindingsOf(c, change, day)
           V == JudgedBy(c, change, day)
<1>1. ASSUME NEW f \in F  PROVE f.verdict \in V
  <2>1. PICK ci \in change : f \in GuardFindings(ci, change, c, day)
    BY DEF FindingsOf
  <2>2. PICK x \in DOMAIN c.guards : GuardMatches(c.guards[x], ci) /\ f.verdict = Judge(c.guards[x], change, c, day)
    BY <2>1 DEF GuardFindings, Finding
  <2> QED BY <2>2 DEF Concerned, JudgedBy
<1>2. ASSUME NEW x \in Concerned(c.guards, change)
      PROVE  \E f \in F : f.verdict = Judge(c.guards[x], change, c, day)
  <2>1. PICK ci \in change : GuardMatches(c.guards[x], ci)
    BY DEF Concerned
  <2> DEFINE f == Finding(<<c.guards[x].kind, x, Resource(c.guards[x], ci)>>, Judge(c.guards[x], change, c, day))
  <2>2. f \in GuardFindings(ci, change, c, day)
    BY <2>1 DEF GuardFindings, Concerned
  <2>3. f.verdict = Judge(c.guards[x], change, c, day)
    BY DEF Finding
  <2> QED BY <2>2, <2>3 DEF FindingsOf
<1>3. {f.verdict : f \in F} = V
  BY <1>1, <1>2 DEF JudgedBy
<1> QED BY <1>3

\* Where the guards that have a say say the same, so does the file.
LEMMA SameVerdict ==
  ASSUME NEW c, NEW d, NEW change, NEW day, JudgedBy(d, change, day) = JudgedBy(c, change, day)
  PROVE  VerdictOf(d, change, day) = VerdictOf(c, change, day)
<1>1. {f.verdict : f \in FindingsOf(d, change, day)} = {f.verdict : f \in FindingsOf(c, change, day)}
  BY VerdictsOn
<1>2. Overall(FindingsOf(d, change, day)) = Overall(FindingsOf(c, change, day))
  BY <1>1, SameOverall
<1> QED BY <1>2 DEF VerdictOf, FindingsOf

\* A record that a guard does not ask for is nothing to it.
LEMMA OthersProofIsNothing ==
  ASSUME NEW g, NEW q, q \notin g.proofs, NEW c, NEW d, NEW change, NEW day,
         d.proofs = [p \in DOMAIN c.proofs \ {q} |-> c.proofs[p]],
         d.facts = c.facts, d.drills = c.drills
  PROVE  Judge(g, change, d, day) = Judge(g, change, c, day)
<1>1. ASSUME NEW p \in g.proofs
      PROVE  /\ Conflict(p, change, d) <=> Conflict(p, change, c)
             /\ CheckProofWithBinding(g, p, d, day) = CheckProofWithBinding(g, p, c, day)
  <2>1. p # q
    BY <1>1
  <2>2. p \in DOMAIN d.proofs <=> p \in DOMAIN c.proofs
    BY <2>1
  <2>3. p \in DOMAIN c.proofs => d.proofs[p] = c.proofs[p]
    BY <2>1
  <2> QED BY <2>2, <2>3 DEF Conflict, CheckProofWithBinding
<1>2. \A f \in g.facts : CheckFact(f, d, day) = CheckFact(f, c, day)
  BY DEF CheckFact
<1>3. ProofStates(g, change, d, day) = ProofStates(g, change, c, day)
  BY <1>1, <1>2 DEF ProofStates
<1> QED BY <1>3 DEF Judge, ProofStatus

\* A proof that gates nothing can go.
LEMMA OrphansCanGo ==
  ASSUME NEW guards, NEW w  PROVE OrphansGateNothing(File(guards, w))
<1> DEFINE c == File(guards, w)
<1>1. SUFFICES ASSUME NEW q \in Subjects("proof-gates-nothing", c), NEW change \in Changes, NEW day \in Times
               PROVE  VerdictOf(c, change, day) =
                      VerdictOf([c EXCEPT !.proofs = [p \in DOMAIN @ \ {q} |-> @[p]]], change, day)
  BY DEF OrphansGateNothing, SameVerdicts
<1> DEFINE d == [c EXCEPT !.proofs = [p \in DOMAIN @ \ {q} |-> @[p]]]
<1>2. PICK f \in LintContext(c) : f.rule = "proof-gates-nothing" /\ f.subject = q
  BY DEF Subjects
<1>3. f \in LintOrphanProofs(c)
  <2>1. f \notin LintUnsatisfiableGuards(c) /\ f \notin LintDuplicateGuards(c)
    BY <1>2 DEF LintUnsatisfiableGuards, LintDuplicateGuards, LintFinding
  <2>2. f \notin LintUndeclaredProofs(c)
    BY <1>2 DEF LintUndeclaredProofs, LintFinding
  <2> QED BY <2>1, <2>2 DEF LintContext
<1>4. \A x \in DOMAIN c.guards : q \notin c.guards[x].proofs
  BY <1>2, <1>3 DEF LintOrphanProofs, LintFinding
<1>5. /\ d.guards = c.guards /\ d.facts = c.facts /\ d.drills = c.drills
      /\ d.proofs = [p \in DOMAIN c.proofs \ {q} |-> c.proofs[p]]
  BY DEF File
<1> HIDE DEF c, d
<1>6. ASSUME NEW x \in DOMAIN c.guards
      PROVE  Judge(c.guards[x], change, d, day) = Judge(c.guards[x], change, c, day)
  <2> DEFINE g == c.guards[x]
  <2>1. q \notin g.proofs
    BY <1>4
  <2> HIDE DEF g
  <2>2. Judge(g, change, d, day) = Judge(g, change, c, day)
    BY <1>5, <2>1, OthersProofIsNothing
  <2> QED BY <2>2 DEF g
<1>7. JudgedBy(d, change, day) = JudgedBy(c, change, day)
  <2>1. Concerned(d.guards, change) = Concerned(c.guards, change)
    BY <1>5
  <2>2. \A x \in Concerned(c.guards, change) : x \in DOMAIN c.guards
    BY DEF Concerned
  <2>3. \A x \in Concerned(c.guards, change) :
          Judge(d.guards[x], change, d, day) = Judge(c.guards[x], change, c, day)
    BY <1>5, <1>6, <2>2
  <2> QED BY <2>1, <2>3 DEF JudgedBy
<1>8. VerdictOf(d, change, day) = VerdictOf(c, change, day)
  BY <1>7, SameVerdict
<1> QED BY <1>8 DEF d

\* Of two guards alike, one can go.
LEMMA DuplicatesCanGo ==
  ASSUME NEW guards, IsGuards(guards), NEW w, AlikeInBinding(File(guards, w))
  PROVE  DuplicatesLoseNothing(File(guards, w))
<1> DEFINE c == File(guards, w)
<1>1. SUFFICES ASSUME NEW x \in Subjects("guard-duplicates", c), NEW change \in Changes, NEW day \in Times
               PROVE  VerdictOf(c, change, day) =
                      VerdictOf([c EXCEPT !.guards = [y \in DOMAIN @ \ {x} |-> @[y]]], change, day)
  BY DEF DuplicatesLoseNothing, SameVerdicts
<1> DEFINE d == [c EXCEPT !.guards = [y \in DOMAIN @ \ {x} |-> @[y]]]
<1>2. PICK f \in LintContext(c) : f.rule = "guard-duplicates" /\ f.subject = x
  BY DEF Subjects
<1>3. f \in LintDuplicateGuards(c)
  <2>1. f \notin LintUnsatisfiableGuards(c) /\ f \notin LintOrphanProofs(c)
    BY <1>2 DEF LintUnsatisfiableGuards, LintOrphanProofs, LintFinding
  <2>2. f \notin LintUndeclaredProofs(c)
    BY <1>2 DEF LintUndeclaredProofs, LintFinding
  <2> QED BY <2>1, <2>2 DEF LintContext
<1>4. x \in DOMAIN c.guards /\ Alike(x, c) # {x}
  BY <1>2, <1>3 DEF LintDuplicateGuards, LintFinding
<1>5. PICK y \in Alike(x, c) : y # x
  <2>1. x \in Alike(x, c)
    BY <1>4 DEF Alike
  <2> QED BY <1>4, <2>1
<1>6. y \in DOMAIN c.guards /\ Substance(c.guards[y]) = Substance(c.guards[x])
  BY <1>5 DEF Alike
<1>7. c.guards[x].requireBound = c.guards[y].requireBound
  BY <1>4, <1>5 DEF AlikeInBinding
<1>8. /\ d.proofs = c.proofs /\ d.facts = c.facts /\ d.drills = c.drills
      /\ d.guards = [z \in DOMAIN c.guards \ {x} |-> c.guards[z]]
      /\ c.guards = guards
  BY DEF File
<1> HIDE DEF c, d
<1>9. c.guards[x] = c.guards[y]
  <2>1. c.guards[x] \in Guard /\ c.guards[y] \in Guard
    BY <1>4, <1>6, <1>8, GuardTyped
  <2>2. \A a \in Guard, b \in Guard :
          Substance(a) = Substance(b) /\ a.requireBound = b.requireBound => a = b
    BY DEF Substance, Guard
  <2> QED BY <1>6, <1>7, <2>1, <2>2
<1>10. ASSUME NEW z, NEW change2  PROVE Judge(z, change2, d, day) = Judge(z, change2, c, day)
  BY <1>8 DEF Judge, ProofStatus, ProofStates, Conflict, CheckProofWithBinding, CheckFact
<1>11. JudgedBy(d, change, day) = JudgedBy(c, change, day)
  <2>1. Concerned(d.guards, change) = Concerned(c.guards, change) \ {x}
    BY <1>8 DEF Concerned
  <2>2. \A z \in Concerned(d.guards, change) : d.guards[z] = c.guards[z]
    BY <1>8, <2>1 DEF Concerned
  <2>3. x \in Concerned(c.guards, change) => y \in Concerned(d.guards, change)
    BY <1>5, <1>6, <1>9, <2>1 DEF Concerned
  <2> QED BY <1>9, <1>10, <2>1, <2>2, <2>3 DEF JudgedBy
<1>12. VerdictOf(d, change, day) = VerdictOf(c, change, day)
  BY <1>11, SameVerdict
<1> QED BY <1>12 DEF d

\* A merge puts in force what the files say.
LEMMA NextFromAFile == IInv /\ FromAFile /\ [Next]_vars => FromAFile'
<1> SUFFICES ASSUME IInv, FromAFile, [Next]_vars  PROVE FromAFile'
  OBVIOUS
<1>1. CASE acc'.guards = acc.guards
  BY <1>1 DEF FromAFile
<1>2. CASE Merge
  <2>1. PICK x \in todo : acc' = MergeGuard(acc, at, x, layers[at].guards[x])
    BY <1>2 DEF Merge
  <2>2. layers[at] \in LayerSet /\ x \in DOMAIN layers[at].guards
    <3>1. at # 0 /\ at \in 0..Len(layers) /\ Len(layers) \in Nat
      BY <1>2, LayersTyped DEF IInv, NotBegun, Merge
    <3> QED BY <3>1, LayersTyped DEF IInv, TypeOK
  <2>3. acc \in [guards : {acc.guards}, coverage : SUBSET Value, loosened : SUBSET (Id \X Nat)]
    BY DEF IInv, TypeOK
  <2>4. acc'.guards = acc.guards \/ acc'.guards = Put(acc.guards, x, layers[at].guards[x])
    BY <2>1, <2>3 DEF MergeGuard
  <2>5. CASE acc'.guards = Put(acc.guards, x, layers[at].guards[x])
    BY <2>2, <2>5 DEF FromAFile, Put
  <2> QED BY <1>1, <2>4, <2>5
<1>3. ASSUME NEW i, Turn(i)  PROVE acc'.guards = acc.guards
  BY <1>3 DEF Turn, IInv, TypeOK
<1>4. CASE StartMerge \/ NextLayer
  BY <1>1, <1>3, <1>4 DEF StartMerge, NextLayer
<1>5. CASE ReadLayer \/ Reject \/ Finish \/ UNCHANGED vars
  BY <1>1, <1>5 DEF ReadLayer, Reject, Finish, vars
<1> QED BY <1>2, <1>4, <1>5 DEF Next

\* For any files, changes and moments, and evidence that may be at its best: what
\* context lint says of the policy that was merged is what the gate does with
\* it, whatever the evidence (contextspec/lint.go).
THEOREM LintTellsTheFuture == Spec => []LintForetells
<1>1. Init => FromAFile
  BY EmptySeq DEF Init, Nothing, FromAFile
<1>2. FromAFile /\ IInv /\ [Next]_vars => FromAFile'
  BY NextFromAFile
<1>3. IInv /\ FromAFile => LintForetells
  <2> SUFFICES ASSUME IInv, FromAFile, NEW w \in Worlds
               PROVE  LET c == File(acc.guards, w)
                      IN  /\ FaultyNeverPasses(c) /\ OrphansGateNothing(c)
                          /\ AlikeInBinding(c) => DuplicatesLoseNothing(c)
    BY DEF LintForetells
  <2>1. IsGuards(acc.guards)
    BY DEF IInv, TypeOK
  <2> QED BY <2>1, FaultyIsNeverPassing, OrphansCanGo, DuplicatesCanGo
<1> QED BY <1>1, <1>2, <1>3, Invariance, PTL DEF Spec

-----------------------------------------------------------------------------
(* A row of the status, from what it is made of                            *)

\* What is blank is none of the states.
LEMMA BlankIsNoState == Blank \notin {"stale", "disputed", "unreachable", "expired"}
BY Zenon DEF Blank

\* A context as the reports need it.
IsContext(c) ==
  /\ Loads(c)
  /\ IsFiniteSet(DOMAIN c.proofs) /\ IsFiniteSet(DOMAIN c.drills)
  /\ DOMAIN c.proofs \subseteq Nat /\ DOMAIN c.drills \subseteq Nat
  /\ \A q \in DOMAIN c.proofs : IsProof(c.proofs[q])

\* The recipe is the one that was drilled, or there is none to compare.
Unedited(c, q) ==
  Binding(c.proofs[q], IF q \in DOMAIN c.drills THEN c.drills[q] ELSE Absent, FALSE) = "present"

\* Nothing in the record speaks against it.
Sound(r, day) == /\ r.status = Blank /\ r.signature # "bad" /\ ~(r.expires # 0 /\ day > r.expires)

\* What a record claims is sound or one of four failures.
LEMMA SoundIsPresent ==
  ASSUME NEW r, IsProof(r), NEW day \in Nat
  PROVE  /\ EvaluateProof(r, day) = "present" <=> Sound(r, day)
         /\ EvaluateProof(r, day) \in {"present", "stale", "contradicted", "unreachable"}
         /\ EvaluateProof(r, day) = "unreachable" <=> r.status = "unreachable"
         /\ EvaluateProof(r, day) = "contradicted"
              <=> r.status # "unreachable" /\ (r.status = "disputed" \/ r.signature = "bad")
<1>1. r.status \in {Blank, "stale", "disputed", "unreachable"}
  BY DEF IsProof
<1> QED BY <1>1, BlankIsNoState DEF EvaluateProof, Sound

\* A status asks for nothing but a record that is sound and a recipe that is the
\* one it was drilled with.
LEMMA StandingOf ==
  ASSUME NEW c, NEW q \in DOMAIN c.proofs, IsProof(c.proofs[q]), NEW day \in Nat
  PROVE  Standing(c, q, day) =
           IF ~Sound(c.proofs[q], day) THEN EvaluateProof(c.proofs[q], day)
           ELSE IF Unedited(c, q) THEN "present" ELSE "contradicted"
<1> DEFINE r == c.proofs[q]
           drill == IF q \in DOMAIN c.drills THEN c.drills[q] ELSE Absent
<1>1. Demands(Plain, r, day) = "present" /\ Plain.requireBound = FALSE
  BY DEF Demands, Plain
<1>2. Binding(r, drill, FALSE) \in {"present", "contradicted"}
  BY DEF Binding
<1>3. EvaluateProof(r, day) = "present" <=> Sound(r, day)
  BY SoundIsPresent
<1>4. Unedited(c, q) <=> Binding(r, drill, FALSE) = "present"
  BY DEF Unedited
<1>5. Standing(c, q, day) =
        IF EvaluateProof(r, day) # "present" THEN EvaluateProof(r, day)
        ELSE IF Binding(r, drill, Plain.requireBound) # "present" THEN Binding(r, drill, Plain.requireBound)
        ELSE Demands(Plain, r, day)
  BY DEF Standing, CheckProofWithBinding
<1> HIDE DEF r, drill
<1>6. CASE Binding(r, drill, FALSE) = "present"
  BY <1>1, <1>3, <1>4, <1>5, <1>6 DEF r
<1>7. CASE Binding(r, drill, FALSE) = "contradicted"
  BY <1>1, <1>3, <1>4, <1>5, <1>7 DEF r
<1> QED BY <1>2, <1>6, <1>7

\* What the row of a proof that fails shows, and when it does.
Failed(r) == IF r.status \in {"disputed", "unreachable"} THEN r.status ELSE "expired"

Fails(c, q, day, epoch) ==
  LET r == c.proofs[q]
  IN  \/ r.status # Blank
      \/ /\ ~PreviousEpoch(r, epoch) /\ r.status = Blank /\ r.signature # "bad"
         /\ r.expires # 0 /\ day > r.expires

\* A proof fails when the state that the code computes says so.
LEMMA FailsIs ==
  ASSUME NEW c, NEW q \in DOMAIN c.proofs, IsProof(c.proofs[q]), NEW day \in Nat, NEW epoch
  PROVE  Fails(c, q, day, epoch)
           <=> ProofState(c, q, day, epoch) \in {"disputed", "unreachable", "expired", "stale"}
<1> DEFINE r == c.proofs[q]
           ps == ProofState(c, q, day, epoch)
<1>3. r.status \in {Blank, "stale", "disputed", "unreachable"}
  BY DEF IsProof
<1>4. ps = IF r.status \in {"stale", "disputed", "unreachable"} THEN r.status
           ELSE IF PreviousEpoch(r, epoch) THEN "unreviewed"
           ELSE IF Standing(c, q, day) = "contradicted" THEN "contradicted"
           ELSE ProofExpiryState(r, day)
  BY DEF ProofState
<1>5. Fails(c, q, day, epoch) <=> ps \in {"disputed", "unreachable", "expired", "stale"}
  <2>1. CASE r.status # Blank
    BY <1>3, <1>4, <2>1 DEF Fails
  <2>2. CASE r.status = Blank /\ PreviousEpoch(r, epoch)
    BY <1>4, <2>2, BlankIsNoState DEF Fails
  <2>3. CASE r.status = Blank /\ ~PreviousEpoch(r, epoch) /\ Standing(c, q, day) = "contradicted"
    <3>1. ps = "contradicted"
      BY <1>4, <2>3, BlankIsNoState
    <3>2. ~Fails(c, q, day, epoch)
      BY <2>3, StandingOf, SoundIsPresent, BlankIsNoState DEF Fails, Sound
    <3> QED BY <3>1, <3>2
  <2>4. CASE r.status = Blank /\ ~PreviousEpoch(r, epoch) /\ Standing(c, q, day) # "contradicted"
    <3>1. ps = ProofExpiryState(r, day)
      BY <1>4, <2>4, BlankIsNoState
    <3>2. EvaluateProof(r, day) \in {"present", "stale"}
      BY <2>4, StandingOf, SoundIsPresent, BlankIsNoState
    <3>3. CASE EvaluateProof(r, day) = "stale"
      <4>1. ps = "expired"
        BY <2>4, <3>1, <3>3, BlankIsNoState DEF ProofExpiryState
      <4>2. Fails(c, q, day, epoch)
        BY <2>4, <3>3, SoundIsPresent DEF Fails, Sound
      <4> QED BY <4>1, <4>2
    <3>4. CASE EvaluateProof(r, day) = "present"
      <4>1. ps \in {"present", "expiring", "observed", "unreviewed"}
        BY <3>1, <3>4 DEF ProofExpiryState
      <4>2. ~Fails(c, q, day, epoch)
        BY <2>4, <3>4, SoundIsPresent DEF Fails, Sound
      <4> QED BY <4>1, <4>2
    <3> QED BY <3>2, <3>3, <3>4
  <2> QED BY <2>1, <2>2, <2>3, <2>4
<1> QED BY <1>5

\* The state of a proof, without the order in which the code asks.
LEMMA StateOf ==
  ASSUME NEW c, NEW q \in DOMAIN c.proofs, IsProof(c.proofs[q]), NEW day \in Nat, NEW epoch
  PROVE  LET r    == c.proofs[q]
             good == Sound(r, day) /\ Unedited(c, q)
             p    == Classify(c, q, day, epoch)
         IN  /\ p.proof = q /\ p.row.previous = PreviousEpoch(r, epoch)
             /\ p.row.accepted = AcceptanceActive(r, day)
             /\ p.row.level = IF good THEN LevelOf(r, day) ELSE 1
             /\ p.state =
                  IF Fails(c, q, day, epoch) THEN Failed(c.proofs[q])
                  ELSE IF p.row.previous THEN "unreviewed"
                  ELSE IF p.row.level # 1 THEN "restored"
                  ELSE IF r.accepted # 0 /\ ~AcceptanceActive(r, day) THEN "lapsed"
                  ELSE IF AcceptanceActive(r, day) THEN "accepted"
                  ELSE IF IsObservedProof(c, q, day) THEN "observed" ELSE "unreviewed"
<1> DEFINE r == c.proofs[q]
           p == Classify(c, q, day, epoch)
           ps == ProofState(c, q, day, epoch)
<1>1. p.proof = q /\ p.state = ClassifyProofState(p.row, ps)[1] /\ p.row = InventoryRow(c, q, day, epoch)
  BY DEF Classify
<1>2. /\ p.row.previous = PreviousEpoch(r, epoch) /\ p.row.accepted = AcceptanceActive(r, day)
      /\ p.row.level = ContextualLevelOf(c, q, day) /\ p.row.observed = IsObservedProof(c, q, day)
      /\ p.row.lapsed = (r.accepted # 0 /\ ~AcceptanceActive(r, day))
  BY <1>1 DEF InventoryRow
<1>3. r.status \in {Blank, "stale", "disputed", "unreachable"}
  BY DEF IsProof
<1>4. ps = IF r.status \in {"stale", "disputed", "unreachable"} THEN r.status
           ELSE IF PreviousEpoch(r, epoch) THEN "unreviewed"
           ELSE IF Standing(c, q, day) = "contradicted" THEN "contradicted"
           ELSE ProofExpiryState(r, day)
  BY DEF ProofState
<1>5. Fails(c, q, day, epoch) <=> ps \in {"disputed", "unreachable", "expired", "stale"}
  BY FailsIs
<1>6. Fails(c, q, day, epoch) => p.state = Failed(c.proofs[q])
  <2> SUFFICES ASSUME Fails(c, q, day, epoch)  PROVE p.state = Failed(c.proofs[q])
    OBVIOUS
  <2>1. CASE r.status \in {"disputed", "unreachable", "stale"}
    BY <1>1, <1>4, <2>1 DEF ClassifyProofState, Failed
  <2>2. CASE r.status = Blank
    <3>1. /\ ~PreviousEpoch(r, epoch) /\ Standing(c, q, day) = "stale" /\ EvaluateProof(r, day) = "stale"
      BY <2>2, StandingOf, SoundIsPresent, BlankIsNoState DEF Fails, Sound
    <3>2. ps = "expired"
      BY <1>4, <2>2, <3>1, BlankIsNoState DEF ProofExpiryState
    <3> QED BY <1>1, <2>2, <3>2, BlankIsNoState DEF ClassifyProofState, Failed
  <2> QED BY <1>3, <2>1, <2>2
<1>7. p.row.level = IF Sound(r, day) /\ Unedited(c, q) THEN LevelOf(r, day) ELSE 1
  <2>1. Standing(c, q, day) = "present" <=> Sound(r, day) /\ Unedited(c, q)
    BY StandingOf, SoundIsPresent
  <2> QED BY <1>2, <2>1 DEF ContextualLevelOf
<1>8. ~Fails(c, q, day, epoch) => p.state =
        IF p.row.previous THEN "unreviewed"
        ELSE IF p.row.level # 1 THEN "restored"
        ELSE IF p.row.lapsed THEN "lapsed"
        ELSE IF p.row.accepted THEN "accepted"
        ELSE IF p.row.observed THEN "observed" ELSE "unreviewed"
  BY <1>1, <1>5 DEF ClassifyProofState
<1> HIDE DEF p, ps
<1> QED BY <1>1, <1>2, <1>6, <1>7, <1>8 DEF r, p

-----------------------------------------------------------------------------
(* Time                                                                    *)

\* What a later day can take away is taken for good, and cannot come back.
LEMMA SoundEarlier ==
  ASSUME NEW c, NEW q \in DOMAIN c.proofs, IsProof(c.proofs[q]), NEW day \in Nat, NEW d \in Nat, day <= d
  PROVE  LET r == c.proofs[q]
         IN  /\ Sound(r, d) => Sound(r, day)
             /\ AcceptanceActive(r, d) => AcceptanceActive(r, day)
             /\ IsObservedProof(c, q, d) => IsObservedProof(c, q, day)
             /\ Sound(r, d) => LevelOf(r, d) = LevelOf(r, day)
<1> DEFINE r == c.proofs[q]
<1>1. r.expires \in Nat /\ r.accepted \in Nat /\ r.observed \in Nat
  BY DEF IsProof
<1>2. Sound(r, d) => Sound(r, day)
  <2>1. r.expires \in Nat
    BY <1>1
  <2> HIDE DEF r
  <2> QED BY <2>1 DEF Sound
<1>3. AcceptanceActive(r, d) => AcceptanceActive(r, day)
  BY <1>1 DEF AcceptanceActive
<1>4. IsObservedProof(c, q, d) => IsObservedProof(c, q, day)
  <2>1. Standing(c, q, d) = "present" => Standing(c, q, day) = "present"
    BY <1>2, StandingOf, SoundIsPresent
  <2>2. WithinFreshnessWindow(r, d) => WithinFreshnessWindow(r, day)
    BY <1>1 DEF WithinFreshnessWindow
  <2> QED BY <1>1, <2>1, <2>2 DEF IsObservedProof
<1>5. Sound(r, d) => LevelOf(r, d) = LevelOf(r, day)
  BY <1>2, SoundIsPresent DEF LevelOf
<1> QED BY <1>2, <1>3, <1>4, <1>5

\* A drill without a proof is not reviewed, whatever the day.
LEMMA NoProofIsUnreviewed ==
  ASSUME NEW c, NEW q, q \notin DOMAIN c.proofs, NEW day, NEW epoch
  PROVE  /\ Classify(c, q, day, epoch).proof = q
         /\ Classify(c, q, day, epoch).state = "unreviewed"
         /\ Classify(c, q, day, epoch).row.level = 1
         /\ ~Classify(c, q, day, epoch).row.accepted
         /\ ~Classify(c, q, day, epoch).row.previous
<1> DEFINE p == Classify(c, q, day, epoch)
<1>1. p.proof = q /\ p.state = ClassifyProofState(p.row, Blank)[1] /\ p.row = NoProofRow(q)
  BY DEF Classify, InventoryRow
<1> HIDE DEF p
<1>2. /\ p.row.level = 1 /\ p.row.accepted = FALSE /\ p.row.previous = FALSE
      /\ p.row.lapsed = FALSE /\ p.row.observed = FALSE
  BY <1>1 DEF NoProofRow
<1>3. p.state = "unreviewed"
  BY <1>1, <1>2, BlankIsNoState DEF ClassifyProofState
<1> QED BY <1>1, <1>2, <1>3 DEF p

\* A proof looks no better later.
LEMMA NoBetterLater ==
  ASSUME NEW c, IsContext(c), NEW q \in Inventory(c), NEW day \in Nat, NEW d \in Nat, day <= d, NEW epoch
  PROVE  StateRank(Classify(c, q, d, epoch).state) <= StateRank(Classify(c, q, day, epoch).state)
<1>1. CASE q \notin DOMAIN c.proofs
  <2>1. Classify(c, q, d, epoch).state = "unreviewed" /\ Classify(c, q, day, epoch).state = "unreviewed"
    BY <1>1, NoProofIsUnreviewed
  <2>2. StateRank("unreviewed") = 2
    BY DEF StateRank
  <2> QED BY <2>1, <2>2
<1>2. CASE q \in DOMAIN c.proofs
  <2> DEFINE r == c.proofs[q]
             s == Classify(c, q, day, epoch).state
             t == Classify(c, q, d, epoch).state
             prev == PreviousEpoch(r, epoch)
             good(x) == Sound(r, x) /\ Unedited(c, q)
             level(x) == IF good(x) THEN LevelOf(r, x) ELSE 1
             lapsed(x) == r.accepted # 0 /\ ~AcceptanceActive(r, x)
             Says(x) == IF Fails(c, q, x, epoch) THEN Failed(r)
                        ELSE IF prev THEN "unreviewed"
                        ELSE IF level(x) # 1 THEN "restored"
                        ELSE IF lapsed(x) THEN "lapsed"
                        ELSE IF AcceptanceActive(r, x) THEN "accepted"
                        ELSE IF IsObservedProof(c, q, x) THEN "observed" ELSE "unreviewed"
  <2>1. IsProof(r)
    BY <1>2 DEF IsContext
  <2>2. ASSUME NEW x \in Nat  PROVE Classify(c, q, x, epoch).state = Says(x)
    <3> DEFINE p == Classify(c, q, x, epoch)
    <3>1. /\ p.row.previous = prev /\ p.row.level = level(x)
          /\ p.state = IF Fails(c, q, x, epoch) THEN Failed(r)
                       ELSE IF p.row.previous THEN "unreviewed"
                       ELSE IF p.row.level # 1 THEN "restored"
                       ELSE IF lapsed(x) THEN "lapsed"
                       ELSE IF AcceptanceActive(r, x) THEN "accepted"
                       ELSE IF IsObservedProof(c, q, x) THEN "observed" ELSE "unreviewed"
      BY <1>2, <2>1, StateOf
    <3> HIDE DEF p, prev, level, lapsed, r
    <3> QED BY <3>1 DEF p
  <2>3. /\ Sound(r, d) => Sound(r, day)
        /\ AcceptanceActive(r, d) => AcceptanceActive(r, day)
        /\ IsObservedProof(c, q, d) => IsObservedProof(c, q, day)
        /\ Sound(r, d) => LevelOf(r, d) = LevelOf(r, day)
    BY <1>2, <2>1, SoundEarlier
  <2>4. Fails(c, q, day, epoch) => Fails(c, q, d, epoch)
    <3>1. r.expires \in Nat
      BY <2>1 DEF IsProof
    <3>2. ASSUME NEW x \in Nat
          PROVE  Fails(c, q, x, epoch) <=>
                   \/ r.status # Blank
                   \/ ~prev /\ r.status = Blank /\ r.signature # "bad" /\ r.expires # 0 /\ x > r.expires
      BY DEF Fails
    <3> HIDE DEF r, prev
    <3> QED BY <3>1, <3>2
  <2>5. Failed(r) \in {"disputed", "unreachable", "expired"}
    BY DEF Failed
  <2>6. level(d) # 1 => level(day) # 1
    BY <2>3
  <2>7. lapsed(day) => lapsed(d)
    BY <2>3
  <2> HIDE DEF r, s, t, prev, good, level, lapsed
  <2>8. StateRank(Says(d)) <= StateRank(Says(day))
    <3>1. CASE Fails(c, q, d, epoch)
      <4>1. StateRank(Says(d)) = 0
        BY <2>5, <3>1 DEF StateRank
      <4>2. StateRank(Says(day)) \in Nat
        BY <2>5 DEF StateRank
      <4> QED BY <4>1, <4>2
    <3>2. CASE ~Fails(c, q, d, epoch)
      BY <2>3, <2>4, <2>6, <2>7, <3>2 DEF StateRank
    <3> QED BY <3>1, <3>2
  <2> QED BY <2>2, <2>8 DEF s, t
<1> QED BY <1>1, <1>2

-----------------------------------------------------------------------------
(* What is merged from files                                               *)

\* The files are as many as their names, and each is one.
LEMMA FilesTyped ==
  ASSUME NEW fs, AreContextFiles(fs)
  PROVE  /\ Len(fs) \in Nat /\ Len(fs) # 0 /\ DOMAIN fs = 1..Len(fs)
         /\ \A i \in 1..Len(fs) : IsContextFile(fs[i])
<1>1. fs \in Seq({f \in ToSet(fs) : IsContextFile(f)}) /\ fs # <<>>
  BY DEF AreContextFiles
<1>2. Len(fs) \in Nat /\ DOMAIN fs = 1..Len(fs)
  BY <1>1
<1>3. \A i \in 1..Len(fs) : fs[i] \in {f \in ToSet(fs) : IsContextFile(f)}
  BY <1>1
<1>4. Len(fs) # 0
  BY <1>1, EmptySeq
<1> QED BY <1>2, <1>3, <1>4

\* A file among several gives its proofs and drills as it has them, with a scope.
LEMMA LayeredTyped ==
  ASSUME NEW files, AreContextFiles(files), NEW i \in DOMAIN files
  PROVE  /\ DOMAIN Layered(files) = DOMAIN files
         /\ Layered(files)[i].drills = files[i].drills
         /\ DOMAIN Layered(files)[i].proofs = DOMAIN files[i].proofs
         /\ \A q \in DOMAIN files[i].proofs : IsProof(Layered(files)[i].proofs[q])
<1> DEFINE f == files[i]
<1>1. IsContextFile(f)
  BY FilesTyped
<1>2. CASE Len(files) = 1
  BY <1>1, <1>2 DEF Layered, IsContextFile
<1>3. CASE Len(files) # 1
  <2>1. Layered(files) = [k \in DOMAIN files |-> Baked(files[k])]
    BY <1>3 DEF Layered
  <2>2. DOMAIN Layered(files) = DOMAIN files /\ Layered(files)[i] = Baked(f)
    BY <2>1
  <2> HIDE DEF f
  <2>3. f \in [guards : {f.guards}, order : {f.order}, proofs : {f.proofs}, drills : {f.drills}, scope : {f.scope}]
    BY <1>1 DEF IsContextFile
  <2>4. /\ Baked(f).drills = f.drills
        /\ Baked(f).proofs = [q \in DOMAIN f.proofs |->
                                [f.proofs[q] EXCEPT !.scope = MergeScope(f.scope, @)]]
    BY <2>3 DEF Baked
  <2>5. ASSUME NEW q \in DOMAIN f.proofs  PROVE IsProof(Baked(f).proofs[q])
    <3> DEFINE r == f.proofs[q]
    <3>1. IsProof(r)
      BY <1>1 DEF IsContextFile
    <3>2. Baked(f).proofs[q] = [r EXCEPT !.scope = MergeScope(f.scope, @)]
      BY <2>4
    <3> HIDE DEF r
    <3> QED BY <3>1, <3>2 DEF IsProof
  <2> QED BY <2>2, <2>4, <2>5 DEF f
<1> QED BY <1>2, <1>3

\* So a context of files is one that can be reported on.
LEMMA ContextTyped ==
  ASSUME NEW files, AreContextFiles(files), NEW guards, NEW order
  PROVE  IsContext(Context(Layered(files), guards, order))
<1> DEFINE c == Context(Layered(files), guards, order)
           fs == Layered(files)
<1>1. /\ Len(files) \in Nat /\ DOMAIN files = 1..Len(files)
      /\ \A i \in DOMAIN files : IsContextFile(files[i])
  BY FilesTyped
<1>2. DOMAIN fs = 1..Len(files)
  <2>1. 1 \in DOMAIN files
    BY <1>1, FilesTyped
  <2> QED BY <1>1, <2>1, LayeredTyped
<1>3. ASSUME NEW i \in 1..Len(files)
      PROVE  /\ DOMAIN fs[i].proofs = DOMAIN files[i].proofs
             /\ fs[i].drills = files[i].drills
             /\ \A q \in DOMAIN fs[i].proofs : IsProof(fs[i].proofs[q])
             /\ IsFiniteSet(DOMAIN fs[i].proofs) /\ IsFiniteSet(DOMAIN fs[i].drills)
             /\ DOMAIN fs[i].proofs \subseteq Nat /\ DOMAIN fs[i].drills \subseteq Nat
  <2>1. IsContextFile(files[i])
    BY <1>1
  <2> QED BY <1>1, <2>1, LayeredTyped DEF IsContextFile
<1>4. Loads(c) /\ c.proofs = Joined(fs, "proofs") /\ c.drills = Joined(fs, "drills")
  <2>1. DOMAIN c = {"guards", "order", "scope", "facts", "coverage", "proofs", "drills"}
    BY DEF Context
  <2>2. "refused" \notin DOMAIN c
    BY <2>1
  <2> QED BY <2>2 DEF Context, Loads
<1> HIDE DEF c, fs
<1>5. ASSUME NEW field \in {"proofs", "drills"}
      PROVE  /\ DOMAIN Joined(fs, field) = UNION {DOMAIN fs[i][field] : i \in 1..Len(files)}
             /\ IsFiniteSet(DOMAIN Joined(fs, field))
             /\ DOMAIN Joined(fs, field) \subseteq Nat
             /\ \A q \in DOMAIN Joined(fs, field) :
                  \E i \in 1..Len(files) :
                    q \in DOMAIN fs[i][field] /\ Joined(fs, field)[q] = fs[i][field][q]
  <2>1. DOMAIN Joined(fs, field) = UNION {DOMAIN fs[i][field] : i \in 1..Len(files)}
    BY <1>2 DEF Joined
  <2>2. \A i \in 1..Len(files) : IsFiniteSet(DOMAIN fs[i][field]) /\ DOMAIN fs[i][field] \subseteq Nat
    BY <1>3
  <2>3. IsFiniteSet(UNION {DOMAIN fs[i][field] : i \in 1..Len(files)})
    <3>1. IsFiniteSet(1..Len(files))
      BY <1>1, FS_Interval
    <3> DEFINE S == {DOMAIN fs[i][field] : i \in 1..Len(files)}
    <3>2. IsFiniteSet(S)
      <4> DEFINE D == [i \in 1..Len(files) |-> DOMAIN fs[i][field]]
      <4>1. D \in Surjection(1..Len(files), S)
        BY DEF Surjection
      <4> QED BY <3>1, <4>1, FS_Surjection
    <3>3. \A D \in S : IsFiniteSet(D)
      BY <2>2
    <3> HIDE DEF S
    <3>4. IsFiniteSet(UNION S)
      BY <3>2, <3>3, FS_UNION
    <3> QED BY <3>4 DEF S
  <2>4. ASSUME NEW q \in DOMAIN Joined(fs, field)
        PROVE  \E i \in 1..Len(files) :
                 q \in DOMAIN fs[i][field] /\ Joined(fs, field)[q] = fs[i][field][q]
    <3> DEFINE k == CHOOSE i \in DOMAIN fs : q \in DOMAIN fs[i][field]
    <3>1. \E i \in DOMAIN fs : q \in DOMAIN fs[i][field]
      BY <1>2, <2>1
    <3>2. k \in DOMAIN fs /\ q \in DOMAIN fs[k][field]
      BY <3>1
    <3>3. Joined(fs, field)[q] = fs[k][field][q]
      BY <1>2, <2>1 DEF Joined
    <3> QED BY <1>2, <3>2, <3>3
  <2> QED BY <2>1, <2>2, <2>3, <2>4
<1>6. \A q \in DOMAIN c.proofs : IsProof(c.proofs[q])
  <2>1. ASSUME NEW q \in DOMAIN c.proofs  PROVE IsProof(c.proofs[q])
    <3>1. PICK i \in 1..Len(files) :
            q \in DOMAIN fs[i]["proofs"] /\ Joined(fs, "proofs")[q] = fs[i]["proofs"][q]
      BY <1>4, <1>5
    <3> QED BY <1>3, <1>4, <3>1
  <2> QED BY <2>1
<1>7. IsFiniteSet(DOMAIN c.proofs) /\ IsFiniteSet(DOMAIN c.drills)
  BY <1>4, <1>5
<1>8. DOMAIN c.proofs \subseteq Nat /\ DOMAIN c.drills \subseteq Nat
  BY <1>4, <1>5
<1> QED BY <1>4, <1>6, <1>7, <1>8 DEF IsContext, c, fs

\* Loading refuses, or gives such a context.
LEMMA RefusedIsNone == ~Loads(Refused)
BY DEF Loads, Refused

LEMMA MergedTyped ==
  ASSUME NEW files, AreContextFiles(files), Loads(PolicyMerge(files))
  PROVE  IsContext(PolicyMerge(files))
<1>1. PolicyMerge(files) = Context(Layered(files), MergedGuards(Layered(files)), MergedOrder(Layered(files)))
  BY RefusedIsNone DEF PolicyMerge
<1> QED BY <1>1, ContextTyped

-----------------------------------------------------------------------------
(* Ledgers                                                                 *)

\* The entries of a ledger.
LEMMA LedgerTyped ==
  ASSUME NEW led, IsLedger(led)
  PROVE  /\ Len(led) \in Nat /\ DOMAIN led = 1..Len(led)
         /\ led # <<>> <=> Len(led) # 0
         /\ \A i \in 1..Len(led) :
              /\ led[i].hash \in Nat \ {GenesisHash} /\ led[i].prev \in Nat /\ led[i].at \in Nat
              /\ led[i].sound \in BOOLEAN
              /\ i > 1 => led[i].prev = led[i - 1].hash
              /\ led[i].sound \/ \E j \in i..Len(led) : led[j].vouches = led[i].hash
         /\ \A i, j \in 1..Len(led) : i <= j => led[i].at <= led[j].at
<1> DEFINE E == [hash : Nat \ {GenesisHash}, prev : Nat, at : Nat, sound : BOOLEAN, vouches : {Absent} \cup Nat]
<1>1. led \in Seq(E)
  BY DEF IsLedger
<1> HIDE DEF E
<1>2. Len(led) \in Nat /\ DOMAIN led = 1..Len(led)
  BY <1>1
<1>3. led # <<>> <=> Len(led) # 0
  BY <1>1, EmptySeq
<1>4. \A i \in 1..Len(led) : led[i] \in E
  BY <1>1
<1>5. ASSUME NEW i \in 1..Len(led)
      PROVE  /\ i > 1 => led[i].prev = led[i - 1].hash
             /\ led[i].sound \/ \E j \in i..Len(led) : led[j].vouches = led[i].hash
  <2>1. Chained(led)
    BY <1>2, <1>3 DEF IsLedger
  <2> QED BY <1>2, <2>1 DEF Chained
<1>6. \A i, j \in 1..Len(led) : i <= j => led[i].at <= led[j].at
  BY <1>2 DEF IsLedger
<1> QED BY <1>2, <1>3, <1>4, <1>5, <1>6 DEF E

\* An append leaves a ledger.
LEMMA AppendKeeps ==
  ASSUME NEW led, IsLedger(led), now \in Nat, \A i \in DOMAIN led : led[i].at <= now
  PROVE  IsLedger(Extended(led)) /\ \A i \in DOMAIN Extended(led) : Extended(led)[i].at <= now
<1> DEFINE e == [hash |-> Len(led) + 1, at |-> now, sound |-> TRUE, vouches |-> Absent, prev |-> TailHash(led)]
           E == [hash : Nat \ {GenesisHash}, prev : Nat, at : Nat, sound : BOOLEAN, vouches : {Absent} \cup Nat]
           x == Extended(led)
<1>1. /\ Len(led) \in Nat /\ DOMAIN led = 1..Len(led)
      /\ led # <<>> <=> Len(led) # 0
      /\ \A i \in 1..Len(led) : led[i].hash \in Nat \ {GenesisHash}
  BY LedgerTyped
<1>2. TailHash(led) \in Nat
  BY <1>1 DEF TailHash, GenesisHash
<1>3. e \in E
  <2>1. Len(led) + 1 \in Nat \ {GenesisHash}
    BY <1>1 DEF GenesisHash
  <2> QED BY <1>2, <2>1
<1>4. led \in Seq(E)
  BY DEF IsLedger
<1>5. x = Append(led, e)
  BY DEF Extended
<1> HIDE DEF e, x
<1>6. /\ x \in Seq(E) /\ Len(x) = Len(led) + 1 /\ DOMAIN x = 1..(Len(led) + 1)
      /\ x[Len(led) + 1] = e /\ \A i \in 1..Len(led) : x[i] = led[i]
  BY <1>1, <1>3, <1>4, <1>5
<1>7. e.sound = TRUE /\ e.prev = TailHash(led) /\ e.at = now
  BY DEF e
<1>8. x[1].prev = GenesisHash
  <2>1. CASE led = <<>>
    <3>1. Len(led) = 0
      BY <1>1, <2>1
    <3>2. x[1] = e
      BY <1>6, <3>1
    <3> QED BY <1>7, <2>1, <3>2 DEF TailHash
  <2>2. CASE led # <<>>
    <3>1. 1 \in 1..Len(led)
      BY <1>1, <2>2
    <3> QED BY <1>6, <2>2, <3>1 DEF IsLedger
  <2> QED BY <2>1, <2>2
<1>9. Chained(x)
  <2> SUFFICES ASSUME NEW i \in 1..(Len(led) + 1)
               PROVE  /\ i > 1 => x[i].prev = x[i - 1].hash
                      /\ x[i].sound \/ \E j \in i..Len(x) : x[j].vouches = x[i].hash
    BY <1>6 DEF Chained
  <2>1. CASE i = Len(led) + 1
    <3>1. i > 1 => led # <<>> /\ x[i - 1] = led[Len(led)]
      BY <1>1, <1>6, <2>1
    <3> QED BY <1>6, <1>7, <2>1, <3>1 DEF TailHash
  <2>2. CASE i \in 1..Len(led)
    <3>1. /\ i > 1 => led[i].prev = led[i - 1].hash
          /\ led[i].sound \/ \E j \in i..Len(led) : led[j].vouches = led[i].hash
      BY <2>2, LedgerTyped
    <3>2. i > 1 => i - 1 \in 1..Len(led)
      BY <1>1, <2>2
    <3>3. ASSUME NEW j \in i..Len(led)  PROVE j \in i..Len(x) /\ x[j] = led[j]
      <4>1. j \in 1..Len(led) /\ i \in Nat
        BY <1>1, <2>2
      <4> QED BY <1>1, <1>6, <4>1
    <3> QED BY <1>6, <2>2, <3>1, <3>2, <3>3
  <2> QED BY <1>1, <2>1, <2>2
<1>10. \A i \in 1..(Len(led) + 1) : x[i].at <= now
  <2>1. \A i \in 1..Len(led) : x[i].at <= now
    BY <1>1, <1>6
  <2>2. x[Len(led) + 1].at <= now
    BY <1>6, <1>7
  <2> QED BY <1>1, <2>1, <2>2
<1>11. \A i, j \in DOMAIN x : i <= j => x[i].at <= x[j].at
  <2> SUFFICES ASSUME NEW i \in 1..(Len(led) + 1), NEW j \in 1..(Len(led) + 1), i <= j
               PROVE  x[i].at <= x[j].at
    BY <1>6
  <2>1. CASE j = Len(led) + 1
    BY <1>6, <1>7, <1>10, <2>1
  <2>2. CASE j # Len(led) + 1
    <3>1. i \in 1..Len(led) /\ j \in 1..Len(led)
      BY <1>1, <2>2
    <3> QED BY <1>6, <3>1, LedgerTyped
  <2> QED BY <2>1, <2>2
<1> QED BY <1>6, <1>8, <1>9, <1>10, <1>11 DEF IsLedger, x

\* Of the days there is a first.
LEMMA MinIs ==
  ASSUME NEW S, S \subseteq Nat, S # {}
  PROVE  Min(S) \in S /\ \A k \in S : Min(S) <= k
<1>1. PICK m \in S : \A k \in S : ~(<<k, m>> \in OpToRel(<, Nat))
  BY NatLessThanWellFounded, WFMin
<1>2. \A k \in S : ~(k < m)
  BY <1>1 DEF OpToRel
<1>3. \A k \in S : m <= k
  BY <1>2
<1> QED BY <1>3 DEF Min

\* A range is told by its end.
LEMMA SameBound == \A m, n \in Nat : 1..m = 1..n => m = n
<1> SUFFICES ASSUME NEW m \in Nat, NEW n \in Nat, 1..m = 1..n  PROVE m = n
  OBVIOUS
<1>1. ~(m < n)
  <2> SUFFICES ASSUME m < n  PROVE FALSE
    OBVIOUS
  <2>1. m + 1 \in 1..n /\ m + 1 \notin 1..m
    OBVIOUS
  <2> QED BY <2>1
<1>2. ~(n < m)
  <2> SUFFICES ASSUME n < m  PROVE FALSE
    OBVIOUS
  <2>1. n + 1 \in 1..m /\ n + 1 \notin 1..n
    OBVIOUS
  <2> QED BY <2>1
<1> QED BY <1>1, <1>2

\* The end of a ledger.
IsEndOf(s, led) == \E k \in 1..(Len(led) + 1) : s = [n \in 1..(Len(led) + 1 - k) |-> led[k + n - 1]]

\* The entries from some day on are the end of the ledger, in its order.
LEMMA SliceIs ==
  ASSUME NEW led, IsLedger(led), NEW since \in Nat, NEW day \in Nat
  PROVE  IsEndOf(LedgerSlice(led, since, day), led)
<1> DEFINE Takes(i) == since = 0 \/ led[i].at >= day - since
           S == {i \in DOMAIN led : since = 0 \/ led[i].at >= day - since}
<1>1. /\ Len(led) \in Nat /\ DOMAIN led = 1..Len(led)
      /\ \A i \in 1..Len(led) : led[i].at \in Nat
      /\ \A i, j \in 1..Len(led) : i <= j => led[i].at <= led[j].at
  BY LedgerTyped
<1>2. \E k \in 1..(Len(led) + 1) : S = k..Len(led)
  <2>1. CASE S = {}
    <3>1. S = (Len(led) + 1)..Len(led)
      BY <1>1, <2>1
    <3> QED BY <1>1, <3>1
  <2>2. CASE S # {}
    <3>1. S \subseteq Nat
      BY <1>1
    <3>2. Min(S) \in S /\ \A k \in S : Min(S) <= k
      BY <2>2, <3>1, MinIs
    <3>3. \A i \in Min(S)..Len(led) : i \in S
      <4>1. Min(S) \in 1..Len(led) /\ (since = 0 \/ led[Min(S)].at >= day - since)
        BY <1>1, <3>2
      <4> HIDE DEF S
      <4>2. ASSUME NEW i \in Min(S)..Len(led)
            PROVE  i \in 1..Len(led) /\ (since = 0 \/ led[i].at >= day - since)
        <5>1. i \in 1..Len(led) /\ Min(S) <= i
          BY <1>1, <4>1
        <5>2. led[Min(S)].at <= led[i].at /\ led[i].at \in Nat /\ led[Min(S)].at \in Nat
          BY <1>1, <4>1, <5>1
        <5> QED BY <4>1, <5>1, <5>2
      <4> QED BY <1>1, <4>2 DEF S
    <3>4. \A i \in S : i \in Min(S)..Len(led)
      <4>1. \A i \in S : i \in 1..Len(led)
        BY <1>1
      <4> HIDE DEF S
      <4> QED BY <1>1, <3>2, <4>1
    <3>5. S = Min(S)..Len(led)
      BY <3>3, <3>4
    <3>6. Min(S) \in 1..(Len(led) + 1)
      BY <1>1, <3>2
    <3> QED BY <3>5, <3>6
  <2> QED BY <2>1, <2>2
<1>3. PICK k \in 1..(Len(led) + 1) : S = k..Len(led)
  BY <1>2
<1> DEFINE kept == InOrder(S, <)
<1>4. Cardinality(S) = Len(led) + 1 - k
  <2>1. Cardinality(k..Len(led)) = IF k > Len(led) THEN 0 ELSE Len(led) - k + 1
    <3>1. k \in Int /\ Len(led) \in Int
      BY <1>1
    <3> QED BY <3>1, FS_Interval
  <2> HIDE DEF S
  <2> QED BY <1>1, <1>3, <2>1
<1>5. kept = [n \in 1..Cardinality(S) |-> CHOOSE x \in S : Cardinality({y \in S : y < x}) = n - 1]
  BY DEF InOrder
<1>6. LedgerSlice(led, since, day) = [n \in DOMAIN kept |-> led[kept[n]]]
  BY DEF LedgerSlice
<1> HIDE DEF S, kept
<1>7. ASSUME NEW x \in S  PROVE Cardinality({y \in S : y < x}) = x - k
  <2>1. {y \in S : y < x} = k..(x - 1)
    BY <1>1, <1>3
  <2>2. Cardinality(k..(x - 1)) = IF k > x - 1 THEN 0 ELSE (x - 1) - k + 1
    <3>1. k \in Int /\ x - 1 \in Int
      BY <1>1, <1>3
    <3> QED BY <3>1, FS_Interval
  <2>3. k \in Int /\ x \in Int /\ k <= x
    BY <1>1, <1>3
  <2>4. Cardinality(k..(x - 1)) = x - k
    BY <2>2, <2>3
  <2> QED BY <2>1, <2>4
<1>8. ASSUME NEW n \in 1..Cardinality(S)  PROVE kept[n] = k + n - 1
  <2>1. k + n - 1 \in S
    BY <1>1, <1>3, <1>4
  <2>2. \A x \in S : Cardinality({y \in S : y < x}) = n - 1 <=> x = k + n - 1
    BY <1>1, <1>3, <1>4, <1>7
  <2> QED BY <1>5, <2>1, <2>2
<1>9. DOMAIN kept = 1..(Len(led) + 1 - k)
  BY <1>4, <1>5
<1> QED BY <1>4, <1>6, <1>8, <1>9 DEF IsEndOf

\* A slice of a ledger hangs together.
LEMMA SliceChained ==
  ASSUME NEW led, IsLedger(led), NEW since \in Nat, NEW day \in Nat
  PROVE  Chained(LedgerSlice(led, since, day)) /\ Len(LedgerSlice(led, since, day)) \in Nat
<1> DEFINE s == LedgerSlice(led, since, day)
<1>1. PICK k \in 1..(Len(led) + 1) : s = [n \in 1..(Len(led) + 1 - k) |-> led[k + n - 1]]
  <2> HIDE DEF s
  <2>1. IsEndOf(s, led)
    BY SliceIs DEF s
  <2> QED BY <2>1 DEF IsEndOf
<1>2. /\ Len(led) \in Nat /\ DOMAIN led = 1..Len(led)
      /\ \A i \in 1..Len(led) :
           /\ i > 1 => led[i].prev = led[i - 1].hash
           /\ led[i].sound \/ \E j \in i..Len(led) : led[j].vouches = led[i].hash
  BY LedgerTyped
<1> DEFINE m == Len(led) + 1 - k
<1>3. m \in Nat
  BY <1>2
<1> HIDE DEF s
<1>4. DOMAIN s = 1..m /\ \A n \in 1..m : s[n] = led[k + n - 1] /\ k + n - 1 \in 1..Len(led)
  BY <1>1, <1>2
<1>5. Len(s) = m
  <2> DEFINE T == {led[i] : i \in 1..Len(led)}
  <2>1. \A n \in 1..m : led[k + n - 1] \in T
    BY <1>2
  <2>2. s \in Seq(T)
    <3>1. s = [n \in 1..m |-> led[k + n - 1]]
      BY <1>1
    <3> HIDE DEF m, T
    <3> QED BY <1>3, <2>1, <3>1
  <2> HIDE DEF m, T
  <2>3. Len(s) \in Nat /\ DOMAIN s = 1..Len(s)
    BY <2>2
  <2>4. 1..Len(s) = 1..m
    BY <1>4, <2>3
  <2> QED BY <1>3, <2>3, <2>4, SameBound
<1>6. ASSUME NEW i \in 1..m
      PROVE  /\ i > 1 => s[i].prev = s[i - 1].hash
             /\ s[i].sound \/ \E j \in i..m : s[j].vouches = s[i].hash
  <2>1. k + i - 1 \in 1..Len(led) /\ s[i] = led[k + i - 1]
    BY <1>4
  <2>2. i > 1 => s[i - 1] = led[k + i - 1 - 1]
    BY <1>2, <1>3, <1>4
  <2>3. CASE ~s[i].sound
    <3>1. PICK j \in (k + i - 1)..Len(led) : led[j].vouches = s[i].hash
      BY <1>2, <2>1, <2>3
    <3>2. j - k + 1 \in i..m /\ j - k + 1 \in 1..m
      BY <1>2, <2>1, <3>1
    <3>3. s[j - k + 1] = led[j]
      BY <1>2, <1>4, <3>1, <3>2
    <3> QED BY <1>2, <2>1, <2>2, <3>1, <3>2, <3>3
  <2> QED BY <1>2, <2>1, <2>2, <2>3
<1> QED BY <1>3, <1>4, <1>5, <1>6 DEF Chained, s

-----------------------------------------------------------------------------
(* The invariant                                                           *)

\* The edits to come leave as many files as there are.
AreEdits(edits, n) == edits \in Seq({fs \in ToSet(edits) : AreContextFiles(fs) /\ Len(fs) = n})

\* The machine has files and a ledger of the days that were.
IsHost(x, day) ==
  /\ x \in [files : {x.files}, edits : {x.edits}, led : {x.led}, exports : {x.exports}, epoch : {x.epoch}]
  /\ AreContextFiles(x.files) /\ AreEdits(x.edits, Len(x.files))
  /\ IsLedger(x.led) /\ \A i \in DOMAIN x.led : x.led[i].at <= day

\* A slice as the export takes it.
IsSlice(s) == s \in Seq(ToSet(s)) /\ Chained(s)

\* The files of the digests are those of the machine while nobody edits them.
IsRead(fs, files, quiet) ==
  /\ AreContextFiles(fs) /\ Len(fs) = Len(files)
  /\ quiet => fs = files

\* What is signed is the host's, its own slice and the truth about its files.
IsManifest(m) ==
  /\ m \in [host : {m.host}, epoch : {m.epoch}, at : Nat, files : {m.files}, slice : {m.slice},
            count : {Len(m.slice)}, guards : {m.guards}, evidence : {m.evidence}, excluded : {m.excluded}]
  /\ IsSlice(m.slice)

TruthOf(m) ==
  LET c == PolicyMerge(m.files) IN IF Loads(c) THEN States(ScopeRows(c, m.at, m.epoch)) ELSE {}

\* An export, of a machine with these files.
IsJob(j, h, files) ==
  \/ j = Idle
  \/ /\ j.at = "digest"
     /\ j \in [at : {"digest"}, quiet : BOOLEAN, c : {j.c}]
  \/ /\ j.at = "slice"
     /\ j \in [at : {"slice"}, quiet : BOOLEAN, c : {j.c}, files : {j.files}]
     /\ IsRead(j.files, files, j.quiet)
  \/ /\ j.at = "sign"
     /\ j \in [at : {"sign"}, quiet : BOOLEAN, c : {j.c}, files : {j.files}, slice : {j.slice}]
     /\ IsRead(j.files, files, j.quiet) /\ IsSlice(j.slice)
  \/ /\ j.at = "write"
     /\ j \in [at : {"write"}, quiet : BOOLEAN, slice : {j.manifest.slice},
               manifest : {j.manifest}, truth : {j.truth}]
     /\ IsManifest(j.manifest) /\ j.manifest.host = h
     /\ IsRead(j.manifest.files, files, j.quiet)
     /\ j.quiet => j.truth = TruthOf(j.manifest)

\* An archive that lies still is what the export made of it.
IsArchive(a) ==
  /\ a \in [whole : BOOLEAN, manifest : {a.manifest}, signed : {[key |-> a.manifest.host, over |-> a.manifest]},
            members : {a.members}, slice : {a.slice}]
  /\ IsManifest(a.manifest)
  /\ a.whole => /\ AreContextFiles(a.members) /\ AreContextFiles(a.manifest.files)
                /\ Len(a.members) = Len(a.manifest.files)
                /\ a.slice = a.manifest.slice

\* One that was changed does not verify; one written of files that nobody edited
\* has them, and tells the truth.
IsBoxed(b) ==
  /\ b \in [label : {b.label}, archive : {b.archive}, quiet : BOOLEAN, truth : {b.truth}, damaged : BOOLEAN]
  /\ b.damaged => Verify(b.archive, Absent) # "ok"
  /\ ~b.damaged => IsArchive(b.archive)
  /\ ~b.damaged /\ b.quiet /\ b.archive.whole =>
       /\ b.archive.members = b.archive.manifest.files
       /\ b.truth = TruthOf(b.archive.manifest)

EstateInv ==
  /\ now \in Nat /\ \A d \in ahead : d \in Nat /\ now < d
  /\ host = [h \in Hosts |-> host[h]] /\ job = [h \in Hosts |-> job[h]]
  /\ \A h \in Hosts : IsHost(host[h], now) /\ IsJob(job[h], h, host[h].files)
  /\ IsFiniteSet(box) /\ \A b \in box : IsBoxed(b)

\* The sequence is one of what its elements are.
LEMMA SeqOver ==
  ASSUME NEW T, NEW s \in Seq(T), NEW U, \A i \in 1..Len(s) : s[i] \in U
  PROVE  s \in Seq(U)
<1>1. s = [i \in 1..Len(s) |-> s[i]] /\ Len(s) \in Nat
  OBVIOUS
<1>2. [i \in 1..Len(s) |-> s[i]] \in Seq(U)
  BY <1>1
<1> QED BY <1>1, <1>2

\* The next edit and those after it.
LEMMA EditsTyped ==
  ASSUME NEW edits, NEW n, AreEdits(edits, n), edits # <<>>
  PROVE  AreContextFiles(Head(edits)) /\ Len(Head(edits)) = n /\ AreEdits(Tail(edits), n)
<1> DEFINE T == {fs \in ToSet(edits) : AreContextFiles(fs) /\ Len(fs) = n}
           s == Tail(edits)
           U == {fs \in ToSet(s) : AreContextFiles(fs) /\ Len(fs) = n}
<1>1. edits \in Seq(T)
  BY DEF AreEdits
<1>2. \A x \in T : AreContextFiles(x) /\ Len(x) = n
  OBVIOUS
<1> HIDE DEF T
<1>3. Head(edits) \in T /\ s \in Seq(T)
  BY <1>1
<1> HIDE DEF s
<1>4. Len(s) \in Nat /\ \A i \in 1..Len(s) : s[i] \in T /\ s[i] \in ToSet(s)
  BY <1>3 DEF ToSet
<1>5. \A i \in 1..Len(s) : s[i] \in U
  BY <1>2, <1>4
<1> HIDE DEF U
<1>6. s \in Seq(U)
  BY <1>3, <1>5, SeqOver
<1> QED BY <1>2, <1>3, <1>6 DEF AreEdits, s, U

\* An export reads as many files after an edit, but not the same.
LEMMA JobAfterEdit ==
  ASSUME NEW j, NEW h, NEW files, NEW new, IsJob(j, h, files), Len(new) = Len(files)
  PROVE  IsJob(IF j.at = "idle" THEN j ELSE [j EXCEPT !.quiet = FALSE], h, new)
<1> DEFINE k == [j EXCEPT !.quiet = FALSE]
<1>1. CASE j.at = "idle"
  BY <1>1 DEF IsJob
<1>2. CASE j.at # "idle"
  <2>1. j # Idle
    BY <1>2 DEF Idle
  <2>2. CASE j.at = "digest"
    <3>1. j \in [at : {"digest"}, quiet : BOOLEAN, c : {j.c}]
      BY <2>1, <2>2 DEF IsJob
    <3>2. k \in [at : {"digest"}, quiet : {FALSE}, c : {j.c}]
      BY <3>1
    <3> QED BY <1>2, <3>2 DEF IsJob
  <2>3. CASE j.at = "slice"
    <3>1. /\ j \in [at : {"slice"}, quiet : BOOLEAN, c : {j.c}, files : {j.files}]
          /\ IsRead(j.files, files, j.quiet)
      BY <2>1, <2>3 DEF IsJob
    <3>2. k \in [at : {"slice"}, quiet : {FALSE}, c : {j.c}, files : {j.files}]
      BY <3>1
    <3>3. IsRead(j.files, new, FALSE)
      BY <3>1 DEF IsRead
    <3> HIDE DEF k
    <3> QED BY <1>2, <3>2, <3>3 DEF IsJob, k
  <2>4. CASE j.at = "sign"
    <3>1. /\ j \in [at : {"sign"}, quiet : BOOLEAN, c : {j.c}, files : {j.files}, slice : {j.slice}]
          /\ IsRead(j.files, files, j.quiet) /\ IsSlice(j.slice)
      BY <2>1, <2>4 DEF IsJob
    <3>2. k \in [at : {"sign"}, quiet : {FALSE}, c : {j.c}, files : {j.files}, slice : {j.slice}]
      BY <3>1
    <3>3. IsRead(j.files, new, FALSE)
      BY <3>1 DEF IsRead
    <3> HIDE DEF k
    <3> QED BY <1>2, <3>1, <3>2, <3>3 DEF IsJob, k
  <2>5. CASE j.at = "write"
    <3>1. /\ j \in [at : {"write"}, quiet : BOOLEAN, slice : {j.manifest.slice},
                    manifest : {j.manifest}, truth : {j.truth}]
          /\ IsManifest(j.manifest) /\ j.manifest.host = h
          /\ IsRead(j.manifest.files, files, j.quiet)
      BY <2>1, <2>5 DEF IsJob
    <3>2. k \in [at : {"write"}, quiet : {FALSE}, slice : {j.manifest.slice},
                 manifest : {j.manifest}, truth : {j.truth}]
      BY <3>1
    <3>3. IsRead(j.manifest.files, new, FALSE)
      BY <3>1 DEF IsRead
    <3> HIDE DEF k
    <3> QED BY <1>2, <3>1, <3>2, <3>3 DEF IsJob, k
  <2> QED BY <2>1, <2>2, <2>3, <2>4, <2>5 DEF IsJob
<1> QED BY <1>1, <1>2

\* What is taken of a ledger is a slice.
LEMMA SliceTyped ==
  ASSUME NEW led, IsLedger(led), NEW since \in Nat, NEW day \in Nat
  PROVE  IsSlice(LedgerSlice(led, since, day))
<1> DEFINE s == LedgerSlice(led, since, day)
<1>1. Chained(s)
  BY SliceChained
<1>2. IsEndOf(s, led)
  BY SliceIs
<1>3. Len(led) \in Nat
  BY LedgerTyped
<1> HIDE DEF s
<1>4. PICK k \in 1..(Len(led) + 1) : s = [n \in 1..(Len(led) + 1 - k) |-> led[k + n - 1]]
  BY <1>2 DEF IsEndOf
<1> DEFINE m == Len(led) + 1 - k
<1>5. m \in Nat /\ s = [n \in 1..m |-> led[k + n - 1]]
  BY <1>3, <1>4
<1> HIDE DEF m
<1>6. DOMAIN s = 1..m /\ s = [n \in 1..m |-> s[n]]
  BY <1>5
<1>7. \A n \in 1..m : s[n] \in ToSet(s)
  BY <1>6 DEF ToSet
<1>8. s \in Seq(ToSet(s))
  <2> DEFINE U == ToSet(s)
  <2>1. \A n \in 1..m : s[n] \in U
    BY <1>7
  <2> HIDE DEF U
  <2>2. [n \in 1..m |-> s[n]] \in Seq(U)
    BY <1>5, <2>1
  <2>3. s \in Seq(U)
    BY <1>6, <2>2, Zenon
  <2> QED BY <2>3 DEF U
<1> QED BY <1>1, <1>8 DEF IsSlice, s

\* The manifest of a slice.
LEMMA ManifestTyped ==
  ASSUME NEW h, NEW epoch, NEW day \in Nat, NEW c, NEW env, NEW files, NEW slice, IsSlice(slice)
  PROVE  LET m == Manifest(h, epoch, day, c, env, files, slice)
         IN  /\ IsManifest(m) /\ m.host = h /\ m.epoch = epoch /\ m.at = day /\ m.files = files
             /\ m.slice = slice
BY DEF Manifest, IsManifest

\* What is written from a manifest, whole or in part.
LEMMA ArchiveHas ==
  ASSUME NEW m, IsManifest(m), NEW h, m.host = h, NEW files
  PROVE  Archive(m, h, files, m.slice).members = files /\ Archive(m, h, files, m.slice).manifest = m
BY DEF Archive

LEMMA ArchiveTyped ==
  ASSUME NEW m, IsManifest(m), NEW h, m.host = h, NEW files,
         AreContextFiles(files), AreContextFiles(m.files), Len(files) = Len(m.files)
  PROVE  IsArchive(Archive(m, h, files, m.slice))
<1> DEFINE a == Archive(m, h, files, m.slice)
<1>1. a \in [whole : {TRUE}, manifest : {m}, signed : {[key |-> m.host, over |-> m]},
             members : {files}, slice : {m.slice}]
  BY DEF Archive
<1> HIDE DEF a
<1> QED BY <1>1 DEF IsArchive, a

LEMMA CutTyped ==
  ASSUME NEW m, IsManifest(m)
  PROVE  LET a == [Archive(m, m.host, <<>>, <<>>) EXCEPT !.whole = FALSE]
         IN  ~a.whole /\ IsArchive(a)
<1> DEFINE x == Archive(m, m.host, <<>>, <<>>)
           a == [x EXCEPT !.whole = FALSE]
<1>1. x \in [whole : {TRUE}, manifest : {m}, signed : {[key |-> m.host, over |-> m]},
             members : {<<>>}, slice : {<<>>}]
  BY DEF Archive
<1> HIDE DEF x
<1>2. a \in [whole : {FALSE}, manifest : {m}, signed : {[key |-> m.host, over |-> m]},
             members : {<<>>}, slice : {<<>>}]
  BY <1>1
<1> HIDE DEF a
<1> QED BY <1>2 DEF IsArchive, a, x

\* The files of a list differ from those of another when the lists do.
LEMMA FilesDiffer ==
  ASSUME NEW fs, NEW gs, AreContextFiles(fs), AreContextFiles(gs), Len(fs) = Len(gs),
         \A i \in 1..Len(gs) : fs[i] = gs[i]
  PROVE  fs = gs
<1>1. fs = [i \in 1..Len(fs) |-> fs[i]] /\ gs = [i \in 1..Len(gs) |-> gs[i]]
  BY DEF AreContextFiles
<1> QED BY <1>1

\* What is left of a sequence is shorter.
LEMMA ShorterByOne ==
  ASSUME NEW T, NEW s \in Seq(T), NEW i \in DOMAIN s
  PROVE  Len(RemoveAt(s, i)) = Len(s) - 1
<1>1. i \in 1..Len(s) /\ Len(s) \in Nat
  OBVIOUS
<1>2. SubSeq(s, 1, i - 1) \in Seq(T) /\ Len(SubSeq(s, 1, i - 1)) = i - 1
  BY <1>1
<1>3. SubSeq(s, i + 1, Len(s)) \in Seq(T) /\ Len(SubSeq(s, i + 1, Len(s))) = Len(s) - i
  BY <1>1
<1> QED BY <1>1, <1>2, <1>3 DEF RemoveAt

\* What was changed on its way does not verify.
LEMMA AlteredShows ==
  ASSUME NEW a, IsArchive(a), Verify(a, Absent) = "ok", NEW x \in Altered(a), x # a
  PROVE  Verify(x, Absent) # "ok"
<1> DEFINE m == a.manifest
<1>1. /\ a \in [whole : {TRUE}, manifest : {m}, signed : {[key |-> m.host, over |-> m]},
                members : {a.members}, slice : {m.slice}]
      /\ AreContextFiles(a.members) /\ Len(a.members) = Len(m.files)
  <2>1. a.whole
    BY DEF Verify
  <2> QED BY <2>1 DEF IsArchive
<1>2. \A i \in DOMAIN m.files : a.members[i] = m.files[i]
  BY DEF Verify
<1>3. /\ m.slice \in Seq(ToSet(m.slice)) /\ m.at \in Nat
      /\ m \in [host : {m.host}, epoch : {m.epoch}, at : Nat, files : {m.files}, slice : {m.slice},
                count : {Len(m.slice)}, guards : {m.guards}, evidence : {m.evidence}, excluded : {m.excluded}]
  BY DEF IsArchive, IsManifest, IsSlice
<1>4. Len(m.files) \in Nat /\ DOMAIN a.members = 1..Len(m.files) /\ DOMAIN m.files = 1..Len(m.files)
  <2>1. AreContextFiles(m.files)
    BY <1>1 DEF IsArchive
  <2> QED BY <1>1, <2>1, FilesTyped
<1> DEFINE fs == a.members
<1> HIDE DEF m, fs
<1>5. CASE \E i \in DOMAIN a.members : x = [a EXCEPT !.members = RemoveAt(@, i)]
  <2>1. PICK i \in DOMAIN a.members : x = [a EXCEPT !.members = RemoveAt(@, i)]
    BY <1>5
  <2>2. x \in [whole : {TRUE}, manifest : {m}, signed : {[key |-> m.host, over |-> m]},
               members : {RemoveAt(a.members, i)}, slice : {m.slice}]
    BY <1>1, <2>1
  <2>3. Len(RemoveAt(a.members, i)) < Len(m.files)
    <3>1. a.members \in Seq({f \in ToSet(a.members) : IsContextFile(f)})
      BY <1>1 DEF AreContextFiles
    <3>2. Len(RemoveAt(a.members, i)) = Len(a.members) - 1
      BY <3>1, ShorterByOne
    <3> QED BY <1>1, <1>4, <3>2
  <2> QED BY <2>2, <2>3 DEF Verify
<1>6. CASE \E i \in DOMAIN a.members : x = [a EXCEPT !.members[i].proofs = <<>>]
  <2>1. PICK i \in DOMAIN a.members : x = [a EXCEPT !.members[i].proofs = <<>>]
    BY <1>6
  <2> DEFINE ms == [a.members EXCEPT ![i].proofs = <<>>]
  <2>2. x \in [whole : {TRUE}, manifest : {m}, signed : {[key |-> m.host, over |-> m]},
               members : {ms}, slice : {m.slice}]
    BY <1>1, <2>1
  <2>3. ms[i] # m.files[i]
    <3> SUFFICES ASSUME ms[i] = m.files[i]  PROVE FALSE
      OBVIOUS
    <3>1. ms[i] = a.members[i]
      BY <1>2, <1>4
    <3>2. ms = [a.members EXCEPT ![i] = ms[i]]
      OBVIOUS
    <3>3. a.members = [k \in DOMAIN a.members |-> a.members[k]]
      BY <1>1 DEF AreContextFiles
    <3> HIDE DEF ms
    <3>4. ms = a.members
      BY <3>1, <3>2, <3>3
    <3>5. a = [whole |-> TRUE, manifest |-> m, signed |-> [key |-> m.host, over |-> m],
               members |-> a.members, slice |-> m.slice]
      BY <1>1
    <3>6. x = [whole |-> TRUE, manifest |-> m, signed |-> [key |-> m.host, over |-> m],
               members |-> ms, slice |-> m.slice]
      BY <2>2
    <3> QED BY <3>4, <3>5, <3>6
  <2> HIDE DEF ms
  <2> QED BY <1>4, <2>2, <2>3 DEF Verify
<1>7. CASE \E i \in DOMAIN a.slice : x = [a EXCEPT !.slice = RemoveAt(@, i)]
  <2>1. PICK i \in DOMAIN a.slice : x = [a EXCEPT !.slice = RemoveAt(@, i)]
    BY <1>7
  <2>2. x \in [whole : {TRUE}, manifest : {m}, signed : {[key |-> m.host, over |-> m]},
               members : {a.members}, slice : {RemoveAt(m.slice, i)}]
    BY <1>1, <2>1
  <2>3. RemoveAt(m.slice, i) # m.slice
    <3>1. i \in DOMAIN m.slice
      BY <1>1
    <3>2. Len(RemoveAt(m.slice, i)) = Len(m.slice) - 1
      BY <1>3, <3>1, ShorterByOne
    <3>3. Len(m.slice) \in Nat
      BY <1>3
    <3> QED BY <3>2, <3>3
  <2> QED BY <2>2, <2>3 DEF Verify
<1>8. CASE x = [a EXCEPT !.manifest.at = @ + 1]
  <2>1. x.signed.over = m /\ x.manifest.at = m.at + 1
    BY <1>1, <1>3, <1>8
  <2>2. x.signed.over # x.manifest
    BY <1>3, <2>1
  <2> QED BY <2>2 DEF Verify
<1>9. CASE x = [a EXCEPT !.whole = FALSE]
  <2>1. ~x.whole
    BY <1>1, <1>9
  <2> QED BY <2>1 DEF Verify
<1> QED BY <1>5, <1>6, <1>7, <1>8, <1>9 DEF Altered

LEMMA EstateInitInv == EstateInit => EstateInv
<1> SUFFICES ASSUME EstateInit  PROVE EstateInv
  OBVIOUS
<1>1. PICK start \in Starts :
        /\ now = Min(start.days)
        /\ ahead = start.days \ {now}
        /\ host = [h \in Hosts |-> [files |-> start.hosts[h].files, edits |-> start.hosts[h].edits,
                                    led |-> start.hosts[h].led, exports |-> start.hosts[h].exports,
                                    epoch |-> 1]]
  BY DEF EstateInit
<1>2. job = [h \in Hosts |-> Idle] /\ box = {}
  BY DEF EstateInit
<1>3. now \in Nat /\ \A d \in ahead : d \in Nat /\ now < d
  <2>1. start.days \subseteq Nat /\ start.days # {}
    BY StartAssumption
  <2>2. Min(start.days) \in start.days /\ \A k \in start.days : Min(start.days) <= k
    BY <2>1, MinIs
  <2> QED BY <1>1, <2>1, <2>2
<1>4. ASSUME NEW h \in Hosts  PROVE IsHost(host[h], now) /\ IsJob(job[h], h, host[h].files)
  <2> DEFINE s == start.hosts[h]
  <2>1. /\ AreContextFiles(s.files)
        /\ s.edits \in Seq({fs \in ToSet(s.edits) : AreContextFiles(fs) /\ Len(fs) = Len(s.files)})
        /\ IsLedger(s.led) /\ \A i \in DOMAIN s.led : s.led[i].at <= Min(start.days)
    BY StartAssumption
  <2>2. host[h] = [files |-> s.files, edits |-> s.edits, led |-> s.led, exports |-> s.exports, epoch |-> 1]
    BY <1>1
  <2> HIDE DEF s
  <2>3. IsHost(host[h], now)
    BY <1>1, <2>1, <2>2 DEF IsHost, AreEdits
  <2> QED BY <1>2, <2>3 DEF IsJob
<1>5. IsFiniteSet(box) /\ \A b \in box : IsBoxed(b)
  BY <1>2, FS_EmptySet
<1> QED BY <1>1, <1>2, <1>3, <1>4, <1>5 DEF EstateInv

\* A step of one machine disturbs no other.
LEMMA OneHost ==
  ASSUME EstateInv, NEW h \in Hosts, NEW x, NEW j,
         host' = [host EXCEPT ![h] = x], job' = [job EXCEPT ![h] = j],
         IsHost(x, now), IsJob(j, h, x.files),
         UNCHANGED <<now, ahead>>, IsFiniteSet(box'), \A b \in box' : IsBoxed(b)
  PROVE  EstateInv'
<1>1. /\ now \in Nat /\ \A d \in ahead : d \in Nat /\ now < d
      /\ host = [g \in Hosts |-> host[g]] /\ job = [g \in Hosts |-> job[g]]
      /\ \A g \in Hosts : IsHost(host[g], now) /\ IsJob(job[g], g, host[g].files)
  BY DEF EstateInv
<1>2. host' = [g \in Hosts |-> IF g = h THEN x ELSE host[g]] /\ job' = [g \in Hosts |-> IF g = h THEN j ELSE job[g]]
  BY <1>1
<1>3. ASSUME NEW g \in Hosts  PROVE IsHost(host'[g], now') /\ IsJob(job'[g], g, host'[g].files)
  BY <1>1, <1>2
<1>4. host' = [g \in Hosts |-> host'[g]] /\ job' = [g \in Hosts |-> job'[g]]
  BY <1>2
<1>5. now' \in Nat /\ \A d \in ahead' : d \in Nat /\ now' < d
  BY <1>1
<1> QED BY <1>3, <1>4, <1>5 DEF EstateInv

\* Every step leaves the invariant.
LEMMA EstateNextInv == EstateInv /\ [EstateNext]_estateVars => EstateInv'
<1> SUFFICES ASSUME EstateInv, [EstateNext]_estateVars  PROVE EstateInv'
  OBVIOUS
<1>1. /\ now \in Nat /\ \A d \in ahead : d \in Nat /\ now < d
      /\ host = [g \in Hosts |-> host[g]] /\ job = [g \in Hosts |-> job[g]]
      /\ \A g \in Hosts : IsHost(host[g], now) /\ IsJob(job[g], g, host[g].files)
      /\ IsFiniteSet(box) /\ \A b \in box : IsBoxed(b)
  BY DEF EstateInv
<1>2. CASE UNCHANGED estateVars
  BY <1>1, <1>2 DEF EstateInv, estateVars
<1>3. CASE Tick
  <2>1. /\ ahead # {} /\ now' = Min(ahead) /\ ahead' = ahead \ {now'} /\ UNCHANGED <<host, job, box>>
    BY <1>3 DEF Tick
  <2>2. now' \in ahead /\ \A k \in ahead : now' <= k
    BY <1>1, <2>1, MinIs
  <2>3. now' \in Nat /\ now <= now' /\ \A d \in ahead' : d \in Nat /\ now' < d
    BY <1>1, <2>1, <2>2
  <2>4. ASSUME NEW h \in Hosts  PROVE IsHost(host[h], now')
    <3>1. IsHost(host[h], now) /\ now \in Nat
      BY <1>1
    <3>2. \A i \in DOMAIN host[h].led : host[h].led[i].at \in Nat
      BY <3>1, LedgerTyped DEF IsHost
    <3>3. \A i \in DOMAIN host[h].led : host[h].led[i].at <= now'
      BY <2>3, <3>1, <3>2 DEF IsHost
    <3> QED BY <3>1, <3>3 DEF IsHost
  <2> QED BY <1>1, <2>1, <2>3, <2>4 DEF EstateInv
<1>4. ASSUME NEW h \in Hosts, Edit(h)  PROVE EstateInv'
  <2> DEFINE x == [host[h] EXCEPT !.files = Head(host[h].edits), !.edits = Tail(host[h].edits)]
             j == IF job[h].at = "idle" THEN job[h] ELSE [job[h] EXCEPT !.quiet = FALSE]
  <2>1. /\ host[h].edits # <<>> /\ host' = [host EXCEPT ![h] = x] /\ job' = [job EXCEPT ![h] = j]
        /\ UNCHANGED <<now, ahead, box>>
    <3>1. host[h].edits # <<>> /\ UNCHANGED <<now, ahead, box>>
      BY <1>4 DEF Edit
    <3>2. host' = [host EXCEPT ![h] = x]
      BY <1>1, <1>4 DEF Edit
    <3>3. job' = [job EXCEPT ![h] = j]
      BY <1>1, <1>4 DEF Edit
    <3> QED BY <3>1, <3>2, <3>3
  <2>2. IsHost(host[h], now) /\ IsJob(job[h], h, host[h].files)
    BY <1>1
  <2>3. /\ AreContextFiles(Head(host[h].edits)) /\ Len(Head(host[h].edits)) = Len(host[h].files)
        /\ AreEdits(Tail(host[h].edits), Len(host[h].files))
    BY <2>1, <2>2, EditsTyped DEF IsHost
  <2>4. x \in [files : {Head(host[h].edits)}, edits : {Tail(host[h].edits)}, led : {host[h].led},
               exports : {host[h].exports}, epoch : {host[h].epoch}]
    BY <2>2 DEF IsHost
  <2> HIDE DEF x
  <2>5. IsHost(x, now)
    BY <2>2, <2>3, <2>4 DEF IsHost
  <2>6. IsJob(j, h, x.files)
    BY <2>2, <2>3, <2>4, JobAfterEdit
  <2> HIDE DEF j
  <2> QED BY <1>1, <2>1, <2>5, <2>6, OneHost
<1>5. ASSUME NEW h \in Hosts, Reinstall(h)  PROVE EstateInv'
  <2> DEFINE x == [host[h] EXCEPT !.epoch = host[h].epoch + 1]
  <2>1. /\ host' = [host EXCEPT ![h] = x] /\ job' = [job EXCEPT ![h] = job[h]]
        /\ UNCHANGED <<now, ahead, box>>
    BY <1>1, <1>5 DEF Reinstall
  <2>2. IsHost(host[h], now) /\ IsJob(job[h], h, host[h].files)
    BY <1>1
  <2>3. x \in [files : {host[h].files}, edits : {host[h].edits}, led : {host[h].led},
               exports : {host[h].exports}, epoch : {host[h].epoch + 1}]
    BY <2>2 DEF IsHost
  <2> HIDE DEF x
  <2>4. IsHost(x, now) /\ x.files = host[h].files
    BY <2>2, <2>3 DEF IsHost
  <2> QED BY <1>1, <2>1, <2>2, <2>4, OneHost
<1>6. ASSUME NEW h \in Hosts, AppendEntry(h)  PROVE EstateInv'
  <2> DEFINE x == [host[h] EXCEPT !.led = Extended(host[h].led)]
  <2>1. /\ host' = [host EXCEPT ![h] = x] /\ job' = [job EXCEPT ![h] = job[h]]
        /\ UNCHANGED <<now, ahead, box>>
    <3>1. host' = [host EXCEPT ![h] = x]
      BY <1>1, <1>6 DEF AppendEntry
    <3> QED BY <1>1, <1>6, <3>1 DEF AppendEntry
  <2>2. IsHost(host[h], now) /\ IsJob(job[h], h, host[h].files)
    BY <1>1
  <2>3. /\ IsLedger(Extended(host[h].led))
        /\ \A i \in DOMAIN Extended(host[h].led) : Extended(host[h].led)[i].at <= now
    BY <1>1, <2>2, AppendKeeps DEF IsHost
  <2>4. x \in [files : {host[h].files}, edits : {host[h].edits}, led : {Extended(host[h].led)},
               exports : {host[h].exports}, epoch : {host[h].epoch}]
    BY <2>2 DEF IsHost
  <2> HIDE DEF x
  <2>5. IsHost(x, now) /\ x.files = host[h].files
    BY <2>2, <2>3, <2>4 DEF IsHost
  <2> QED BY <1>1, <2>1, <2>2, <2>5, OneHost
<1>7. ASSUME NEW h \in Hosts, Begin(h)  PROVE EstateInv'
  <2> DEFINE x == [host[h] EXCEPT !.exports = host[h].exports - 1]
             j == [at |-> "digest", quiet |-> TRUE, c |-> PolicyMerge(host[h].files)]
  <2>1. /\ host' = [host EXCEPT ![h] = x] /\ job' = [job EXCEPT ![h] = j]
        /\ UNCHANGED <<now, ahead, box>>
    BY <1>1, <1>7 DEF Begin
  <2>2. IsHost(host[h], now)
    BY <1>1
  <2>3. x \in [files : {host[h].files}, edits : {host[h].edits}, led : {host[h].led},
               exports : {host[h].exports - 1}, epoch : {host[h].epoch}]
    BY <2>2 DEF IsHost
  <2> HIDE DEF x
  <2>4. IsHost(x, now) /\ x.files = host[h].files
    BY <2>2, <2>3 DEF IsHost
  <2>5. IsJob(j, h, x.files)
    BY DEF IsJob
  <2> HIDE DEF j
  <2> QED BY <1>1, <2>1, <2>4, <2>5, OneHost
<1>8. ASSUME NEW h \in Hosts, Digest(h)  PROVE EstateInv'
  <2> DEFINE j == [at |-> "slice", quiet |-> job[h].quiet, c |-> job[h].c, files |-> host[h].files]
  <2>1. /\ host' = [host EXCEPT ![h] = host[h]] /\ job' = [job EXCEPT ![h] = j] /\ job[h].at = "digest"
        /\ UNCHANGED <<now, ahead, box>>
    BY <1>1, <1>8 DEF Digest
  <2>2. IsHost(host[h], now) /\ IsJob(job[h], h, host[h].files)
    BY <1>1
  <2>3. job[h] \in [at : {"digest"}, quiet : BOOLEAN, c : {job[h].c}]
    BY <2>1, <2>2 DEF IsJob, Idle
  <2>4. IsRead(host[h].files, host[h].files, job[h].quiet)
    BY <2>2 DEF IsHost, IsRead
  <2>5. IsJob(j, h, host[h].files)
    BY <2>3, <2>4 DEF IsJob
  <2> HIDE DEF j
  <2> QED BY <1>1, <2>1, <2>2, <2>5, OneHost
<1>9. ASSUME NEW h \in Hosts, Slice(h)  PROVE EstateInv'
  <2>1. PICK since \in Windows :
          job' = [job EXCEPT ![h] = [at |-> "sign", quiet |-> @.quiet, c |-> @.c, files |-> @.files,
                                     slice |-> LedgerSlice(host[h].led, since, now)]]
    BY <1>9 DEF Slice
  <2> DEFINE s == LedgerSlice(host[h].led, since, now)
             j == [at |-> "sign", quiet |-> job[h].quiet, c |-> job[h].c, files |-> job[h].files, slice |-> s]
  <2>2. /\ host' = [host EXCEPT ![h] = host[h]] /\ job' = [job EXCEPT ![h] = j] /\ job[h].at = "slice"
        /\ UNCHANGED <<now, ahead, box>>
    BY <1>1, <1>9, <2>1 DEF Slice
  <2>3. IsHost(host[h], now) /\ IsJob(job[h], h, host[h].files)
    BY <1>1
  <2>4. /\ job[h] \in [at : {"slice"}, quiet : BOOLEAN, c : {job[h].c}, files : {job[h].files}]
        /\ IsRead(job[h].files, host[h].files, job[h].quiet)
    BY <2>2, <2>3 DEF IsJob, Idle
  <2>5. IsSlice(s)
    <3>1. since \in Nat
      BY WindowAssumption
    <3> QED BY <1>1, <2>3, <3>1, SliceTyped DEF IsHost
  <2> HIDE DEF s
  <2>6. IsJob(j, h, host[h].files)
    BY <2>4, <2>5 DEF IsJob
  <2> HIDE DEF j
  <2> QED BY <1>1, <2>2, <2>3, <2>6, OneHost
<1>10. ASSUME NEW h \in Hosts, Sign(h)  PROVE EstateInv'
  <2> DEFINE m == Manifest(h, host[h].epoch, now, job[h].c, Blank, job[h].files, job[h].slice)
             truth == States(Report(h))
             j == [at |-> "write", quiet |-> job[h].quiet, slice |-> job[h].slice, manifest |-> m,
                   truth |-> truth]
  <2>1. /\ host' = [host EXCEPT ![h] = host[h]] /\ job' = [job EXCEPT ![h] = j] /\ job[h].at = "sign"
        /\ UNCHANGED <<now, ahead, box>>
    BY <1>1, <1>10 DEF Sign
  <2>2. IsHost(host[h], now) /\ IsJob(job[h], h, host[h].files)
    BY <1>1
  <2>3. /\ job[h] \in [at : {"sign"}, quiet : BOOLEAN, c : {job[h].c}, files : {job[h].files},
                       slice : {job[h].slice}]
        /\ IsRead(job[h].files, host[h].files, job[h].quiet) /\ IsSlice(job[h].slice)
    BY <2>1, <2>2 DEF IsJob, Idle
  <2>4. /\ IsManifest(m) /\ m.host = h /\ m.epoch = host[h].epoch /\ m.at = now
        /\ m.files = job[h].files /\ m.slice = job[h].slice
    BY <1>1, <2>3, ManifestTyped
  <2>5. job[h].quiet => truth = TruthOf(m)
    <3> HIDE DEF m
    <3>1. CASE Loads(PolicyMerge(host[h].files))
      BY <2>3, <2>4, <3>1 DEF IsRead, TruthOf, Report
    <3>2. CASE ~Loads(PolicyMerge(host[h].files))
      <4>1. truth = States({})
        BY <3>2 DEF Report
      <4>2. truth = {}
        BY <4>1 DEF States
      <4> QED BY <2>3, <2>4, <3>2, <4>2 DEF IsRead, TruthOf
    <3> QED BY <3>1, <3>2
  <2> HIDE DEF m, truth
  <2>6. IsJob(j, h, host[h].files)
    <3>1. /\ j.at = "write" /\ j.manifest = m /\ j.quiet = job[h].quiet /\ j.truth = truth
          /\ j \in [at : {"write"}, quiet : BOOLEAN, slice : {m.slice}, manifest : {m}, truth : {truth}]
      BY <2>3, <2>4
    <3> HIDE DEF j
    <3> QED BY <2>3, <2>4, <2>5, <3>1 DEF IsJob
  <2> HIDE DEF j
  <2> QED BY <1>1, <2>1, <2>2, <2>6, OneHost
<1>11. ASSUME NEW h \in Hosts, Write(h) \/ CutShort(h)  PROVE EstateInv'
  <2> DEFINE m == job[h].manifest
  <2>1. IsHost(host[h], now) /\ IsJob(job[h], h, host[h].files)
    BY <1>1
  <2>2. /\ job[h].at = "write"
        /\ job[h] \in [at : {"write"}, quiet : BOOLEAN, slice : {m.slice}, manifest : {m}, truth : {job[h].truth}]
        /\ IsManifest(m) /\ m.host = h /\ IsRead(m.files, host[h].files, job[h].quiet)
        /\ job[h].quiet => job[h].truth = TruthOf(m)
    <3>1. job[h].at = "write"
      BY <1>11 DEF Write, CutShort
    <3> QED BY <2>1, <3>1 DEF IsJob, Idle
  <2> HIDE DEF m
  <2>3. /\ host' = [host EXCEPT ![h] = host[h]] /\ job' = [job EXCEPT ![h] = Idle] /\ UNCHANGED <<now, ahead>>
    BY <1>1, <1>11 DEF Write, CutShort
  <2> DEFINE cut == [Archive(m, h, <<>>, <<>>) EXCEPT !.whole = FALSE]
             sound == Archive(m, h, host[h].files, m.slice)
             Item(a) == [label |-> <<h, Cardinality(box)>>, archive |-> a, quiet |-> job[h].quiet,
                         truth |-> job[h].truth, damaged |-> FALSE]
  <2>4. PICK a \in {cut, sound} : box' = box \cup {Item(a)}
    BY <1>11, <2>2 DEF Write, CutShort, Boxed, m
  <2>5. /\ ~cut.whole /\ IsArchive(cut)
        /\ sound.members = host[h].files /\ sound.manifest = m
        /\ AreContextFiles(host[h].files) /\ AreContextFiles(m.files) /\ Len(host[h].files) = Len(m.files)
              => IsArchive(sound)
    <3> DEFINE fs == host[h].files
    <3>1. m.host = h /\ IsManifest(m)
      BY <2>2
    <3> HIDE DEF fs
    <3>2. ~cut.whole /\ IsArchive(cut)
      BY <3>1, CutTyped
    <3>3. Archive(m, h, fs, m.slice).members = fs /\ Archive(m, h, fs, m.slice).manifest = m
      BY <3>1, ArchiveHas
    <3>4. AreContextFiles(fs) /\ AreContextFiles(m.files) /\ Len(fs) = Len(m.files)
            => IsArchive(Archive(m, h, fs, m.slice))
      BY <3>1, ArchiveTyped
    <3> QED BY <3>2, <3>3, <3>4 DEF fs
  <2>6. AreContextFiles(host[h].files) /\ AreContextFiles(m.files) /\ Len(host[h].files) = Len(m.files)
    BY <2>1, <2>2 DEF IsHost, IsRead
  <2> HIDE DEF cut, sound
  <2>7. IsBoxed(Item(a))
    <3> DEFINE b == Item(a)
    <3>1. /\ b \in [label : {b.label}, archive : {b.archive}, quiet : BOOLEAN, truth : {b.truth}, damaged : BOOLEAN]
          /\ ~b.damaged /\ b.archive = a /\ b.quiet = job[h].quiet /\ b.truth = job[h].truth
      BY <2>2
    <3> HIDE DEF b, Item
    <3>2. IsArchive(a)
      BY <2>5, <2>6
    <3>3. b.quiet /\ a.whole => a.members = a.manifest.files /\ b.truth = TruthOf(a.manifest)
      BY <2>2, <2>5, <3>1 DEF IsRead
    <3> QED BY <3>1, <3>2, <3>3 DEF IsBoxed, b
  <2> HIDE DEF Item
  <2>8. IsFiniteSet(box') /\ \A b \in box' : IsBoxed(b)
    BY <1>1, <2>4, <2>7, FS_AddElement
  <2>9. IsJob(Idle, h, host[h].files)
    BY DEF IsJob
  <2> QED BY <2>1, <2>3, <2>8, <2>9, OneHost
<1>12. CASE Damage
  <2>1. PICK b \in box : \E a \in Altered(b.archive) \ {b.archive} :
          /\ Verify(b.archive, Absent) = "ok"
          /\ box' = (box \ {b}) \cup {[b EXCEPT !.archive = a, !.damaged = TRUE]}
    BY <1>12 DEF Damage
  <2>2. PICK a \in Altered(b.archive) \ {b.archive} :
          /\ Verify(b.archive, Absent) = "ok"
          /\ box' = (box \ {b}) \cup {[b EXCEPT !.archive = a, !.damaged = TRUE]}
    BY <2>1
  <2> DEFINE d == [b EXCEPT !.archive = a, !.damaged = TRUE]
  <2>3. IsBoxed(b)
    BY <1>1
  <2>4. IsArchive(b.archive)
    BY <2>2, <2>3 DEF IsBoxed
  <2>5. Verify(a, Absent) # "ok"
    BY <2>2, <2>4, AlteredShows
  <2>6. d \in [label : {b.label}, archive : {a}, quiet : BOOLEAN, truth : {b.truth}, damaged : {TRUE}]
    BY <2>3 DEF IsBoxed
  <2> HIDE DEF d
  <2>7. IsBoxed(d)
    BY <2>5, <2>6 DEF IsBoxed
  <2>8. box' = (box \ {b}) \cup {d}
    BY <2>2 DEF d
  <2>9. IsFiniteSet(box') /\ \A x \in box' : IsBoxed(x)
    <3>1. IsFiniteSet(box \ {b})
      BY <1>1, FS_Difference
    <3> QED BY <1>1, <2>7, <2>8, <3>1, FS_AddElement
  <2> QED BY <1>1, <1>12, <2>9 DEF EstateInv, Damage
<1> QED BY <1>2, <1>3, <1>4, <1>5, <1>6, <1>7, <1>8, <1>9, <1>10, <1>11, <1>12 DEF EstateNext, HostStep

\* Whatever happens, it holds.
THEOREM EstateInvariance == EstateSpec => []EstateInv
BY EstateInitInv, EstateNextInv, PTL DEF EstateSpec

-----------------------------------------------------------------------------
(* What the reports agree on                                               *)

\* Time alone makes no proof look better (internal/status: the state of a row,
\* read on a later day).
THEOREM AgeNeverFlatters == EstateSpec => []LaterIsNoBetter
<1>1. EstateInv => LaterIsNoBetter
  <2> SUFFICES ASSUME EstateInv, NEW h \in Hosts, Loads(PolicyMerge(host[h].files)), NEW d \in ahead,
                      NEW q \in Inventory(PolicyMerge(host[h].files))
               PROVE  LET c == PolicyMerge(host[h].files)
                      IN  StateRank(Classify(c, q, d, host[h].epoch).state)
                            <= StateRank(Classify(c, q, now, host[h].epoch).state)
    BY DEF LaterIsNoBetter
  <2>1. now \in Nat /\ d \in Nat /\ now <= d
    BY DEF EstateInv
  <2>2. AreContextFiles(host[h].files)
    BY DEF EstateInv, IsHost
  <2>3. IsContext(PolicyMerge(host[h].files))
    BY <2>2, MergedTyped
  <2> QED BY <2>1, <2>3, NoBetterLater
<1> QED BY <1>1, EstateInvariance, PTL

\* The rows of a report.
LEMMA ReportIs ==
  ASSUME EstateInv, NEW h \in Hosts, NEW p \in Report(h)
  PROVE  LET c == PolicyMerge(host[h].files)
         IN  /\ IsContext(c) /\ p.proof \in Inventory(c)
             /\ p = Classify(c, p.proof, now, host[h].epoch)
<1> DEFINE c == PolicyMerge(host[h].files)
<1>1. Loads(c) /\ p \in ScopeRows(c, now, host[h].epoch)
  BY DEF Report
<1>2. PICK q \in Inventory(c) : p = Classify(c, q, now, host[h].epoch)
  BY <1>1 DEF ScopeRows
<1>3. p.proof = q
  BY <1>2 DEF Classify
<1>4. AreContextFiles(host[h].files)
  BY DEF EstateInv, IsHost
<1>5. IsContext(c)
  BY <1>1, <1>4, MergedTyped
<1> HIDE DEF c
<1> QED BY <1>2, <1>3, <1>5 DEF c

\* A report without a gap is what a verdict that passes is about.
LEMMA PassShows ==
  ASSUME NEW c, IsContext(c), NEW q \in DOMAIN c.proofs, NEW day \in Nat, NEW epoch,
         CountsAs(c, q, day, epoch) # "unreviewed",
         ProofState(c, q, day, epoch) \notin {"expired", "contradicted", "unreachable", "stale", "disputed"}
  PROVE  LET s == Classify(c, q, day, epoch).state IN ~IsGap(s) \/ s = "lapsed"
<1> DEFINE r == c.proofs[q]
           p == Classify(c, q, day, epoch)
           lapsed == r.accepted # 0 /\ ~AcceptanceActive(r, day)
<1>1. IsProof(r)
  BY DEF IsContext
<1>2. ~Fails(c, q, day, epoch)
  BY <1>1, FailsIs
<1>3. /\ p.row.previous = PreviousEpoch(r, epoch)
      /\ p.row.level = IF Sound(r, day) /\ Unedited(c, q) THEN LevelOf(r, day) ELSE 1
      /\ p.state = IF p.row.previous THEN "unreviewed"
                   ELSE IF p.row.level # 1 THEN "restored"
                   ELSE IF lapsed THEN "lapsed"
                   ELSE IF AcceptanceActive(r, day) THEN "accepted"
                   ELSE IF IsObservedProof(c, q, day) THEN "observed" ELSE "unreviewed"
  BY <1>1, <1>2, StateOf
<1>4. Standing(c, q, day) = "present" <=> Sound(r, day) /\ Unedited(c, q)
  BY <1>1, StandingOf, SoundIsPresent
<1>5. ~PreviousEpoch(r, epoch) /\ Standing(c, q, day) = "present"
  BY DEF CountsAs
<1>6. \/ LevelOf(r, day) # 1 \/ AcceptanceActive(r, day) \/ IsObservedProof(c, q, day)
  BY <1>5 DEF CountsAs
<1> HIDE DEF r, p, lapsed
<1>7. p.state \in {"restored", "lapsed", "accepted", "observed"}
  BY <1>3, <1>4, <1>5, <1>6
<1> QED BY <1>7 DEF IsGap, Bucket, Attention, p

\* What the summary calls good stands, and shows no failure.
LEMMA SummaryShows ==
  ASSUME NEW c, IsContext(c), NEW q \in DOMAIN c.proofs, NEW day \in Nat, NEW epoch,
         SummaryProof(c, q, day).outcome \in {"pass", "observed"}
  PROVE  LET s == Classify(c, q, day, epoch).state IN s \notin Attention \/ s = "lapsed"
<1> DEFINE r == c.proofs[q]
           p == Classify(c, q, day, epoch)
           lapsed == r.accepted # 0 /\ ~AcceptanceActive(r, day)
<1>1. IsProof(r)
  BY DEF IsContext
<1>2. Standing(c, q, day) = "present"
  <2>1. Standing(c, q, day) \in {"present", "stale", "contradicted", "unreachable"}
    BY <1>1, StandingOf, SoundIsPresent
  <2> QED BY <2>1 DEF SummaryProof
<1>3. Sound(r, day) /\ Unedited(c, q)
  BY <1>1, <1>2, StandingOf, SoundIsPresent
<1>4. ~Fails(c, q, day, epoch)
  BY <1>3 DEF Fails, Sound
<1>5. p.state = IF p.row.previous THEN "unreviewed"
                ELSE IF p.row.level # 1 THEN "restored"
                ELSE IF lapsed THEN "lapsed"
                ELSE IF AcceptanceActive(r, day) THEN "accepted"
                ELSE IF IsObservedProof(c, q, day) THEN "observed" ELSE "unreviewed"
  BY <1>1, <1>4, StateOf
<1> HIDE DEF r, p, lapsed
<1>6. p.state \in {"unreviewed", "restored", "lapsed", "accepted", "observed"}
  BY <1>5
<1> QED BY <1>6 DEF Attention, p

\* The summary of a ledger with an entry verifies with the key of its host, and
\* with no other.
LEMMA SummaryVerifies ==
  ASSUME NEW files, AreContextFiles(files), Loads(PolicyMerge(files)), NEW led, IsLedger(led), led # <<>>,
         NEW day \in Nat, NEW h
  PROVE  LET doc == Summary(files, led, day, Blank, h)
         IN  VerifySummary(doc, h) /\ \A other : other # h => ~VerifySummary(doc, other)
<1> DEFINE c == PolicyMerge(files)
           s == [proofs |-> {SummaryProof(c, q, day) : q \in ScopedProofs(c, Blank)},
                 asOf |-> day, ledger |-> SummaryLedger(led),
                 scope |-> IF Blank = Blank THEN "all" ELSE "filtered", selectors |-> {Blank} \ {Blank}]
           doc == Summary(files, led, day, Blank, h)
<1>1. IsContext(c)
  BY MergedTyped
<1>2. ASSUME NEW q \in ScopedProofs(c, Blank)
      PROVE  (SummaryProof(c, q, day).outcome = "pass") = SummaryProof(c, q, day).verified
  <2>1. q \in DOMAIN c.proofs /\ IsProof(c.proofs[q])
    BY <1>1 DEF ScopedProofs, IsContext
  <2>2. Standing(c, q, day) \in {"present", "stale", "contradicted", "unreachable"}
    BY <2>1, StandingOf, SoundIsPresent
  <2>3. c.proofs[q].verified \in BOOLEAN
    BY <2>1 DEF IsProof
  <2> HIDE DEF c
  <2>4. CASE Standing(c, q, day) = "present"
    BY <2>3, <2>4 DEF SummaryProof
  <2>5. CASE Standing(c, q, day) # "present"
    BY <2>2, <2>3, <2>5 DEF SummaryProof
  <2> QED BY <2>4, <2>5
<1>3. /\ Len(led) \in Nat /\ DOMAIN led = 1..Len(led) /\ Len(led) # 0
      /\ \A i \in 1..Len(led) : led[i].hash \in Nat \ {GenesisHash}
  BY LedgerTyped
<1>4. ValidDigest(TailHash(led))
  BY <1>3 DEF ValidDigest, TailHash
<1>5. Cardinality({i \in DOMAIN led : ~led[i].sound}) <= Len(led)
  <2>1. IsFiniteSet(1..Len(led)) /\ Cardinality(1..Len(led)) = Len(led)
    <3>1. 1 \in Int /\ Len(led) \in Int /\ ~(1 > Len(led))
      BY <1>3
    <3>2. Cardinality(1..Len(led)) = Len(led) - 1 + 1
      BY <3>1, FS_Interval
    <3> QED BY <1>3, <3>1, <3>2, FS_Interval
  <2> DEFINE B == {i \in DOMAIN led : ~led[i].sound}
  <2>2. B \subseteq 1..Len(led)
    BY <1>3
  <2> HIDE DEF B
  <2>3. Cardinality(B) <= Cardinality(1..Len(led))
    BY <2>1, <2>2, FS_Subset
  <2> QED BY <2>1, <2>3 DEF B
<1>6. SummaryLedger(led).ok
  BY DEF SummaryLedger, IsLedger
<1>7. ValidSummary(s)
  <2>1. s.ledger.tail = TailHash(led) /\ s.ledger.count = Len(led)
        /\ s.ledger.anchored = Cardinality({i \in DOMAIN led : ~led[i].sound})
    BY DEF SummaryLedger
  <2>2. s.scope = "all" /\ s.selectors = {}
    OBVIOUS
  <2>3. \A p \in s.proofs : (p.outcome = "pass") = p.verified
    BY <1>2
  <2> HIDE DEF s
  <2> QED BY <1>4, <1>5, <2>1, <2>2, <2>3 DEF ValidSummary
<1>8. doc = [s |-> s, signed |-> [key |-> h, over |-> s]]
  BY <1>6, <1>7 DEF Summary
<1> HIDE DEF s, doc
<1>9. Loads(doc)
  <2>1. DOMAIN doc = {"s", "signed"}
    BY <1>8
  <2> QED BY <2>1 DEF Loads
<1> QED BY <1>7, <1>8, <1>9 DEF VerifySummary, doc

\* The verdict and the signed summary agree with the tree (Gather, partitionCounts
\* and makeSummaryProof against classifyProofState; ExportSummary against
\* VerifySummary).
THEOREM ReportsAgree == EstateSpec => []StatusAgrees
<1>1. EstateInv => StatusAgrees
  <2> SUFFICES ASSUME EstateInv, NEW h \in Hosts, Loads(PolicyMerge(host[h].files))
               PROVE  LET c    == PolicyMerge(host[h].files)
                          rows == {p \in Report(h) : p.proof \in DOMAIN c.proofs}
                          doc  == Summary(host[h].files, host[h].led, now, Blank, h)
                      IN  /\ Verdict1(c, now, host[h].epoch, TRUE, FALSE, [ok |-> TRUE, daysLeft |-> {}]) = "pass"
                               => \A p \in rows : ~IsGap(p.state) \/ p.state = "lapsed"
                          /\ \A p \in rows : SummaryProof(c, p.proof, now).outcome \in {"pass", "observed"}
                               => p.state \notin Attention \/ p.state = "lapsed"
                          /\ host[h].led # <<>> => /\ VerifySummary(doc, h)
                                                   /\ \A other \in Hosts \ {h} : ~VerifySummary(doc, other)
    BY Zenon DEF StatusAgrees
  <2> DEFINE c    == PolicyMerge(host[h].files)
             rows == {p \in Report(h) : p.proof \in DOMAIN c.proofs}
             doc  == Summary(host[h].files, host[h].led, now, Blank, h)
             led  == [ok |-> TRUE, daysLeft |-> {}]
  <2>1. now \in Nat /\ AreContextFiles(host[h].files) /\ IsLedger(host[h].led)
    BY DEF EstateInv, IsHost
  <2>2. IsContext(c)
    BY <2>1, MergedTyped
  <2>3. ASSUME NEW p \in rows
        PROVE  p.proof \in DOMAIN c.proofs /\ p = Classify(c, p.proof, now, host[h].epoch)
    BY ReportIs
  <2>4. ASSUME Verdict1(c, now, host[h].epoch, TRUE, FALSE, led) = "pass", NEW p \in rows
        PROVE  ~IsGap(p.state) \/ p.state = "lapsed"
    <3>1. \A q \in DOMAIN c.proofs :
            /\ CountsAs(c, q, now, host[h].epoch) # "unreviewed"
            /\ ProofState(c, q, now, host[h].epoch)
                 \notin {"expired", "contradicted", "unreachable", "stale", "disputed"}
      BY <2>4 DEF Verdict1
    <3> QED BY <2>1, <2>2, <2>3, <3>1, PassShows
  <2>5. ASSUME NEW p \in rows, SummaryProof(c, p.proof, now).outcome \in {"pass", "observed"}
        PROVE  p.state \notin Attention \/ p.state = "lapsed"
    BY <2>1, <2>2, <2>3, <2>5, SummaryShows
  <2>6. host[h].led # <<>> => VerifySummary(doc, h) /\ \A other \in Hosts \ {h} : ~VerifySummary(doc, other)
    BY <2>1, SummaryVerifies
  <2> QED BY <2>4, <2>5, <2>6
<1> QED BY <1>1, EstateInvariance, PTL

-----------------------------------------------------------------------------
(* What a report sorts                                                     *)

\* R tells any two elements of S apart, and one of them comes first.
IsStrictOrder(S, R) ==
  /\ \A x \in S : <<x, x>> \notin R
  /\ \A x, y, z \in S : <<x, y>> \in R /\ <<y, z>> \in R => <<x, z>> \in R
  /\ \A x, y \in S : x # y => <<x, y>> \in R \/ <<y, x>> \in R

Below(S, R, x) == {y \in S : <<y, x>> \in R}

\* Every element has its own place.
LEMMA PlacesDiffer ==
  ASSUME NEW S, IsFiniteSet(S), NEW R, IsStrictOrder(S, R)
  PROVE  /\ Cardinality(S) \in Nat
         /\ \A x \in S : Cardinality(Below(S, R, x)) \in 0..(Cardinality(S) - 1)
         /\ \A x, y \in S : Cardinality(Below(S, R, x)) = Cardinality(Below(S, R, y)) => x = y
<1>1. ASSUME NEW x \in S
      PROVE  /\ IsFiniteSet(Below(S, R, x)) /\ Cardinality(Below(S, R, x)) \in Nat
             /\ Cardinality(Below(S, R, x)) < Cardinality(S) /\ Cardinality(S) \in Nat
  <2>1. Below(S, R, x) \subseteq S /\ x \notin Below(S, R, x)
    BY DEF Below, IsStrictOrder
  <2>2. Below(S, R, x) # S
    BY <2>1
  <2> QED BY <2>1, <2>2, FS_Subset, FS_CardinalityType
<1>2. ASSUME NEW x \in S, NEW y \in S, <<x, y>> \in R
      PROVE  Cardinality(Below(S, R, x)) < Cardinality(Below(S, R, y))
  <2>1. x \in Below(S, R, y) /\ x \notin Below(S, R, x)
    BY <1>2 DEF Below, IsStrictOrder
  <2>2. Below(S, R, x) \subseteq Below(S, R, y)
    BY <1>2 DEF Below, IsStrictOrder
  <2>3. Below(S, R, x) # Below(S, R, y)
    BY <2>1
  <2> QED BY <1>1, <2>2, <2>3, FS_Subset
<1>3. ASSUME NEW x \in S, NEW y \in S, Cardinality(Below(S, R, x)) = Cardinality(Below(S, R, y)), x # y
      PROVE  FALSE
  <2>1. <<x, y>> \in R \/ <<y, x>> \in R
    BY <1>3 DEF IsStrictOrder
  <2> QED BY <1>1, <1>2, <1>3, <2>1
<1>4. Cardinality(S) \in Nat
  BY FS_CardinalityType
<1> QED BY <1>1, <1>3, <1>4

Enumerated(S, R) == [n \in 1..Cardinality(S) |-> CHOOSE x \in S : Cardinality(Below(S, R, x)) = n - 1]

\* A sorted list has the elements of the set that it sorts.
LEMMA NothingIsLost ==
  ASSUME NEW S, IsFiniteSet(S), NEW R, IsStrictOrder(S, R)
  PROVE  ToSet(Enumerated(S, R)) = S
<1> DEFINE n == Cardinality(S)
           rank == [x \in S |-> Cardinality(Below(S, R, x))]
           e == Enumerated(S, R)
<1>1. n \in Nat
  BY PlacesDiffer
<1>2. \A x \in S : rank[x] \in 0..(n - 1)
  BY PlacesDiffer
<1>3. \A x, y \in S : rank[x] = rank[y] => x = y
  BY PlacesDiffer
<1>4. IsFiniteSet(0..(n - 1)) /\ Cardinality(0..(n - 1)) = n
  <2>1. 0 \in Int /\ n - 1 \in Int
    BY <1>1
  <2>2. /\ IsFiniteSet(0..(n - 1))
        /\ Cardinality(0..(n - 1)) = IF 0 > n - 1 THEN 0 ELSE (n - 1) - 0 + 1
    BY <2>1, FS_Interval
  <2> QED BY <1>1, <2>2
<1>5. e = [k \in 1..n |-> CHOOSE x \in S : rank[x] = k - 1]
  BY DEF Enumerated
<1>6. rank \in [S -> 0..(n - 1)]
  <2>1. rank = [x \in S |-> rank[x]]
    OBVIOUS
  <2> HIDE DEF rank
  <2> QED BY <1>2, <2>1
<1> HIDE DEF rank, n, e
<1>7. rank \in Surjection(S, 0..(n - 1))
  <2>1. rank \in Injection(S, 0..(n - 1))
    BY <1>3, <1>6 DEF Injection, IsInjective
  <2>2. Cardinality(S) = Cardinality(0..(n - 1))
    BY <1>4 DEF n
  <2> QED BY <1>4, <2>1, <2>2, FS_Injection
<1>8. ASSUME NEW k \in 1..n  PROVE e[k] \in S /\ rank[e[k]] = k - 1
  <2>1. k - 1 \in 0..(n - 1)
    BY <1>1
  <2>2. \E x \in S : rank[x] = k - 1
    BY <1>7, <2>1 DEF Surjection
  <2> QED BY <1>5, <2>2
<1>9. ASSUME NEW x \in S  PROVE x \in ToSet(e)
  <2>1. rank[x] + 1 \in 1..n
    BY <1>1, <1>2
  <2>2. rank[e[rank[x] + 1]] = rank[x] /\ e[rank[x] + 1] \in S
    BY <1>1, <1>2, <1>8, <2>1
  <2>3. e[rank[x] + 1] = x
    BY <1>3, <2>2
  <2>4. DOMAIN e = 1..n
    BY <1>5
  <2> QED BY <2>1, <2>3, <2>4 DEF ToSet
<1>10. ASSUME NEW x \in ToSet(e)  PROVE x \in S
  BY <1>5, <1>8 DEF ToSet
<1> QED BY <1>9, <1>10 DEF e

\* The first difference decides.
LEMMA BeforeThree ==
  ASSUME NEW s, NEW t, DOMAIN s = 1..3, \A i \in 1..3 : s[i] \in Nat /\ t[i] \in Nat
  PROVE  Before(s, t) <=> \/ s[1] < t[1] \/ (s[1] = t[1] /\ s[2] < t[2])
                          \/ (s[1] = t[1] /\ s[2] = t[2] /\ s[3] < t[3])
<1>1. Before(s, t) <=> \E i \in 1..3 : s[i] < t[i] /\ \A j \in 1..(i - 1) : s[j] = t[j]
  BY DEF Before
<1>2. \A i \in 1..3 : i = 1 \/ i = 2 \/ i = 3
  OBVIOUS
<1> QED BY <1>1, <1>2

LEMMA BeforeFour ==
  ASSUME NEW s, NEW t, DOMAIN s = 1..4, \A i \in 1..4 : s[i] \in Nat /\ t[i] \in Nat
  PROVE  Before(s, t) <=> \/ s[1] < t[1] \/ (s[1] = t[1] /\ s[2] < t[2])
                          \/ (s[1] = t[1] /\ s[2] = t[2] /\ s[3] < t[3])
                          \/ (s[1] = t[1] /\ s[2] = t[2] /\ s[3] = t[3] /\ s[4] < t[4])
<1>1. Before(s, t) <=> \E i \in 1..4 : s[i] < t[i] /\ \A j \in 1..(i - 1) : s[j] = t[j]
  BY DEF Before
<1>2. \A i \in 1..4 : i = 1 \/ i = 2 \/ i = 3 \/ i = 4
  OBVIOUS
<1> QED BY <1>1, <1>2

\* Rows that a report can sort: one for a proof, with a state that ranks.
AreRows(S) ==
  /\ IsFiniteSet(S)
  /\ \A p \in S : /\ p.proof \in Nat /\ p.rank \in Nat
                  /\ p.state \in {"disputed", "unreachable", "expired", "unreviewed", "restored", "lapsed",
                                  "accepted", "observed"}
  /\ \A p, t \in S : p.proof = t.proof => p = t

\* A name has its place, or comes after them all.
LEMMA PlaceIsNatural ==
  /\ \A env : EnvironmentRank(env) \in Nat
  /\ \A layer : LayerRank(layer) \in Nat
<1>1. /\ EnvironmentOrder \in Seq({EnvironmentOrder[i] : i \in 1..5}) /\ Len(EnvironmentOrder) \in Nat
      /\ DOMAIN EnvironmentOrder \subseteq Nat
  BY DEF EnvironmentOrder
<1>2. Len(LayerOrder) \in Nat /\ DOMAIN LayerOrder \subseteq Nat
  BY DEF LayerOrder
<1>3. ASSUME NEW seq, Len(seq) \in Nat, DOMAIN seq \subseteq Nat, NEW x  PROVE Position(seq, x) \in Nat
  <2>1. CASE \E i \in DOMAIN seq : seq[i] = x
    <3>1. (CHOOSE i \in DOMAIN seq : seq[i] = x) \in DOMAIN seq
      BY <2>1
    <3> QED BY <1>3, <2>1, <3>1 DEF Position
  <2>2. CASE ~(\E i \in DOMAIN seq : seq[i] = x)
    BY <1>3, <2>2 DEF Position
  <2> QED BY <2>1, <2>2
<1>4. \A env : EnvironmentRank(env) \in Nat
  BY <1>1, <1>3 DEF EnvironmentRank
<1>5. \A layer : LayerRank(layer) \in Nat
  BY <1>2, <1>3 DEF LayerRank
<1> QED BY <1>4, <1>5

\* The list of a category loses no row.
LEMMA TreeRowsAll ==
  ASSUME NEW S, AreRows(S)
  PROVE  ToSet(TreeRows(S)) = S
<1> DEFINE env(p) == EnvironmentRank(p.scope.environment)
           st(p)  == StateRank(p.state)
           Less(p, t) == Before(<<env(p), st(p), p.proof>>, <<env(t), st(t), t.proof>>)
           R == {x \in S \X S : Less(x[1], x[2])}
<1>1. \A p \in S : env(p) \in Nat /\ st(p) \in Nat /\ p.proof \in Nat
  BY PlaceIsNatural DEF AreRows, StateRank
<1>2. \A p, t \in S : p.proof = t.proof => p = t
  BY DEF AreRows
<1>3. TreeRows(S) = [n \in 1..Cardinality(S) |-> CHOOSE x \in S : Cardinality({y \in S : Less(y, x)}) = n - 1]
  BY DEF TreeRows, InOrder
<1> HIDE DEF env, st
<1>4. ASSUME NEW p \in S, NEW t \in S
      PROVE  Less(p, t) <=>
               env(p) < env(t) \/ (env(p) = env(t) /\ st(p) < st(t))
               \/ (env(p) = env(t) /\ st(p) = st(t) /\ p.proof < t.proof)
  <2> DEFINE u == <<env(p), st(p), p.proof>>
             v == <<env(t), st(t), t.proof>>
  <2>1. /\ DOMAIN u = 1..3 /\ u[1] = env(p) /\ u[2] = st(p) /\ u[3] = p.proof
        /\ v[1] = env(t) /\ v[2] = st(t) /\ v[3] = t.proof
    OBVIOUS
  <2> HIDE DEF u, v
  <2>2. \A i \in 1..3 : u[i] \in Nat /\ v[i] \in Nat
    <3>1. \A i \in 1..3 : i = 1 \/ i = 2 \/ i = 3
      OBVIOUS
    <3> QED BY <1>1, <2>1, <3>1
  <2>3. Less(p, t) <=> Before(u, v)
    BY DEF u, v
  <2> QED BY <2>1, <2>2, <2>3, BeforeThree
<1> HIDE DEF Less
<1>5. \A p, t \in S : <<p, t>> \in R <=> Less(p, t)
  OBVIOUS
<1> HIDE DEF R
<1>6. IsStrictOrder(S, R)
  <2>1. \A x \in S : <<x, x>> \notin R
    BY <1>1, <1>4, <1>5
  <2>2. \A x, y, z \in S : <<x, y>> \in R /\ <<y, z>> \in R => <<x, z>> \in R
    BY <1>1, <1>4, <1>5
  <2>3. \A x, y \in S : x # y => <<x, y>> \in R \/ <<y, x>> \in R
    BY <1>1, <1>2, <1>4, <1>5
  <2> QED BY <2>1, <2>2, <2>3 DEF IsStrictOrder
<1>7. \A x \in S : {y \in S : Less(y, x)} = Below(S, R, x)
  BY <1>5 DEF Below
<1>8. TreeRows(S) = Enumerated(S, R)
  BY <1>3, <1>7 DEF Enumerated
<1> QED BY <1>6, <1>8, NothingIsLost DEF AreRows

\* Nor does the list of what to do next.
LEMMA NextStepsAll ==
  ASSUME NEW rows, AreRows(rows)
  PROVE  ToSet(NextSteps(rows)) = {p \in rows : IsNextStep(p)}
<1> DEFINE S == {p \in rows : IsNextStep(p)}
           env(p) == EnvironmentRank(p.scope.environment)
           lay(p) == LayerRank(p.layer)
           Less(p, t) == Before(<<env(p), lay(p), p.rank, p.proof>>, <<env(t), lay(t), t.rank, t.proof>>)
           R == {x \in S \X S : Less(x[1], x[2])}
<1>0. IsFiniteSet(S)
  BY FS_Subset DEF AreRows
<1>1. \A p \in S : env(p) \in Nat /\ lay(p) \in Nat /\ p.rank \in Nat /\ p.proof \in Nat
  BY PlaceIsNatural DEF AreRows
<1>2. \A p, t \in S : p.proof = t.proof => p = t
  BY DEF AreRows
<1>3. NextSteps(rows) =
        [n \in 1..Cardinality(S) |-> CHOOSE x \in S : Cardinality({y \in S : Less(y, x)}) = n - 1]
  BY DEF NextSteps, InOrder
<1> HIDE DEF env, lay, S
<1>4. ASSUME NEW p \in S, NEW t \in S
      PROVE  Less(p, t) <=>
               env(p) < env(t) \/ (env(p) = env(t) /\ lay(p) < lay(t))
               \/ (env(p) = env(t) /\ lay(p) = lay(t) /\ p.rank < t.rank)
               \/ (env(p) = env(t) /\ lay(p) = lay(t) /\ p.rank = t.rank /\ p.proof < t.proof)
  <2>1. /\ env(p) \in Nat /\ lay(p) \in Nat /\ p.rank \in Nat /\ p.proof \in Nat
        /\ env(t) \in Nat /\ lay(t) \in Nat /\ t.rank \in Nat /\ t.proof \in Nat
    BY <1>1
  <2> DEFINE u == <<env(p), lay(p), p.rank, p.proof>>
             v == <<env(t), lay(t), t.rank, t.proof>>
  <2>2. /\ DOMAIN u = 1..4 /\ u[1] = env(p) /\ u[2] = lay(p) /\ u[3] = p.rank /\ u[4] = p.proof
        /\ v[1] = env(t) /\ v[2] = lay(t) /\ v[3] = t.rank /\ v[4] = t.proof
    OBVIOUS
  <2> HIDE DEF u, v
  <2>3. \A i \in 1..4 : u[i] \in Nat /\ v[i] \in Nat
    <3>1. \A i \in 1..4 : i = 1 \/ i = 2 \/ i = 3 \/ i = 4
      OBVIOUS
    <3> QED BY <2>1, <2>2, <3>1
  <2>4. Less(p, t) <=> Before(u, v)
    BY DEF u, v
  <2> QED BY <2>2, <2>3, <2>4, BeforeFour
<1> HIDE DEF Less
<1>5. \A p, t \in S : <<p, t>> \in R <=> Less(p, t)
  OBVIOUS
<1> HIDE DEF R
<1>6. IsStrictOrder(S, R)
  <2>1. \A x \in S : <<x, x>> \notin R
    BY <1>1, <1>4, <1>5
  <2>2. \A x, y, z \in S : <<x, y>> \in R /\ <<y, z>> \in R => <<x, z>> \in R
    BY <1>1, <1>4, <1>5
  <2>3. \A x, y \in S : x # y => <<x, y>> \in R \/ <<y, x>> \in R
    BY <1>1, <1>2, <1>4, <1>5
  <2> QED BY <2>1, <2>2, <2>3 DEF IsStrictOrder
<1>7. \A x \in S : {y \in S : Less(y, x)} = Below(S, R, x)
  BY <1>5 DEF Below
<1>8. NextSteps(rows) = Enumerated(S, R)
  BY <1>3, <1>7 DEF Enumerated
<1> QED BY <1>0, <1>6, <1>8, NothingIsLost DEF S

\* The tree of what is asked for has every row of it, whatever it is grouped by.
LEMMA TreeShows ==
  ASSUME NEW rows, AreRows(rows), NEW axis
  PROVE  Shown(Tree(rows, Gaps, axis)) = {p \in rows : IsGap(p.state)}
<1> DEFINE kept == {p \in rows : Matches(Gaps, p)}
           t == Tree(rows, Gaps, axis)
           Cell(g, k) == {p \in kept : Group(p, axis) = g /\ p.category = k}
<1>1. kept = {p \in rows : IsGap(p.state)}
  BY DEF Matches, Gaps, IsGap, Bucket, Attention
<1>2. /\ DOMAIN t = {Group(p, axis) : p \in kept}
      /\ \A g \in DOMAIN t :
           /\ DOMAIN t[g] = {p.category : p \in {u \in kept : Group(u, axis) = g}}
           /\ \A k \in DOMAIN t[g] : t[g][k] = TreeRows(Cell(g, k))
  BY DEF Tree
<1>3. ASSUME NEW g, NEW k  PROVE ToSet(TreeRows(Cell(g, k))) = Cell(g, k)
  <2>1. Cell(g, k) \subseteq rows
    OBVIOUS
  <2> HIDE DEF Cell
  <2>2. AreRows(Cell(g, k))
    BY <2>1, FS_Subset DEF AreRows
  <2> QED BY <2>2, TreeRowsAll
<1>4. Shown(t) = UNION {UNION {ToSet(t[g][k]) : k \in DOMAIN t[g]} : g \in DOMAIN t}
  BY DEF Shown
<1> HIDE DEF t
<1>5. ASSUME NEW p \in kept  PROVE p \in Shown(t)
  <2> DEFINE g == Group(p, axis)
             k == p.category
  <2>1. g \in DOMAIN t
    BY <1>2
  <2>2. k \in DOMAIN t[g]
    BY <1>2, <2>1
  <2>3. p \in Cell(g, k)
    OBVIOUS
  <2> HIDE DEF Cell, g, k
  <2>4. p \in ToSet(t[g][k])
    BY <1>2, <1>3, <2>1, <2>2, <2>3
  <2> QED BY <1>4, <2>1, <2>2, <2>4
<1>6. ASSUME NEW p \in Shown(t)  PROVE p \in kept
  <2>1. PICK g \in DOMAIN t : \E k \in DOMAIN t[g] : p \in ToSet(t[g][k])
    BY <1>4
  <2>2. PICK k \in DOMAIN t[g] : p \in ToSet(t[g][k])
    BY <2>1
  <2>3. p \in Cell(g, k)
    <3> HIDE DEF Cell
    <3> QED BY <1>2, <1>3, <2>2
  <2> QED BY <2>3
<1> HIDE DEF kept
<1> QED BY <1>1, <1>5, <1>6 DEF t

\* The rows of a report can be sorted.
LEMMA RowsTyped ==
  ASSUME NEW c, IsContext(c), NEW day \in Nat, NEW epoch
  PROVE  AreRows(ScopeRows(c, day, epoch))
<1> DEFINE S == ScopeRows(c, day, epoch)
           I == Inventory(c)
<1>1. IsFiniteSet(I) /\ I \subseteq Nat
  BY FS_Union DEF Inventory, IsContext
<1>2. S = {Classify(c, q, day, epoch) : q \in I}
  BY DEF ScopeRows
<1> HIDE DEF S
<1>3. IsFiniteSet(S)
  <2> DEFINE f == [q \in I |-> Classify(c, q, day, epoch)]
  <2>1. f \in Surjection(I, S)
    BY <1>2 DEF Surjection
  <2> QED BY <1>1, <2>1, FS_Surjection
<1>4. ASSUME NEW q \in I
      PROVE  LET p == Classify(c, q, day, epoch)
             IN  /\ p.proof = q /\ p.rank \in Nat
                 /\ p.state \in {"disputed", "unreachable", "expired", "unreviewed", "restored", "lapsed",
                                 "accepted", "observed"}
  <2> DEFINE p == Classify(c, q, day, epoch)
             ps == IF q \in DOMAIN c.proofs THEN ProofState(c, q, day, epoch) ELSE Blank
  <2>1. /\ p.proof = q /\ p.state = ClassifyProofState(p.row, ps)[1] /\ p.rank = ClassifyProofState(p.row, ps)[2]
    BY DEF Classify
  <2> HIDE DEF p, ps
  <2>2. /\ ClassifyProofState(p.row, ps)[1] \in {"disputed", "unreachable", "expired", "unreviewed", "restored",
                                                 "lapsed", "accepted", "observed"}
        /\ ClassifyProofState(p.row, ps)[2] \in Nat
    BY DEF ClassifyProofState
  <2> QED BY <2>1, <2>2 DEF p
<1> HIDE DEF I
<1> QED BY <1>1, <1>2, <1>3, <1>4 DEF AreRows, S

\* A gap is a next step, or excused.
LEMMA GapIsNext ==
  ASSUME NEW c, IsContext(c), NEW q \in Inventory(c), NEW day \in Nat, NEW epoch,
         IsGap(Classify(c, q, day, epoch).state)
  PROVE  LET p == Classify(c, q, day, epoch)
         IN  IsNextStep(p) \/ p.row.accepted \/ (p.row.previous /\ p.row.level # 1)
<1> DEFINE p == Classify(c, q, day, epoch)
<1>1. p.state \in {"disputed", "expired", "unreachable", "lapsed", "attention", "unreviewed"}
  BY DEF IsGap, Bucket, Attention
<1>2. CASE q \notin DOMAIN c.proofs
  <2>1. p.row.level = 1 /\ ~p.row.accepted
    BY <1>2, NoProofIsUnreviewed
  <2> HIDE DEF p
  <2> QED BY <1>1, <2>1 DEF IsNextStep, p
<1>3. CASE q \in DOMAIN c.proofs
  <2> DEFINE r == c.proofs[q]
             lapsed == r.accepted # 0 /\ ~AcceptanceActive(r, day)
  <2>1. IsProof(r)
    BY <1>3 DEF IsContext
  <2>2. /\ p.row.previous = PreviousEpoch(r, epoch)
        /\ p.row.level = IF Sound(r, day) /\ Unedited(c, q) THEN LevelOf(r, day) ELSE 1
        /\ p.state = IF Fails(c, q, day, epoch) THEN Failed(r)
                     ELSE IF p.row.previous THEN "unreviewed"
                     ELSE IF p.row.level # 1 THEN "restored"
                     ELSE IF lapsed THEN "lapsed"
                     ELSE IF AcceptanceActive(r, day) THEN "accepted"
                     ELSE IF IsObservedProof(c, q, day) THEN "observed" ELSE "unreviewed"
    BY <1>3, <2>1, StateOf
  <2>3. Fails(c, q, day, epoch) => ~Sound(r, day)
    BY DEF Fails, Sound
  <2> HIDE DEF r, p, lapsed
  <2>4. p.row.level = 1 \/ p.row.previous
    BY <1>1, <2>2, <2>3
  <2> QED BY <1>1, <2>4 DEF IsNextStep, p
<1> QED BY <1>2, <1>3

\* What the tree shows as a gap is a step of `next` (buildGroupedTree and its
\* filter against NextSteps).
THEOREM NoGapIsForgotten == EstateSpec => []NextCoversGaps
<1>1. EstateInv => NextCoversGaps
  <2> SUFFICES ASSUME EstateInv, NEW h \in Hosts
               PROVE  LET rows  == Report(h)
                          steps == ToSet(NextSteps(rows))
                      IN  /\ Shown(Tree(rows, Gaps, "layer")) = Shown(Tree(rows, Gaps, "system"))
                          /\ \A p \in rows : IsGap(p.state) => p \in Shown(Tree(rows, Gaps, "layer"))
                          /\ \A p \in Shown(Tree(rows, Gaps, "layer")) :
                               p \in steps \/ p.row.accepted \/ (p.row.previous /\ p.row.level # 1)
    BY Zenon DEF NextCoversGaps
  <2> DEFINE rows == Report(h)
             c == PolicyMerge(host[h].files)
  <2>1. now \in Nat /\ AreContextFiles(host[h].files)
    BY DEF EstateInv, IsHost
  <2>2. AreRows(rows)
    <3>1. CASE Loads(c)
      <4>1. IsContext(c)
        BY <2>1, <3>1, MergedTyped
      <4>2. rows = ScopeRows(c, now, host[h].epoch)
        BY <3>1 DEF Report
      <4> QED BY <2>1, <4>1, <4>2, RowsTyped
    <3>2. CASE ~Loads(c)
      <4>1. rows = {}
        BY <3>2 DEF Report
      <4> QED BY <4>1, FS_EmptySet DEF AreRows
    <3> QED BY <3>1, <3>2
  <2>3. ASSUME NEW p \in rows, IsGap(p.state)
        PROVE  IsNextStep(p) \/ p.row.accepted \/ (p.row.previous /\ p.row.level # 1)
    BY <2>1, <2>3, ReportIs, GapIsNext
  <2> HIDE DEF rows
  <2>4. /\ Shown(Tree(rows, Gaps, "layer")) = {p \in rows : IsGap(p.state)}
        /\ Shown(Tree(rows, Gaps, "system")) = {p \in rows : IsGap(p.state)}
    BY <2>2, TreeShows
  <2>5. ToSet(NextSteps(rows)) = {p \in rows : IsNextStep(p)}
    BY <2>2, NextStepsAll
  <2> QED BY <2>3, <2>4, <2>5 DEF rows
<1> QED BY <1>1, EstateInvariance, PTL

-----------------------------------------------------------------------------
(* What a bundle tells                                                     *)

\* The state of a proof is told by the proofs and the drills alone.
LEMMA StateDepends ==
  ASSUME NEW c, NEW d, c.proofs = d.proofs, c.drills = d.drills, NEW q, NEW day, NEW epoch
  PROVE  /\ Classify(c, q, day, epoch).proof = Classify(d, q, day, epoch).proof
         /\ Classify(c, q, day, epoch).state = Classify(d, q, day, epoch).state
<1>1. Standing(c, q, day) = Standing(d, q, day)
  BY DEF Standing, CheckProofWithBinding
<1>2. InventoryRow(c, q, day, epoch) = InventoryRow(d, q, day, epoch)
  <2>1. ContextualLevelOf(c, q, day) = ContextualLevelOf(d, q, day)
    BY <1>1 DEF ContextualLevelOf
  <2>2. IsObservedProof(c, q, day) = IsObservedProof(d, q, day)
    BY <1>1 DEF IsObservedProof
  <2> QED BY <1>1, <2>1, <2>2 DEF InventoryRow
<1>3. ProofState(c, q, day, epoch) = ProofState(d, q, day, epoch)
  BY <1>1 DEF ProofState
<1> QED BY <1>2, <1>3 DEF Classify

LEMMA StatesDepend ==
  ASSUME NEW c, NEW d, c.proofs = d.proofs, c.drills = d.drills, NEW day, NEW epoch
  PROVE  States(ScopeRows(c, day, epoch)) = States(ScopeRows(d, day, epoch))
<1> DEFINE P(q) == Classify(c, q, day, epoch)
           Q(q) == Classify(d, q, day, epoch)
           I == Inventory(c)
<1>1. I = Inventory(d)
  BY DEF Inventory
<1>2. \A q \in I : P(q).proof = Q(q).proof /\ P(q).state = Q(q).state
  BY StateDepends
<1>3. /\ States(ScopeRows(c, day, epoch)) = {<<P(q).proof, P(q).state>> : q \in I}
      /\ States(ScopeRows(d, day, epoch)) = {<<Q(q).proof, Q(q).state>> : q \in I}
  BY <1>1 DEF States, ScopeRows
<1> HIDE DEF P, Q, I
<1> QED BY <1>2, <1>3

\* What LoadAll takes, policy.Merge takes, with the same proofs and drills.
LEMMA LoadedIsMerged ==
  ASSUME NEW files, Loads(LoadAll(files))
  PROVE  /\ Loads(PolicyMerge(files))
         /\ LoadAll(files).proofs = PolicyMerge(files).proofs
         /\ LoadAll(files).drills = PolicyMerge(files).drills
<1> DEFINE fs == Layered(files)
<1>1. ~(\E field \in {"guards", "proofs", "drills"} : Twice(fs, field))
  BY RefusedIsNone DEF LoadAll
<1>2. ~Twice(fs, "proofs") /\ ~Twice(fs, "drills")
  BY <1>1
<1>3. PolicyMerge(files) = Context(fs, MergedGuards(fs), MergedOrder(fs))
  BY <1>2 DEF PolicyMerge
<1>4. LoadAll(files) = Context(fs, Joined(fs, "guards"), FlattenSeq([i \in DOMAIN fs |-> fs[i].order]))
  BY <1>1 DEF LoadAll
<1> HIDE DEF fs
<1>5. ASSUME NEW guards, NEW order
      PROVE  LET c == Context(fs, guards, order)
             IN  Loads(c) /\ c.proofs = Joined(fs, "proofs") /\ c.drills = Joined(fs, "drills")
  <2> DEFINE c == Context(fs, guards, order)
  <2>1. DOMAIN c = {"guards", "order", "scope", "facts", "coverage", "proofs", "drills"}
    BY DEF Context
  <2>2. "refused" \notin DOMAIN c
    BY <2>1
  <2>3. c.proofs = Joined(fs, "proofs") /\ c.drills = Joined(fs, "drills")
    BY DEF Context
  <2> QED BY <2>2, <2>3 DEF Loads
<1> QED BY <1>3, <1>4, <1>5

\* An archive that has the files of its manifest verifies.
LEMMA SoundVerifies ==
  ASSUME NEW a, IsArchive(a), a.whole, a.members = a.manifest.files, NEW expected \in {Absent, a.manifest.host}
  PROVE  Verify(a, expected) = "ok"
<1>1. /\ a.signed = [key |-> a.manifest.host, over |-> a.manifest] /\ a.slice = a.manifest.slice
      /\ IsManifest(a.manifest) /\ Len(a.members) = Len(a.manifest.files)
      /\ AreContextFiles(a.members)
  BY DEF IsArchive
<1>2. a.signed.key = a.manifest.host /\ a.signed.over = a.manifest
  BY <1>1
<1>3. Chained(a.slice) /\ Len(a.slice) = a.manifest.count
  BY <1>1 DEF IsManifest, IsSlice
<1>4. ~(Len(a.members) < Len(a.manifest.files))
  BY <1>1, FilesTyped
<1> QED BY <1>1, <1>2, <1>3, <1>4 DEF Verify

\* What the fleet shows of it is what its files say.
LEMMA FleetTells ==
  ASSUME NEW label, NEW a, Verify(a, Absent) = "ok", NEW day
  PROVE  {<<row.key[1], row.state>> : row \in FleetRows(label, a, day)}
           = States(ScopeRows(LoadAll(a.members), a.manifest.at, a.manifest.epoch))
<1> DEFINE c == LoadVerified(a)
           m == a.manifest
           S == ScopeRows(c, m.at, m.epoch)
           Row(p) == [key |-> <<p.proof, p.scope.environment, p.scope.system,
                                IF p.scope.host = Blank THEN m.host ELSE p.scope.host>>,
                      state |-> p.state, layer |-> p.layer, source |-> label, at |-> m.at,
                      epoch |-> IF p.proof \in DOMAIN c.proofs /\ c.proofs[p.proof].epoch # 0
                                THEN c.proofs[p.proof].epoch ELSE m.epoch]
<1>1. c = LoadAll(a.members)
  BY DEF LoadVerified
<1>2. FleetRows(label, a, day) = {Row(p) : p \in S}
  BY DEF FleetRows
<1>3. \A p : Row(p).key[1] = p.proof /\ Row(p).state = p.state
  OBVIOUS
<1> HIDE DEF S, Row
<1>4. {<<row.key[1], row.state>> : row \in {Row(p) : p \in S}} = {<<p.proof, p.state>> : p \in S}
  BY <1>3
<1> QED BY <1>1, <1>2, <1>4 DEF States, S

LEMMA BundleShows == EstateInv => BundleShowsTheHost
<1> SUFFICES ASSUME EstateInv, NEW b \in box, b.quiet, ~b.damaged, b.archive.whole
             PROVE  /\ Verify(b.archive, b.archive.manifest.host) = "ok"
                    /\ Loads(LoadVerified(b.archive)) =>
                         {<<row.key[1], row.state>> : row \in FleetRows(b.label, b.archive, now)} = b.truth
  BY DEF BundleShowsTheHost
<1> DEFINE a == b.archive
           m == a.manifest
<1>1. IsArchive(a) /\ a.members = m.files /\ b.truth = TruthOf(m)
  BY DEF EstateInv, IsBoxed
<1>2. Verify(a, m.host) = "ok" /\ Verify(a, Absent) = "ok"
  BY <1>1, SoundVerifies
<1>3. ASSUME Loads(LoadVerified(a))
      PROVE  {<<row.key[1], row.state>> : row \in FleetRows(b.label, a, now)} = b.truth
  <2>1. LoadVerified(a) = LoadAll(m.files)
    BY <1>1, <1>2 DEF LoadVerified
  <2> DEFINE c == PolicyMerge(m.files)
  <2>2. Loads(c) /\ LoadAll(m.files).proofs = c.proofs /\ LoadAll(m.files).drills = c.drills
    BY <1>3, <2>1, LoadedIsMerged
  <2>3. TruthOf(m) = States(ScopeRows(c, m.at, m.epoch))
    BY <2>2 DEF TruthOf
  <2>4. States(ScopeRows(LoadAll(m.files), m.at, m.epoch)) = States(ScopeRows(c, m.at, m.epoch))
    BY <2>2, StatesDepend
  <2> QED BY <1>1, <1>2, <2>3, <2>4, FleetTells
<1> QED BY <1>2, <1>3

LEMMA DamageIsSeen == EstateInv => DamageShows
<1> SUFFICES ASSUME EstateInv, NEW b \in box,
                    b.damaged \/ ~b.archive.whole \/ b.archive.members # b.archive.manifest.files
             PROVE  Verify(b.archive, Absent) # "ok"
  BY DEF DamageShows
<1> DEFINE a == b.archive
           m == a.manifest
<1>1. IsBoxed(b)
  BY DEF EstateInv
<1>2. CASE b.damaged
  BY <1>1, <1>2 DEF IsBoxed
<1>3. CASE ~a.whole
  BY <1>3 DEF Verify
<1>4. CASE ~b.damaged /\ a.whole /\ a.members # m.files
  <2>1. AreContextFiles(a.members) /\ AreContextFiles(m.files) /\ Len(a.members) = Len(m.files)
    BY <1>1, <1>4 DEF IsBoxed, IsArchive
  <2>2. \E i \in 1..Len(m.files) : a.members[i] # m.files[i]
    BY <1>4, <2>1, FilesDiffer
  <2>3. \E i \in DOMAIN m.files : a.members[i] # m.files[i]
    BY <2>1, <2>2, FilesTyped
  <2> HIDE DEF a, m
  <2>4. Verify(a, Absent) # "ok"
    BY <2>3 DEF Verify, m
  <2> QED BY <2>4 DEF a
<1> QED BY <1>2, <1>3, <1>4

-----------------------------------------------------------------------------
(* The fleet                                                               *)

RowsOf(items, i, day) == FleetRows(items[i].label, items[i].archive, day)

\* The rows of one bundle have one key each, its label and its date.
AreFleetRows(U, label, date) ==
  /\ date \in Nat
  /\ \A r \in U : r.source = label /\ r.at = date
  /\ \A r, s \in U : r.key = s.key => r = s

\* What is shown of the bundles merged so far.
FleetInv(x, n, items, day) ==
  /\ \A r \in x.rows : r.at \in Nat
  /\ \A r, s \in x.rows : r.key = s.key => r = s
  /\ \A i \in 1..n : \A u \in RowsOf(items, i, day) :
       /\ \E r \in x.rows : r.key = u.key
       /\ \A r \in x.rows : r.key = u.key =>
            /\ items[i].archive.manifest.at <= r.at
            /\ \/ items[i].label = r.source
               \/ \E f \in x.conflicts : f.key = r.key /\ f.dropped = items[i].label

\* A row of a merge comes from the fleet, from the bundle, or from the later of both.
LEMMA MergedRow ==
  ASSUME NEW x, NEW U, NEW row \in MergeFleetRows(x, U).rows
  PROVE  \/ row \in x.rows /\ \A u \in U : u.key # row.key
         \/ row \in U /\ \A o \in x.rows : o.key # row.key
         \/ \E o \in x.rows, u \in U :
              /\ o.key = u.key /\ row = (IF u.at > o.at THEN u ELSE o)
              /\ \E f \in MergeFleetRows(x, U).conflicts :
                   f.key = u.key /\ f.dropped = (IF u.at > o.at THEN o.source ELSE u.source)
<1> DEFINE clashes == {c \in x.rows \X U : c[1].key = c[2].key}
           y == MergeFleetRows(x, U)
<1>1. /\ y.rows = (x.rows \ {c[1] : c \in clashes}) \cup (U \ {c[2] : c \in clashes}) \cup {Kept(c) : c \in clashes}
      /\ y.conflicts = x.conflicts
           \cup {[key |-> c[1].key, kept |-> Kept(c).source, dropped |-> Dropped(c).source] : c \in clashes}
  BY DEF MergeFleetRows
<1>2. ASSUME row \in x.rows, row \notin {c[1] : c \in clashes}, NEW u \in U  PROVE u.key # row.key
  <2> SUFFICES ASSUME u.key = row.key  PROVE FALSE
    OBVIOUS
  <2>1. <<row, u>> \in clashes
    BY <1>2
  <2>2. <<row, u>>[1] \in {c[1] : c \in clashes}
    BY <2>1
  <2> QED BY <1>2, <2>2
<1>3. ASSUME row \in U, row \notin {c[2] : c \in clashes}, NEW o \in x.rows  PROVE o.key # row.key
  <2> SUFFICES ASSUME o.key = row.key  PROVE FALSE
    OBVIOUS
  <2>1. <<o, row>> \in clashes
    BY <1>3
  <2>2. <<o, row>>[2] \in {c[2] : c \in clashes}
    BY <2>1
  <2> QED BY <1>3, <2>2
<1>4. ASSUME NEW c \in clashes, row = Kept(c)
      PROVE  \E o \in x.rows, u \in U :
               /\ o.key = u.key /\ row = (IF u.at > o.at THEN u ELSE o)
               /\ \E f \in y.conflicts : f.key = u.key /\ f.dropped = (IF u.at > o.at THEN o.source ELSE u.source)
  <2>1. c[1] \in x.rows /\ c[2] \in U /\ c[1].key = c[2].key
    OBVIOUS
  <2>2. row = IF c[2].at > c[1].at THEN c[2] ELSE c[1]
    BY <1>4 DEF Kept, Later
  <2>3. Dropped(c) = IF c[2].at > c[1].at THEN c[1] ELSE c[2]
    BY DEF Dropped, Later
  <2> DEFINE f == [key |-> c[1].key, kept |-> Kept(c).source, dropped |-> Dropped(c).source]
  <2>4. f \in y.conflicts
    BY <1>1
  <2>5. f.key = c[2].key /\ f.dropped = IF c[2].at > c[1].at THEN c[1].source ELSE c[2].source
    BY <2>1, <2>3
  <2> HIDE DEF f, y, clashes
  <2> QED BY <2>1, <2>2, <2>4, <2>5
<1> HIDE DEF clashes, y
<1>5. CASE row \in x.rows /\ row \notin {c[1] : c \in clashes}
  BY <1>2, <1>5
<1>6. CASE row \in U /\ row \notin {c[2] : c \in clashes}
  BY <1>3, <1>6
<1>7. CASE row \in {Kept(c) : c \in clashes}
  BY <1>4, <1>7 DEF y
<1>8. row \in y.rows
  BY DEF y
<1> QED BY <1>1, <1>5, <1>6, <1>7, <1>8

\* What had a key has it after the merge, and no conflict is forgotten.
LEMMA MergedKeys ==
  ASSUME NEW x, NEW U, NEW u \in x.rows \cup U
  PROVE  /\ \E r \in MergeFleetRows(x, U).rows : r.key = u.key
         /\ x.conflicts \subseteq MergeFleetRows(x, U).conflicts
<1> DEFINE clashes == {c \in x.rows \X U : c[1].key = c[2].key}
           y == MergeFleetRows(x, U)
<1>1. /\ y.rows = (x.rows \ {c[1] : c \in clashes}) \cup (U \ {c[2] : c \in clashes}) \cup {Kept(c) : c \in clashes}
      /\ x.conflicts \subseteq y.conflicts
  BY DEF MergeFleetRows
<1>2. \A c \in clashes : Kept(c) \in y.rows /\ Kept(c).key = c[1].key /\ c[1].key = c[2].key
  BY <1>1 DEF Kept
<1> HIDE DEF clashes, y
<1>3. CASE u \in {c[1] : c \in clashes} \cup {c[2] : c \in clashes}
  <2>1. PICK c \in clashes : u = c[1] \/ u = c[2]
    BY <1>3
  <2>2. Kept(c) \in y.rows /\ Kept(c).key = u.key
    BY <1>2, <2>1
  <2> QED BY <1>1, <2>2 DEF y
<1>4. CASE u \notin {c[1] : c \in clashes} \cup {c[2] : c \in clashes}
  BY <1>1, <1>4 DEF y
<1> QED BY <1>3, <1>4

\* The next bundle leaves what is shown in order.
LEMMA FleetStep ==
  ASSUME NEW items, NEW day, NEW x, NEW n \in Nat, FleetInv(x, n, items, day),
         \A i \in 1..n : items[i].archive.manifest.at \in Nat,
         AreFleetRows(RowsOf(items, n + 1, day), items[n + 1].label, items[n + 1].archive.manifest.at)
  PROVE  FleetInv(MergeFleetRows(x, RowsOf(items, n + 1, day)), n + 1, items, day)
<1> DEFINE U == RowsOf(items, n + 1, day)
           y == MergeFleetRows(x, U)
           lab == items[n + 1].label
           date == items[n + 1].archive.manifest.at
<1>1. date \in Nat /\ \A r \in U : r.source = lab /\ r.at = date
  BY DEF AreFleetRows
<1>2. \A r, s \in U : r.key = s.key => r = s
  BY DEF AreFleetRows
<1>3. /\ \A r \in x.rows : r.at \in Nat
      /\ \A r, s \in x.rows : r.key = s.key => r = s
  BY DEF FleetInv
<1>4. ASSUME NEW i \in 1..n, NEW u \in RowsOf(items, i, day)
      PROVE  /\ \E r \in x.rows : r.key = u.key
             /\ \A r \in x.rows : r.key = u.key =>
                  /\ items[i].archive.manifest.at <= r.at
                  /\ \/ items[i].label = r.source
                     \/ \E f \in x.conflicts : f.key = r.key /\ f.dropped = items[i].label
  BY DEF FleetInv
<1>5. ASSUME NEW row \in y.rows
      PROVE  \/ row \in x.rows /\ \A u \in U : u.key # row.key
             \/ row \in U /\ \A o \in x.rows : o.key # row.key
             \/ \E o \in x.rows, u \in U :
                  /\ o.key = u.key /\ row = (IF u.at > o.at THEN u ELSE o)
                  /\ \E f \in y.conflicts : f.key = u.key /\ f.dropped = (IF u.at > o.at THEN o.source ELSE u.source)
  BY MergedRow
<1>6. ASSUME NEW u \in x.rows \cup U
      PROVE  (\E r \in y.rows : r.key = u.key) /\ x.conflicts \subseteq y.conflicts
  BY MergedKeys
<1> HIDE DEF U, y, lab, date
<1>7. \A r \in y.rows : r.at \in Nat
  BY <1>1, <1>3, <1>5
<1>8. \A r, s \in y.rows : r.key = s.key => r = s
  BY <1>2, <1>3, <1>5
<1>9. ASSUME NEW i \in 1..(n + 1), NEW u \in RowsOf(items, i, day)
      PROVE  /\ \E r \in y.rows : r.key = u.key
             /\ \A r \in y.rows : r.key = u.key =>
                  /\ items[i].archive.manifest.at <= r.at
                  /\ \/ items[i].label = r.source
                     \/ \E f \in y.conflicts : f.key = r.key /\ f.dropped = items[i].label
  <2>1. CASE i = n + 1
    <3>1. u \in U /\ items[i].label = lab /\ items[i].archive.manifest.at = date
      BY <2>1 DEF U, lab, date
    <3>2. \E r \in y.rows : r.key = u.key
      BY <1>6, <3>1
    <3>3. ASSUME NEW r \in y.rows, r.key = u.key
          PROVE  date <= r.at /\ (lab = r.source \/ \E f \in y.conflicts : f.key = r.key /\ f.dropped = lab)
      <4>1. CASE r \in x.rows /\ \A v \in U : v.key # r.key
        BY <3>1, <3>3, <4>1
      <4>2. CASE r \in U
        BY <1>1, <4>2
      <4>3. CASE \E o \in x.rows, v \in U :
                   /\ o.key = v.key /\ r = (IF v.at > o.at THEN v ELSE o)
                   /\ \E f \in y.conflicts :
                        f.key = v.key /\ f.dropped = (IF v.at > o.at THEN o.source ELSE v.source)
        <5>1. PICK o \in x.rows, v \in U :
                   /\ o.key = v.key /\ r = (IF v.at > o.at THEN v ELSE o)
                   /\ \E f \in y.conflicts :
                        f.key = v.key /\ f.dropped = (IF v.at > o.at THEN o.source ELSE v.source)
          BY <4>3
        <5>2. o.at \in Nat /\ v.at = date /\ date \in Nat /\ v.source = lab
          BY <1>1, <1>3
        <5>3. r.key = v.key
          BY <5>1
        <5>4. CASE v.at > o.at
          BY <5>1, <5>2, <5>4
        <5>5. CASE ~(v.at > o.at)
          BY <5>1, <5>2, <5>3, <5>5
        <5> QED BY <5>4, <5>5
      <4> QED BY <1>5, <4>1, <4>2, <4>3
    <3> QED BY <3>1, <3>2, <3>3
  <2>2. CASE i \in 1..n
    <3> DEFINE li == items[i].label
               ai == items[i].archive.manifest.at
    <3>1. /\ \E r \in x.rows : r.key = u.key
          /\ \A r \in x.rows : r.key = u.key =>
               ai <= r.at /\ (li = r.source \/ \E f \in x.conflicts : f.key = r.key /\ f.dropped = li)
      BY <1>4, <2>2
    <3> HIDE DEF li, ai
    <3>2. PICK o \in x.rows : o.key = u.key
      BY <3>1
    <3>3. (\E r \in y.rows : r.key = u.key) /\ x.conflicts \subseteq y.conflicts
      BY <1>6, <3>2
    <3>4. ASSUME NEW r \in y.rows, r.key = u.key
          PROVE  ai <= r.at /\ (li = r.source \/ \E f \in y.conflicts : f.key = r.key /\ f.dropped = li)
      <4>1. CASE r \in x.rows
        BY <3>1, <3>3, <3>4, <4>1
      <4>2. CASE r \in U /\ \A z \in x.rows : z.key # r.key
        BY <3>2, <3>4, <4>2
      <4>3. CASE \E z \in x.rows, v \in U :
                   /\ z.key = v.key /\ r = (IF v.at > z.at THEN v ELSE z)
                   /\ \E f \in y.conflicts :
                        f.key = v.key /\ f.dropped = (IF v.at > z.at THEN z.source ELSE v.source)
        <5>1. PICK z \in x.rows, v \in U :
                   /\ z.key = v.key /\ r = (IF v.at > z.at THEN v ELSE z)
                   /\ \E f \in y.conflicts :
                        f.key = v.key /\ f.dropped = (IF v.at > z.at THEN z.source ELSE v.source)
          BY <4>3
        <5>2. z.at \in Nat /\ v.at \in Nat
          BY <1>1, <1>3
        <5>3. r.key = v.key /\ z.key = u.key
          BY <3>4, <5>1
        <5>4. ai <= z.at /\ (li = z.source \/ \E f \in x.conflicts : f.key = z.key /\ f.dropped = li)
          BY <3>1, <5>3
        <5>5. CASE v.at > z.at
          <6>1. r = v /\ ai <= r.at
            <7>1. ai \in Nat
              BY <2>2 DEF ai
            <7> QED BY <5>1, <5>2, <5>4, <5>5, <7>1
          <6>2. li = z.source => \E f \in y.conflicts : f.key = r.key /\ f.dropped = li
            BY <5>1, <5>3, <5>5
          <6>3. (\E f \in x.conflicts : f.key = z.key /\ f.dropped = li)
                  => \E f \in y.conflicts : f.key = r.key /\ f.dropped = li
            BY <3>3, <5>1, <5>3
          <6> QED BY <5>4, <6>1, <6>2, <6>3
        <5>6. CASE ~(v.at > z.at)
          BY <3>3, <5>1, <5>4, <5>6
        <5> QED BY <5>5, <5>6
      <4> QED BY <1>5, <4>1, <4>2, <4>3
    <3> QED BY <3>3, <3>4 DEF li, ai
  <2>3. i \in 1..n \/ i = n + 1
    OBVIOUS
  <2> QED BY <2>1, <2>2, <2>3
<1> QED BY <1>7, <1>8, <1>9 DEF FleetInv, U, y

\* The fleet after each bundle.
AreFleets(f, m, items, day) ==
  f = [n \in 0..m |-> IF n = 0 THEN NoFleet ELSE MergeFleetRows(f[n - 1], RowsOf(items, n, day))]

\* There is one for any number of bundles: of the numbers without, there is no first.
LEMMA FleetsExist ==
  ASSUME NEW items, NEW day, NEW N \in Nat
  PROVE  \E f : AreFleets(f, N, items, day)
<1> DEFINE Has(m) == \E f : AreFleets(f, m, items, day)
           S == {m \in Nat : ~Has(m)}
<1>1. Has(0)
  <2> DEFINE f == [n \in 0..0 |-> NoFleet]
  <2>1. AreFleets(f, 0, items, day)
    BY DEF AreFleets
  <2> QED BY <2>1
<1>2. ASSUME NEW m \in Nat, Has(m)  PROVE Has(m + 1)
  <2>1. PICK f : AreFleets(f, m, items, day)
    BY <1>2
  <2> DEFINE g == [n \in 0..(m + 1) |-> IF n = m + 1 THEN MergeFleetRows(f[m], RowsOf(items, m + 1, day)) ELSE f[n]]
  <2>2. \A n \in 0..m : f[n] = IF n = 0 THEN NoFleet ELSE MergeFleetRows(f[n - 1], RowsOf(items, n, day))
    BY <2>1 DEF AreFleets
  <2>3. \A n \in 0..(m + 1) :
          g[n] = IF n = 0 THEN NoFleet ELSE MergeFleetRows(g[n - 1], RowsOf(items, n, day))
    <3> SUFFICES ASSUME NEW n \in 0..(m + 1)
                 PROVE  g[n] = IF n = 0 THEN NoFleet ELSE MergeFleetRows(g[n - 1], RowsOf(items, n, day))
      OBVIOUS
    <3>1. CASE n = m + 1
      <4>1. g[n] = MergeFleetRows(f[m], RowsOf(items, m + 1, day)) /\ g[n - 1] = f[m] /\ n # 0
        BY <3>1
      <4> HIDE DEF g
      <4> QED BY <3>1, <4>1
    <3>2. CASE n # m + 1
      <4>1. n \in 0..m /\ g[n] = f[n] /\ (n # 0 => g[n - 1] = f[n - 1])
        BY <3>2
      <4> HIDE DEF g
      <4> QED BY <2>2, <4>1
    <3> QED BY <3>1, <3>2
  <2>4. g = [n \in 0..(m + 1) |-> g[n]]
    OBVIOUS
  <2> HIDE DEF g
  <2>5. AreFleets(g, m + 1, items, day)
    BY <2>3, <2>4 DEF AreFleets
  <2> QED BY <2>5
<1> HIDE DEF Has
<1>3. S = {}
  <2> SUFFICES ASSUME S # {}  PROVE FALSE
    OBVIOUS
  <2>1. Min(S) \in S /\ \A k \in S : Min(S) <= k
    BY MinIs
  <2>2. Min(S) \in Nat /\ ~Has(Min(S)) /\ Min(S) # 0
    BY <1>1, <2>1
  <2> DEFINE m == Min(S) - 1
  <2>3. m \in Nat /\ m + 1 = Min(S) /\ ~(Min(S) <= m)
    BY <2>2
  <2>4. ~Has(m)
    BY <1>2, <2>2, <2>3
  <2>5. m \in S
    BY <2>3, <2>4
  <2> QED BY <2>1, <2>3, <2>5
<1>4. Has(N)
  BY <1>3
<1> QED BY <1>4 DEF Has

\* What is merged is the last of them.
LEMMA MergeIsFleet ==
  ASSUME NEW items, NEW day, Len(items) \in Nat
  PROVE  \E f : AreFleets(f, Len(items), items, day) /\ MergeVerified(items, day) = f[Len(items)]
<1> DEFINE fleet[n \in 0..Len(items)] ==
             IF n = 0 THEN NoFleet ELSE MergeFleetRows(fleet[n - 1], RowsOf(items, n, day))
<1>1. fleet = CHOOSE f : f = [n \in 0..Len(items) |->
                                IF n = 0 THEN NoFleet ELSE MergeFleetRows(f[n - 1], RowsOf(items, n, day))]
  OBVIOUS
<1>2. MergeVerified(items, day) = fleet[Len(items)]
  BY DEF MergeVerified, RowsOf
<1> HIDE DEF fleet
<1>3. \E f : f = [n \in 0..Len(items) |->
                   IF n = 0 THEN NoFleet ELSE MergeFleetRows(f[n - 1], RowsOf(items, n, day))]
  <2>1. PICK f : AreFleets(f, Len(items), items, day)
    BY FleetsExist
  <2>2. f = [n \in 0..Len(items) |->
               IF n = 0 THEN NoFleet ELSE MergeFleetRows(f[n - 1], RowsOf(items, n, day))]
    BY <2>1 DEF AreFleets
  <2> QED BY <2>2, Zenon
<1>4. AreFleets(fleet, Len(items), items, day)
  BY <1>1, <1>3 DEF AreFleets
<1> QED BY <1>2, <1>4

\* All that is shown of bundles that are in order.
LEMMA FleetsInOrder ==
  ASSUME NEW items, NEW day, NEW N \in Nat, NEW f, AreFleets(f, N, items, day),
         \A i \in 1..N : AreFleetRows(RowsOf(items, i, day), items[i].label, items[i].archive.manifest.at)
  PROVE  FleetInv(f[N], N, items, day)
<1> DEFINE Ok(m) == FleetInv(f[m], m, items, day)
           S == {m \in 0..N : ~Ok(m)}
<1>1. \A n \in 0..N : f[n] = IF n = 0 THEN NoFleet ELSE MergeFleetRows(f[n - 1], RowsOf(items, n, day))
  BY DEF AreFleets
<1>2. Ok(0)
  <2>1. f[0].rows = {}
    BY <1>1 DEF NoFleet
  <2> QED BY <2>1 DEF FleetInv
<1>3. ASSUME NEW m \in Nat, m + 1 <= N, Ok(m)  PROVE Ok(m + 1)
  <2>1. f[m + 1] = MergeFleetRows(f[m], RowsOf(items, m + 1, day))
    <3>1. m + 1 \in 0..N /\ m + 1 # 0 /\ m + 1 - 1 = m
      BY <1>3
    <3> QED BY <1>1, <3>1
  <2>2. \A i \in 1..N : items[i].archive.manifest.at \in Nat
    BY DEF AreFleetRows
  <2>3. m + 1 \in 1..N /\ \A i \in 1..m : i \in 1..N
    BY <1>3
  <2> QED BY <1>3, <2>1, <2>2, <2>3, FleetStep
<1> HIDE DEF Ok
<1>4. S = {}
  <2> SUFFICES ASSUME S # {}  PROVE FALSE
    OBVIOUS
  <2>0. S \subseteq Nat
    OBVIOUS
  <2>1. Min(S) \in S /\ \A k \in S : Min(S) <= k
    BY <2>0, MinIs
  <2>2. Min(S) \in 0..N /\ ~Ok(Min(S)) /\ Min(S) # 0
    BY <1>2, <2>1
  <2> DEFINE m == Min(S) - 1
  <2>3. m \in Nat /\ m + 1 = Min(S) /\ ~(Min(S) <= m) /\ m + 1 <= N /\ m \in 0..N
    BY <2>2
  <2>4. ~Ok(m)
    BY <1>3, <2>2, <2>3
  <2>5. m \in S
    BY <2>3, <2>4
  <2> QED BY <2>1, <2>3, <2>5
<1>5. Ok(N)
  BY <1>4
<1> QED BY <1>5 DEF Ok

\* The rows of an archive that verifies.
LEMMA BundleRows ==
  ASSUME NEW label, NEW a, a.manifest.at \in Nat, NEW day
  PROVE  AreFleetRows(FleetRows(label, a, day), label, a.manifest.at)
<1> DEFINE c == LoadVerified(a)
           m == a.manifest
           P(q) == Classify(c, q, m.at, m.epoch)
           Row(p) == [key |-> <<p.proof, p.scope.environment, p.scope.system,
                                IF p.scope.host = Blank THEN m.host ELSE p.scope.host>>,
                      state |-> p.state, layer |-> p.layer, source |-> label, at |-> m.at,
                      epoch |-> IF p.proof \in DOMAIN c.proofs /\ c.proofs[p.proof].epoch # 0
                                THEN c.proofs[p.proof].epoch ELSE m.epoch]
<1>1. FleetRows(label, a, day) = {Row(p) : p \in {P(q) : q \in Inventory(c)}}
  BY DEF FleetRows, ScopeRows
<1>2. \A p : Row(p).source = label /\ Row(p).at = m.at /\ Row(p).key[1] = p.proof
  OBVIOUS
<1>3. \A q : P(q).proof = q
  BY DEF Classify
<1> HIDE DEF P, Row
<1>4. \A r \in FleetRows(label, a, day) : \E q \in Inventory(c) : r = Row(P(q)) /\ r.key[1] = q
  BY <1>1, <1>2, <1>3
<1>5. \A r, s \in FleetRows(label, a, day) : r.key = s.key => r = s
  BY <1>4
<1> QED BY <1>1, <1>2, <1>5 DEF AreFleetRows

LEMMA NewestIsShown == EstateInv => NewestWins
<1> SUFFICES ASSUME EstateInv, NEW items \in Merges
             PROVE  LET fleet    == MergeVerified(items, now)
                        had(key) == {i \in DOMAIN items :
                                       \E row \in FleetRows(items[i].label, items[i].archive, now) : row.key = key}
                    IN  \A row \in fleet.rows : \A i \in had(row.key) :
                          /\ items[i].archive.manifest.at <= row.at
                          /\ items[i].label = row.source
                             \/ \E conflict \in fleet.conflicts :
                                  conflict.key = row.key /\ conflict.dropped = items[i].label
  BY Zenon DEF NewestWins
<1>1. IsFiniteSet(box) /\ \A b \in box : IsBoxed(b)
  BY DEF EstateInv
<1>2. PICK n \in 1..Cardinality(box) : items \in [1..n -> box]
  BY DEF Merges
<1>3. n \in Nat /\ Len(items) = n /\ DOMAIN items = 1..n
  <2>1. n \in Nat
    BY <1>1, <1>2, FS_CardinalityType
  <2>2. items \in Seq(box)
    BY <1>2, <2>1
  <2>3. Len(items) \in Nat /\ 1..Len(items) = 1..n
    BY <1>2, <2>2
  <2> QED BY <1>2, <2>1, <2>3, SameBound
<1>4. ASSUME NEW i \in 1..n
      PROVE  AreFleetRows(RowsOf(items, i, now), items[i].label, items[i].archive.manifest.at)
  <2>1. items[i] \in box
    BY <1>2
  <2>2. Loads(LoadVerified(items[i].archive))
    BY <1>3 DEF Merges, Mergeable
  <2>3. Verify(items[i].archive, Absent) = "ok"
    BY <2>2, RefusedIsNone DEF LoadVerified
  <2>4. items[i].archive.manifest.at \in Nat
    BY <1>1, <2>1, <2>3 DEF IsBoxed, IsArchive, IsManifest
  <2> QED BY <2>4, BundleRows DEF RowsOf
<1>5. PICK f : AreFleets(f, n, items, now) /\ MergeVerified(items, now) = f[n]
  BY <1>3, MergeIsFleet
<1>6. FleetInv(MergeVerified(items, now), n, items, now)
  BY <1>3, <1>4, <1>5, FleetsInOrder
<1> DEFINE fleet == MergeVerified(items, now)
<1>7. ASSUME NEW row \in fleet.rows, NEW i \in 1..n, NEW u \in RowsOf(items, i, now), u.key = row.key
      PROVE  /\ items[i].archive.manifest.at <= row.at
             /\ items[i].label = row.source
                \/ \E conflict \in fleet.conflicts :
                     conflict.key = row.key /\ conflict.dropped = items[i].label
  BY <1>6, <1>7 DEF FleetInv
<1> HIDE DEF fleet
<1> QED BY <1>3, <1>7 DEF fleet, RowsOf

\* A bundle that verifies is whole and tells what its host said of itself, and of
\* several the newest is shown (bundle export, verifyArchive, MergeBundles).
THEOREM BundlesAreFaithful == EstateSpec => []BundleIsFaithful
<1>1. EstateInv => BundleIsFaithful
  BY BundleShows, DamageIsSeen, NewestIsShown DEF BundleIsFaithful
<1> QED BY <1>1, EstateInvariance, PTL
=============================================================================
