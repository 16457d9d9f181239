----------------------------- MODULE GateProofs -----------------------------
(***************************************************************************)
(* For any policies, recipes, requests and bounds: what the gate lets       *)
(* through rests on a recovery that was run, its decision is in the ledger, *)
(* and neither company, time nor an override gets a change more than its    *)
(* due; and the hook lets nothing through that was not judged, wherever it  *)
(* understood the line.                                                     *)
(***************************************************************************)
EXTENDS Gate, Hook, SequenceTheorems, TLAPS

-----------------------------------------------------------------------------
(* The decision core                                                       *)

\* What blocks, and how the worst verdict is found.
LEMMA OverallIs ==
  ASSUME NEW F
  PROVE  /\ Overall(F) \in Verdict
         /\ Overall(F) = "block" <=> \E f \in F : f.verdict = "block"
         /\ Overall(F) = "pass" <=> \A f \in F : f.verdict \notin {"warn", "block"}
BY DEF Overall, Verdict

\* The worst of some states is "present" only when all of them are.
LEMMA WorstPresent ==
  ASSUME NEW S, S \subseteq {"present", "stale", "missing", "contradicted", "unreachable"}
  PROVE  /\ Worst(S) = "present" <=> S \subseteq {"present"}
         /\ Worst(S) # "not_required"
<1>1. CASE S \cap {"contradicted", "unreachable"} # {}
  <2>1. Worst(S) \in S \cap {"contradicted", "unreachable"}
    BY <1>1 DEF Worst
  <2> QED BY <1>1, <2>1
<1>2. CASE S \cap {"contradicted", "unreachable"} = {}
  BY <1>2 DEF Worst
<1> QED BY <1>1, <1>2

LEMMA StatesKnown ==
  ASSUME NEW g, NEW A, NEW c, NEW now
  PROVE  ProofStates(g, A, c, now) \subseteq
           {"present", "stale", "missing", "contradicted", "unreachable"}
<1>1. ASSUME NEW q
      PROVE  CheckProofWithBinding(g, q, c, now) \in
               {"present", "stale", "missing", "contradicted", "unreachable"}
  BY DEF CheckProofWithBinding, EvaluateProof, Binding, Demands
<1>2. ASSUME NEW f PROVE CheckFact(f, c, now) \in {"present", "stale", "missing"}
  BY DEF CheckFact
<1> QED BY <1>1, <1>2 DEF ProofStates

\* A guard that demands something is satisfied exactly when each proof is present
\* and no change touches what it rests on, and each fact is.
LEMMA Satisfied ==
  ASSUME NEW g, NEW A, NEW c, NEW now, Demanding(g)
  PROVE  ProofStatus(g, A, c, now) \in {"present", "not_required"} <=>
           /\ \A q \in g.proofs : ~Conflict(q, A, c) /\ CheckProofWithBinding(g, q, c, now) = "present"
           /\ \A f \in g.facts : CheckFact(f, c, now) = "present"
<1> DEFINE S == ProofStates(g, A, c, now)
<1>1. ProofStatus(g, A, c, now) \in {"present", "not_required"} <=> S \subseteq {"present"}
  BY StatesKnown, WorstPresent DEF ProofStatus
<1>2. ASSUME S \subseteq {"present"}
      PROVE  /\ \A q \in g.proofs : ~Conflict(q, A, c) /\ CheckProofWithBinding(g, q, c, now) = "present"
             /\ \A f \in g.facts : CheckFact(f, c, now) = "present"
  <2>1. ASSUME NEW q \in g.proofs
        PROVE  ~Conflict(q, A, c) /\ CheckProofWithBinding(g, q, c, now) = "present"
    <3>1. (IF Conflict(q, A, c) THEN "contradicted" ELSE CheckProofWithBinding(g, q, c, now)) \in S
      BY DEF ProofStates
    <3>2. (IF Conflict(q, A, c) THEN "contradicted" ELSE CheckProofWithBinding(g, q, c, now)) = "present"
      BY <1>2, <3>1
    <3> QED BY <3>2
  <2>2. ASSUME NEW f \in g.facts PROVE CheckFact(f, c, now) = "present"
    BY <1>2 DEF ProofStates
  <2> QED BY <2>1, <2>2
<1>3. ASSUME /\ \A q \in g.proofs : ~Conflict(q, A, c) /\ CheckProofWithBinding(g, q, c, now) = "present"
             /\ \A f \in g.facts : CheckFact(f, c, now) = "present"
      PROVE  S \subseteq {"present"}
  BY <1>3 DEF ProofStates
<1> QED BY <1>1, <1>2, <1>3

\* Fields that hold moments hold moments.
Dated(c) ==
  /\ \A x \in DOMAIN c.guards : c.guards[x].maxAge \in Nat
  /\ \A q \in DOMAIN c.proofs : c.proofs[q].expires \in Nat /\ c.proofs[q].observed \in Nat
  /\ \A f \in DOMAIN c.facts : c.facts[f] \in Nat

\* What is present later was present before.
LEMMA PresentBefore ==
  ASSUME NEW c, Dated(c), NEW x \in DOMAIN c.guards, NEW s \in Nat, NEW t \in Nat, s <= t
  PROVE  /\ \A q : CheckProofWithBinding(c.guards[x], q, c, t) = "present"
                     => CheckProofWithBinding(c.guards[x], q, c, s) = "present"
         /\ \A f : CheckFact(f, c, t) = "present" => CheckFact(f, c, s) = "present"
<1> DEFINE g == c.guards[x]
<1>1. ASSUME NEW q, CheckProofWithBinding(g, q, c, t) = "present"
      PROVE  CheckProofWithBinding(g, q, c, s) = "present"
  <2> DEFINE r == c.proofs[q]
             drill == IF q \in DOMAIN c.drills THEN c.drills[q] ELSE Absent
  <2>1. q \in DOMAIN c.proofs
    BY <1>1 DEF CheckProofWithBinding
  <2>2. /\ EvaluateProof(r, t) = "present" /\ Binding(r, drill, g.requireBound) = "present"
        /\ Demands(g, r, t) = "present"
    BY <1>1, <2>1 DEF CheckProofWithBinding
  <2>3. r.expires \in Nat /\ r.observed \in Nat /\ g.maxAge \in Nat
    BY <2>1 DEF Dated
  <2>4. EvaluateProof(r, s) = "present"
    BY <2>2, <2>3 DEF EvaluateProof
  <2>5. Demands(g, r, s) = "present"
    BY <2>2, <2>3 DEF Demands
  <2> QED BY <2>1, <2>2, <2>4, <2>5 DEF CheckProofWithBinding
<1>2. ASSUME NEW f, CheckFact(f, c, t) = "present" PROVE CheckFact(f, c, s) = "present"
  BY <1>2 DEF CheckFact, Dated
<1> QED BY <1>1, <1>2

\* A guard that a part of a change fails, or fails earlier, the whole fails later.
LEMMA FailsNoLess ==
  ASSUME NEW c, Dated(c), NEW x \in DOMAIN c.guards, NEW s \in Nat, NEW t \in Nat, s <= t,
         NEW A, NEW B, A \subseteq B, Judge(c.guards[x], A, c, s) # "pass"
  PROVE  Judge(c.guards[x], A, c, s) = Judge(c.guards[x], B, c, t)
<1> DEFINE g == c.guards[x]
<1>1. ASSUME ProofStatus(g, B, c, t) \in {"present", "not_required"}
      PROVE  ProofStatus(g, A, c, s) \in {"present", "not_required"}
  <2>1. CASE ~Demanding(g)
    BY <1>1, <2>1 DEF ProofStatus
  <2>2. CASE Demanding(g)
    <3>1. /\ \A q \in g.proofs : ~Conflict(q, B, c) /\ CheckProofWithBinding(g, q, c, t) = "present"
          /\ \A f \in g.facts : CheckFact(f, c, t) = "present"
      BY <1>1, <2>2, Satisfied
    <3>2. /\ \A q \in g.proofs : ~Conflict(q, A, c) /\ CheckProofWithBinding(g, q, c, s) = "present"
          /\ \A f \in g.facts : CheckFact(f, c, s) = "present"
      BY <3>1, PresentBefore DEF Conflict
    <3> QED BY <2>2, <3>2, Satisfied
  <2> QED BY <2>1, <2>2
<1> QED BY <1>1 DEF Judge, Decide

\* What is wrong with a change is wrong with it in company and later.
LEMMA FoundNoLess ==
  ASSUME NEW c, Dated(c), NEW s \in Nat, NEW t \in Nat, s <= t, NEW A, NEW B, A \subseteq B,
         NEW strict, NEW f \in Evaluate(A, c, s, strict), f.verdict # "pass"
  PROVE  f \in Evaluate(B, c, t, strict)
<1>1. PICK ci \in A : f \in EvaluateIntent(ci, A, c, s, strict)
  BY DEF Evaluate
<1>2. f \in EvaluateIntent(ci, B, c, t, strict)
  <2>1. CASE f \in GuardFindings(ci, A, c, s)
    <3>1. PICK x \in DOMAIN c.guards :
            /\ GuardMatches(c.guards[x], ci)
            /\ f = Finding(<<c.guards[x].kind, x, Resource(c.guards[x], ci)>>, Judge(c.guards[x], A, c, s))
      BY <2>1 DEF GuardFindings
    <3>2. Judge(c.guards[x], A, c, s) = Judge(c.guards[x], B, c, t)
      BY <3>1, FailsNoLess DEF Finding
    <3>3. f \in GuardFindings(ci, B, c, t)
      BY <3>1, <3>2 DEF GuardFindings
    <3> QED BY <3>3 DEF EvaluateIntent
  <2>2. CASE f \notin GuardFindings(ci, A, c, s)
    <3>1. GuardFindings(ci, A, c, s) = {} <=> GuardFindings(ci, B, c, t) = {}
      BY DEF GuardFindings
    <3> QED BY <1>1, <2>2, <3>1 DEF EvaluateIntent
  <2> QED BY <2>1, <2>2
<1> QED BY <1>1, <1>2 DEF Evaluate

\* A part of a change, or the whole of it earlier, is judged no more strictly,
\* by the same files.
LEMMA JudgedNoLess ==
  ASSUME NEW r, Dated(Context(r.policy, r.evidence)), NEW s \in Nat, NEW t \in Nat, s <= t,
         NEW A, NEW B, A \subseteq B, ActiveOverrides(r.entries, t) \subseteq ActiveOverrides(r.entries, s)
  PROVE  Severity(Overall(FindingsAt(r, A, s))) <= Severity(Overall(FindingsAt(r, B, t)))
<1> DEFINE F == FindingsAt(r, A, s)
           G == FindingsAt(r, B, t)
           c == Context(r.policy, r.evidence)
           E == Evaluate(A, c, s, r.req.strict)
           D == Evaluate(B, c, t, r.req.strict)
           old == ActiveOverrides(r.entries, s)
           new == ActiveOverrides(r.entries, t)
<1>1. F = ApplyOverrides(E, old) \cup Loosened(r.policy) /\ G = ApplyOverrides(D, new) \cup Loosened(r.policy)
  BY DEF FindingsAt
<1>2. \A f \in E : f.verdict # "pass" => f \in D
  BY FoundNoLess
<1>3. new \subseteq old
  OBVIOUS
<1> HIDE DEF F, G, E, D, old, new, c
<1>4. ASSUME NEW f \in F, f.verdict # "pass" PROVE f \in G
  <2>1. CASE f \in Loosened(r.policy)
    BY <1>1, <2>1
  <2>2. CASE f \in ApplyOverrides(E, old)
    <3>1. PICK h \in E : f = IF h.id \in old THEN Finding(h.id, "pass") ELSE h
      BY <2>2 DEF ApplyOverrides
    <3>2. f = h /\ h.id \notin old
      BY <1>4, <3>1 DEF Finding
    <3>3. h \in D /\ h.id \notin new
      BY <1>2, <1>3, <1>4, <3>2
    <3>4. h \in ApplyOverrides(D, new)
      BY <3>3 DEF ApplyOverrides
    <3> QED BY <1>1, <3>2, <3>4
  <2> QED BY <1>1, <1>4, <2>1, <2>2
<1>5. /\ Overall(F) = "block" => Overall(G) = "block"
      /\ Overall(G) = "pass" => Overall(F) = "pass"
      /\ Overall(F) \in Verdict /\ Overall(G) \in Verdict
  BY <1>4, OverallIs
<1>6. Severity(Overall(F)) <= Severity(Overall(G))
  BY <1>5 DEF Severity, Verdict
<1> QED BY <1>6 DEF F, G

-----------------------------------------------------------------------------
(* The invariant                                                           *)

IsSeq(s) == s \in Seq({s[i] : i \in DOMAIN s})

\* An override that nobody changed runs for MaxExpiry at most.
IsEntry(o) ==
  \/ /\ o.kind = "override" /\ DOMAIN o = {"kind", "finding", "expires", "at", "altered", "anchored"}
     /\ o.expires \in Nat /\ o.at \in Nat /\ (~o.altered => o.expires <= o.at + MaxExpiry)
  \/ /\ o.kind = "decision" /\ DOMAIN o = {"kind", "run", "gate", "verdict", "altered", "anchored"}
     /\ o.run \in Nat

IsTrail(s) == IsSeq(s) /\ \A i \in DOMAIN s : IsEntry(s[i])

RecordFields == {"status", "signature", "expires", "observed", "verified", "digest", "deps", "epoch"}

IsEvidence(e) ==
  /\ DOMAIN e = {"proofs", "facts", "drills"} /\ e.facts = Facts
  /\ DOMAIN e.drills = Proofs
  /\ \A q \in DOMAIN e.proofs : /\ DOMAIN e.proofs[q] = RecordFields
                                /\ e.proofs[q].expires \in Nat /\ e.proofs[q].observed \in Nat

\* The record r of q is what the result left; only a drill binds it to a recipe.
LeftBy(e, q, r) ==
  /\ e.proof = q /\ e.at = r.observed
  /\ r.digest # Absent => /\ e.by = "drill" /\ e.recipe = r.digest /\ r.deps = r.digest.deps
                          /\ e.good \/ r.status \in {"disputed", "unreachable"}

\* Each record is what the last of the first n results of its proof left.
Told(e, n) ==
  \A q \in DOMAIN e.proofs : \E i \in DOMAIN results :
    /\ LeftBy(results[i], q, e.proofs[q])
    /\ \A j \in (i + 1)..n : results[j].proof # q

World ==
  /\ policy \in Policies /\ clock \in Nat /\ epoch \in Nat
  /\ IsEvidence(evidence) /\ Told(evidence, Len(results)) /\ IsSeq(results)
  /\ drilling # Absent => drilling.outcome \in Outcome /\ drilling.ttl \in Nat
  /\ IsTrail(trail) /\ \A i \in DOMAIN trail : trail[i].kind = "decision" => trail[i].run <= run.n
  /\ run.n \in Nat

RunFields == {"n", "req", "from", "policy", "evidence", "entries", "at", "found", "excused", "verdict", "exit"}

\* What a run that has judged says of what it has read.
JudgedAs(r) ==
  /\ r.at \in Nat /\ r.found = FindingsAt(r, r.req.intents, r.at)
  /\ r.excused = ActiveOverrides(r.entries, r.at)
  /\ r.verdict = Overall(r.found) /\ r.exit = ExitCode(r.verdict, r.req.failOnWarn)

DecisionOf(n, i) == i \in DOMAIN trail /\ trail[i].kind = "decision" /\ trail[i].run = n

Silent(n) == \A i : ~DecisionOf(n, i)

OnRecord(n, v) ==
  \E i : /\ DecisionOf(n, i) /\ trail[i].gate = "ran" /\ trail[i].verdict = v
         /\ \A j : DecisionOf(n, j) /\ trail[j].gate = "ran" => j = i

\* The gate: what it has read is as it was, what it found follows from that, and
\* the ledger tells of a run only when it has ended.
Running ==
  /\ pc \in {"idle", "policy", "evidence", "ledger", "judge", "record", "broken", "done"}
  /\ DOMAIN run = RunFields /\ run.from \in Nat /\ run.from <= Len(results)
  /\ IsTrail(run.entries) /\ Verifies(run.entries)
  /\ pc # "idle" => run.req \in Requests
  /\ pc \in {"idle", "policy", "evidence", "ledger", "judge"} => run.exit = 3
  /\ pc \in {"evidence", "ledger", "judge"} \/ run.exit # 3 => run.policy \in Policies
  /\ pc \in {"ledger", "judge"} \/ run.exit # 3 => IsEvidence(run.evidence) /\ Told(run.evidence, run.from)
  /\ run.exit # 3 => JudgedAs(run)

Recorded ==
  /\ pc = "record" => Records(run)
  /\ pc \in {"policy", "evidence", "ledger", "judge", "record"} => Silent(run.n)
  /\ pc \in {"broken", "done"} /\ ~Records(run) => Silent(run.n)
  /\ pc = "done" /\ Records(run) /\ run.exit # 3 => OnRecord(run.n, run.verdict)

GInv == World /\ Running /\ Recorded

-----------------------------------------------------------------------------
(* Sequences of records                                                    *)

LEMMA SeqOfItself ==
  ASSUME NEW n \in Nat, NEW t, DOMAIN t = 1..n, t \in [1..n -> {t[i] : i \in DOMAIN t}]
  PROVE  IsSeq(t)
<1> DEFINE S == {t[i] : i \in DOMAIN t}
<1>1. t \in [1..n -> S]
  OBVIOUS
<1> HIDE DEF S
<1>2. t \in Seq(S)
  BY <1>1, SeqDef
<1> QED BY <1>2 DEF S, IsSeq

\* The sequence t is s with x behind it, or with x in the place of one entry.
Extends(s, x, t) ==
  /\ IsSeq(t) /\ Len(s) \in Nat /\ Len(t) = Len(s) + 1
  /\ DOMAIN s = 1..Len(s) /\ DOMAIN t = 1..(Len(s) + 1)
  /\ t[Len(s) + 1] = x /\ \A i \in DOMAIN s : i \in DOMAIN t /\ t[i] = s[i]
Replaces(s, k, x, t) ==
  IsSeq(t) /\ DOMAIN t = DOMAIN s /\ t[k] = x /\ \A i \in DOMAIN s : i # k => t[i] = s[i]

LEMMA Appended ==
  ASSUME NEW s, IsSeq(s), NEW x, NEW t, t = Append(s, x)
  PROVE  Extends(s, x, t)
<1> DEFINE S == {s[i] : i \in DOMAIN s} \cup {x}
<1>1. s \in Seq({s[i] : i \in DOMAIN s})
  BY DEF IsSeq
<1>2. Len(s) \in Nat /\ DOMAIN s = 1..Len(s)
  BY <1>1, LenProperties
<1>3. s \in Seq(S) /\ x \in S
  BY <1>1
<1> HIDE DEF S
<1>4. /\ t \in Seq(S) /\ Len(t) = Len(s) + 1 /\ t[Len(s) + 1] = x
      /\ \A i \in 1..Len(s) : t[i] = s[i]
  BY <1>3, AppendProperties
<1>5. Len(t) \in Nat /\ DOMAIN t = 1..Len(t) /\ t \in [1..Len(t) -> S]
  BY <1>4, LenProperties
<1>6. t \in [1..Len(t) -> {t[i] : i \in DOMAIN t}]
  BY <1>5
<1>7. IsSeq(t)
  BY <1>5, <1>6, SeqOfItself
<1> QED BY <1>2, <1>4, <1>5, <1>7 DEF Extends

LEMMA Changed ==
  ASSUME NEW s, IsSeq(s), NEW k \in DOMAIN s, NEW x, NEW t, t = [s EXCEPT ![k] = x]
  PROVE  Replaces(s, k, x, t)
<1>1. Len(s) \in Nat /\ DOMAIN s = 1..Len(s) /\ s \in [1..Len(s) -> {s[i] : i \in DOMAIN s}]
  BY LenProperties DEF IsSeq
<1>2. t = [i \in 1..Len(s) |-> IF i = k THEN x ELSE s[i]]
  BY <1>1
<1>3. DOMAIN t = 1..Len(s) /\ t \in [1..Len(s) -> {t[i] : i \in DOMAIN t}]
  BY <1>2
<1>4. IsSeq(t)
  BY <1>1, <1>3, SeqOfItself
<1> QED BY <1>1, <1>2, <1>4 DEF Replaces

\* Results that are added change nothing about those that are there.
LEMMA ToldStays ==
  ASSUME NEW e, NEW n \in Nat, Told(e, n), IsSeq(results), n <= Len(results),
         NEW x, results' = Append(results, x)
  PROVE  /\ \A q \in DOMAIN e.proofs : \E i \in DOMAIN results' :
              /\ LeftBy(results'[i], q, e.proofs[q])
              /\ \A j \in (i + 1)..n : results'[j].proof # q
<1>1. /\ Len(results) \in Nat /\ DOMAIN results = 1..Len(results)
      /\ \A i \in DOMAIN results : i \in DOMAIN results' /\ results'[i] = results[i]
  BY Appended DEF Extends
<1>2. ASSUME NEW q \in DOMAIN e.proofs
      PROVE  \E i \in DOMAIN results' : /\ LeftBy(results'[i], q, e.proofs[q])
                                        /\ \A j \in (i + 1)..n : results'[j].proof # q
  <2>1. PICK i \in DOMAIN results : /\ LeftBy(results[i], q, e.proofs[q])
                                    /\ \A j \in (i + 1)..n : results[j].proof # q
    BY DEF Told
  <2>2. \A j \in (i + 1)..n : j \in DOMAIN results
    BY <1>1
  <2> QED BY <1>1, <2>1, <2>2
<1> QED BY <1>2

\* A result is added and its record is written.
LEMMA WrittenIsTold ==
  ASSUME World, NEW q, NEW e, NEW r, results' = Append(results, e), LeftBy(e, q, r),
         evidence' = [evidence EXCEPT !.proofs = Written(q, r)],
         DOMAIN r = RecordFields, r.expires \in Nat, r.observed \in Nat
  PROVE  IsEvidence(evidence') /\ Told(evidence, Len(results))' /\ IsSeq(results)'
<1>1. /\ IsSeq(results') /\ Len(results) \in Nat /\ Len(results') = Len(results) + 1
      /\ DOMAIN results = 1..Len(results) /\ DOMAIN results' = 1..(Len(results) + 1)
      /\ results'[Len(results) + 1] = e
      /\ \A i \in DOMAIN results : i \in DOMAIN results' /\ results'[i] = results[i]
  <2>1. IsSeq(results) /\ results' = Append(results, e)
    BY DEF World
  <2>2. Extends(results, e, results')
    BY <2>1, Appended
  <2> QED BY <2>2 DEF Extends
<1>2. /\ DOMAIN evidence' = DOMAIN evidence /\ evidence'.facts = evidence.facts
      /\ evidence'.drills = evidence.drills /\ evidence'.proofs = Written(q, r)
  BY DEF World, IsEvidence
<1>3. /\ DOMAIN evidence'.proofs = DOMAIN evidence.proofs \cup {q}
      /\ \A p \in DOMAIN evidence'.proofs : evidence'.proofs[p] = IF p = q THEN r ELSE evidence.proofs[p]
  BY <1>2 DEF Written
<1>4. IsEvidence(evidence')
  BY <1>2, <1>3 DEF World, IsEvidence
<1>5. ASSUME NEW p \in DOMAIN evidence'.proofs
      PROVE  \E i \in DOMAIN results' : /\ LeftBy(results'[i], p, evidence'.proofs[p])
                                        /\ \A j \in (i + 1)..Len(results') : results'[j].proof # p
  <2>1. CASE p = q
    <3>1. \A j \in (Len(results) + 2)..Len(results') : FALSE
      BY <1>1
    <3>2. LeftBy(results'[Len(results) + 1], p, evidence'.proofs[p])
      BY <1>1, <1>3, <2>1
    <3> QED BY <1>1, <3>1, <3>2
  <2>2. CASE p # q
    <3>1. PICK i \in DOMAIN results : /\ LeftBy(results[i], p, evidence.proofs[p])
                                      /\ \A j \in (i + 1)..Len(results) : results[j].proof # p
      BY <1>3, <2>2 DEF World, Told
    <3>2. e.proof = q
      BY DEF LeftBy
    <3>3. \A j \in (i + 1)..Len(results') : results'[j].proof # p
      BY <1>1, <2>2, <3>1, <3>2
    <3> QED BY <1>1, <1>3, <2>2, <3>1, <3>3
  <2> QED BY <2>1, <2>2
<1> QED BY <1>1, <1>4, <1>5 DEF Told

-----------------------------------------------------------------------------
(* What the other commands do                                              *)

\* Two ledgers with the same decisions in the same places.
SameDecisions(s, t) ==
  /\ \A i \in DOMAIN t : t[i].kind = "decision" => i \in DOMAIN s
  /\ \A i \in DOMAIN s :
       /\ i \in DOMAIN t
       /\ t[i].kind = "decision" => s[i].kind = "decision"
       /\ s[i].kind = "decision" =>
            t[i].kind = s[i].kind /\ t[i].run = s[i].run /\ t[i].gate = s[i].gate /\ t[i].verdict = s[i].verdict

LEMMA AcknowledgeKeeps ==
  ASSUME World, Acknowledge
  PROVE  IsTrail(trail') /\ SameDecisions(trail, trail')
<1>1. PICK f \in run.found, d \in 1..MaxExpiry : trail' = Append(trail, Override(f.id, clock + d))
  BY DEF Acknowledge
<1> DEFINE o == Override(f.id, clock + d)
<1>2. o.kind = "override" /\ IsEntry(o)
  BY BoundAssumption DEF Override, IsEntry, World
<1> HIDE DEF o
<1>3. Extends(trail, o, trail')
  BY <1>1, Appended DEF World, IsTrail, o
<1> QED BY <1>2, <1>3 DEF Extends, IsTrail, SameDecisions, World

\* The entry x may take the place of the k-th.
MayReplace(k, x) ==
  /\ IsEntry(x) /\ x.kind = trail[k].kind
  /\ x.kind = "decision" => x.run = trail[k].run /\ x.gate = trail[k].gate /\ x.verdict = trail[k].verdict

LEMMA AlterKeeps ==
  ASSUME World, Alter \/ Anchor
  PROVE  IsTrail(trail') /\ SameDecisions(trail, trail')
<1>0. PICK k \in DOMAIN trail : \E x : MayReplace(k, x) /\ trail' = [trail EXCEPT ![k] = x]
  <2>1. CASE Alter
    <3>1. PICK k \in DOMAIN trail :
            trail' = [trail EXCEPT ![k] =
              IF @.kind = "override" THEN [@ EXCEPT !.altered = TRUE, !.anchored = FALSE, !.expires = MaxTime + 1]
              ELSE [@ EXCEPT !.altered = TRUE, !.anchored = FALSE]]
      BY <2>1 DEF Alter
    <3> DEFINE o == trail[k]
               x == IF o.kind = "override"
                    THEN [o EXCEPT !.altered = TRUE, !.anchored = FALSE, !.expires = MaxTime + 1]
                    ELSE [o EXCEPT !.altered = TRUE, !.anchored = FALSE]
    <3>2. trail' = [trail EXCEPT ![k] = x]
      BY <3>1
    <3>3. IsEntry(o)
      BY DEF World, IsTrail
    <3>4. MayReplace(k, x)
      BY <3>3, BoundAssumption DEF IsEntry, MayReplace
    <3> QED BY <3>2, <3>4
  <2>2. CASE Anchor
    <3>1. PICK k \in DOMAIN trail : trail' = [trail EXCEPT ![k].anchored = TRUE]
      BY <2>2 DEF Anchor
    <3> DEFINE o == trail[k]
               x == [o EXCEPT !.anchored = TRUE]
    <3>2. trail' = [trail EXCEPT ![k] = x]
      BY <3>1
    <3>3. IsEntry(o)
      BY DEF World, IsTrail
    <3>4. MayReplace(k, x)
      BY <3>3 DEF IsEntry, MayReplace
    <3> QED BY <3>2, <3>4
  <2> QED BY <2>1, <2>2
<1>1. PICK x : MayReplace(k, x) /\ trail' = [trail EXCEPT ![k] = x]
  BY <1>0
<1>2. Replaces(trail, k, x, trail')
  BY <1>1, Changed DEF World, IsTrail
<1>3. \A i \in DOMAIN trail : (trail'[i] = x /\ i = k) \/ trail'[i] = trail[i]
  BY <1>2 DEF Replaces
<1>4. IsTrail(trail')
  BY <1>1, <1>2, <1>3 DEF Replaces, IsTrail, World, MayReplace
<1>5. SameDecisions(trail, trail')
  <2>1. DOMAIN trail' = DOMAIN trail
    BY <1>2 DEF Replaces
  <2> QED BY <1>1, <1>3, <2>1 DEF SameDecisions, MayReplace
<1> QED BY <1>4, <1>5

LEMMA TrailsAlike ==
  ASSUME World, run'.n \in Nat, run.n <= run'.n, IsTrail(trail'), SameDecisions(trail, trail')
  PROVE  \A i \in DOMAIN trail' : trail'[i].kind = "decision" => trail'[i].run <= run'.n
<1>1. ASSUME NEW i \in DOMAIN trail', trail'[i].kind = "decision"
      PROVE  trail'[i].run <= run'.n
  <2>0. i \in DOMAIN trail
    BY <1>1 DEF SameDecisions
  <2>1. trail[i].kind = "decision" /\ trail'[i].run = trail[i].run
    BY <1>1, <2>0 DEF SameDecisions
  <2>2. trail[i].run \in Nat /\ trail[i].run <= run.n /\ run.n \in Nat
    BY <2>0, <2>1 DEF World, IsTrail, IsEntry
  <2> QED BY <2>1, <2>2
<1> QED BY <1>1

\* Nothing happens to results and evidence but what keeps each record told.
LEMMA EvidenceKept ==
  ASSUME World, Environment
  PROVE  /\ IsEvidence(evidence') /\ Told(evidence, Len(results))' /\ IsSeq(results')
         /\ results' = results \/ \E x : results' = Append(results, x)
<1>1. CASE DrillEnds
  <2> DEFINE r == DrillRecord(drilling)
             e == Result(drilling.proof, "drill", drilling.outcome, drilling.recipe)
  <2>1. /\ drilling.outcome \in Outcome /\ drilling.ttl \in Nat /\ clock \in Nat
        /\ evidence' = [evidence EXCEPT !.proofs = Written(drilling.proof, r)]
        /\ results' = Append(results, e)
    BY <1>1 DEF DrillEnds, World
  <2>2. DOMAIN r = RecordFields /\ r.expires \in Nat /\ r.observed \in Nat
    <3>1. DOMAIN r = RecordFields /\ r.observed = clock
      BY DEF DrillRecord, Blank, RecordFields
    <3>2. r.expires = IF Good(drilling) /\ drilling.ttl > 0 THEN clock + drilling.ttl ELSE 0
      BY DEF DrillRecord, Blank
    <3> HIDE DEF r
    <3> QED BY <2>1, <3>1, <3>2
  <2>3. LeftBy(e, drilling.proof, r)
    <3>1. /\ e.proof = drilling.proof /\ e.at = clock /\ e.by = "drill" /\ e.recipe = drilling.recipe
          /\ e.good = (drilling.outcome = "validated")
      BY DEF Result
    <3>2. /\ r.observed = clock /\ r.status = drilling.outcome /\ r.digest = drilling.recipe
          /\ r.deps = drilling.recipe.deps
      BY DEF DrillRecord, Blank
    <3> HIDE DEF r, e
    <3> QED BY <2>1, <3>1, <3>2 DEF LeftBy, Outcome
  <2> HIDE DEF r, e
  <2> QED BY <2>1, <2>2, <2>3, WrittenIsTold
<1>2. CASE PinCheckFails
  <2> DEFINE r == [Blank EXCEPT !.status = "unreachable", !.epoch = epoch]
  <2>1. PICK q \in Proofs : /\ evidence' = [evidence EXCEPT !.proofs = Written(q, r)]
                            /\ results' = Append(results, Result(q, "pin", "unreachable", evidence.drills[q]))
    BY <1>2 DEF PinCheckFails
  <2> DEFINE e == Result(q, "pin", "unreachable", evidence.drills[q])
  <2>2. DOMAIN r = RecordFields /\ r.expires \in Nat /\ r.observed \in Nat
    BY DEF Blank, RecordFields, World
  <2>3. LeftBy(e, q, r)
    BY DEF LeftBy, Result, Blank
  <2> HIDE DEF r, e
  <2> QED BY <2>1, <2>2, <2>3, WrittenIsTold DEF e
<1>3. CASE Ingest
  <2> DEFINE kept(q) == IF q \in DOMAIN evidence.proofs THEN evidence.proofs[q].epoch ELSE 0
             r(q, s) == [Blank EXCEPT !.status = s, !.epoch = kept(q)]
  <2>1. PICK q \in Proofs, s \in {"validated", "observed"} :
           /\ evidence' = [evidence EXCEPT !.proofs = Written(q, r(q, s))]
           /\ results' = Append(results, Result(q, "ingest", s, evidence.drills[q]))
    BY <1>3 DEF Ingest
  <2> DEFINE e == Result(q, "ingest", s, evidence.drills[q])
             rec == r(q, s)
  <2>2. DOMAIN rec = RecordFields /\ rec.expires \in Nat /\ rec.observed \in Nat
    BY DEF Blank, RecordFields, World
  <2>3. LeftBy(e, q, rec)
    BY DEF LeftBy, Result, Blank
  <2>4. evidence' = [evidence EXCEPT !.proofs = Written(q, rec)] /\ results' = Append(results, e)
    BY <2>1
  <2> HIDE DEF rec, e
  <2> QED BY <2>2, <2>3, <2>4, WrittenIsTold
<1>4. CASE Accept
  <2>1. PICK q \in DOMAIN evidence.proofs :
          evidence' = [evidence EXCEPT !.proofs[q].epoch = epoch,
                         !.proofs[q].signature = IF @ = "good" /\ evidence.proofs[q].epoch # epoch
                                                 THEN "bad" ELSE @]
    BY <1>4 DEF Accept
  <2>2. results' = results
    BY <1>4 DEF Accept
  <2>3. /\ DOMAIN evidence' = DOMAIN evidence /\ evidence'.facts = evidence.facts
        /\ evidence'.drills = evidence.drills /\ DOMAIN evidence'.proofs = DOMAIN evidence.proofs
    BY <2>1 DEF World, IsEvidence
  <2>4. ASSUME NEW p \in DOMAIN evidence.proofs
        PROVE  /\ DOMAIN evidence'.proofs[p] = RecordFields
               /\ \A x \in {"status", "expires", "observed", "digest", "deps"} :
                    evidence'.proofs[p][x] = evidence.proofs[p][x]
    <3>1. DOMAIN evidence = {"proofs", "facts", "drills"} /\ DOMAIN evidence.proofs[p] = RecordFields
      BY DEF World, IsEvidence
    <3> QED BY <2>1, <3>1 DEF RecordFields
  <2>5. \A p \in DOMAIN evidence.proofs :
          /\ evidence'.proofs[p].status = evidence.proofs[p].status
          /\ evidence'.proofs[p].expires = evidence.proofs[p].expires
          /\ evidence'.proofs[p].observed = evidence.proofs[p].observed
          /\ evidence'.proofs[p].digest = evidence.proofs[p].digest
          /\ evidence'.proofs[p].deps = evidence.proofs[p].deps
    BY <2>4
  <2>6. IsEvidence(evidence')
    BY <2>3, <2>4, <2>5 DEF World, IsEvidence
  <2>7. Told(evidence, Len(results))'
    <3>1. \A p \in DOMAIN evidence.proofs, i \in DOMAIN results :
            LeftBy(results[i], p, evidence.proofs[p]) => LeftBy(results[i], p, evidence'.proofs[p])
      BY <2>5 DEF LeftBy
    <3> QED BY <2>2, <2>3, <3>1 DEF World, Told
  <2> QED BY <2>2, <2>6, <2>7 DEF World
<1>5. CASE EditRecipe
  <2>1. PICK q \in Proofs, c \in Recipes : evidence' = [evidence EXCEPT !.drills[q] = c]
    BY <1>5 DEF EditRecipe
  <2>2. results' = results
    BY <1>5 DEF EditRecipe
  <2>3. /\ DOMAIN evidence' = DOMAIN evidence /\ evidence'.facts = evidence.facts
        /\ evidence'.proofs = evidence.proofs /\ DOMAIN evidence'.drills = DOMAIN evidence.drills
    BY <2>1 DEF World, IsEvidence
  <2> QED BY <2>2, <2>3 DEF World, IsEvidence, Told
<1>6. CASE UNCHANGED <<evidence, results>>
  BY <1>6 DEF World, Told
<1> QED BY <1>1, <1>2, <1>3, <1>4, <1>5, <1>6
       DEF Environment, DrillBegins, EditPolicy, Acknowledge, Alter, Anchor, Tick, Reinstall

\* A command that leaves the gate alone, or ends it by reinstalling the machine.
LEMMA EnvironmentKeepsGInv == ASSUME GInv, Environment PROVE GInv'
<1>1. /\ IsEvidence(evidence') /\ Told(evidence, Len(results))' /\ IsSeq(results')
      /\ results' = results \/ \E x : results' = Append(results, x)
  BY EvidenceKept DEF GInv
<1>2. policy' \in Policies /\ clock' \in Nat /\ epoch' \in Nat
  <2>1. /\ policy' \in Policies \/ policy' = policy
        /\ clock' \in {clock, clock + 1} /\ epoch' \in {epoch, epoch + 1}
    BY DEF Environment, DrillBegins, DrillEnds, PinCheckFails, Ingest, Accept, EditRecipe,
           EditPolicy, Acknowledge, Alter, Anchor, Tick, Reinstall
  <2> QED BY <2>1 DEF GInv, World
<1>3. drilling' # Absent => drilling'.outcome \in Outcome /\ drilling'.ttl \in Nat
  <2>1. CASE DrillBegins
    <3>1. PICK q \in Proofs, o \in Outcome, ttl \in Lifetimes :
            drilling' = [proof |-> q, recipe |-> evidence.drills[q], outcome |-> o, ttl |-> ttl]
      BY <2>1 DEF DrillBegins
    <3> QED BY <3>1, DrillAssumption
  <2>2. CASE drilling' \in {drilling, Absent}
    BY <2>2 DEF GInv, World
  <2> QED BY <2>1, <2>2 DEF Environment, DrillEnds, PinCheckFails, Ingest, Accept, EditRecipe,
             EditPolicy, Acknowledge, Alter, Anchor, Tick, Reinstall
<1>4. IsTrail(trail') /\ SameDecisions(trail, trail')
  <2>1. CASE Acknowledge
    BY <2>1, AcknowledgeKeeps DEF GInv
  <2>2. CASE Alter \/ Anchor
    BY <2>2, AlterKeeps DEF GInv
  <2>3. CASE UNCHANGED trail
    BY <2>3 DEF GInv, World, SameDecisions
  <2> QED BY <2>1, <2>2, <2>3 DEF Environment, DrillBegins, DrillEnds, PinCheckFails, Ingest, Accept,
             EditRecipe, EditPolicy, Tick, Reinstall
<1>5. \/ UNCHANGED <<pc, run>>
      \/ pc' = "idle" /\ run' = [Run0 EXCEPT !.n = run.n] /\ UNCHANGED results
  BY DEF Environment, Others, DrillBegins, DrillEnds, PinCheckFails, Ingest, Accept, EditRecipe,
         EditPolicy, Acknowledge, Alter, Anchor, Tick, Reinstall
<1>6. run'.n = run.n /\ run.n \in Nat
  BY <1>5 DEF Run0, GInv, World
<1>7. World'
  <2>1. \A i \in DOMAIN trail' : trail'[i].kind = "decision" => trail'[i].run <= run'.n
    BY <1>4, <1>6, TrailsAlike DEF GInv
  <2> QED BY <1>1, <1>2, <1>3, <1>4, <1>6, <2>1 DEF World
<1>8. Len(results) \in Nat /\ Len(results') \in Nat /\ Len(results) <= Len(results')
  <2>1. CASE results' = results
    BY <2>1, LenProperties DEF GInv, World, IsSeq
  <2>2. CASE results' # results
    <3>1. PICK x : results' = Append(results, x)
      BY <1>1, <2>2
    <3>2. Extends(results, x, results')
      BY <3>1, Appended DEF GInv, World
    <3> QED BY <3>2 DEF Extends
  <2> QED BY <2>1, <2>2
<1>9. CASE UNCHANGED <<pc, run>>
  <2>1. ASSUME run.from \in Nat, run.from <= Len(results), Told(run.evidence, run.from)
        PROVE  Told(run.evidence, run.from)'
    <3>1. CASE results' = results
      BY <1>9, <2>1, <3>1 DEF Told
    <3>2. CASE results' # results
      <4>1. PICK x : results' = Append(results, x)
        BY <1>1, <3>2
      <4> DEFINE e == run.evidence
                 n == run.from
      <4>2. IsSeq(results) /\ Told(e, n) /\ n \in Nat /\ n <= Len(results)
        BY <2>1 DEF GInv, World
      <4> HIDE DEF e, n
      <4>3. \A q \in DOMAIN e.proofs : \E i \in DOMAIN results' :
              /\ LeftBy(results'[i], q, e.proofs[q])
              /\ \A j \in (i + 1)..n : results'[j].proof # q
        BY <4>1, <4>2, ToldStays
      <4> QED BY <1>9, <4>3 DEF Told, e, n
    <3> QED BY <3>1, <3>2
  <2>2. Running'
    <3>1. JudgedAs(run)' <=> JudgedAs(run)
      BY <1>9 DEF JudgedAs, FindingsAt, Context, Loosened, ActiveOverrides
    <3>2. /\ (IsTrail(run.entries) /\ Verifies(run.entries))' <=> IsTrail(run.entries) /\ Verifies(run.entries)
          /\ IsEvidence(run.evidence)' <=> IsEvidence(run.evidence)
      BY <1>9 DEF IsTrail, IsSeq, IsEntry, Verifies, IsEvidence, RecordFields
    <3>3. /\ run.from \in Nat /\ run.from <= Len(results)
          /\ pc' = pc /\ run' = run
      BY <1>9 DEF GInv, Running
    <3>4. run'.from <= Len(results')
      BY <1>8, <3>3
    <3> QED BY <2>1, <3>1, <3>2, <3>3, <3>4 DEF GInv, Running, RunFields
  <2>3. \A n, i : /\ DecisionOf(n, i)' <=> DecisionOf(n, i)
                  /\ DecisionOf(n, i) => trail'[i].gate = trail[i].gate /\ trail'[i].verdict = trail[i].verdict
    BY <1>4 DEF SameDecisions, DecisionOf
  <2>4. Recorded'
    BY <1>9, <2>3 DEF GInv, Recorded, Records, Silent, OnRecord
  <2> QED BY <1>7, <2>2, <2>4 DEF GInv
<1>10. CASE pc' = "idle" /\ run' = [Run0 EXCEPT !.n = run.n] /\ UNCHANGED results
  <2>1. run'.from = 0 /\ run'.exit = 3 /\ run'.entries = <<>> /\ DOMAIN run' = RunFields
    BY <1>10 DEF Run0, RunFields
  <2>2. (IsTrail(run.entries) /\ Verifies(run.entries))'
    BY <2>1 DEF IsTrail, IsSeq, Verifies
  <2>3. Running' /\ Recorded'
    BY <1>8, <1>10, <2>1, <2>2 DEF Running, Recorded
  <2> QED BY <1>7, <2>3 DEF GInv
<1> QED BY <1>5, <1>9, <1>10

-----------------------------------------------------------------------------
(* What the gate does                                                      *)

\* Nothing but the ledger changes, which may gain a decision of this run.
LEMMA WorldKept ==
  ASSUME World, UNCHANGED <<policy, evidence, clock, epoch, drilling, results>>,
         run'.n \in Nat, run.n <= run'.n,
         trail' = trail \/ \E g, v : trail' = Append(trail, Decision(run.n, g, v))
  PROVE  World'
<1>1. CASE trail' = trail
  <2>1. \A i \in DOMAIN trail : trail[i].kind = "decision" => trail[i].run <= run'.n
    <3>1. SameDecisions(trail, trail')
      BY <1>1 DEF SameDecisions
    <3> QED BY <1>1, <3>1, TrailsAlike DEF World
  <2> QED BY <1>1, <2>1 DEF World, Told
<1>2. CASE trail' # trail
  <2>1. PICK g, v : trail' = Append(trail, Decision(run.n, g, v))
    BY <1>2
  <2> DEFINE o == Decision(run.n, g, v)
  <2>2. IsEntry(o) /\ o.kind = "decision" /\ o.run = run.n
    BY DEF Decision, IsEntry, World
  <2> HIDE DEF o
  <2>3. Extends(trail, o, trail')
    BY <2>1, Appended DEF World, IsTrail, o
  <2>4. IsTrail(trail')
    BY <2>2, <2>3 DEF Extends, IsTrail, World
  <2>5. ASSUME NEW i \in DOMAIN trail', trail'[i].kind = "decision"
        PROVE  trail'[i].run <= run'.n
    <3>1. CASE i = Len(trail) + 1
      BY <2>2, <2>3, <3>1 DEF Extends
    <3>2. CASE i # Len(trail) + 1
      <4>1. i \in DOMAIN trail /\ trail'[i] = trail[i]
        BY <2>3, <3>2 DEF Extends
      <4>2. trail[i].run \in Nat /\ trail[i].run <= run.n /\ run.n \in Nat
        BY <2>5, <4>1 DEF World, IsTrail, IsEntry
      <4> QED BY <4>1, <4>2
    <3> QED BY <3>1, <3>2
  <2> QED BY <2>4, <2>5 DEF World, Told
<1> QED BY <1>1, <1>2

\* Results and trail stay, and so does what is said of them.
LEMMA SameWorld ==
  ASSUME UNCHANGED <<results, trail>>
  PROVE  /\ \A e, n : Told(e, n)' <=> Told(e, n)
         /\ \A n : Silent(n)' <=> Silent(n)
         /\ \A n, v : OnRecord(n, v)' <=> OnRecord(n, v)
BY DEF Told, Silent, OnRecord, DecisionOf

\* A start begins with nothing read and nothing recorded.
LEMMA StartKeepsGInv == ASSUME GInv, Start PROVE GInv'
<1>1. PICK q \in Requests : run' = [Run0 EXCEPT !.n = run.n + 1, !.req = q, !.from = Len(results)]
  BY DEF Start
<1>2. pc' = "policy" /\ UNCHANGED world
  BY DEF Start
<1>3. /\ run'.n = run.n + 1 /\ run'.req = q /\ run'.from = Len(results) /\ run'.entries = <<>>
      /\ run'.exit = 3 /\ DOMAIN run' = RunFields
  BY <1>1 DEF Run0, RunFields
<1>4. run.n \in Nat /\ Len(results) \in Nat
  BY LenProperties DEF GInv, World, IsSeq
<1>5. World'
  BY <1>2, <1>3, <1>4, WorldKept DEF GInv, world
<1>6. (IsTrail(run.entries) /\ Verifies(run.entries))'
  BY <1>3 DEF IsTrail, IsSeq, Verifies
<1>7. Running'
  BY <1>2, <1>3, <1>4, <1>6 DEF Running, world
<1>8. Silent(run'.n)
  <2>1. ASSUME NEW i, DecisionOf(run'.n, i) PROVE FALSE
    <3>1. i \in DOMAIN trail /\ trail[i].run = run.n + 1 /\ trail[i].run <= run.n
      BY <1>3, <2>1 DEF DecisionOf, GInv, World
    <3> QED BY <1>4, <3>1
  <2> QED BY <2>1 DEF Silent
<1>9. Silent(run.n)'
  BY <1>2, <1>8 DEF Silent, DecisionOf, world
<1> QED BY <1>2, <1>5, <1>7, <1>9 DEF GInv, Recorded

\* Reading a file, or failing to.
LEMMA LoadKeepsGInv == ASSUME GInv, LoadPolicy \/ LoadEvidence \/ LoadFails PROVE GInv'
<1>1. UNCHANGED world /\ run'.n = run.n /\ run'.req = run.req /\ run'.exit = run.exit /\ run'.from = run.from
      /\ run'.entries = run.entries /\ DOMAIN run' = DOMAIN run
      /\ (LoadPolicy => pc = "policy" /\ pc' = "evidence" /\ run'.policy = policy)
      /\ (LoadEvidence => pc = "evidence" /\ pc' = "ledger" /\ run'.evidence = evidence /\ run'.policy = run.policy)
      /\ (LoadFails => pc \in {"policy", "evidence", "ledger"} /\ pc' = "broken" /\ run' = run)
  BY DEF GInv, Running, RunFields, LoadPolicy, LoadEvidence, LoadFails
<1>2. run.n \in Nat /\ run.from \in Nat /\ Len(results) \in Nat /\ run.from <= Len(results)
  BY LenProperties DEF GInv, World, Running, IsSeq
<1>3. World'
  BY <1>1, <1>2, WorldKept DEF GInv, world
<1>4. run.exit = 3 /\ pc # "idle" /\ Silent(run.n) /\ run'.exit = 3
  BY <1>1 DEF GInv, Running, Recorded
<1>5. Told(evidence, run.from)
  <2>1. \A i : i \in DOMAIN results => \A j \in (i + 1)..run.from : j \in (i + 1)..Len(results)
    <3>1. DOMAIN results = 1..Len(results)
      BY LenProperties DEF GInv, World, IsSeq
    <3> QED BY <1>2, <3>1
  <2> QED BY <2>1 DEF GInv, World, Told
<1>6. /\ (IsTrail(run.entries) /\ Verifies(run.entries))'
      /\ policy \in Policies /\ IsEvidence(evidence)
  BY <1>1 DEF GInv, World, Running, IsTrail, IsSeq, IsEntry, Verifies
<1>7. Running'
  <2>1. /\ run'.req \in Requests /\ DOMAIN run' = RunFields /\ run'.from <= Len(results')
        /\ pc' \in {"evidence", "ledger", "broken"}
    BY <1>1, <1>2, <1>4 DEF GInv, Running, world
  <2>2. pc' \in {"evidence", "ledger"} => run'.policy \in Policies
    BY <1>1, <1>6 DEF GInv, Running
  <2>3. pc' = "ledger" => IsEvidence(run.evidence)' /\ Told(run.evidence, run.from)'
    BY <1>1, <1>5, <1>6, SameWorld DEF IsEvidence, RecordFields, world, Told
  <2> QED BY <1>1, <1>2, <1>4, <1>6, <2>1, <2>2, <2>3 DEF Running
<1>8. Recorded'
  <2>1. Silent(run.n)'
    BY <1>1, <1>4 DEF Silent, DecisionOf, world
  <2>2. pc' \in {"evidence", "ledger", "broken"}
    BY <1>1
  <2> QED BY <2>1, <2>2 DEF Recorded
<1> QED BY <1>3, <1>7, <1>8 DEF GInv

\* The ledger is taken as it is only if it verifies.
LEMMA ReadLedgerKeepsGInv == ASSUME GInv, ReadLedger PROVE GInv'
<1>1. /\ pc = "ledger" /\ UNCHANGED world
      /\ \/ pc' = "broken" /\ run' = run
         \/ pc' = "judge" /\ run' = [run EXCEPT !.entries = IF run.req.ledger THEN trail ELSE <<>>]
      /\ run.req.ledger /\ ~Verifies(trail) => pc' = "broken"
  BY DEF ReadLedger
<1>2. /\ run'.n = run.n /\ run'.req = run.req /\ run'.exit = run.exit /\ run'.from = run.from
      /\ run'.policy = run.policy /\ run'.evidence = run.evidence /\ DOMAIN run' = RunFields
      /\ run'.entries = run.entries \/ run'.entries = <<>> \/ (run'.entries = trail /\ Verifies(trail))
  <2>1. CASE run' = run
    BY <2>1 DEF GInv, Running
  <2>2. CASE pc' = "judge" /\ run' = [run EXCEPT !.entries = IF run.req.ledger THEN trail ELSE <<>>]
    <3>1. run.req.ledger => Verifies(trail)
      BY <1>1, <2>2
    <3>2. run'.entries = IF run.req.ledger THEN trail ELSE <<>>
      BY <2>2 DEF GInv, Running, RunFields
    <3>3. run'.entries = <<>> \/ (run'.entries = trail /\ Verifies(trail))
      BY <3>1, <3>2
    <3> QED BY <2>2, <3>3 DEF GInv, Running, RunFields
  <2> QED BY <1>1, <2>1, <2>2
<1>3. World'
  BY <1>1, <1>2, WorldKept DEF GInv, World, world
<1>4. (IsTrail(run.entries) /\ Verifies(run.entries))'
  <2>1. IsTrail(run'.entries) /\ Verifies(run'.entries)
    <3>1. IsTrail(<<>>) /\ Verifies(<<>>)
      BY DEF IsTrail, IsSeq, Verifies
    <3> QED BY <1>2, <3>1 DEF GInv, World, Running
  <2> QED BY <2>1 DEF IsTrail, IsSeq, IsEntry, Verifies
<1>5. run.exit = 3 /\ Silent(run.n)
  BY <1>1 DEF GInv, Running, Recorded
<1>6. IsEvidence(run.evidence)' /\ Told(run.evidence, run.from)'
  BY <1>1, <1>2 DEF GInv, Running, IsEvidence, RecordFields, Told, world
<1>7. Running'
  BY <1>1, <1>2, <1>4, <1>5, <1>6 DEF GInv, Running, world
<1>8. Silent(run.n)'
  BY <1>1, <1>2, <1>5 DEF Silent, DecisionOf, world
<1> QED BY <1>1, <1>3, <1>7, <1>8 DEF GInv, Recorded

\* The verdict follows from what was read, at one moment.
LEMMA JudgeRunKeepsGInv == ASSUME GInv, JudgeRun PROVE GInv'
<1> DEFINE now == IF run.req.asOf = 0 THEN clock ELSE run.req.asOf
<1>1. /\ pc = "judge" /\ UNCHANGED world /\ Judged(now)
      /\ pc' = IF Records(run) THEN "record" ELSE "done"
  BY DEF JudgeRun
<1>2. now \in Nat /\ run.req \in Requests
  BY <1>1, RequestAssumption DEF GInv, World, Running
<1> HIDE DEF now
<1>3. /\ run'.n = run.n /\ run'.req = run.req /\ run'.from = run.from /\ run'.policy = run.policy
      /\ run'.evidence = run.evidence /\ run'.entries = run.entries /\ DOMAIN run' = RunFields
      /\ run'.at = now /\ run'.found = FindingsAt(run, run.req.intents, now)
      /\ run'.excused = ActiveOverrides(run.entries, now) /\ run'.verdict = Overall(run'.found)
      /\ run'.exit = ExitCode(run'.verdict, run.req.failOnWarn)
  BY <1>1 DEF Judged, GInv, Running, RunFields
<1>4. World'
  BY <1>1, <1>3, WorldKept DEF GInv, World, world
<1>5. (IsTrail(run.entries) /\ Verifies(run.entries))'
  BY <1>3 DEF GInv, Running, IsTrail, IsSeq, IsEntry, Verifies
<1>6. IsEvidence(run.evidence)' /\ Told(run.evidence, run.from)'
  BY <1>1, <1>3 DEF GInv, Running, IsEvidence, RecordFields, Told, world
<1>7. FindingsAt(run', run'.req.intents, now) = FindingsAt(run, run.req.intents, now)
  BY <1>3 DEF FindingsAt
<1>8. JudgedAs(run')
  BY <1>2, <1>3, <1>7 DEF JudgedAs
<1>9. Running'
  <2>1. JudgedAs(run)'
    BY <1>8 DEF JudgedAs, FindingsAt, Context, Loosened, ActiveOverrides
  <2> QED BY <1>1, <1>2, <1>3, <1>5, <1>6, <2>1 DEF GInv, Running, world
<1>10. Silent(run.n)'
  BY <1>1, <1>3 DEF GInv, Recorded, Silent, DecisionOf, world
<1>11. Records(run') <=> Records(run)
  BY <1>3 DEF Records
<1>12. Recorded'
  <2>1. Records(run)' <=> Records(run)
    BY <1>11 DEF Records
  <2> QED BY <1>1, <1>10, <2>1 DEF Recorded
<1> QED BY <1>4, <1>9, <1>12 DEF GInv

\* A decision is appended, or it fails with or without the line.
LEMMA RecordKeepsGInv == ASSUME GInv, Record \/ RecordFails PROVE GInv'
<1> DEFINE o == Decision(run.n, "ran", run.verdict)
<1>1. /\ pc = "record" /\ pc' \in {"done", "broken"}
      /\ UNCHANGED <<policy, evidence, clock, epoch, drilling, results, run>>
      /\ trail' = trail \/ trail' = Append(trail, o)
      /\ pc' = "done" => trail' = Append(trail, o)
  BY DEF Record, RecordFails
<1>2. World'
  BY <1>1, WorldKept DEF GInv, World
<1>3. Running'
  <2>1. /\ JudgedAs(run)' <=> JudgedAs(run)
        /\ (IsTrail(run.entries) /\ Verifies(run.entries))' <=> IsTrail(run.entries) /\ Verifies(run.entries)
        /\ IsEvidence(run.evidence)' <=> IsEvidence(run.evidence)
        /\ Told(run.evidence, run.from)' <=> Told(run.evidence, run.from)
    BY <1>1 DEF JudgedAs, FindingsAt, Context, Loosened, ActiveOverrides, IsTrail, IsSeq, IsEntry,
                Verifies, IsEvidence, RecordFields, Told
  <2> QED BY <1>1, <2>1 DEF GInv, Running, RunFields
<1>4. Records(run) /\ Records(run)' /\ Silent(run.n) /\ run' = run
  BY <1>1 DEF GInv, Recorded, Records
<1>5. CASE pc' = "done"
  <2>1. o.kind = "decision" /\ o.run = run.n /\ o.gate = "ran" /\ o.verdict = run.verdict
    BY DEF Decision
  <2> HIDE DEF o
  <2>2. Extends(trail, o, trail')
    BY <1>1, <1>5, Appended DEF GInv, World, IsTrail
  <2>3. PICK k : k = Len(trail) + 1
    OBVIOUS
  <2>4. /\ k \in DOMAIN trail' /\ trail'[k] = o
        /\ \A j \in DOMAIN trail' : j = k \/ (j \in DOMAIN trail /\ trail'[j] = trail[j])
    <3>1. Len(trail) \in Nat /\ DOMAIN trail = 1..Len(trail) /\ DOMAIN trail' = 1..k
      BY <2>2, <2>3 DEF Extends
    <3>2. \A j \in DOMAIN trail' : j = k \/ j \in DOMAIN trail
      BY <2>3, <3>1
    <3> QED BY <2>2, <2>3, <3>1, <3>2 DEF Extends
  <2>5. OnRecord(run.n, run.verdict)'
    BY <1>4, <2>1, <2>4 DEF OnRecord, Silent, DecisionOf
  <2> QED BY <1>2, <1>3, <1>4, <1>5, <2>5 DEF GInv, Recorded
<1>6. CASE pc' = "broken"
  BY <1>2, <1>3, <1>4, <1>6 DEF GInv, Recorded
<1> QED BY <1>1, <1>5, <1>6

\* A gate that is broken says so, whatever it had found.
LEMMA BrokenKeepsGInv == ASSUME GInv, Broken PROVE GInv'
<1>1. /\ pc = "broken" /\ pc' = "done" /\ UNCHANGED <<policy, evidence, clock, epoch, drilling, results>>
      /\ run' = [run EXCEPT !.verdict = "block", !.exit = 3, !.found = {}, !.excused = {}]
      /\ trail' = trail \/ trail' = Append(trail, Decision(run.n, "broken", "block"))
      /\ ~Records(run) => trail' = trail
  BY DEF Broken
<1>2. /\ run'.n = run.n /\ run'.req = run.req /\ run'.from = run.from /\ run'.entries = run.entries
      /\ run'.exit = 3 /\ DOMAIN run' = RunFields
  BY <1>1 DEF GInv, Running, RunFields
<1>3. World'
  BY <1>1, <1>2, WorldKept DEF GInv, World
<1>4. (IsTrail(run.entries) /\ Verifies(run.entries))'
  BY <1>2 DEF GInv, Running, IsTrail, IsSeq, IsEntry, Verifies
<1>5. Running'
  BY <1>1, <1>2, <1>4 DEF GInv, Running
<1>6. Records(run)' <=> Records(run)
  BY <1>2 DEF Records
<1>7. ~Records(run) => Silent(run.n)'
  BY <1>1, <1>2 DEF GInv, Recorded, Silent, DecisionOf
<1> QED BY <1>1, <1>2, <1>3, <1>5, <1>6, <1>7 DEF GInv, Recorded

LEMMA InitGInv == Init => GInv
<1> SUFFICES ASSUME Init PROVE GInv
  OBVIOUS
<1>1. /\ policy \in Policies /\ trail = <<>> /\ clock = 1 /\ epoch = 1 /\ drilling = Absent
      /\ pc = "idle" /\ run = Run0 /\ results = <<>>
      /\ evidence = [proofs |-> Unproved, facts |-> Facts, drills |-> [q \in Proofs |-> CHOOSE r \in Recipes : TRUE]]
  BY DEF Init
<1>2. IsEvidence(evidence) /\ Told(evidence, Len(results))
  BY <1>1 DEF IsEvidence, Told, Unproved
<1>3. IsTrail(<<>>) /\ IsSeq(<<>>) /\ Verifies(<<>>)
  BY DEF IsTrail, IsSeq, Verifies
<1>4. run.n = 0 /\ run.from = 0 /\ run.entries = <<>> /\ run.exit = 3 /\ DOMAIN run = RunFields
  BY <1>1 DEF Run0, RunFields
<1>5. World
  BY <1>1, <1>2, <1>3, <1>4 DEF World
<1>6. Running /\ Recorded
  BY <1>1, <1>3, <1>4 DEF Running, Recorded
<1> QED BY <1>5, <1>6 DEF GInv

LEMMA NextGInv == ASSUME GInv, [Next]_vars PROVE GInv'
<1>1. CASE Preflight
  BY <1>1, StartKeepsGInv, LoadKeepsGInv, ReadLedgerKeepsGInv, JudgeRunKeepsGInv, RecordKeepsGInv, BrokenKeepsGInv
     DEF Preflight
<1>2. CASE Environment
  BY <1>2, EnvironmentKeepsGInv
<1>3. CASE UNCHANGED vars
  <2>1. UNCHANGED <<policy, evidence, trail, clock, epoch, drilling, results, pc, run>>
    BY <1>3 DEF vars, world
  <2>2. World'
    BY <2>1, WorldKept DEF GInv, World
  <2>3. /\ JudgedAs(run)' <=> JudgedAs(run)
        /\ (IsTrail(run.entries) /\ Verifies(run.entries))' <=> IsTrail(run.entries) /\ Verifies(run.entries)
        /\ IsEvidence(run.evidence)' <=> IsEvidence(run.evidence)
        /\ Told(run.evidence, run.from)' <=> Told(run.evidence, run.from)
    BY <2>1 DEF JudgedAs, FindingsAt, Context, Loosened, ActiveOverrides, IsTrail, IsSeq, IsEntry,
                Verifies, IsEvidence, RecordFields, Told
  <2>4. Running'
    BY <2>1, <2>3 DEF GInv, Running, RunFields
  <2>5. Recorded'
    BY <2>1, SameWorld DEF GInv, Recorded, Records
  <2> QED BY <2>2, <2>4, <2>5 DEF GInv
<1> QED BY <1>1, <1>2, <1>3 DEF Next

-----------------------------------------------------------------------------
(* What the invariant gives                                                *)

\* The context that a run has judged by.
Seen == Context(run.policy, run.evidence)

LEMMA SeenIsDated ==
  ASSUME GInv, run.exit # 3
  PROVE  Dated(Seen) /\ run.at \in Nat /\ run.req \in Requests /\ JudgedAs(run)
<1>1. run.policy \in Policies /\ IsEvidence(run.evidence) /\ JudgedAs(run)
  BY DEF GInv, Running
<1>2. /\ Seen.guards = run.policy.guards /\ Seen.proofs = run.evidence.proofs
      /\ Seen.facts = Facts
  BY <1>1 DEF Seen, Context, IsEvidence
<1>3. Dated(Seen)
  BY <1>1, <1>2, ContextAssumption DEF Dated, IsEvidence
<1>4. pc # "idle"
  BY DEF GInv, Running
<1> QED BY <1>1, <1>3, <1>4 DEF GInv, Running, JudgedAs

\* What blocks a change that passed was excused.
LEMMA PassedMeans ==
  ASSUME GInv, Passed
  PROVE  /\ run.exit # 3
         /\ \A f \in Evaluate(run.req.intents, Seen, run.at, run.req.strict) :
              f.verdict = "block" => f.id \in run.excused
<1>1. run.exit = 0 /\ JudgedAs(run)
  BY SeenIsDated DEF Passed
<1>2. Overall(run.found) # "block"
  BY <1>1 DEF JudgedAs, ExitCode
<1>3. \A f \in run.found : f.verdict # "block"
  BY <1>2, OverallIs
<1>4. ASSUME NEW f \in Evaluate(run.req.intents, Seen, run.at, run.req.strict),
             f.verdict = "block", f.id \notin run.excused
      PROVE  FALSE
  <2>1. f \in ApplyOverrides(Evaluate(run.req.intents, Seen, run.at, run.req.strict), run.excused)
    BY <1>4 DEF ApplyOverrides
  <2>2. f \in run.found
    BY <1>1, <2>1 DEF JudgedAs, FindingsAt, Seen
  <2> QED BY <1>3, <1>4, <2>2
<1> QED BY <1>1, <1>4

LEMMA PresentIsShown ==
  ASSUME GInv, run.exit # 3, NEW x \in DOMAIN run.policy.guards, run.policy.guards[x].requireBound,
         NEW q \in run.policy.guards[x].proofs, ~Conflict(q, run.req.intents, Seen),
         CheckProofWithBinding(run.policy.guards[x], q, Seen, run.at) = "present"
  PROVE  \E i \in DOMAIN results : Backs(i, q, run.policy.guards[x], run)
<1> DEFINE g == run.policy.guards[x]
           r == run.evidence.proofs[q]
           drill == IF q \in DOMAIN run.evidence.drills THEN run.evidence.drills[q] ELSE Absent
<1>1. IsEvidence(run.evidence) /\ Told(run.evidence, run.from)
  BY DEF GInv, Running
<1>2. /\ Seen.guards = run.policy.guards /\ Seen.proofs = run.evidence.proofs
      /\ Seen.drills = run.evidence.drills
  BY DEF Seen, Context
<1>3. q \in DOMAIN run.evidence.proofs
  BY <1>2 DEF CheckProofWithBinding
<1>4. /\ EvaluateProof(r, run.at) = "present" /\ Binding(r, drill, g.requireBound) = "present"
      /\ Demands(g, r, run.at) = "present"
  BY <1>2, <1>3 DEF CheckProofWithBinding
<1>5. PICK i \in DOMAIN results : /\ LeftBy(results[i], q, r)
                                  /\ \A j \in (i + 1)..run.from : results[j].proof # q
  BY <1>1, <1>3 DEF Told
<1>6. r.digest # Absent /\ r.digest = drill /\ r.deps = drill.deps /\ drill = run.evidence.drills[q]
  BY <1>4 DEF Binding
<1>7. r.status \notin {"disputed", "unreachable"}
  BY <1>4 DEF EvaluateProof
<1>8. /\ results[i].proof = q /\ results[i].by = "drill" /\ results[i].recipe = r.digest
      /\ results[i].good /\ results[i].at = r.observed /\ r.deps = r.digest.deps
  BY <1>5, <1>6, <1>7 DEF LeftBy
<1>9. g.maxAge > 0 => run.at <= results[i].at + g.maxAge
  <2>1. g.maxAge \in Nat /\ r.observed \in Nat /\ run.at \in Nat
    BY <1>2, <1>3, SeenIsDated DEF Dated
  <2> QED BY <1>4, <1>8, <2>1 DEF Demands
<1>10. \A ci \in run.req.intents : ~Touches(results[i].recipe.deps, ci)
  BY <1>2, <1>3, <1>8 DEF Conflict
<1> QED BY <1>5, <1>6, <1>8, <1>9, <1>10 DEF Backs

LEMMA Backed == ASSUME GInv PROVE PassIsBacked
<1> SUFFICES ASSUME Passed, NEW x \in InForce(run), run.policy.guards[x].enforcement = "block",
                    run.policy.guards[x].requireBound, NEW q \in run.policy.guards[x].proofs
             PROVE  \E i \in DOMAIN results : Backs(i, q, run.policy.guards[x], run)
  BY DEF PassIsBacked
<1> DEFINE g == run.policy.guards[x]
<1>1. PICK ci \in run.req.intents : GuardMatches(g, ci) /\ <<g.kind, x, Resource(g, ci)>> \notin run.excused
  BY DEF InForce
<1>2. x \in DOMAIN run.policy.guards /\ run.exit # 3
  BY PassedMeans DEF InForce
<1> DEFINE f == Finding(<<g.kind, x, Resource(g, ci)>>, Judge(g, run.req.intents, Seen, run.at))
<1>3. f.id = <<g.kind, x, Resource(g, ci)>> /\ f.verdict = Judge(g, run.req.intents, Seen, run.at)
  BY DEF Finding
<1>4. f \in Evaluate(run.req.intents, Seen, run.at, run.req.strict)
  <2>1. Seen.guards = run.policy.guards
    BY DEF Seen, Context
  <2>2. f \in GuardFindings(ci, run.req.intents, Seen, run.at)
    BY <1>1, <1>2, <2>1 DEF GuardFindings
  <2> HIDE DEF f
  <2> QED BY <1>1, <2>2 DEF Evaluate, EvaluateIntent
<1> HIDE DEF f
<1>5. Judge(g, run.req.intents, Seen, run.at) # "block"
  BY <1>1, <1>3, <1>4, PassedMeans
<1>6. ProofStatus(g, run.req.intents, Seen, run.at) \in {"present", "not_required"}
  BY <1>5 DEF Judge, Decide
<1>7. ~Conflict(q, run.req.intents, Seen) /\ CheckProofWithBinding(g, q, Seen, run.at) = "present"
  BY <1>6, Satisfied DEF Demanding
<1> QED BY <1>2, <1>7, PresentIsShown

LEMMA Ended == ASSUME GInv PROVE OverrideEnds
<1> SUFFICES ASSUME Passed, NEW f \in Evaluate(run.req.intents, Seen, run.at, run.req.strict), f.verdict = "block"
             PROVE  \E i \in DOMAIN run.entries :
                      LET o == run.entries[i]
                      IN  /\ o.kind = "override" /\ o.finding = f.id /\ run.at < o.expires
                          /\ o.anchored \/ run.at < o.at + MaxExpiry
  BY DEF OverrideEnds, Seen
<1>1. f.id \in ActiveOverrides(run.entries, run.at) /\ run.at \in Nat
  BY PassedMeans, SeenIsDated DEF JudgedAs
<1>2. PICK i \in DOMAIN run.entries : /\ run.entries[i].kind = "override" /\ run.at < run.entries[i].expires
                                      /\ run.entries[i].finding = f.id
  BY <1>1 DEF ActiveOverrides
<1> DEFINE o == run.entries[i]
<1>3. IsEntry(o) /\ (o.altered => o.anchored)
  BY DEF GInv, Running, IsTrail, Verifies
<1>4. o.altered \/ run.at < o.at + MaxExpiry
  BY <1>1, <1>2, <1>3, BoundAssumption DEF IsEntry
<1> QED BY <1>2, <1>3, <1>4

LEMMA NoGain == ASSUME GInv PROVE NothingGained
<1> SUFFICES ASSUME Answered PROVE /\ \A ci \in run.req.intents :
                                        Severity(Overall(FindingsAt(run, {ci}, run.at))) <= Severity(run.verdict)
                                   /\ \A t \in Time : t >= run.at =>
                                        Severity(Overall(FindingsAt(run, run.req.intents, t))) >= Severity(run.verdict)
  BY DEF NothingGained, BatchHidesNothing, LaterIsNoMilder
<1>1. Dated(Context(run.policy, run.evidence)) /\ run.at \in Nat /\ JudgedAs(run)
  BY SeenIsDated DEF Answered, Seen
<1>2. run.verdict = Overall(FindingsAt(run, run.req.intents, run.at))
  BY <1>1 DEF JudgedAs
<1>3. ASSUME NEW ci \in run.req.intents
      PROVE  Severity(Overall(FindingsAt(run, {ci}, run.at))) <= Severity(run.verdict)
  <2>1. {ci} \subseteq run.req.intents /\ run.at <= run.at
    BY <1>1
  <2> QED BY <1>1, <1>2, <2>1, JudgedNoLess
<1>4. ASSUME NEW t \in Time, t >= run.at
      PROVE  Severity(Overall(FindingsAt(run, run.req.intents, t))) >= Severity(run.verdict)
  <2>1. t \in Nat /\ run.at <= t
    BY <1>1, <1>4, BoundAssumption DEF Time
  <2>2. ActiveOverrides(run.entries, t) \subseteq ActiveOverrides(run.entries, run.at)
    <3>1. \A i \in DOMAIN run.entries : run.entries[i].kind = "override" => run.entries[i].expires \in Nat
      BY DEF GInv, Running, IsTrail, IsEntry
    <3> QED BY <1>1, <2>1, <3>1 DEF ActiveOverrides
  <2>3. Severity(Overall(FindingsAt(run, run.req.intents, run.at)))
          <= Severity(Overall(FindingsAt(run, run.req.intents, t)))
    BY <1>1, <2>1, <2>2, JudgedNoLess
  <2>4. \A F : Severity(Overall(F)) \in Nat
    BY OverallIs DEF Severity, Verdict
  <2> QED BY <1>2, <2>3, <2>4
<1> QED BY <1>3, <1>4

LEMMA Explicit == ASSUME GInv PROVE CoverageIsExplicit
<1> SUFFICES ASSUME Passed, run.req.strict, run.excused = {}, NEW ci \in run.req.intents, NEW v \in ci.paths
             PROVE  \E x \in DOMAIN run.policy.guards :
                      LET m == run.policy.guards[x].match
                      IN  /\ GuardMatches(run.policy.guards[x], [ci EXCEPT !.paths = {v}])
                          /\ \/ \E p \in m.paths : <<p, v>> \in Glob
                             \/ m.paths \cup m.commands \cup m.packages = {}
  BY DEF CoverageIsExplicit
<1> DEFINE f == Finding(<<"coverage", ci.actions, v>>, "block")
<1>1. f \notin Evaluate(run.req.intents, Seen, run.at, run.req.strict)
  BY PassedMeans DEF Finding
<1>2. f \notin CoverageFindings(ci, Seen)
  BY <1>1 DEF Evaluate, EvaluateIntent
<1>3. <<"paths", v>> \notin Uncovered(ci, Seen)
  <2> SUFFICES ASSUME <<"paths", v>> \in Uncovered(ci, Seen) PROVE FALSE
    OBVIOUS
  <2>1. PICK dv \in Uncovered(ci, Seen) : dv = <<"paths", v>>
    OBVIOUS
  <2>2. f = Finding(<<"coverage", ci.actions, dv[2]>>, "block")
    BY <2>1
  <2> HIDE DEF f
  <2> QED BY <1>2, <2>2 DEF CoverageFindings
<1>4. <<"paths", v>> \in UNION {{d} \X ci[d] : d \in {"paths", "commands", "packages"}}
  OBVIOUS
<1>5. PICK x \in DOMAIN Seen.guards : Covers(Seen.guards[x], ci, "paths", v)
  BY <1>3, <1>4 DEF Uncovered
<1>6. Seen.guards = run.policy.guards
  BY DEF Seen, Context
<1> DEFINE g == run.policy.guards[x]
<1>7. GuardMatches(g, [ci EXCEPT !.paths = {v}])
  BY <1>5, <1>6 DEF Covers
<1>8. g.match.paths \cup g.match.commands \cup g.match.packages = {} \/ g.match.paths # {}
  BY <1>5, <1>6 DEF Covers, Populated, Dim
<1>9. g.match.paths # {} => \E p \in g.match.paths : <<p, v>> \in Glob
  BY <1>5, <1>6 DEF Covers
<1> QED BY <1>5, <1>6, <1>7, <1>8, <1>9

LEMMA InLedger == ASSUME GInv PROVE DecisionOnRecord
<1>1. CASE pc = "done" /\ Records(run) /\ run.exit # 3
  <2>1. PICK i : /\ DecisionOf(run.n, i) /\ trail[i].gate = "ran" /\ trail[i].verdict = run.verdict
                 /\ \A j : DecisionOf(run.n, j) /\ trail[j].gate = "ran" => j = i
    BY <1>1 DEF GInv, Recorded, OnRecord
  <2>2. RanEntries(run.n) = {i}
    BY <2>1 DEF RanEntries, DecisionOf
  <2> QED BY <1>1, <2>1, <2>2 DEF DecisionOnRecord
<1>2. CASE pc = "done" /\ ~Records(run)
  BY <1>2 DEF GInv, Recorded, Silent, DecisionOf, DecisionOnRecord
<1> QED BY <1>1, <1>2 DEF DecisionOnRecord

-----------------------------------------------------------------------------
(* Theorems                                                                *)

\* The invariant holds of every behaviour.
THEOREM Invariance == Spec => []GInv
<1>1. GInv /\ [Next]_vars => GInv'
  BY NextGInv
<1> QED BY InitGInv, <1>1, PTL DEF Spec

\* A change passes a guard with require_bound only on a recovery that was run, of
\* the recipe that the gate saw, and not followed by another result of it.
THEOREM PassesAreBacked == Spec => []PassIsBacked
BY Invariance, Backed, PTL

\* A caller that is told a verdict finds it in the ledger, once.
THEOREM DecisionsAreRecorded == Spec => []DecisionOnRecord
BY Invariance, InLedger, PTL

\* An override lets through one finding, and no longer than MaxOverrideExpiry
\* unless the owner vouched for its change.
THEOREM OverridesEnd == Spec => []OverrideEnds
BY Invariance, Ended, PTL

\* Neither company nor time makes a verdict milder.
THEOREM NobodyGains == Spec => []NothingGained
BY Invariance, NoGain, PTL

\* A strict pass names a guard for each path.
THEOREM StrictPassIsCovered == Spec => []CoverageIsExplicit
BY Invariance, Explicit, PTL

-----------------------------------------------------------------------------
(* Types.  Two entries at most come of a run, one of an override, and each  *)
(* takes a step: a record that failed may have left a line all the same.    *)

\* How many entries the run under way may still append.
Due == CASE pc \in {"policy", "evidence", "ledger", "judge", "record"} -> 2
         [] pc = "broken" -> 1
         [] OTHER -> 0

Files ==
  /\ evidence.drills \in [Proofs -> Recipes] /\ DOMAIN evidence.proofs \subseteq Proofs
  /\ clock \in Time /\ epoch \in 1..MaxEpoch
  /\ drilling # Absent => drilling.proof \in Proofs

Answer ==
  /\ run.verdict \in Verdict /\ run.exit \in {0, 1, 3}
  /\ pc \in {"evidence", "ledger", "judge", "record"} => run.policy \in Policies

Paced == steps \in 0..MaxSteps /\ Len(trail) + Due <= 2 * steps

Typed == Files /\ Answer /\ Paced

LEMMA TrailLength ==
  ASSUME GInv, NEW x, trail' \in {trail, Append(trail, x)}
  PROVE  Len(trail) \in Nat /\ Len(trail') \in Nat /\ Len(trail') <= Len(trail) + 1
<1>1. IsSeq(trail)
  BY DEF GInv, World, IsTrail
<1>2. Len(trail) \in Nat
  BY <1>1, LenProperties DEF IsSeq
<1>3. CASE trail' = Append(trail, x)
  BY <1>1, <1>2, <1>3, Appended DEF Extends
<1> QED BY <1>2, <1>3

\* Steps of the gate move it on and, with them, what is due.
LEMMA PacedKept ==
  ASSUME GInv, Paced, steps' \in 0..MaxSteps, Len(trail') \in Nat, Len(trail') <= Len(trail) + 1,
         \/ steps' = steps /\ Due' + 1 <= Due
         \/ steps' = steps + 1 /\ Due' <= Due /\ Due \in 0..2
         \/ steps' = steps /\ Due' <= Due /\ Len(trail') = Len(trail)
         \/ steps' = steps + 1 /\ Due = 0 /\ Due' = 2 /\ Len(trail') = Len(trail),
         Due \in 0..2, Due' \in 0..2
  PROVE  Paced'
<1>1. Len(trail) \in Nat /\ steps \in Nat /\ steps' \in Nat
  <2>1. IsSeq(trail)
    BY DEF GInv, World, IsTrail
  <2> QED BY <2>1, LenProperties, BoundAssumption DEF IsSeq, Paced
<1>2. \A a, b, d, e, m, n \in Nat :
        a + d <= 2 * m /\ b <= a + 1 /\ d <= 2 =>
          /\ n = m /\ e + 1 <= d => b + e <= 2 * n
          /\ n = m + 1 /\ e <= d => b + e <= 2 * n
          /\ n = m /\ e <= d /\ b = a => b + e <= 2 * n
          /\ n = m + 1 /\ d = 0 /\ e = 2 /\ b = a => b + e <= 2 * n
  OBVIOUS
<1>3. Len(trail) + Due <= 2 * steps /\ Due \in Nat /\ Due' \in Nat /\ Due <= 2
  BY DEF Paced
<1>4. Len(trail') + Due' <= 2 * steps'
  BY <1>1, <1>2, <1>3
<1> QED BY <1>4 DEF Paced

LEMMA DueIs ==
  ASSUME pc \in {"idle", "policy", "evidence", "ledger", "judge", "record", "broken", "done"}
  PROVE  /\ Due \in 0..2
         /\ pc \in {"policy", "evidence", "ledger", "judge", "record"} => Due = 2
         /\ pc = "broken" => Due = 1
         /\ pc \in {"idle", "done"} => Due = 0
BY DEF Due

\* What becomes of the evidence when a record is written.
LEMMA WrittenTyped ==
  ASSUME GInv, Files, NEW q \in Proofs, NEW r, evidence' = [evidence EXCEPT !.proofs = Written(q, r)]
  PROVE  evidence'.drills \in [Proofs -> Recipes] /\ DOMAIN evidence'.proofs \subseteq Proofs
<1>1. DOMAIN evidence = {"proofs", "facts", "drills"}
  BY DEF GInv, World, IsEvidence
<1>2. evidence'.drills = evidence.drills /\ evidence'.proofs = Written(q, r)
  BY <1>1
<1>3. DOMAIN Written(q, r) = DOMAIN evidence.proofs \cup {q}
  BY DEF Written
<1> QED BY <1>2, <1>3 DEF Files

LEMMA InitTyped == Init => Typed
<1> SUFFICES ASSUME Init PROVE Typed
  OBVIOUS
<1>1. Files
  <2>1. (CHOOSE r \in Recipes : TRUE) \in Recipes
    BY DrillAssumption
  <2>2. evidence.drills \in [Proofs -> Recipes] /\ DOMAIN evidence.proofs = {} /\ clock = 1 /\ epoch = 1
        /\ drilling = Absent
    BY <2>1 DEF Init, Unproved
  <2> QED BY <2>2, BoundAssumption DEF Files, Time
<1>2. Answer
  BY DEF Init, Run0, Answer, Verdict
<1>3. Paced
  <2>1. Len(trail) = 0 /\ steps = 0 /\ Due = 0
    BY DEF Init, Due
  <2> QED BY <2>1, BoundAssumption DEF Paced
<1> QED BY <1>1, <1>2, <1>3 DEF Typed

LEMMA PreflightKeepsTyped == ASSUME GInv, GInv', Typed, Preflight PROVE Typed'
<1>t. /\ policy \in Policies /\ DOMAIN run = RunFields /\ Len(trail) \in Nat /\ steps \in 0..MaxSteps
      /\ steps \in Nat /\ MaxSteps \in Nat
      /\ pc \in {"idle", "policy", "evidence", "ledger", "judge", "record", "broken", "done"}
      /\ pc' \in {"idle", "policy", "evidence", "ledger", "judge", "record", "broken", "done"}
  <2>1. IsSeq(trail)
    BY DEF GInv, World, IsTrail
  <2> QED BY <2>1, LenProperties, BoundAssumption DEF GInv, World, Running, Typed, Paced, IsSeq
<1>d. /\ Due \in 0..2 /\ Due' \in 0..2
      /\ pc \in {"policy", "evidence", "ledger", "judge", "record"} => Due = 2
      /\ pc' \in {"policy", "evidence", "ledger", "judge", "record"} => Due' = 2
      /\ pc = "broken" => Due = 1
      /\ pc' = "broken" => Due' = 1
      /\ pc \in {"idle", "done"} => Due = 0
      /\ pc' \in {"idle", "done"} => Due' = 0
  BY <1>t, DueIs DEF Due
<1>1. Files'
  BY DEF Preflight, Start, LoadPolicy, LoadEvidence, LoadFails, ReadLedger, JudgeRun, Record, RecordFails,
         Broken, world, Typed, Files
<1>2. Answer'
  <2>1. CASE Start
    BY <2>1 DEF Start, Run0, Answer, Verdict
  <2>2. CASE LoadPolicy \/ LoadEvidence \/ ReadLedger
    <3>1. run'.verdict = run.verdict /\ run'.exit = run.exit
      BY <1>t, <2>2 DEF LoadPolicy, LoadEvidence, ReadLedger, RunFields
    <3>2. CASE LoadPolicy
      BY <1>t, <3>1, <3>2 DEF LoadPolicy, RunFields, Typed, Answer
    <3>3. CASE LoadEvidence \/ ReadLedger
      <4>1. run'.policy = run.policy /\ pc \in {"evidence", "ledger"}
        BY <1>t, <3>3 DEF LoadEvidence, ReadLedger, RunFields
      <4> QED BY <3>1, <4>1 DEF Typed, Answer
    <3> QED BY <2>2, <3>2, <3>3
  <2>3. CASE LoadFails \/ Record \/ RecordFails
    BY <2>3 DEF LoadFails, Record, RecordFails, Typed, Answer
  <2>4. CASE JudgeRun
    <3>1. PICK now : Judged(now)
      BY <2>4 DEF JudgeRun
    <3> DEFINE v == Overall(FindingsAt(run, run.req.intents, now))
    <3>2. run'.verdict = v /\ run'.exit = ExitCode(v, run.req.failOnWarn) /\ run'.policy = run.policy
      BY <1>t, <3>1 DEF Judged, RunFields
    <3>3. v \in Verdict
      BY OverallIs
    <3> HIDE DEF v
    <3>4. ExitCode(v, run.req.failOnWarn) \in {0, 1, 3}
      BY DEF ExitCode
    <3> QED BY <2>4, <3>2, <3>3, <3>4 DEF JudgeRun, Typed, Answer
  <2>5. CASE Broken
    BY <1>t, <2>5 DEF Broken, RunFields, Answer, Verdict
  <2> QED BY <2>1, <2>2, <2>3, <2>4, <2>5 DEF Preflight
<1>3. Paced'
  <2>1. CASE Start
    <3>1. steps' = steps + 1 /\ steps < MaxSteps /\ trail' = trail /\ pc \in {"idle", "done"} /\ pc' = "policy"
      BY <2>1 DEF Start, Spend, world
    <3> QED BY <1>t, <1>d, <3>1, PacedKept DEF Typed
  <2>2. CASE LoadPolicy \/ LoadEvidence \/ LoadFails \/ ReadLedger \/ JudgeRun
    <3>1. /\ steps' = steps /\ trail' = trail /\ pc \in {"policy", "evidence", "ledger", "judge"}
          /\ pc' \in {"evidence", "ledger", "judge", "record", "broken", "done"}
      BY <2>2 DEF LoadPolicy, LoadEvidence, LoadFails, ReadLedger, JudgeRun, world
    <3>2. Due' <= Due
      BY <1>d, <3>1
    <3> QED BY <1>t, <1>d, <3>1, <3>2, PacedKept DEF Typed
  <2>3. CASE Record \/ RecordFails \/ Broken
    <3>1. /\ steps' = steps /\ \E x : trail' \in {trail, Append(trail, x)}
          /\ \/ pc = "record" /\ pc' \in {"done", "broken"}
             \/ pc = "broken" /\ pc' = "done"
      BY <2>3 DEF Record, RecordFails, Broken
    <3>2. Len(trail') \in Nat /\ Len(trail') <= Len(trail) + 1
      BY <3>1, TrailLength
    <3>3. Due' + 1 <= Due
      <4>1. CASE pc = "record" /\ pc' \in {"done", "broken"}
        <5>1. Due = 2
          BY <4>1, <1>d
        <5>2. Due' = 0 \/ Due' = 1
          BY <4>1, <1>d
        <5>3. CASE Due' = 0
          BY <5>1, <5>3
        <5>4. CASE Due' = 1
          BY <5>1, <5>4
        <5> QED BY <5>2, <5>3, <5>4
      <4>2. CASE pc = "broken" /\ pc' = "done"
        <5>1. Due = 1 /\ Due' = 0
          BY <4>2 DEF Due
        <5> QED BY <5>1
      <4> QED BY <3>1, <4>1, <4>2
    <3> QED BY <1>t, <1>d, <3>1, <3>2, <3>3, PacedKept DEF Typed
  <2> QED BY <2>1, <2>2, <2>3 DEF Preflight
<1> QED BY <1>1, <1>2, <1>3 DEF Typed

LEMMA EnvironmentKeepsTyped == ASSUME GInv, Typed, Environment PROVE Typed'
<1>t. /\ Len(trail) \in Nat /\ IsSeq(trail) /\ steps \in 0..MaxSteps /\ steps \in Nat /\ MaxSteps \in Nat
      /\ DOMAIN evidence = {"proofs", "facts", "drills"} /\ DOMAIN run = RunFields
      /\ pc \in {"idle", "policy", "evidence", "ledger", "judge", "record", "broken", "done"}
  <2>1. IsSeq(trail)
    BY DEF GInv, World, IsTrail
  <2> QED BY <2>1, LenProperties, BoundAssumption DEF GInv, World, Running, IsEvidence, Typed, Paced, IsSeq
<1>1. Files'
  <2>1. CASE DrillBegins
    BY <2>1 DEF DrillBegins, Typed, Files
  <2>2. ASSUME NEW q \in Proofs, NEW r, evidence' = [evidence EXCEPT !.proofs = Written(q, r)],
               UNCHANGED <<clock, epoch>>, drilling' \in {drilling, Absent}
        PROVE  Files'
    BY <2>2, WrittenTyped DEF Typed, Files
  <2>3. CASE DrillEnds
    <3>1. drilling.proof \in Proofs
      BY <2>3 DEF DrillEnds, Typed, Files
    <3> QED BY <2>2, <2>3, <3>1 DEF DrillEnds
  <2>4. CASE PinCheckFails
    BY <2>2, <2>4 DEF PinCheckFails
  <2>5. CASE Ingest
    BY <2>2, <2>5 DEF Ingest
  <2>6. CASE Accept \/ EditRecipe
    <3>1. UNCHANGED <<clock, epoch, drilling>>
      BY <2>6 DEF Accept, EditRecipe
    <3>2. evidence'.drills \in [Proofs -> Recipes] /\ DOMAIN evidence'.proofs \subseteq Proofs
      <4>1. CASE Accept
        BY <1>t, <4>1 DEF Accept, Typed, Files
      <4>2. CASE EditRecipe
        BY <1>t, <4>2 DEF EditRecipe, Typed, Files
      <4> QED BY <2>6, <4>1, <4>2
    <3> QED BY <3>1, <3>2 DEF Typed, Files
  <2>7. CASE EditPolicy \/ Acknowledge \/ Alter \/ Anchor
    BY <2>7 DEF EditPolicy, Acknowledge, Alter, Anchor, Typed, Files
  <2>8. CASE Tick \/ Reinstall
    <3>1. clock' \in Time /\ epoch' \in 1..MaxEpoch
      BY <2>8, BoundAssumption DEF Tick, Reinstall, Typed, Files, Time
    <3> QED BY <2>8, <3>1 DEF Tick, Reinstall, Typed, Files
  <2> QED BY <2>1, <2>3, <2>4, <2>5, <2>6, <2>7, <2>8 DEF Environment
<1>2. Answer'
  <2>1. CASE UNCHANGED <<pc, run>>
    BY <2>1 DEF Typed, Answer
  <2>2. CASE Reinstall
    BY <2>2 DEF Reinstall, Run0, Answer, Verdict
  <2> QED BY <2>1, <2>2 DEF Environment, DrillBegins, DrillEnds, PinCheckFails, Ingest, Accept, EditRecipe,
                            EditPolicy, Acknowledge, Alter, Anchor, Tick, Others
<1>3. Paced'
  <2>d. Due \in 0..2
    BY <1>t, DueIs
  <2>1. /\ steps' \in {steps, steps + 1} /\ steps' \in 0..MaxSteps
        /\ steps' = steps => trail' = trail /\ pc' = pc
    <3>1. Spend \/ (steps' = steps /\ trail' = trail /\ pc' = pc)
      BY DEF Environment, DrillBegins, DrillEnds, PinCheckFails, Ingest, Accept, EditRecipe,
             EditPolicy, Acknowledge, Alter, Anchor, Tick, Reinstall, Others
    <3> QED BY <1>t, <3>1 DEF Spend
  <2>2. pc' = pc \/ pc' = "idle"
    BY DEF Environment, DrillBegins, DrillEnds, PinCheckFails, Ingest, Accept, EditRecipe,
           EditPolicy, Acknowledge, Alter, Anchor, Tick, Reinstall, Others
  <2>3. Due' <= Due /\ Due' \in 0..2
    <3>1. CASE pc' = pc
      BY <2>d, <3>1 DEF Due
    <3>2. CASE pc' = "idle"
      BY <2>d, <3>2 DEF Due
    <3> QED BY <2>2, <3>1, <3>2
  <2>4. Len(trail') \in Nat /\ Len(trail') <= Len(trail) + 1
    <3>1. CASE trail' = trail
      BY <1>t, <3>1
    <3>2. CASE Acknowledge
      <4>1. \E x : trail' = Append(trail, x)
        BY <3>2 DEF Acknowledge
      <4> QED BY <4>1, TrailLength
    <3>3. CASE Alter \/ Anchor
      <4>1. PICK k \in DOMAIN trail : \E x : trail' = [trail EXCEPT ![k] = x]
        <5>1. CASE Alter
          BY <5>1 DEF Alter
        <5>2. CASE Anchor
          BY <5>2 DEF Anchor
        <5> QED BY <3>3, <5>1, <5>2
      <4>2. IsSeq(trail') /\ DOMAIN trail' = DOMAIN trail
        <5>1. PICK x : trail' = [trail EXCEPT ![k] = x]
          BY <4>1
        <5>2. Replaces(trail, k, x, trail')
          BY <1>t, <5>1, Changed
        <5> QED BY <5>2 DEF Replaces
      <4>3. Len(trail') = Len(trail)
        BY <1>t, <4>2, LenProperties DEF IsSeq
      <4> QED BY <1>t, <4>3
    <3> QED BY <3>1, <3>2, <3>3 DEF Environment, DrillBegins, DrillEnds, PinCheckFails, Ingest, Accept,
                                    EditRecipe, EditPolicy, Tick, Reinstall
  <2> QED BY <1>t, <2>d, <2>1, <2>3, <2>4, PacedKept DEF Typed
<1> QED BY <1>1, <1>2, <1>3 DEF Typed

\* The type invariant, for any policies, recipes, requests and bounds: the ledger
\* holds at most two entries for every run of the gate and every step of the others,
\* although a record that failed may be there and be followed by another.
THEOREM TypeCorrect == Spec => []TypeOK
<1>1. GInv /\ Typed => TypeOK
  <2> SUFFICES ASSUME GInv, Typed PROVE TypeOK
    OBVIOUS
  <2>1. Len(trail) <= 2 * MaxSteps
    <3>1. Len(trail) \in Nat /\ Due \in 0..2
      <4>1. IsSeq(trail)
        BY DEF GInv, World, IsTrail
      <4> QED BY <4>1, LenProperties, DueIs DEF IsSeq, GInv, Running
    <3> QED BY <3>1, BoundAssumption DEF Typed, Paced
  <2>2. run.from \in 0..Len(results)
    <3>1. run.from \in Nat /\ run.from <= Len(results) /\ Len(results) \in Nat
      <4>1. IsSeq(results)
        BY DEF GInv, World
      <4> QED BY <4>1, LenProperties DEF GInv, Running, IsSeq
    <3> QED BY <3>1
  <2>3. policy \in Policies /\ pc \in {"idle", "policy", "evidence", "ledger", "judge", "record", "broken", "done"}
    BY DEF GInv, World, Running
  <2> QED BY <2>1, <2>2, <2>3 DEF Typed, Files, Answer, Paced, TypeOK
<1>2. GInv /\ GInv' /\ Typed /\ [Next]_vars => Typed'
  <2>1. CASE UNCHANGED vars
    BY <2>1 DEF vars, world, Typed, Files, Answer, Paced, Due
  <2> QED BY <2>1, PreflightKeepsTyped, EnvironmentKeepsTyped DEF Next
<1> QED BY <1>1, <1>2, InitTyped, Invariance, PTL DEF Spec

-----------------------------------------------------------------------------
(* The agent hook, which asks the gate about all that a line does at once.  *)

\* Where the hook allowed, its decision let the call pass, on what was read.
Decided(call) ==
  LET d == Decoded(call)
      t == Tool(call, d.tool)
  IN  /\ call \in Calls /\ d.ok /\ InPlace(call)
      /\ t = "Bash" => parsed # Absent /\ OnShell(call, parsed)
      /\ t \in Edits => OnEdit(call, call.file)

AnswerStands == answer.said = "allow" => Decided(answer.call)

HookInv ==
  /\ AnswerStands
  /\ answer # NotYet => Understood /\ \A call \in Calls : NamesWhatIsEdited(call)

LEMMA HookInitKeeps == HookInit => HookInv
<1> SUFFICES ASSUME HookInit PROVE HookInv
  OBVIOUS
<1>1. answer = NotYet
  BY DEF HookInit
<1> QED BY <1>1 DEF HookInv, AnswerStands, NotYet

\* What a call was decided on stays.
LEMMA DecidedStays ==
  ASSUME NEW call, UNCHANGED <<line, parsed>>
  PROVE  /\ Decided(call) => Decided(call)'
         /\ Understood => Understood'
         /\ NamesWhatIsEdited(call) => NamesWhatIsEdited(call)'
<1>1. Decided(call) => Decided(call)'
  BY DEF Decided, Decoded, Tool, InPlace, OnShell, OnEdit
<1>2. Understood => Understood'
  BY DEF Understood, TranslatesWhatRuns, Items
<1>3. NamesWhatIsEdited(call) => NamesWhatIsEdited(call)'
  BY DEF NamesWhatIsEdited
<1> QED BY <1>1, <1>2, <1>3

LEMMA AskDecides == ASSUME NEW call \in Calls, Ask(call) PROVE AnswerStands'
<1> DEFINE d == Decoded(call)
           t == Tool(call, d.tool)
<1>1. answer = NotYet /\ UNCHANGED <<line, pieces, parsed>> /\ answer'.call = call
  BY DEF Ask, Say
<1>2. ASSUME answer'.said = "allow" PROVE Decided(call)
  <2>1. CASE ~d.ok \/ ~InPlace(call)
    BY <1>2, <2>1 DEF Ask, Say
  <2>2. CASE d.ok /\ InPlace(call) /\ t = "Bash"
    <3>1. parsed # Absent /\ Say(call, OnShell(call, parsed))
      BY <2>2 DEF Ask
    <3> QED BY <1>2, <2>2, <3>1 DEF Say, Decided, Edits
  <2>3. CASE d.ok /\ InPlace(call) /\ t # "Bash" /\ t \in Edits
    <3>1. Say(call, OnEdit(call, call.file))
      BY <2>3 DEF Ask
    <3> QED BY <1>2, <2>3, <3>1 DEF Say, Decided
  <2>4. CASE d.ok /\ InPlace(call) /\ t # "Bash" /\ t \notin Edits
    BY <2>4 DEF Decided
  <2> QED BY <2>1, <2>2, <2>3, <2>4
<1> QED BY <1>1, <1>2, DecidedStays DEF AnswerStands

LEMMA AnswerKeeps == ASSUME AnswerStands, [HookNext]_HookVars PROVE AnswerStands'
<1>1. ASSUME NEW call \in Calls, Ask(call) PROVE AnswerStands'
  BY <1>1, AskDecides
<1>2. CASE Type \/ Open \/ Close \/ Divert \/ Read
  <2>1. answer = NotYet /\ answer' = answer
    BY <1>2 DEF Type, Open, Close, Divert, Read, AddPiece, Typing
  <2> QED BY <2>1 DEF AnswerStands, NotYet
<1>3. CASE UNCHANGED HookVars
  BY <1>3, DecidedStays DEF HookVars, AnswerStands
<1> QED BY <1>1, <1>2, <1>3 DEF HookNext

LEMMA HookNextKeeps == ASSUME HookInv, ReadsWhatRuns, [HookNext]_HookVars PROVE HookInv'
<1>1. AnswerStands'
  BY AnswerKeeps DEF HookInv
<1>2. (answer # NotYet => Understood /\ \A call \in Calls : NamesWhatIsEdited(call))'
  <2>1. ASSUME NEW call \in Calls, Ask(call)
        PROVE  (Understood /\ \A c \in Calls : NamesWhatIsEdited(c))'
    <3>1. answer = NotYet /\ UNCHANGED <<line, parsed>>
      BY <2>1 DEF Ask
    <3> QED BY <3>1, DecidedStays DEF ReadsWhatRuns
  <2>2. CASE Type \/ Open \/ Close \/ Divert \/ Read
    <3>1. answer' = NotYet
      BY <2>2 DEF Type, Open, Close, Divert, Read, AddPiece, Typing
    <3> QED BY <3>1 DEF NotYet
  <2>3. CASE UNCHANGED HookVars
    BY <2>3, DecidedStays DEF HookVars, HookInv, NotYet
  <2> QED BY <2>1, <2>2, <2>3 DEF HookNext
<1> QED BY <1>1, <1>2 DEF HookInv

\* A change that passes in company passes alone, and meets no guard alone if it
\* meets none in company.
LEMMA PassesAlone ==
  ASSUME NEW call \in Calls, NEW A, NEW ci \in A, NEW alone, Allows(call, A, alone)
  PROVE  /\ call.gate /\ ~Blocked(call, ci)
         /\ alone /\ ~call.runtime => GuardFindings(ci, {ci}, call.context, Now) = {}
<1> DEFINE c == call.context
           F == Evaluate(A, c, Now, call.strict)
<1>1. call.gate /\ ExitCode(Overall(F), FALSE) = 0
  BY DEF Allows, Passes, Found, Degraded
<1>2. \A f \in F : f.verdict # "block"
  BY <1>1, OverallIs DEF ExitCode
<1>3. Dated(c) /\ Now \in Nat
  BY CallAssumption, HookAssumption DEF Dated
<1>4. \A f \in Evaluate({ci}, c, Now, call.strict) : f.verdict # "pass" => f \in F
  <2> HIDE DEF c
  <2>1. {ci} \subseteq A /\ Now <= Now
    BY <1>3
  <2> QED BY <1>3, <2>1, FoundNoLess
<1>5. ~Blocked(call, ci)
  <2>1. \A f \in Evaluate({ci}, c, Now, call.strict) : f.verdict # "block"
    BY <1>2, <1>4
  <2> QED BY <2>1, OverallIs DEF Blocked
<1>6. ASSUME alone, ~call.runtime PROVE GuardFindings(ci, {ci}, c, Now) = {}
  <2>1. F = {}
    BY <1>6 DEF Allows, Passes, Found, Degraded
  <2>2. GuardFindings(ci, A, c, Now) = {}
    BY <2>1 DEF Evaluate, EvaluateIntent
  <2> QED BY <2>2 DEF GuardFindings
<1> QED BY <1>1, <1>5, <1>6

LEMMA LineIsJudged ==
  ASSUME NEW call \in Calls, InPlace(call), parsed # Absent, OnShell(call, parsed), Understood,
         Complete(parsed), ~Undetermined(Items)
  PROVE  AllMayRun(call, Effects(Items, Cwd(call)))
<1> DEFINE runs == Effects(Items, Cwd(call))
           A == IntentsOf(parsed.ops, Cwd(call))
           alone == Len(Acting(parsed.ops)) = 1
<1>1. A = Changes(runs) /\ (Unrecognized(parsed.ops) = <<>> <=> AllKnown(runs))
  <2>1. Cwd(call) \in Directories
    BY HookAssumption DEF Cwd, InPlace
  <2> QED BY <2>1 DEF Understood, TranslatesWhatRuns
<1> HIDE DEF runs, A
<1>2. ASSUME NEW r \in runs, Acts(r)
      PROVE  /\ call.gate /\ ~Blocked(call, ChangeOf(r))
             /\ alone /\ ~call.runtime => GuardFindings(ChangeOf(r), {ChangeOf(r)}, call.context, Now) = {}
  <2>1. ChangeOf(r) \in A
    BY <1>1, <1>2 DEF Changes
  <2>2. Acting(parsed.ops) # <<>>
    BY <2>1 DEF A, IntentsOf, ToSet
  <2>3. Allows(call, A, alone)
    BY <2>2 DEF OnShell, A
  <2> HIDE DEF alone
  <2> QED BY <2>1, <2>3, PassesAlone
<1>3. ASSUME NEW r \in runs, ~Acts(r), call.strict PROVE r.benign
  <2>1. Unrecognized(parsed.ops) = <<>>
    BY <1>3 DEF OnShell
  <2> QED BY <1>1, <1>3, <2>1 DEF AllKnown
<1> QED BY <1>2, <1>3 DEF runs, AllMayRun

LEMMA AnswerIsJudged == ASSUME HookInv PROVE AllowedIsJudged
<1> SUFFICES ASSUME answer.said = "allow"
             PROVE  LET call == answer.call
                        t    == Tool(call, Decoded(call).tool)
                    IN  /\ Decoded(call).ok /\ InPlace(call)
                        /\ t = "Bash" /\ ~Complete(parsed) =>
                             ~call.strict /\ call.gate /\ call.context.coverage = {}
                        /\ t = "Bash" /\ Complete(parsed) /\ ~Undetermined(Items) =>
                             AllMayRun(call, Effects(Items, Cwd(call)))
                        /\ t \in Edits =>
                             call.gate /\ ~Blocked(call, Intent("modify_file", {Full(Cwd(call), call.file)}, {}))
  BY DEF AllowedIsJudged
<1> DEFINE call == answer.call
           t == Tool(call, Decoded(call).tool)
<1>1. Decided(call) /\ Understood /\ NamesWhatIsEdited(call)
  <2>1. answer # NotYet
    BY DEF NotYet
  <2> QED BY <2>1 DEF HookInv, AnswerStands, Decided
<1>2. call \in Calls /\ Decoded(call).ok /\ InPlace(call)
  BY <1>1 DEF Decided
<1>3. ASSUME t = "Bash", ~Complete(parsed) PROVE ~call.strict /\ call.gate /\ call.context.coverage = {}
  <2>1. OnShell(call, parsed)
    BY <1>1, <1>3 DEF Decided
  <2> QED BY <1>3, <2>1 DEF OnShell, Scoped
<1>4. ASSUME t = "Bash", Complete(parsed), ~Undetermined(Items) PROVE AllMayRun(call, Effects(Items, Cwd(call)))
  <2>1. parsed # Absent /\ OnShell(call, parsed)
    BY <1>1, <1>4 DEF Decided
  <2> QED BY <1>1, <1>2, <1>4, <2>1, LineIsJudged
<1>5. ASSUME t \in Edits
      PROVE  call.gate /\ ~Blocked(call, Intent("modify_file", {Full(Cwd(call), call.file)}, {}))
  <2> DEFINE ci == Intent("modify_file", {Anchored(<<>>, call.file, Cwd(call))}, {})
  <2>1. call.file # <<>> /\ Allows(call, {ci}, TRUE)
    BY <1>1, <1>5 DEF Decided, OnEdit
  <2>2. ci = Intent("modify_file", {Full(Cwd(call), call.file)}, {})
    BY <1>1, <1>2, <2>1 DEF NamesWhatIsEdited
  <2> HIDE DEF ci
  <2> QED BY <1>2, <2>1, <2>2, PassesAlone
<1> QED BY <1>2, <1>3, <1>4, <1>5

\* An answer is about what was read: each change of the reading passes alone, no
\* operation is unknown in strict mode, and without a reading no policy speaks.
ReadingIsJudged ==
  answer.said = "allow" =>
    LET call == answer.call
        t    == Tool(call, Decoded(call).tool)
    IN  /\ t = "Bash" /\ ~Complete(parsed) => ~call.strict /\ call.gate /\ call.context.coverage = {}
        /\ t = "Bash" /\ Complete(parsed) =>
             /\ \A ci \in IntentsOf(parsed.ops, Cwd(call)) : call.gate /\ ~Blocked(call, ci)
             /\ call.strict => Unrecognized(parsed.ops) = <<>>
        /\ t \in Edits =>
             call.gate /\ ~Blocked(call, Intent("modify_file", {Anchored(<<>>, call.file, Cwd(call))}, {}))

LEMMA ReadingJudged == ASSUME AnswerStands PROVE ReadingIsJudged
<1> SUFFICES ASSUME answer.said = "allow"
             PROVE  LET call == answer.call
                        t    == Tool(call, Decoded(call).tool)
                    IN  /\ t = "Bash" /\ ~Complete(parsed) =>
                             ~call.strict /\ call.gate /\ call.context.coverage = {}
                        /\ t = "Bash" /\ Complete(parsed) =>
                             /\ \A ci \in IntentsOf(parsed.ops, Cwd(call)) : call.gate /\ ~Blocked(call, ci)
                             /\ call.strict => Unrecognized(parsed.ops) = <<>>
                        /\ t \in Edits =>
                             /\ call.gate
                             /\ ~Blocked(call, Intent("modify_file", {Anchored(<<>>, call.file, Cwd(call))}, {}))
  BY DEF ReadingIsJudged
<1> DEFINE call == answer.call
           t == Tool(call, Decoded(call).tool)
<1>1. Decided(call) /\ call \in Calls
  BY DEF AnswerStands, Decided
<1>2. t = "Bash" => OnShell(call, parsed)
  BY <1>1 DEF Decided
<1>3. ASSUME t = "Bash", ~Complete(parsed) PROVE ~call.strict /\ call.gate /\ call.context.coverage = {}
  BY <1>2, <1>3 DEF OnShell, Scoped
<1>4. ASSUME t = "Bash", Complete(parsed), NEW ci \in IntentsOf(parsed.ops, Cwd(call))
      PROVE  call.gate /\ ~Blocked(call, ci)
  <2> DEFINE A == IntentsOf(parsed.ops, Cwd(call))
             alone == Len(Acting(parsed.ops)) = 1
  <2>1. Acting(parsed.ops) # <<>>
    BY <1>4 DEF IntentsOf, ToSet
  <2>2. Allows(call, A, alone) /\ ci \in A
    BY <1>2, <1>4, <2>1 DEF OnShell
  <2> HIDE DEF A, alone
  <2> QED BY <1>1, <2>2, PassesAlone
<1>5. t = "Bash" /\ Complete(parsed) /\ call.strict => Unrecognized(parsed.ops) = <<>>
  BY <1>2 DEF OnShell
<1>6. ASSUME t \in Edits
      PROVE  call.gate /\ ~Blocked(call, Intent("modify_file", {Anchored(<<>>, call.file, Cwd(call))}, {}))
  <2> DEFINE ci == Intent("modify_file", {Anchored(<<>>, call.file, Cwd(call))}, {})
  <2>1. Allows(call, {ci}, TRUE)
    BY <1>1, <1>6 DEF Decided, OnEdit
  <2> HIDE DEF ci
  <2>2. call.gate /\ ~Blocked(call, ci)
    BY <1>1, <2>1, PassesAlone
  <2> QED BY <2>2 DEF ci
<1> QED BY <1>3, <1>4, <1>5, <1>6

\* Whatever the reader makes of a line, what the hook allows was judged as it was
\* read: that all changes of a line are judged at once, hides none of them.
THEOREM WhatIsReadIsJudged == HookSpec => []ReadingIsJudged
<1>1. HookInit => AnswerStands
  BY HookInitKeeps DEF HookInv
<1>2. AnswerStands /\ [HookNext]_HookVars => AnswerStands'
  BY AnswerKeeps
<1>3. AnswerStands => ReadingIsJudged
  BY ReadingJudged
<1> QED BY <1>1, <1>2, <1>3, PTL DEF HookSpec

\* As long as the hook reads what runs (ReadsWhatRuns, which is about recursion
\* over text and stays with TLC), what it allows was judged, for any calls,
\* directories, policies and lines: nothing that a line runs slips by.
THEOREM WhatRunsIsJudged == HookSpec /\ []ReadsWhatRuns => []AllowedIsJudged
<1>1. HookInv /\ ReadsWhatRuns /\ [HookNext]_HookVars => HookInv'
  BY HookNextKeeps
<1>2. HookInv => AllowedIsJudged
  BY AnswerIsJudged
<1> QED BY <1>1, <1>2, HookInitKeeps, PTL DEF HookSpec
=============================================================================
