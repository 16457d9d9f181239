-------------------------------- MODULE Gate --------------------------------
(***************************************************************************)
(* preflight.Run, the gate, with the drills, edits, overrides and other      *)
(* commands that change what it reads while it runs.                        *)
(*                                                                         *)
(* The context is two files, read one after the other: one with the guards   *)
(* (policy, as policy.Merge leaves it) and one with the proofs, facts and     *)
(* drills.  A rewrite of a file and an append to the ledger are single steps  *)
(* here; ProofStore and Ledger take them apart.                             *)
(***************************************************************************)
EXTENDS Rules

CONSTANTS Policies,   \* what the guard file may say
          Proofs,     \* the proof ids, each with a drill
          Facts,      \* fact id -> expiry (0: none)
          Recipes,    \* what the drills may declare
          Lifetimes,  \* --expires-in of a drill (0: none)
          SigningKey, \* do the drills sign?
          Requests,   \* the invocations of preflight
          MaxExpiry,  \* MaxOverrideExpiry, in ticks
          MaxTime,    \* bound: the clock
          MaxEpoch,   \* bound: installs of the machine
          MaxSteps    \* bound: runs of the gate and steps of the others

ASSUME BoundAssumption == {MaxExpiry, MaxTime, MaxEpoch, MaxSteps} \subseteq Nat /\ 0 \notin {MaxTime, MaxEpoch}
ASSUME DrillAssumption == Lifetimes \subseteq Nat /\ SigningKey \in BOOLEAN /\ Recipes # {}
\* loadIntents insists on an intent; a plan run records nothing.
ASSUME RequestAssumption ==
         \A q \in Requests : /\ q.intents # {} /\ q.asOf \in Nat
                             /\ {q.strict, q.failOnWarn, q.ledger, q.plan} \subseteq BOOLEAN
\* fromRawGuard and fromRawFact: ages and expiries are what parses as such.
ASSUME ContextAssumption ==
         /\ \A p \in Policies : \A x \in DOMAIN p.guards : p.guards[x].maxAge \in Nat
         /\ \A f \in DOMAIN Facts : Facts[f] \in Nat

Time    == 1..MaxTime
Outcome == {"validated", "disputed", "unreachable"}

VARIABLES
  policy,    \* the guard file
  evidence,  \* the file with the proofs, facts and drills
  trail,     \* the ledger
  clock, epoch,
  drilling,  \* the drill that runs, Absent if none does
  pc, run,   \* the gate: where it is, what it has read and found
  results,   \* history: the results recorded for proofs, in order
  steps

world == <<policy, evidence, trail, clock, epoch, drilling, results>>
vars  == <<world, pc, run, steps>>

\* A result: by what command, good or not, of which recipe, when and where.
Result(q, by, outcome, recipe) ==
  [proof |-> q, by |-> by, good |-> outcome = "validated", recipe |-> recipe,
   at |-> clock, epoch |-> epoch]

\* Entries of the ledger.  altered: its line was changed after it was
\* appended; anchored: the owner vouched for it as it is now (ledger.Anchor).
Override(id, expires) ==
  [kind |-> "override", finding |-> id, expires |-> expires, at |-> clock,
   altered |-> FALSE, anchored |-> FALSE]
Decision(n, gate, verdict) ==
  [kind |-> "decision", run |-> n, gate |-> gate, verdict |-> verdict,
   altered |-> FALSE, anchored |-> FALSE]

Verifies(entries) == \A i \in DOMAIN entries : entries[i].altered => entries[i].anchored

Run0 == [n |-> 0, req |-> Absent, from |-> 0, policy |-> Absent, evidence |-> Absent,
         entries |-> <<>>, at |-> 0, found |-> {}, excused |-> {}, verdict |-> "block", exit |-> 3]

Unproved == [q \in {} |-> Absent]

TypeOK ==
  /\ policy \in Policies
  /\ DOMAIN evidence.proofs \subseteq Proofs /\ evidence.drills \in [Proofs -> Recipes]
  /\ Len(trail) <= 2 * MaxSteps /\ clock \in Time /\ epoch \in 1..MaxEpoch
  /\ pc \in {"idle", "policy", "evidence", "ledger", "judge", "record", "broken", "done"}
  /\ run.verdict \in Verdict /\ run.exit \in {0, 1, 3} /\ run.from \in 0..Len(results)
  /\ pc \in {"evidence", "ledger", "judge", "record"} => run.policy \in Policies
  /\ steps \in 0..MaxSteps

Init ==
  /\ policy \in Policies
  /\ evidence = [proofs |-> Unproved, facts |-> Facts,
                 drills |-> [q \in Proofs |-> CHOOSE r \in Recipes : TRUE]]
  /\ trail = <<>> /\ clock = 1 /\ epoch = 1 /\ drilling = Absent
  /\ pc = "idle" /\ run = Run0 /\ results = <<>> /\ steps = 0

Spend == steps < MaxSteps /\ steps' = steps + 1

-----------------------------------------------------------------------------
(* preflight.Run                                                           *)

Start ==
  /\ Spend /\ pc \in {"idle", "done"}
  /\ \E q \in Requests : run' = [Run0 EXCEPT !.n = run.n + 1, !.req = q, !.from = Len(results)]
  /\ pc' = "policy"
  /\ UNCHANGED world

LoadPolicy ==
  /\ pc = "policy" /\ pc' = "evidence"
  /\ run' = [run EXCEPT !.policy = policy]
  /\ UNCHANGED <<world, steps>>

LoadEvidence ==
  /\ pc = "evidence" /\ pc' = "ledger"
  /\ run' = [run EXCEPT !.evidence = evidence]
  /\ UNCHANGED <<world, steps>>

\* A file is not there, does not parse, or declares an id again; or the
\* ledger cannot be read.
LoadFails ==
  /\ pc \in {"policy", "evidence", "ledger"} /\ (pc = "ledger" => run.req.ledger)
  /\ pc' = "broken"
  /\ UNCHANGED <<world, run, steps>>

\* loadVerifiedLedger
ReadLedger ==
  /\ pc = "ledger"
  /\ IF run.req.ledger /\ ~Verifies(trail)
     THEN pc' = "broken" /\ UNCHANGED run
     ELSE pc' = "judge" /\ run' = [run EXCEPT !.entries = IF run.req.ledger THEN trail ELSE <<>>]
  /\ UNCHANGED <<world, steps>>

\* Mutant: an override holds once it was given.
ActiveForever(entries, now) ==
  {entries[i].finding : i \in {j \in DOMAIN entries : entries[j].kind = "override"}}

\* ActiveOverrides: the findings that an override excuses.
ActiveOverrides(entries, now) ==
  {entries[i].finding :
     i \in {j \in DOMAIN entries : entries[j].kind = "override" /\ now < entries[j].expires}}

Context(p, e) == [guards |-> p.guards, coverage |-> p.coverage,
                  proofs |-> e.proofs, drills |-> e.drills, facts |-> e.facts]

\* withPolicyFindings: what Merge refused, after the overrides are applied.
Loosened(p) == {Finding(<<"policy/loosened", l>>, "warn") : l \in p.loosened}

\* The findings on the intents, for what the run r has read.
FindingsAt(r, intents, now) ==
  ApplyOverrides(Evaluate(intents, Context(r.policy, r.evidence), now, r.req.strict),
                 ActiveOverrides(r.entries, now))
  \cup Loosened(r.policy)

Records(r) == r.req.ledger /\ ~r.req.plan

Judged(now) ==
  LET found == FindingsAt(run, run.req.intents, now)
      v     == Overall(found)
  IN  run' = [run EXCEPT !.at = now, !.found = found, !.verdict = v,
                !.excused = ActiveOverrides(run.entries, now),
                !.exit = ExitCode(v, run.req.failOnWarn)]

\* evaluationTime, evaluate and withPolicyFindings.  asOf = 0: now.
JudgeRun ==
  /\ pc = "judge"
  /\ Judged(IF run.req.asOf = 0 THEN clock ELSE run.req.asOf)
  /\ pc' = IF Records(run) THEN "record" ELSE "done"
  /\ UNCHANGED <<world, steps>>

\* Mutant: an append that fails is a warning.
RecordOrWarn ==
  /\ pc = "record" /\ pc' = "done"
  /\ trail' \in {trail, Append(trail, Decision(run.n, "ran", run.verdict))}
  /\ UNCHANGED <<policy, evidence, clock, epoch, drilling, results, run, steps>>

\* recordDecision
Record ==
  /\ pc = "record" /\ pc' = "done"
  /\ trail' = Append(trail, Decision(run.n, "ran", run.verdict))
  /\ UNCHANGED <<policy, evidence, clock, epoch, drilling, results, run, steps>>

\* Append reports an error; the line may have been written all the same.
RecordFails ==
  /\ pc = "record" /\ pc' = "broken"
  /\ trail' \in {trail, Append(trail, Decision(run.n, "ran", run.verdict))}
  /\ UNCHANGED <<policy, evidence, clock, epoch, drilling, results, run, steps>>

\* gateBroken: exit code 3.  Whether this can be recorded does not matter.
Broken ==
  /\ pc = "broken" /\ pc' = "done"
  /\ run' = [run EXCEPT !.verdict = "block", !.exit = 3, !.found = {}, !.excused = {}]
  /\ IF Records(run) THEN trail' \in {trail, Append(trail, Decision(run.n, "broken", "block"))}
                     ELSE UNCHANGED trail
  /\ UNCHANGED <<policy, evidence, clock, epoch, drilling, results, steps>>

-----------------------------------------------------------------------------
(* What the other commands write                                           *)

Blank == [status |-> "observed", signature |-> "none", expires |-> 0, observed |-> clock,
          verified |-> FALSE, digest |-> Absent, deps |-> Absent, epoch |-> 0]

Written(q, record) ==
  [p \in DOMAIN evidence.proofs \cup {q} |-> IF p = q THEN record ELSE evidence.proofs[p]]

Others == UNCHANGED <<pc, run>>

\* drill loads the context and runs the declared recovery of q.
DrillBegins ==
  /\ Spend /\ drilling = Absent
  /\ \E q \in Proofs, o \in Outcome, ttl \in Lifetimes :
       drilling' = [proof |-> q, recipe |-> evidence.drills[q], outcome |-> o, ttl |-> ttl]
  /\ UNCHANGED <<policy, evidence, trail, clock, epoch, results>> /\ Others

Good(d) == d.outcome = "validated"

\* buildDrillProofEntry and recordDrillProofs, for a full drill.
DrillRecord(d) ==
  [Blank EXCEPT !.status = d.outcome, !.verified = Good(d), !.epoch = epoch,
                !.expires = IF Good(d) /\ d.ttl > 0 THEN clock + d.ttl ELSE 0,
                !.signature = IF Good(d) /\ SigningKey THEN "good" ELSE "none",
                !.digest = d.recipe, !.deps = d.recipe.deps]

DrillEnds ==
  /\ drilling # Absent /\ drilling' = Absent
  /\ evidence' = [evidence EXCEPT !.proofs = Written(drilling.proof, DrillRecord(drilling))]
  /\ results' = Append(results, Result(drilling.proof, "drill", drilling.outcome, drilling.recipe))
  /\ UNCHANGED <<policy, trail, clock, epoch, steps>> /\ Others

\* drill --pins-only, for a source that is not reached.
PinCheckFails ==
  /\ Spend
  /\ \E q \in Proofs :
       /\ evidence' = [evidence EXCEPT !.proofs =
                         Written(q, [Blank EXCEPT !.status = "unreachable", !.epoch = epoch])]
       /\ results' = Append(results, Result(q, "pin", "unreachable", evidence.drills[q]))
  /\ UNCHANGED <<policy, trail, clock, epoch, drilling>> /\ Others

\* evidence ingest; host and epoch are not fields it owns.
Ingest ==
  /\ Spend
  /\ \E q \in Proofs, s \in {"validated", "observed"} :
       LET kept == IF q \in DOMAIN evidence.proofs THEN evidence.proofs[q].epoch ELSE 0
       IN  /\ evidence' = [evidence EXCEPT !.proofs =
                             Written(q, [Blank EXCEPT !.status = s, !.epoch = kept])]
           /\ results' = Append(results, Result(q, "ingest", s, evidence.drills[q]))
  /\ UNCHANGED <<policy, trail, clock, epoch, drilling>> /\ Others

\* accept stamps the epoch again, which a signature covers.
Accept ==
  /\ Spend
  /\ \E q \in DOMAIN evidence.proofs :
       evidence' = [evidence EXCEPT !.proofs[q].epoch = epoch,
                      !.proofs[q].signature = IF @ = "good" /\ evidence.proofs[q].epoch # epoch
                                              THEN "bad" ELSE @]
  /\ UNCHANGED <<policy, trail, clock, epoch, drilling, results>> /\ Others

\* The owner edits a drill, or the guards.
EditRecipe ==
  /\ Spend
  /\ \E q \in Proofs, r \in Recipes : evidence' = [evidence EXCEPT !.drills[q] = r]
  /\ UNCHANGED <<policy, trail, clock, epoch, drilling, results>> /\ Others

EditPolicy ==
  /\ Spend /\ policy' \in Policies
  /\ UNCHANGED <<evidence, trail, clock, epoch, drilling, results>> /\ Others

\* acknowledge_risk and NewOverridePayload, for a finding of the last run.
Acknowledge ==
  /\ Spend /\ pc = "done"
  /\ \E f \in run.found, d \in 1..MaxExpiry :
       trail' = Append(trail, Override(f.id, clock + d))
  /\ UNCHANGED <<policy, evidence, clock, epoch, drilling, results>> /\ Others

\* A line of the ledger is changed in place, after which its hash is wrong.
Alter ==
  /\ Spend
  /\ \E i \in DOMAIN trail :
       trail' = [trail EXCEPT ![i] = IF @.kind = "override"
                   THEN [@ EXCEPT !.altered = TRUE, !.anchored = FALSE, !.expires = MaxTime + 1]
                   ELSE [@ EXCEPT !.altered = TRUE, !.anchored = FALSE]]
  /\ UNCHANGED <<policy, evidence, clock, epoch, drilling, results>> /\ Others

Anchor ==
  /\ Spend
  /\ \E i \in DOMAIN trail : /\ trail[i].altered /\ ~trail[i].anchored
                             /\ trail' = [trail EXCEPT ![i].anchored = TRUE]
  /\ UNCHANGED <<policy, evidence, clock, epoch, drilling, results>> /\ Others

Tick ==
  /\ Spend /\ clock < MaxTime /\ clock' = clock + 1
  /\ UNCHANGED <<policy, evidence, trail, epoch, drilling, results>> /\ Others

\* The machine is installed again, the files are put back.
Reinstall ==
  /\ Spend /\ epoch < MaxEpoch /\ epoch' = epoch + 1 /\ drilling' = Absent
  /\ pc' = "idle" /\ run' = [Run0 EXCEPT !.n = run.n]
  /\ UNCHANGED <<policy, evidence, trail, clock, results>>

-----------------------------------------------------------------------------
Preflight == \/ Start \/ LoadPolicy \/ LoadEvidence \/ LoadFails \/ ReadLedger
             \/ JudgeRun \/ Record \/ RecordFails \/ Broken

Environment == \/ DrillBegins \/ DrillEnds \/ PinCheckFails \/ Ingest \/ Accept
               \/ EditRecipe \/ EditPolicy \/ Acknowledge \/ Alter \/ Anchor
               \/ Tick \/ Reinstall

Next == Preflight \/ Environment

Spec == Init /\ [][Next]_vars

-----------------------------------------------------------------------------
(* Properties                                                              *)

Passed == pc = "done" /\ run.exit = 0

\* The guards that the change meets and that no override excuses.
InForce(r) ==
  {x \in DOMAIN r.policy.guards :
     LET g == r.policy.guards[x]
     IN  \E ci \in r.req.intents : /\ GuardMatches(g, ci)
                                   /\ <<g.kind, x, Resource(g, ci)>> \notin r.excused}

\* The i-th recorded result shows the recovery that q needs: a drill of
\* the recipe declared when the gate looked, that succeeded, no longer ago than
\* the guard allows, not followed by another result before the gate
\* started, and of a recovery that the change leaves alone.
Backs(i, q, g, r) ==
  LET e == results[i]
  IN  /\ e.proof = q /\ e.by = "drill" /\ e.good
      /\ e.recipe = r.evidence.drills[q]
      /\ g.maxAge > 0 => r.at <= e.at + g.maxAge
      /\ \A j \in (i + 1)..r.from : results[j].proof # q
      /\ \A ci \in r.req.intents : ~Touches(e.recipe.deps, ci)

\* Through edits of the recipe during a drill, failed and repeated drills, pin
\* checks, attestations and acceptances: a change that a guard with require_bound
\* guards passes only on a recovery that was really run ("Changing a proof
\* ID's recipe cannot silently reuse its old successful test", docs/SCHEMA.md).
PassIsBacked ==
  Passed => \A x \in InForce(run) :
    LET g == run.policy.guards[x]
    IN  g.enforcement = "block" /\ g.requireBound =>
          \A q \in g.proofs : \E i \in DOMAIN results : Backs(i, q, g, run)

RanEntries(n) == {i \in DOMAIN trail : /\ trail[i].kind = "decision" /\ trail[i].run = n
                                       /\ trail[i].gate = "ran"}

\* A caller that is told "pass" or "block" finds that verdict in the ledger,
\* once, whatever else went wrong; a plan or a run without a ledger leaves
\* nothing there ("a verdict that isn't actually on disk did not happen").
DecisionOnRecord ==
  pc = "done" =>
    IF Records(run)
    THEN run.exit # 3 => \E i \in RanEntries(run.n) : /\ RanEntries(run.n) = {i}
                                                      /\ trail[i].verdict = run.verdict
    ELSE \A i \in DOMAIN trail : trail[i].kind = "decision" => trail[i].run # run.n

\* An exception ends: a finding that blocks is let through only by an override
\* of its own id that is younger than MaxOverrideExpiry at the moment judged, or by
\* one that the owner vouched for after it was altered.
OverrideEnds ==
  Passed => \A f \in Evaluate(run.req.intents, Context(run.policy, run.evidence), run.at, run.req.strict) :
    f.verdict = "block" =>
      \E i \in DOMAIN run.entries :
        LET o == run.entries[i]
        IN  /\ o.kind = "override" /\ o.finding = f.id /\ run.at < o.expires
            /\ o.anchored \/ run.at < o.at + MaxExpiry

Severity(v) == CASE v = "pass" -> 0 [] v = "warn" -> 1 [] v = "block" -> 2

Answered == pc = "done" /\ run.exit # 3

\* A change gains nothing from company: together with others it is judged at
\* least as strictly as alone, on the same files.
BatchHidesNothing ==
  Answered => \A ci \in run.req.intents :
    Severity(Overall(FindingsAt(run, {ci}, run.at))) <= Severity(run.verdict)

\* Evidence and overrides only wear out: the same files, read again at any
\* later moment, give no milder verdict.
LaterIsNoMilder ==
  Answered => \A t \in Time : t >= run.at =>
    Severity(Overall(FindingsAt(run, run.req.intents, t))) >= Severity(run.verdict)

\* Neither company nor time makes a verdict milder.
NothingGained == BatchHidesNothing /\ LaterIsNoMilder

\* With --require-coverage, a change passes without an exception only if each
\* path of it is itself named by a guard that the change meets there, or met by one
\* that names no resource ("A match for one path never covers another path").
CoverageIsExplicit ==
  Passed /\ run.req.strict /\ run.excused = {} =>
    \A ci \in run.req.intents : \A v \in ci.paths :
      \E x \in DOMAIN run.policy.guards :
        LET m == run.policy.guards[x].match
        IN  /\ GuardMatches(run.policy.guards[x], [ci EXCEPT !.paths = {v}])
            /\ \/ \E p \in m.paths : <<p, v>> \in Glob
               \/ m.paths \cup m.commands \cup m.packages = {}

\* "It is never treated as currently valid, however fresh its own timestamps
\* claim to be" (docs/SCHEMA.md, the epoch rule): no change passes on
\* evidence that is stamped with the epoch of another install.
EpochRespected ==
  Passed => \A x \in InForce(run) :
    LET g == run.policy.guards[x]
    IN  g.enforcement = "block" =>
          \A q \in g.proofs : run.evidence.proofs[q].epoch \in {0, epoch}

\* "an owner override of one finding" (docs/SCHEMA.md): what blocks a change of
\* one path is excused only by an override of that finding, also when the
\* change names other paths.
OverrideOfOneFinding ==
  Passed => \A ci \in run.req.intents : \A v \in ci.paths :
    \A f \in Evaluate({[ci EXCEPT !.paths = {v}]}, Context(run.policy, run.evidence),
                      run.at, run.req.strict) :
      f.verdict = "block" => f.id \in run.excused
=============================================================================
