-------------------------------- MODULE Drill -------------------------------
(***************************************************************************)
(* restoregap drill: what one drill run does between a declared drill and  *)
(* its proof record, with the commands that may overlap it.                *)
(*   "drill" runs the recovery in a sandbox, the checks one by one, weighs *)
(*           the budgets, and only then reads the signing key, writes the  *)
(*           record and appends the telemetry;                             *)
(*   "pin"   only asks whether the recovery source is still there.         *)
(* The context file holds one drill and its record. The live artifact and  *)
(* the recovery source change under the commands. A declared command ends  *)
(* as Runner says it may; here it is one step.                             *)
(* The file is written in one step: proofstore.Upsert holds the lock       *)
(* (module ProofStore).                                                    *)
(***************************************************************************)
EXTENDS Checks

CONSTANTS Commands,    \* the restoregap processes
          Cases,       \* the instances: what the file, the artifacts and the commands are at first
          TickMs,      \* milliseconds between two values of the clock
          Ttl,         \* --expires-in, in ticks
          MinRuns      \* --min-runs

ASSUME TimeAssumption == {TickMs, Ttl} \subseteq Nat /\ MinRuns \in Nat \ {0}

\* a line of telemetry
Runs == [mode : {"drill", "pin"}, verified : BOOLEAN, rto : Int, rpo : SUBSET [rank : 0 .. 2, age : Int]]

ASSUME CaseAssumption ==
  \A k \in Cases :
    /\ k.drill \in Declarations /\ {k.live, k.source} \subseteq Artifacts /\ IsFiniteSet(k.live.keys)
    /\ k.runs \in Seq(Runs)
    /\ \A i \in Commands : k.cmds[i].mode \in {"none", "drill", "pin"} /\ k.cmds[i].key \in {"none", "good", "bad"}
    /\ k.tools \subseteq STRING /\ {k.ticks, k.changes} \subseteq Nat /\ {k.cancels, k.calibrates} \subseteq BOOLEAN

VARIABLES case,     \* the instance
          clock,
          live,     \* the artifact
          source,   \* what its recovery source would recover it to
          changes,  \* changes of the two so far (bounded by the instance)
          drill,    \* the declared drill: checks and budgets
          record,   \* the proof record in the file
          runs,     \* the drill telemetry in the ledger
          cmd       \* the processes

world == <<case, clock, live, source, changes>>
vars == <<world, drill, record, runs, cmd>>

\* how a run ended; outs are the outcomes of the checks that ran
NoResult == [verified |-> FALSE, unreachable |-> FALSE, outs |-> <<>>, rto |-> 0, rpo |-> {}]

NoSpec == [checks |-> <<>>, rto |-> 0, rpo |-> 0]

\* ghost of a record: the run it came from
NoBasis == [spec |-> NoSpec, target |-> None, canceled |-> FALSE, ran |-> FALSE, res |-> NoResult]
NoRecord == [status |-> "none", verified |-> FALSE, at |-> NoTime, until |-> NoTime, basis |-> NoBasis]

Idle(mode, key) ==
  [pc |-> "off", mode |-> mode, key |-> key, spec |-> NoSpec, pre |-> None, target |-> None,
   began |-> NoTime, canceled |-> FALSE, ran |-> FALSE, wrote |-> NoTime, res |-> NoResult]

Init ==
  /\ case \in Cases
  /\ clock = 1
  /\ live = case.live
  /\ source = case.source
  /\ changes = 0
  /\ drill = case.drill
  /\ record = NoRecord
  /\ runs = case.runs
  /\ cmd = [i \in Commands |-> Idle(case.cmds[i].mode, case.cmds[i].key)]

-----------------------------------------------------------------------------
(* The world.                                                              *)

Tick ==
  /\ clock < case.ticks
  /\ clock' = clock + 1
  /\ UNCHANGED <<case, live, source, changes, drill, record, runs, cmd>>

Backup == source' = live /\ UNCHANGED live
Rot == source.form # "none" /\ source' = [source EXCEPT !.sound = FALSE, !.keys = {}] /\ UNCHANGED live
Lose == source' = None /\ UNCHANGED live
Use == live' = [live EXCEPT !.count = @ + 1, !.stamp = clock] /\ UNCHANGED source

Change ==
  /\ changes < case.changes
  /\ changes' = changes + 1
  /\ Backup \/ Rot \/ Lose \/ Use
  /\ UNCHANGED <<case, clock, drill, record, runs, cmd>>

-----------------------------------------------------------------------------
(* One process. Step(i, c) is the step of i that changes only itself.      *)

Becomes(i, c) == cmd' = [cmd EXCEPT ![i] = c]
Step(i, c) == Becomes(i, c) /\ UNCHANGED <<world, drill, record, runs>>

At(i, pc) == cmd[i].pc = pc

\* the file is read once, at the start
Start(i) ==
  /\ At(i, "off") /\ cmd[i].mode # "none"
  /\ Step(i, [cmd[i] EXCEPT !.pc = IF cmd[i].mode = "pin" THEN "pin" ELSE "prepare", !.spec = drill])

\* interrupt, or the timeout of the drill
Cancel(i) ==
  /\ cmd[i].pc \in {"recover", "check"} /\ ~cmd[i].canceled /\ case.cancels
  /\ Step(i, [cmd[i] EXCEPT !.canceled = TRUE])

Unreachable == [NoResult EXCEPT !.unreachable = TRUE]
Disputed == NoResult

HasCheckType(checks, t) == \E c \in ElementsOf(checks) : c.type = t

\* prepareRun: nothing was recovered, so every error is "unreachable". A
\* sandbox that cannot be made, or a source that is the artifact, may be one.
Prepare(i) ==
  LET c == cmd[i]
      Unreadable == HasCheckType(Effective(c.spec.checks), "byte_identical") /\ live.form \notin Files
  IN  /\ At(i, "prepare")
      /\ \/ Step(i, [c EXCEPT !.pc = "report", !.res = Unreachable])
         \/ ~Unreadable /\ Step(i, [c EXCEPT !.pc = "recover", !.pre = live, !.began = clock])

\* the recovery command. It may fail with the words of a source that is not
\* there, which anything it runs may print (looksLikeUnreachableSource), or with
\* others; it may exit with zero and write nothing.
Recover(i) ==
  LET c == cmd[i]
      NeedsTarget == RequiresTarget(Effective(c.spec.checks))
      Writes(t) == [c EXCEPT !.pc = IF NeedsTarget /\ t = None THEN "report" ELSE "check",
                             !.target = t, !.ran = TRUE, !.res = Disputed]
      Fails(r) == [c EXCEPT !.pc = "report", !.ran = TRUE, !.res = r]
  IN  /\ At(i, "recover")
      /\ IF c.canceled THEN Step(i, Fails(Unreachable))
         ELSE \/ Step(i, Fails(Disputed))
              \/ Step(i, Fails(Unreachable))
              \/ source.form # "none" /\ Step(i, Writes(source))
              \/ Step(i, Writes(None))

\* the next check; after each the context is looked at
CheckOne(i) ==
  LET c == cmd[i]
      checks == Effective(c.spec.checks)
      k == Len(c.res.outs) + 1
  IN  /\ At(i, "check")
      /\ \E ran \in {"ok", "failed"} :
           LET env == [pre |-> c.pre, live |-> live, now |-> clock, tools |-> case.tools,
                       ran |-> IF c.canceled THEN "canceled" ELSE ran]
               outs == Append(c.res.outs, Outcome(checks[k], c.target, env))
           IN  Step(i, [c EXCEPT !.res = [@ EXCEPT !.outs = outs, !.unreachable = c.canceled],
                                 !.pc = IF c.canceled THEN "report"
                                        ELSE IF k = Len(checks) THEN "weigh" ELSE "check"])

\* RTO, RPO, budgets, verdict
Weigh(i) ==
  LET c == cmd[i]
      rto == (clock - c.began) * TickMs
      rpo == {[r EXCEPT !.age = @ * TickMs] : r \in SelectRPO(c.res.outs, c.spec.rpo > 0)}
  IN  /\ At(i, "weigh")
      /\ Step(i, [c EXCEPT !.pc = "report",
                            !.res = [@ EXCEPT !.rto = rto, !.rpo = rpo,
                                              !.verified = Verified(c.spec, c.res.outs, rto, rpo)]])

PinResult(ok) == [NoResult EXCEPT !.verified = ok, !.unreachable = ~ok]

\* mutant of Pin: a pin that holds is recorded too
PinRefreshes(i) ==
  /\ At(i, "pin")
  /\ Step(i, [cmd[i] EXCEPT !.pc = "write", !.res = PinResult(source.form # "none")])

\* the pin command; only its exit status counts, and only a failure is recorded
Pin(i) ==
  /\ At(i, "pin")
  /\ \E ok \in BOOLEAN :
       /\ ok => source.form # "none"
       /\ Step(i, [cmd[i] EXCEPT !.pc = IF ok THEN "log" ELSE "write", !.res = PinResult(ok)])

\* the signing key is parsed after the recoveries have run
ParseKey(i) ==
  /\ At(i, "report")
  /\ Step(i, [cmd[i] EXCEPT !.pc = IF cmd[i].key = "bad" THEN "refused" ELSE "write"])

Status(res) == IF res.verified THEN "validated" ELSE IF res.unreachable THEN "unreachable" ELSE "disputed"

\* the record of a result: what it does not set is cleared
Entry(c) ==
  [status |-> Status(c.res), verified |-> c.res.verified, at |-> clock,
   until |-> IF c.res.verified /\ c.mode = "drill" THEN clock + Ttl ELSE NoTime,
   basis |-> [spec |-> c.spec, target |-> c.target, canceled |-> c.canceled, ran |-> c.ran, res |-> c.res]]

\* mutant of Write: only what was verified is recorded
WriteVerified(i) ==
  /\ At(i, "write")
  /\ record' = IF cmd[i].res.verified THEN Entry(cmd[i]) ELSE record
  /\ Becomes(i, [cmd[i] EXCEPT !.pc = "log", !.wrote = clock])
  /\ UNCHANGED <<world, drill, runs>>

Write(i) ==
  /\ At(i, "write")
  /\ record' = Entry(cmd[i])
  /\ Becomes(i, [cmd[i] EXCEPT !.pc = "log", !.wrote = clock])
  /\ UNCHANGED <<world, drill, runs>>

\* telemetry comes last, and its failure is only a warning
Log(i) ==
  LET c == cmd[i] IN
  /\ At(i, "log")
  /\ \/ runs' = Append(runs, [mode |-> c.mode, verified |-> c.res.verified, rto |-> c.res.rto, rpo |-> c.res.rpo])
     \/ UNCHANGED runs
  /\ Becomes(i, [c EXCEPT !.pc = "done"])
  /\ UNCHANGED <<world, drill, record>>

\* drill --calibrate --apply, in between
Calibrate ==
  /\ case.calibrates
  /\ drill' = Calibrated(drill, runs, MinRuns)
  /\ drill' # drill
  /\ UNCHANGED <<world, record, runs, cmd>>

Process(i) ==
  \/ Start(i) \/ Cancel(i) \/ Prepare(i) \/ Recover(i) \/ CheckOne(i) \/ Weigh(i)
  \/ Pin(i) \/ ParseKey(i) \/ Write(i) \/ Log(i)

Next == Tick \/ Change \/ Calibrate \/ \E i \in Commands : Process(i)

Spec == Init /\ [][Next]_vars

-----------------------------------------------------------------------------
(* Properties.                                                             *)

\* A passing git or file_tree check on an artifact with no commit or file in it
\* measures nothing, and applyBudgets takes a missing measurement for a check
\* that has failed already: see BudgetsAreMeasured.
Unmeasured(b) == \E c \in ElementsOf(b.spec.checks) : c.type \in {"git", "file_tree"} /\ b.target.stamp = NoTime

\* A verified record comes from a run that nobody cancelled, that recovered
\* something, ran every declared check to a pass, and kept both budgets, the
\* RPO by a measurement; keys were compared by a program that is installed; and
\* a drill that --lint finds an error in never gets there (it "would hard-fail
\* this the same way").
Earned(b, tools) ==
  LET checks == Effective(b.spec.checks)
  IN  /\ b.ran /\ ~b.canceled
      /\ b.target # None \/ ~RequiresTarget(checks)
      /\ Len(b.res.outs) = Len(checks)
      /\ \A k \in DOMAIN checks : b.res.outs[k].type = checks[k].type /\ b.res.outs[k].pass
      /\ b.spec.rto > 0 => b.res.rto <= b.spec.rto
      /\ b.spec.rpo > 0 => (\E r \in b.res.rpo : r.age <= b.spec.rpo) \/ Unmeasured(b)
      /\ \A c \in ElementsOf(checks) : c.type = "key_fingerprint" => c.keys \in tools
      /\ LintErrors(b.spec) = {}

VerifiedIsEarned == record.verified => Earned(record.basis, case.tools)

\* What drill.go:17 says: a budget that was declared but nothing measures is a failure.
BudgetsAreMeasured == record.verified /\ record.basis.spec.rpo > 0 => record.basis.res.rpo # {}

\* "unreachable" says that nothing was proven: no check judged a recovered
\* artifact, unless the run was cut short. "disputed" says that a recovery ran.
WordsAreHonest ==
  LET b == record.basis IN
  /\ record.status = "unreachable" => b.res.outs = <<>> \/ b.canceled
  /\ record.status = "disputed" => b.ran /\ ~b.canceled

\* A failure takes the place of the old passing proof: once a drill that did
\* not verify has ended, what clears changes was recorded after it. (A signing
\* key that does not parse ends the command before the record: "refused".)
FailureIsLoud ==
  \A i \in Commands :
    cmd[i].pc = "done" /\ ~cmd[i].res.verified => ~record.verified \/ record.at >= cmd[i].wrote

\* A pin check never makes, renews or extends a verified record.
PinProvesNothing ==
  [][\A i \in Commands : cmd[i].mode = "pin" /\ cmd'[i] # cmd[i] /\ record' # record
       => record'.status = "unreachable" /\ ~record'.verified /\ record'.until = NoTime]_vars

\* What a draft cannot say of the artifact it was measured from: that it has
\* nothing in it, that one of the entries it lists is empty, or that a file
\* with the name of a key is none.
Hollow(a) ==
  CASE DetectArtifactType(a) = "git"       -> a.count = 0
    [] DetectArtifactType(a) = "file_tree" -> a.count = 0 \/ \E t \in a.tops : t.empty
    [] DetectArtifactType(a) = "keys"      -> \E s \in a.looks : CollectFingerprints(s, a) = {}
    [] OTHER                               -> FALSE

\* A draft run on an exact copy of what it was measured from, where the
\* programs it needs are installed.
Copied(c) ==
  /\ c.target.form # "none" /\ c.target = live /\ c.pre = live
  /\ live.sound /\ ~Hollow(live) /\ live.looks \subseteq case.tools
  /\ c.spec = Propose(live)

\* A draft fits what it was measured from: run on an exact copy it verifies.
DraftFits ==
  \A i \in Commands :
    cmd[i].mode = "drill" /\ cmd[i].pc = "report" /\ ~cmd[i].canceled /\ Copied(cmd[i])
      => cmd[i].res.verified

\* At most one sample in twenty is above the bound.
MostlyWithin(s, bound) == 20 * Cardinality({k \in DOMAIN s : s[k] > bound}) <= Cardinality(DOMAIN s)

\* Budgets written by --calibrate leave room: of the verified runs that taught
\* them all but one in twenty fit four times over, the RPO keeps six hours on
\* top, and writing the value with a unit loses nothing of what was proposed.
CalibratedFits ==
  [][drill' # drill =>
       /\ MostlyWithin([k \in DOMAIN RtoSamples(runs) |-> Margin * RtoSamples(runs)[k]], drill'.rto)
       /\ drill'.rpo # drill.rpo => MostlyWithin(RpoSamples(runs), drill'.rpo - RpoFloor)
       /\ drill'.rto >= RtoFloor
       /\ drill'.rto = ProposedRTO(RtoSamples(runs))]_vars
\* A failure is told, in the right word and in the place of the old success.
FailureIsTold == WordsAreHonest /\ FailureIsLoud

\* What the tool writes for the owner, a draft or a budget, fits what it was
\* measured from.
WrittenFits == []DraftFits /\ CalibratedFits

=============================================================================
