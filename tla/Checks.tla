------------------------------- MODULE Checks -------------------------------
(***************************************************************************)
(* What a drill measures: the typed checks on a recovered artifact, the    *)
(* RPO and the budgets, and the three commands that read or write a drill  *)
(* without running it (propose, lint, calibrate).                          *)
(*                                                                         *)
(* An artifact is abstracted to what the checks can tell apart:            *)
(*   form   "db", "repo", "tree", "file", or "none" (not there);           *)
(*   sound  what integrity_check or fsck says of it;                       *)
(*   count  rows of its table, refs, or regular files;                     *)
(*   stamp  newest row, commit or file, NoTime when there is none;         *)
(*   tops   its top-level entries, each with "hidden" and "empty";         *)
(*   looks  the key schemes that the names of its files show;              *)
(*   keys   its key files: scheme and fingerprint of each.                 *)
(* Two artifacts with equal records have equal bytes.                      *)
(***************************************************************************)
EXTENDS Integers, Sequences, FiniteSets

NoTime == -1
None == [form |-> "none", sound |-> FALSE, count |-> 0, stamp |-> NoTime, tops |-> {},
         looks |-> {}, keys |-> {}]

Files == {"db", "file"}
Directories == {"repo", "tree"}

Artifacts ==
  [form : Files \cup Directories \cup {"none"}, sound : BOOLEAN, count : Nat, stamp : Int,
   tops : SUBSET [name : Nat, hidden : BOOLEAN, empty : BOOLEAN],
   looks : SUBSET {"ssh", "gpg"}, keys : SUBSET [scheme : STRING, print : STRING, half : STRING]]

-----------------------------------------------------------------------------
(* Constraints: an operator and a number, of things or of the percentage   *)
(* of the live table ("live"); "bad" does not parse.                       *)

CompareCount(op, got, n) ==
  CASE op = ">=" -> got >= n
    [] op = "<=" -> got <= n
    [] op = "==" -> got = n
    [] op = ">"  -> got > n
    [] op = "<"  -> got < n

EvalCountConstraint(c, got) == c.of = "count" /\ CompareCount(c.op, got, c.n)

\* ceil(fraction * live)
Threshold(pct, live) == (pct * live + 99) \div 100

TableCount(c, target, live) ==
  \/ EvalCountConstraint(c, target.count)
  \/ /\ c.of = "live" /\ live.form = "db"
     /\ CompareCount(c.op, target.count, Threshold(c.n, live.count))

\* an optional constraint is a set of at most one
AllHold(cs, got) == \A c \in cs : EvalCountConstraint(c, got)

Constraints == [op : {">=", "<=", "==", ">", "<"}, n : Nat, of : {"count", "live", "bad"}]

DeclaredChecks ==
  [type : {"byte_identical", "command", "serve"}]
  \cup [type : {"sqlite"}, integrity : BOOLEAN, fresh : BOOLEAN, tables : SUBSET Constraints]
  \cup [type : {"git"}, refs : SUBSET Constraints]
  \cup [type : {"file_tree"}, files : SUBSET Constraints, must : SUBSET Nat]
  \cup [type : {"key_fingerprint"}, keys : STRING, expectFrom : BOOLEAN, expect : SUBSET STRING, minKeys : Nat]

\* what a drill declares: its checks and two budgets, in milliseconds
Declarations == [checks : Seq(DeclaredChecks), rto : Int, rpo : Int]

-----------------------------------------------------------------------------
(* The checks. env has "pre" (the live artifact when the drill began),     *)
(* "live" (now), "ran" (how a declared command or service ended), "tools"  *)
(* (the schemes whose program is installed) and "now".                     *)

RunByteIdentical(target, env) == target.form \in Files /\ target = env.pre

RunSQLite(c, target, env) ==
  /\ target.form = "db"
  /\ c.integrity => target.sound
  /\ \A t \in c.tables : TableCount(t, target, env.live)
  /\ c.fresh => target.stamp # NoTime

RunGit(c, target) == target.form = "repo" /\ target.sound /\ AllHold(c.refs, target.count)

NonEmptyTops(a) == {t.name : t \in {u \in a.tops : ~u.empty}}

RunFileTree(c, target) ==
  /\ target.form \in Directories
  /\ AllHold(c.files, target.count)
  /\ c.must \subseteq NonEmptyTops(target)

\* What the program of a scheme finds in the files of a; what it rejects is
\* not a key. The two halves of a key have one fingerprint.
CollectFingerprints(scheme, a) == {k.print : k \in {f \in a.keys : f.scheme = scheme}}

MissingFingerprints(want, have) == want \ have

RunKeyFingerprint(c, target, env) ==
  LET recovered == CollectFingerprints(c.keys, target) IN
  /\ c.keys \in env.tools
  /\ target.form # "none"
  /\ c.expectFrom =>
       /\ env.live.form # "none"
       /\ MissingFingerprints(CollectFingerprints(c.keys, env.live), recovered) = {}
  /\ MissingFingerprints(c.expect, recovered) = {}
  /\ Cardinality(recovered) >= c.minKeys

Passes(c, target, env) ==
  CASE c.type = "byte_identical"       -> RunByteIdentical(target, env)
    [] c.type = "sqlite"               -> RunSQLite(c, target, env)
    [] c.type = "git"                  -> RunGit(c, target)
    [] c.type = "file_tree"            -> RunFileTree(c, target)
    [] c.type \in {"command", "serve"} -> env.ran = "ok"
    [] c.type = "key_fingerprint"      -> RunKeyFingerprint(c, target, env)

\* the freshness a check offers, as a set of at most one [rank, age]
Candidate(c, target, env) ==
  LET Offer(rank) == {[rank |-> rank, age |-> env.now - target.stamp]} IN
  IF target.stamp = NoTime THEN {}
  ELSE CASE c.type = "sqlite" /\ c.fresh /\ target.form = "db" -> Offer(0)
         [] c.type = "git" /\ target.form = "repo" -> Offer(1)
         [] c.type = "file_tree" /\ target.form \in Directories -> Offer(2)
         [] OTHER -> {}

Outcome(c, target, env) ==
  [type |-> c.type, pass |-> Passes(c, target, env), rpo |-> Candidate(c, target, env)]

-----------------------------------------------------------------------------
(* RunContext's helpers.                                                   *)

ElementsOf(s) == {s[i] : i \in DOMAIN s}

\* no declared check means the implicit one
Effective(checks) == IF checks = <<>> THEN <<[type |-> "byte_identical"]>> ELSE checks

RequiresTarget(checks) == \E c \in ElementsOf(checks) : c.type # "command"

FreshnessDeclared(checks) ==
  \E c \in ElementsOf(checks) : c.type \in {"git", "file_tree"} \/ (c.type = "sqlite" /\ c.fresh)

\* the first candidate of the lowest rank; ranks above 0 count only with a budget
SelectRPO(outs, autoOK) ==
  LET Eligible(i) == \E r \in outs[i].rpo : r.rank = 0 \/ autoOK
      Rank(i) == (CHOOSE r \in outs[i].rpo : TRUE).rank
      Best(i) == /\ Eligible(i)
                 /\ \A j \in DOMAIN outs :
                      Eligible(j) => Rank(i) < Rank(j) \/ (Rank(i) = Rank(j) /\ i <= j)
  IN  UNION {outs[i].rpo : i \in {j \in DOMAIN outs : Best(j)}}

\* the budgets that are not met: the synthetic failing checks (0 declares no budget)
BudgetFailures(d, rto, rpo) ==
  {b \in {"budget_rto", "budget_rpo"} :
     \/ b = "budget_rto" /\ d.rto > 0 /\ rto > d.rto
     \/ b = "budget_rpo" /\ d.rpo > 0 /\ rpo = {} /\ ~FreshnessDeclared(Effective(d.checks))
     \/ b = "budget_rpo" /\ d.rpo > 0 /\ \E r \in rpo : r.age > d.rpo}

\* mutant of Verified: budgets are reported, not required
VerifiedByChecks(d, outs, rto, rpo) == \A o \in ElementsOf(outs) : o.pass

Verified(d, outs, rto, rpo) ==
  (\A o \in ElementsOf(outs) : o.pass) /\ BudgetFailures(d, rto, rpo) = {}

-----------------------------------------------------------------------------
(* drill --lint: the errors (warnings refuse nothing).                     *)

LintBudgets(d) == IF d.rpo > 0 /\ ~FreshnessDeclared(Effective(d.checks)) THEN {"rpo"} ELSE {}

LintTableConstraints(d) ==
  IF \E c \in ElementsOf(d.checks) : c.type = "sqlite" /\ \E t \in c.tables : t.of = "bad"
  THEN {"tables"} ELSE {}

LintErrors(d) == LintBudgets(d) \cup LintTableConstraints(d)

-----------------------------------------------------------------------------
(* drill propose: measure a live artifact.                                 *)

\* 85% of a count, rounded down to two significant figures: in units of the
\* least power of ten that leaves no more than two
RoundDownSigFigs(m) ==
  LET power[i \in 0 .. m] == IF i = 0 THEN 1 ELSE 10 * power[i - 1]
      magnitude == CHOOSE i \in 0 .. m : /\ 85 * m < 100 * 100 * power[i]
                                         /\ i > 0 => 85 * m >= 100 * 10 * power[i]
      scale == power[magnitude]
  IN  ((85 * m) \div (100 * scale)) * scale

Floor(m) == IF m < 10 THEN 1 ELSE RoundDownSigFigs(m)

AtLeast(n) == {[op |-> ">=", n |-> n, of |-> "count"]}
DefaultTableFloor == {[op |-> ">=", n |-> 90, of |-> "live"]}

EntryRank(t) == (IF t.hidden THEN 2 ELSE 0) + (IF t.empty THEN 1 ELSE 0)

\* up to three entries, the best rank first, by name within a rank
NotableTopLevelEntries(tops) ==
  LET Before(t, u) == EntryRank(t) < EntryRank(u) \/ (EntryRank(t) = EntryRank(u) /\ t.name < u.name)
  IN  {t.name : t \in {u \in tops : Cardinality({v \in tops : Before(v, u)}) < 3}}

\* the largest table has a column whose newest value parses as a time
HasFreshness(live) == live.count > 0 /\ live.stamp # NoTime

\* first match wins
DetectArtifactType(a) ==
  CASE a.form = "repo"                    -> "git"
    [] a.form = "tree" /\ a.looks # {}    -> "keys"
    [] a.form = "tree" /\ a.looks = {}    -> "file_tree"
    [] a.form = "db"                      -> "sqlite"
    [] a.form = "file"                    -> "byte_identical"

\* one check per scheme that the names show
ProposeKeys(live) ==
  LET Check(scheme) == [type |-> "key_fingerprint", keys |-> scheme, expectFrom |-> TRUE,
                        expect |-> {}, minKeys |-> 1]
      IfShown(scheme) == IF scheme \in live.looks THEN <<Check(scheme)>> ELSE <<>>
  IN  IfShown("ssh") \o IfShown("gpg")

ProposeSQLite(live) ==
  [type |-> "sqlite", integrity |-> TRUE, fresh |-> HasFreshness(live),
   tables |-> IF live.count > 0 THEN DefaultTableFloor ELSE {}]

ProposeFileTree(live) ==
  [type |-> "file_tree", files |-> AtLeast(Floor(live.count)), must |-> NotableTopLevelEntries(live.tops)]

ProposeValidate(live) ==
  LET kind == DetectArtifactType(live) IN
  CASE kind = "sqlite"         -> <<ProposeSQLite(live)>>
    [] kind = "git"            -> <<[type |-> "git", refs |-> AtLeast(Floor(live.count))]>>
    [] kind = "keys"           -> ProposeKeys(live)
    [] kind = "file_tree"      -> <<ProposeFileTree(live)>>
    [] kind = "byte_identical" -> <<[type |-> "byte_identical"]>>

\* a draft declares no budgets
Propose(live) == [checks |-> ProposeValidate(live), rto |-> 0, rpo |-> 0]

-----------------------------------------------------------------------------
(* drill --calibrate. Durations are in milliseconds.                       *)

Second == 1000
Minute == 60 * Second
Hour == 60 * Minute
RtoFloor == 30 * Second
RpoFloor == 6 * Hour
Margin == 4

\* nearest rank: the smallest sample that ceil(95% of n) samples do not exceed
Percentile95(s) ==
  LET Rank == (95 * Cardinality(DOMAIN s) + 99) \div 100
      NotAbove(v) == Cardinality({i \in DOMAIN s : s[i] <= v})
  IN  CHOOSE v \in ElementsOf(s) :
        NotAbove(v) >= Rank /\ \A w \in ElementsOf(s) : NotAbove(w) >= Rank => v <= w

Larger(a, b) == IF a > b THEN a ELSE b
RoundUp(d, step) == ((d + step - 1) \div step) * step

\* mutant of RoundUpFriendlyRTO: whole minutes start one step late
RoundUpLate(d) == RoundUp(d, IF d > 6 * Minute THEN Minute ELSE 30 * Second)

RoundUpFriendlyRTO(d) == RoundUp(d, IF d > 5 * Minute THEN Minute ELSE 30 * Second)

ProposedRTO(s) == RoundUpFriendlyRTO(Larger(Margin * Percentile95(s), RtoFloor))
ProposedRPO(s) ==
  LET p == Percentile95(s) IN RoundUp(Larger((3 * p + 1) \div 2, p + RpoFloor), Hour)

\* what is written into the file: whole seconds, or whole minutes from five on
FormatCalibratedRTO(d) == IF d < 5 * Minute THEN (d \div Second) * Second ELSE (d \div Minute) * Minute

\* samples: verified full drills; RPO where it was measured
FullDrill(r) == r.mode = "drill" /\ r.verified

RtoSamples(runs) == [k \in {l \in DOMAIN runs : FullDrill(runs[l])} |-> runs[k].rto]
RpoSamples(runs) ==
  [k \in {l \in DOMAIN runs : FullDrill(runs[l]) /\ runs[l].rpo # {}} |->
     (CHOOSE r \in runs[k].rpo : TRUE).age]

\* the budgets a drill has after --calibrate --apply
Calibrated(d, runs, minRuns) ==
  IF Cardinality(DOMAIN RtoSamples(runs)) < minRuns THEN d
  ELSE [d EXCEPT !.rto = FormatCalibratedRTO(ProposedRTO(RtoSamples(runs))),
                 !.rpo = IF Cardinality(DOMAIN RpoSamples(runs)) >= minRuns THEN ProposedRPO(RpoSamples(runs)) ELSE @]
=============================================================================
