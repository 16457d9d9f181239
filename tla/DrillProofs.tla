---------------------------- MODULE DrillProofs ----------------------------
(***************************************************************************)
(* The command runner, for any helpers and any number of probes, whatever  *)
(* the command does: when the engine returns nobody of the command's group *)
(* writes to the output, command.run leaves no process of the group, a     *)
(* success is the exit with zero of a command that nobody speaks for any   *)
(* more, and a command that was cancelled in time never succeeds.          *)
(* The drill, for any processes and instances of the assumed shape: what a *)
(* record says of the run it came from, that a failure is told, and that a *)
(* pin check proves nothing.                                               *)
(***************************************************************************)
EXTENDS Drill, Runner, TLAPS, FiniteSetTheorems, SequenceTheorems, WellFoundedInduction

-----------------------------------------------------------------------------
(* THE COMMAND RUNNER                                                      *)

Proc == [group : BOOLEAN, pipe : BOOLEAN, live : BOOLEAN]

Typed ==
  /\ mode \in {"run", "serve"}
  /\ Leader \in DOMAIN procs /\ DOMAIN procs \subseteq Processes
  /\ procs \in [DOMAIN procs -> Proc]
  /\ code \in {"none", "zero", "nonzero"}
  /\ canceled \in BOOLEAN
  /\ probed \in 0 .. MaxProbes
  /\ result \in Results

\* Where each of the two runs can stand, and that a probe is still to come
\* while the engine probes.
Places ==
  /\ mode = "run" => pc \in {"wait", "cleanup", "stopping", "drain", "done"}
  /\ mode = "serve" => pc \in {"ready", "probing", "kill", "killing", "killed", "done"}
  /\ pc \in {"ready", "probing"} => probed < MaxProbes
  /\ pc = "wait" => result = "none"

\* What the kill achieved stays so, although processes that left the group go
\* on forking: a child is in the group only when its parent is.
Killed ==
  /\ mode = "run" /\ pc \in {"drain", "done"} => Group = {}
  /\ mode = "serve" /\ pc = "done" => Holders = {}

\* A success was collected from a leader that is gone, so its status is final;
\* and the end of the output is final once the engine has seen it.
Final ==
  /\ mode = "run" /\ result = "ok" => code = "zero" /\ Leader \notin Live
  /\ mode = "run" /\ result = "ok" /\ pc = "done" => Holders = {}

RunnerIInv == Typed /\ Places /\ Killed /\ Final

-----------------------------------------------------------------------------
(* The start. *)

LEMMA InitRunnerIInv == RunnerInit => RunnerIInv
<1> SUFFICES ASSUME RunnerInit PROVE RunnerIInv
  OBVIOUS
<1> USE RunnerAssumption DEF RunnerInit
<1>1. procs \in [{Leader} -> Proc] /\ DOMAIN procs = {Leader}
  BY DEF Proc
<1>2. Typed
  <2>1. /\ Leader \in DOMAIN procs /\ DOMAIN procs \subseteq Processes
        /\ procs \in [DOMAIN procs -> Proc]
    BY <1>1 DEF Processes
  <2>2. probed \in 0 .. MaxProbes /\ result \in Results
    BY DEF Results
  <2> QED BY <2>1, <2>2 DEF Typed
<1>3. Places
  BY DEF Places
<1>4. Killed /\ Final
  BY DEF Killed, Final
<1> QED BY <1>2, <1>3, <1>4 DEF RunnerIInv

-----------------------------------------------------------------------------
(* The processes: what a fork and a death can change.                      *)

\* A death takes processes from the living and changes nothing else of them;
\* an exit status changes only when the leader dies.
LEMMA Deaths ==
  ASSUME Typed, NEW dead, procs' = After(dead), NEW c \in {"zero", "nonzero"},
         code' = ExitCode(dead, c)
  PROVE  /\ DOMAIN procs' = DOMAIN procs /\ procs' \in [DOMAIN procs -> Proc]
         /\ Live' = Live \ dead /\ Group' = Group \ dead /\ Holders' = Holders \ dead
         /\ code' \in {"none", "zero", "nonzero"}
         /\ Leader \notin Live => code' = code
<1>1. DOMAIN procs' = DOMAIN procs
  BY DEF After
<1>2. ASSUME NEW q \in DOMAIN procs
      PROVE  /\ procs'[q] \in Proc
             /\ procs'[q].live = (procs[q].live /\ q \notin dead)
             /\ procs'[q].group = procs[q].group /\ procs'[q].pipe = procs[q].pipe
  BY <1>2 DEF After, Typed, Proc
<1>3. procs' \in [DOMAIN procs -> Proc]
  BY <1>1, <1>2 DEF After
<1>4. Live' = Live \ dead /\ Group' = Group \ dead /\ Holders' = Holders \ dead
  BY <1>1, <1>2 DEF Live, Group, Holders
<1>5. code' \in {"none", "zero", "nonzero"} /\ (Leader \notin Live => code' = code)
  BY DEF ExitCode, Typed
<1> QED BY <1>1, <1>3, <1>4, <1>5

\* A step that only takes processes from the living, and says nothing new,
\* keeps the invariant wherever the engine stands.
LEMMA DeathKeeps ==
  ASSUME RunnerIInv, NEW dead, procs' = After(dead), NEW c \in {"zero", "nonzero"},
         code' = ExitCode(dead, c), UNCHANGED <<mode, canceled, pc, probed, result>>
  PROVE  RunnerIInv'
<1> USE DEF RunnerIInv
<1>1. Typed' /\ Places'
  BY Deaths DEF Typed, Places
<1>2. Killed' /\ Final'
  BY Deaths DEF Killed, Final
<1> QED BY <1>1, <1>2

\* A helper is what its parent is.
LEMMA ForkKeeps ==
  ASSUME RunnerIInv, NEW p \in Processes, NEW h \in Helpers, Fork(p, h)
  PROVE  RunnerIInv'
<1> USE DEF RunnerIInv, Fork
<1>1. procs' \in [DOMAIN procs \cup {h} -> Proc] /\ DOMAIN procs' = DOMAIN procs \cup {h}
  BY DEF Typed, Live
<1>2. Typed'
  BY <1>1 DEF Typed, Processes
<1>3. Places'
  BY DEF Places
<1>4. Group = {} => Group' = {}
  BY DEF Group, Live
<1>5. Leader \notin Live => Leader \notin Live'
  BY DEF Live, Typed
<1> QED BY <1>2, <1>3, <1>4, <1>5 DEF Killed, Final

LEMMA DetachKeeps ==
  ASSUME RunnerIInv, NEW p \in Processes, Detach(p)
  PROVE  RunnerIInv'
<1> USE DEF RunnerIInv, Detach
<1>1. /\ p \in DOMAIN procs /\ procs' \in [DOMAIN procs -> Proc]
      /\ DOMAIN procs' = DOMAIN procs
      /\ \A q \in DOMAIN procs : /\ procs'[q].live = procs[q].live
                                 /\ procs'[q].group => procs[q].group
  BY DEF Typed, Live, Proc
<1>2. Typed'
  BY <1>1 DEF Typed
<1>3. Places'
  BY DEF Places
<1>4. Live' = Live /\ Group' \subseteq Group
  BY <1>1 DEF Live, Group
<1> QED BY <1>2, <1>3, <1>4 DEF Killed, Final

-----------------------------------------------------------------------------
(* The engine.                                                             *)

\* The kill empties the group, and the leader, who cannot leave it, is in it.
LEMMA KillEmpties ==
  ASSUME Typed, Kill
  PROVE  /\ DOMAIN procs' = DOMAIN procs /\ procs' \in [DOMAIN procs -> Proc]
         /\ Live' \subseteq Live /\ Holders' \subseteq Holders /\ Group' = {}
         /\ code' \in {"none", "zero", "nonzero"}
         /\ Leader \notin Live => code' = code
BY Deaths DEF Kill

LEMMA RunKeeps == ASSUME RunnerIInv, RunStep PROVE RunnerIInv'
<1> USE DEF RunnerIInv
<1>1. CASE Collect
  BY <1>1 DEF Collect, Typed, Places, Killed, Final, Live, Group, Holders, Results
<1>2. CASE Cleanup
  <2>1. Typed' /\ Places'
    BY <1>2, KillEmpties DEF Cleanup, Typed, Places
  <2>2. Killed' /\ Final'
    BY <1>2, KillEmpties DEF Cleanup, Killed, Final, Places
  <2> QED BY <2>1, <2>2
<1>3. CASE TimeOut
  BY <1>3 DEF TimeOut, Typed, Places, Killed, Final, Live, Group, Holders, Results
<1>4. CASE Stop
  <2>1. Typed' /\ Places'
    BY <1>4, KillEmpties DEF Stop, Typed, Places
  <2>2. Killed' /\ Final'
    BY <1>4, KillEmpties DEF Stop, Killed, Final, Places
  <2> QED BY <2>1, <2>2
<1>5. CASE Drain
  <2>1. Live' = Live /\ Group' = Group /\ Holders' = Holders
    BY <1>5 DEF Drain, Live, Group, Holders
  <2> QED BY <1>5, <2>1 DEF Drain, Typed, Places, Killed, Final, Results
<1> QED BY <1>1, <1>2, <1>3, <1>4, <1>5 DEF RunStep

LEMMA ServeKeeps == ASSUME RunnerIInv, ServeStep PROVE RunnerIInv'
<1> USE RunnerAssumption DEF RunnerIInv
<1>0. mode = "serve"
  BY DEF ServeStep, ProbePasses, ProbeFails, GiveUp, KillGroup, AfterTerm, AfterKill, Places, Typed
<1>1. CASE ProbePasses \/ ProbeFails
  BY <1>0, <1>1 DEF ProbePasses, ProbeFails, Typed, Places, Killed, Final, Results
<1>2. CASE GiveUp
  BY <1>0, <1>2 DEF GiveUp, Typed, Places, Killed, Final, Results
<1>3. CASE KillGroup
  BY <1>0, <1>3 DEF KillGroup, DoneClosed, Holders, Live, Typed, Places, Killed, Final
<1>4. CASE AfterTerm
  <2>1. CASE DoneClosed /\ pc' = "done" /\ UNCHANGED <<procs, code>>
    BY <1>0, <1>4, <2>1 DEF AfterTerm, DoneClosed, Holders, Live, Typed, Places, Killed, Final
  <2>2. CASE Kill /\ pc' = "killed"
    BY <1>0, <1>4, <2>2, KillEmpties DEF AfterTerm, Typed, Places, Killed, Final
  <2> QED BY <1>4, <2>1, <2>2 DEF AfterTerm
<1>5. CASE AfterKill
  BY <1>0, <1>5 DEF AfterKill, DoneClosed, Holders, Live, Typed, Places, Killed, Final
<1> QED BY <1>1, <1>2, <1>3, <1>4, <1>5 DEF ServeStep

LEMMA StutterKeeps == ASSUME RunnerIInv, UNCHANGED runnerVars PROVE RunnerIInv'
BY DEF runnerVars, RunnerIInv, Typed, Places, Killed, Final, Live, Group, Holders

LEMMA NextRunnerIInv == RunnerIInv /\ [RunnerNext]_runnerVars => RunnerIInv'
<1> SUFFICES ASSUME RunnerIInv, [RunnerNext]_runnerVars PROVE RunnerIInv'
  OBVIOUS
<1>1. ASSUME NEW p \in Processes, NEW h \in Helpers, Fork(p, h) PROVE RunnerIInv'
  BY <1>1, ForkKeeps
<1>2. ASSUME NEW p \in Processes, Detach(p) PROVE RunnerIInv'
  BY <1>2, DetachKeeps
<1>3. ASSUME NEW p \in Processes, Exit(p) PROVE RunnerIInv'
  <2>1. PICK c \in {"zero", "nonzero"} : code' = ExitCode({p}, c)
    BY <1>3 DEF Exit
  <2> QED BY <1>3, <2>1, DeathKeeps DEF Exit
<1>4. CASE CancelCommand
  BY <1>4 DEF CancelCommand, RunnerIInv, Typed, Places, Killed, Final, Live, Group, Holders
<1>5. CASE Engine
  BY <1>5, RunKeeps, ServeKeeps DEF Engine
<1> QED BY <1>1, <1>2, <1>3, <1>4, <1>5, StutterKeeps DEF RunnerNext

LEMMA RunnerInductive == RunnerSpec => []RunnerIInv
BY InitRunnerIInv, NextRunnerIInv, PTL DEF RunnerSpec

-----------------------------------------------------------------------------
(* What follows.                                                           *)

\* The engine's state and the processes stay in their domains, for both runs
\* and however many helpers are forked.
THEOREM RunnerTypeCorrect == RunnerSpec => []RunnerTypeOK
<1>1. RunnerIInv => RunnerTypeOK
  BY DEF RunnerIInv, Typed, Places, RunnerTypeOK, Proc
<1> QED BY <1>1, RunnerInductive, PTL

\* When the engine returns, nobody of the group writes to the output and
\* command.run leaves nothing of the group; a success is final and whole.
THEOREM Whole == RunnerSpec => []NobodyWritesOn
<1>1. RunnerIInv => NobodyWritesOn
  BY DEF RunnerIInv, Typed, Killed, Final, NobodyWritesOn, SuccessIsWhole, GroupIsGone, Group, Holders
<1> QED BY <1>1, RunnerInductive, PTL

\* A command that was cancelled before its exit was collected does not
\* succeed, whatever status it exits with (command.go:108).
THEOREM CancelWins == RunnerSpec => CanceledNeverSucceeds
<1>1. RunnerIInv /\ [RunnerNext]_runnerVars => [mode = "run" /\ pc = "wait" /\ canceled => result' # "ok"]_runnerVars
  <2> SUFFICES ASSUME RunnerIInv, RunnerNext, mode = "run", pc = "wait", canceled PROVE result' # "ok"
    OBVIOUS
  <2>1. result = "none"
    BY DEF RunnerIInv, Places
  <2>2. CASE Engine
    BY <2>1, <2>2 DEF Engine, RunStep, ServeStep, Collect, Cleanup, TimeOut, Stop, Drain,
         ProbePasses, ProbeFails, GiveUp, KillGroup, AfterTerm, AfterKill
  <2>3. CASE ~Engine
    BY <2>1, <2>3 DEF RunnerNext, Fork, Detach, Exit, CancelCommand
  <2> QED BY <2>2, <2>3
<1> QED BY <1>1, RunnerInductive, PTL DEF RunnerSpec, CanceledNeverSucceeds

-----------------------------------------------------------------------------
(* THE DRILL                                                               *)

Outcomes ==
  [type : {"byte_identical", "command", "serve", "sqlite", "git", "file_tree", "key_fingerprint"},
   pass : BOOLEAN, rpo : SUBSET [rank : 0 .. 2, age : Int]]

RunResults ==
  [verified : BOOLEAN, unreachable : BOOLEAN, outs : Seq(Outcomes), rto : Int,
   rpo : SUBSET [rank : 0 .. 2, age : Int]]

Bases == [spec : Declarations, target : Artifacts, canceled : BOOLEAN, ran : BOOLEAN, res : RunResults]

Records ==
  [status : {"none", "validated", "unreachable", "disputed"}, verified : BOOLEAN, at : Int, until : Int,
   basis : Bases]

DrillProcesses ==
  [pc : {"off", "prepare", "recover", "check", "weigh", "report", "pin", "write", "log", "done", "refused"},
   mode : {"none", "drill", "pin"}, key : {"none", "good", "bad"}, spec : Declarations, pre : Artifacts,
   target : Artifacts, began : Int, canceled : BOOLEAN, ran : BOOLEAN, wrote : Int, res : RunResults]

WorldOk == case \in Cases /\ clock \in Nat /\ {live, source} \subseteq Artifacts /\ changes \in Nat
FileOk == drill \in Declarations /\ record \in Records /\ runs \in Seq(Runs)
TypeOK == WorldOk /\ FileOk /\ cmd \in [Commands -> DrillProcesses]

\* What an outcome o of the check c on the artifact t says of the two.
Dates(c) == c.type \in {"git", "file_tree"} \/ (c.type = "sqlite" /\ c.fresh)

Judged(c, t, o, tools) ==
  /\ o.type = c.type
  /\ o.pass => /\ c.type = "key_fingerprint" => c.keys \in tools
               /\ c.type = "sqlite" => \A x \in c.tables : x.of # "bad"
               /\ Dates(c) => o.rpo # {} \/ (c.type \in {"git", "file_tree"} /\ t.stamp = NoTime)
  /\ o.rpo # {} => Dates(c)

\* While its checks run, nothing is decided, and each outcome so far is the
\* judgement of the check that is declared at its place.
Underway(c, tools) ==
  LET checks == Effective(c.spec.checks) IN
  /\ c.mode = "drill" /\ c.ran /\ ~c.res.verified /\ ~c.res.unreachable
  /\ c.target # None \/ ~RequiresTarget(checks)
  /\ c.pc = "check" => Len(c.res.outs) < Len(checks)
  /\ c.pc = "weigh" => Len(c.res.outs) = Len(checks) /\ ~c.canceled
  /\ \A k \in DOMAIN c.res.outs : k \in DOMAIN checks /\ Judged(checks[k], c.target, c.res.outs[k], tools)

\* What is true of the result of a run, b, once it is decided.
Honest(b, tools) ==
  /\ b.res.verified => Earned(b, tools)
  /\ ~b.res.verified /\ b.res.unreachable => b.res.outs = <<>> \/ b.canceled
  /\ ~b.res.verified /\ ~b.res.unreachable => b.ran /\ ~b.canceled

\* A pin check is never where a drill is, and decides only that it failed.
Fits(c, tools) ==
  /\ c.pc \in {"prepare", "recover", "report"} => c.mode = "drill"
  /\ c.pc = "pin" => c.mode = "pin"
  /\ c.pc \in {"check", "weigh"} => Underway(c, tools)
  /\ c.pc \in {"report", "write"} => Honest(c, tools)
  /\ c.pc # "off" => c.mode # "none"
  /\ c.pc = "write" /\ c.mode = "pin" => ~c.res.verified /\ c.res.unreachable

\* A failure that was recorded stays told.
Told(c, now, rec) ==
  /\ c.wrote <= now
  /\ c.pc \in {"log", "done"} /\ ~c.res.verified => ~rec.verified \/ rec.at >= c.wrote

\* The record is what Entry made of an honest result.
Recorded(rec, tools) ==
  /\ rec.status = "none" => ~rec.verified
  /\ rec.status # "none" =>
       /\ rec.status = Status(rec.basis.res) /\ rec.verified = rec.basis.res.verified
       /\ Honest(rec.basis, tools)

IInv ==
  /\ TypeOK
  /\ Recorded(record, case.tools)
  /\ \A i \in Commands : Fits(cmd[i], case.tools) /\ Told(cmd[i], clock, record)

-----------------------------------------------------------------------------
(* Finite choices.                                                         *)

LEMMA LeastIs ==
  ASSUME NEW W \in SUBSET Nat, W # {}
  PROVE  \E x \in W : \A v \in W : x <= v
<1>1. PICK w \in W : \A v \in W : ~(<<v, w>> \in OpToRel(<, Nat))
  BY NatLessThanWellFounded, WFMin
<1>2. \A v \in W : ~(v < w)
  BY <1>1 DEF OpToRel
<1> QED BY <1>2

\* The percentile of some samples is one of them, and as many as its rank says
\* are not above it.
LEMMA PercentileIs ==
  ASSUME NEW s, IsFiniteSet(DOMAIN s), DOMAIN s # {}, \A i \in DOMAIN s : s[i] \in Int
  PROVE  /\ Percentile95(s) \in Int
         /\ (95 * Cardinality(DOMAIN s) + 99) \div 100 <= Cardinality({i \in DOMAIN s : s[i] <= Percentile95(s)})
<1> DEFINE n == Cardinality(DOMAIN s)
           Rank == (95 * n + 99) \div 100
           Below(v) == {i \in DOMAIN s : s[i] <= v}
           NotAbove(v) == Cardinality(Below(v))
<1>1. n \in Nat /\ n > 0
  BY FS_CardinalityType, FS_EmptySet
<1>2. Rank \in Nat /\ Rank <= n
  BY <1>1
<1>3. ASSUME NEW i \in DOMAIN s
      PROVE  Below(s[i]) \subseteq DOMAIN s /\ IsFiniteSet(Below(s[i])) /\ NotAbove(s[i]) \in Nat /\ NotAbove(s[i]) <= n
  <2>1. Below(s[i]) \subseteq DOMAIN s
    OBVIOUS
  <2> HIDE DEF Below
  <2> QED BY <2>1, FS_Subset, FS_CardinalityType
\* a smaller sample has fewer below it
<1>4. ASSUME NEW i \in DOMAIN s, NEW j \in DOMAIN s, s[i] < s[j]
      PROVE  NotAbove(s[i]) < NotAbove(s[j])
  <2>1. Below(s[i]) \subseteq Below(s[j]) /\ j \in Below(s[j]) /\ j \notin Below(s[i])
    BY <1>4
  <2>2. IsFiniteSet(Below(s[j])) /\ NotAbove(s[j]) \in Nat /\ NotAbove(s[i]) \in Nat
    BY <1>3
  <2> HIDE DEF Below
  <2>3. Below(s[i]) # Below(s[j])
    BY <2>1
  <2>4. NotAbove(s[i]) <= NotAbove(s[j]) /\ (NotAbove(s[i]) = NotAbove(s[j]) => Below(s[i]) = Below(s[j]))
    BY <2>1, <2>2, FS_Subset
  <2> QED BY <2>2, <2>3, <2>4
<1>5. \A i \in DOMAIN s : NotAbove(s[i]) \in Nat /\ n - NotAbove(s[i]) \in Nat
  <2> SUFFICES ASSUME NEW i \in DOMAIN s PROVE NotAbove(s[i]) \in Nat /\ n - NotAbove(s[i]) \in Nat
    OBVIOUS
  <2>1. NotAbove(s[i]) \in Nat /\ NotAbove(s[i]) <= n
    BY <1>3
  <2> HIDE DEF NotAbove, n
  <2> QED BY <1>1, <2>1
\* so the one with the most below it has all
<1>6. \E i \in DOMAIN s : NotAbove(s[i]) >= Rank
  <2> DEFINE W == {n - NotAbove(s[i]) : i \in DOMAIN s}
  <2>1. W \in SUBSET Nat /\ W # {}
    <3> HIDE DEF NotAbove
    <3> QED BY <1>5
  <2>2. PICK x \in W : \A v \in W : x <= v
    <3> HIDE DEF W
    <3> QED BY <2>1, LeastIs
  <2>3. PICK i \in DOMAIN s : \A j \in DOMAIN s : n - NotAbove(s[i]) <= n - NotAbove(s[j])
    <3> HIDE DEF NotAbove
    <3> QED BY <2>2
  <2>4. ASSUME NEW j \in DOMAIN s PROVE s[j] <= s[i]
    <3>1. ~(s[i] < s[j])
      <4> HIDE DEF NotAbove
      <4> QED BY <1>1, <1>5, <1>4, <2>3
    <3> QED BY <3>1
  <2>5. Below(s[i]) = DOMAIN s
    BY <2>4
  <2> QED BY <1>2, <2>5
<1>7. \E i \in DOMAIN s : /\ NotAbove(s[i]) >= Rank
                          /\ \A j \in DOMAIN s : NotAbove(s[j]) >= Rank => s[i] <= s[j]
  <2> DEFINE W == {NotAbove(s[i]) : i \in {j \in DOMAIN s : NotAbove(s[j]) >= Rank}}
  <2>1. W \in SUBSET Nat /\ W # {}
    <3> HIDE DEF NotAbove
    <3> QED BY <1>5, <1>6
  <2>2. PICK x \in W : \A v \in W : x <= v
    <3> HIDE DEF W
    <3> QED BY <2>1, LeastIs
  <2>3. PICK i \in DOMAIN s : /\ NotAbove(s[i]) >= Rank
                              /\ \A j \in DOMAIN s : NotAbove(s[j]) >= Rank => NotAbove(s[i]) <= NotAbove(s[j])
    <3> HIDE DEF NotAbove, Rank
    <3> QED BY <2>2
  <2>4. ASSUME NEW j \in DOMAIN s, NotAbove(s[j]) >= Rank PROVE s[i] <= s[j]
    <3>1. ~(s[j] < s[i])
      <4> HIDE DEF NotAbove, Rank
      <4> QED BY <1>5, <1>4, <2>3, <2>4
    <3> QED BY <3>1
  <2> QED BY <2>3, <2>4
<1>8. \E v \in ElementsOf(s) : NotAbove(v) >= Rank /\ \A w \in ElementsOf(s) : NotAbove(w) >= Rank => v <= w
  <2> HIDE DEF NotAbove, Rank
  <2> QED BY <1>7 DEF ElementsOf
<1>9. Percentile95(s) \in ElementsOf(s) /\ NotAbove(Percentile95(s)) >= Rank
  BY <1>8 DEF Percentile95
<1>10. PICK i \in DOMAIN s : Percentile95(s) = s[i]
  BY <1>9 DEF ElementsOf
<1>11. NotAbove(s[i]) \in Nat /\ NotAbove(s[i]) >= Rank
  BY <1>3, <1>9, <1>10
<1>12. Rank <= NotAbove(Percentile95(s))
  <2> HIDE DEF NotAbove, Rank
  <2> QED BY <1>2, <1>10, <1>11
<1> QED BY <1>10, <1>12

-----------------------------------------------------------------------------
(* The budgets that are written.                                           *)

LEMMA SamplesAre ==
  ASSUME NEW rs \in Seq(Runs)
  PROVE  /\ IsFiniteSet(DOMAIN RtoSamples(rs)) /\ \A k \in DOMAIN RtoSamples(rs) : RtoSamples(rs)[k] \in Int
         /\ IsFiniteSet(DOMAIN RpoSamples(rs)) /\ \A k \in DOMAIN RpoSamples(rs) : RpoSamples(rs)[k] \in Int
<1>1. Len(rs) \in Nat /\ DOMAIN rs = 1 .. Len(rs) /\ \A k \in DOMAIN rs : rs[k] \in Runs
  BY LenProperties, ElementOfSeq
<1>2. IsFiniteSet(DOMAIN rs)
  BY <1>1, FS_Interval
<1>3. DOMAIN RtoSamples(rs) \subseteq DOMAIN rs /\ DOMAIN RpoSamples(rs) \subseteq DOMAIN rs
  BY DEF RtoSamples, RpoSamples
<1>4. IsFiniteSet(DOMAIN RtoSamples(rs)) /\ IsFiniteSet(DOMAIN RpoSamples(rs))
  BY <1>2, <1>3, FS_Subset
<1>5. ASSUME NEW k \in DOMAIN RtoSamples(rs) PROVE RtoSamples(rs)[k] \in Int
  BY <1>1, <1>5 DEF RtoSamples, Runs
<1>6. ASSUME NEW k \in DOMAIN RpoSamples(rs) PROVE RpoSamples(rs)[k] \in Int
  <2>1. k \in DOMAIN rs /\ rs[k].rpo # {} /\ rs[k].rpo \subseteq [rank : 0 .. 2, age : Int]
    BY <1>1, <1>6 DEF RpoSamples, Runs
  <2>2. (CHOOSE r \in rs[k].rpo : TRUE) \in rs[k].rpo
    BY <2>1
  <2>3. (CHOOSE r \in rs[k].rpo : TRUE).age \in Int
    BY <2>1, <2>2
  <2> QED BY <1>6, <2>3 DEF RpoSamples
<1> QED BY <1>4, <1>5, <1>6

LEMMA RoundedIs ==
  ASSUME NEW d \in Int
  PROVE  /\ RoundUpFriendlyRTO(d) \in Int /\ RoundUp(d, Hour) \in Int
         /\ FormatCalibratedRTO(d) \in Int
BY DEF RoundUpFriendlyRTO, RoundUp, FormatCalibratedRTO, Hour, Minute, Second

\* Calibration writes two numbers into the drill and leaves its checks.
LEMMA CalibratedIs ==
  ASSUME NEW d \in Declarations, NEW rs \in Seq(Runs)
  PROVE  Calibrated(d, rs, MinRuns) \in Declarations
<1>1. CASE Cardinality(DOMAIN RtoSamples(rs)) < MinRuns
  BY <1>1 DEF Calibrated
<1>2. CASE ~(Cardinality(DOMAIN RtoSamples(rs)) < MinRuns)
  <2>1. ASSUME NEW s, IsFiniteSet(DOMAIN s), ~(Cardinality(DOMAIN s) < MinRuns), \A k \in DOMAIN s : s[k] \in Int
        PROVE  Percentile95(s) \in Int
    <3>1. DOMAIN s # {}
      BY <2>1, FS_EmptySet, TimeAssumption
    <3> QED BY <2>1, <3>1, PercentileIs
  <2>2. ProposedRTO(RtoSamples(rs)) \in Int
    <3>1. Percentile95(RtoSamples(rs)) \in Int
      BY <1>2, <2>1, SamplesAre
    <3>2. Larger(Margin * Percentile95(RtoSamples(rs)), RtoFloor) \in Int
      BY <3>1 DEF Larger, Margin, RtoFloor, Second
    <3> QED BY <3>2, RoundedIs DEF ProposedRTO
  <2>3. CASE Cardinality(DOMAIN RpoSamples(rs)) >= MinRuns
    <3>1. Percentile95(RpoSamples(rs)) \in Int
      <4>1. Cardinality(DOMAIN RpoSamples(rs)) \in Nat
        BY SamplesAre, FS_CardinalityType
      <4>2. ~(Cardinality(DOMAIN RpoSamples(rs)) < MinRuns)
        BY <2>3, <4>1, TimeAssumption
      <4> QED BY <2>1, <4>2, SamplesAre
    <3>2. ProposedRPO(RpoSamples(rs)) \in Int
      <4> DEFINE p == Percentile95(RpoSamples(rs))
      <4>1. Larger((3 * p + 1) \div 2, p + RpoFloor) \in Int
        BY <3>1 DEF Larger, RpoFloor, Hour, Minute, Second
      <4> QED BY <4>1, RoundedIs DEF ProposedRPO
    <3>3. FormatCalibratedRTO(ProposedRTO(RtoSamples(rs))) \in Int
      BY <2>2, RoundedIs
    <3> QED BY <1>2, <2>3, <3>2, <3>3 DEF Calibrated, Declarations
  <2>4. CASE ~(Cardinality(DOMAIN RpoSamples(rs)) >= MinRuns)
    <3>1. FormatCalibratedRTO(ProposedRTO(RtoSamples(rs))) \in Int
      BY <2>2, RoundedIs
    <3> QED BY <1>2, <2>4, <3>1 DEF Calibrated, Declarations
  <2> QED BY <2>3, <2>4
<1> QED BY <1>1, <1>2

-----------------------------------------------------------------------------
(* The checks.                                                             *)

\* At least one check is declared, the implicit one if no other.
LEMMA EffectiveIs ==
  ASSUME NEW d \in Declarations
  PROVE  /\ Effective(d.checks) \in Seq(DeclaredChecks) /\ Effective(d.checks) # <<>>
         /\ Len(Effective(d.checks)) \in Nat \ {0} /\ DOMAIN Effective(d.checks) = 1 .. Len(Effective(d.checks))
         /\ \A k \in DOMAIN Effective(d.checks) : Effective(d.checks)[k] \in DeclaredChecks
<1>1. d.checks \in Seq(DeclaredChecks)
  BY DEF Declarations
<1>2. [type |-> "byte_identical"] \in DeclaredChecks
  BY DEF DeclaredChecks
<1>3. <<[type |-> "byte_identical"]>> \in Seq(DeclaredChecks) /\ <<[type |-> "byte_identical"]>> # <<>>
  BY <1>2
<1>4. Effective(d.checks) \in Seq(DeclaredChecks) /\ Effective(d.checks) # <<>>
  BY <1>1, <1>3 DEF Effective
<1>5. Len(Effective(d.checks)) \in Nat /\ DOMAIN Effective(d.checks) = 1 .. Len(Effective(d.checks))
  BY <1>4, LenProperties
<1>6. Len(Effective(d.checks)) # 0
  BY <1>4, EmptySeq
<1> QED BY <1>4, <1>5, <1>6, ElementOfSeq

\* What the outcome of a check says.
LEMMA OutcomeIs ==
  ASSUME NEW c \in DeclaredChecks, NEW t \in Artifacts, NEW env, env.now \in Int
  PROVE  Outcome(c, t, env) \in Outcomes /\ Judged(c, t, Outcome(c, t, env), env.tools)
<1> DEFINE o == Outcome(c, t, env)
<1>1. o.type = c.type /\ o.pass = Passes(c, t, env) /\ o.rpo = Candidate(c, t, env)
  BY DEF Outcome
<1>2. Passes(c, t, env) \in BOOLEAN
  BY DEF Passes, DeclaredChecks, RunByteIdentical, RunSQLite, RunGit, RunFileTree, RunKeyFingerprint
<1>3. Candidate(c, t, env) \in SUBSET [rank : 0 .. 2, age : Int]
  BY DEF Candidate, Artifacts
<1>4. o \in Outcomes
  BY <1>2, <1>3 DEF Outcome, Outcomes, DeclaredChecks
<1>5. o.rpo # {} => Dates(c)
  BY <1>1 DEF Candidate, Dates
<1>6. ASSUME o.pass, c.type = "key_fingerprint" PROVE c.keys \in env.tools
  BY <1>1, <1>6 DEF Passes, RunKeyFingerprint
<1>7. ASSUME o.pass, c.type = "sqlite" PROVE RunSQLite(c, t, env)
  BY <1>1, <1>7 DEF Passes
<1>8. ASSUME o.pass, c.type = "sqlite", NEW x \in c.tables PROVE x.of # "bad"
  BY <1>7, <1>8 DEF RunSQLite, TableCount, EvalCountConstraint
<1>9. ASSUME o.pass, Dates(c), ~(c.type \in {"git", "file_tree"} /\ t.stamp = NoTime) PROVE o.rpo # {}
  <2>1. CASE c.type = "sqlite"
    <3>1. c.fresh /\ t.form = "db" /\ t.stamp # NoTime
      BY <1>7, <1>9, <2>1 DEF Dates, RunSQLite
    <3> QED BY <1>1, <2>1, <3>1 DEF Candidate
  <2>2. CASE c.type = "git"
    <3>1. t.form = "repo" /\ t.stamp # NoTime
      BY <1>1, <1>9, <2>2 DEF Passes, RunGit
    <3> QED BY <1>1, <2>2, <3>1 DEF Candidate
  <2>3. CASE c.type = "file_tree"
    <3>1. t.form \in Directories /\ t.stamp # NoTime
      BY <1>1, <1>9, <2>3 DEF Passes, RunFileTree
    <3> QED BY <1>1, <2>3, <3>1 DEF Candidate
  <2> QED BY <1>9, <2>1, <2>2, <2>3 DEF Dates
<1> HIDE DEF o
<1>10. Judged(c, t, o, env.tools)
  BY <1>1, <1>5, <1>6, <1>8, <1>9 DEF Judged
<1> QED BY <1>4, <1>10 DEF o

\* The freshest candidate: there is one when any check offers one.
LEMMA FreshestIs ==
  ASSUME NEW outs \in Seq(Outcomes), NEW autoOK \in BOOLEAN
  PROVE  /\ SelectRPO(outs, autoOK) \subseteq [rank : 0 .. 2, age : Int]
         /\ (\A i \in DOMAIN outs : outs[i].rpo = {}) => SelectRPO(outs, autoOK) = {}
         /\ autoOK /\ (\E i \in DOMAIN outs : outs[i].rpo # {}) => SelectRPO(outs, autoOK) # {}
<1> DEFINE Eligible(i) == \E r \in outs[i].rpo : r.rank = 0 \/ autoOK
           Rank(i) == (CHOOSE r \in outs[i].rpo : TRUE).rank
           Best(i) == /\ Eligible(i)
                      /\ \A j \in DOMAIN outs :
                           Eligible(j) => Rank(i) < Rank(j) \/ (Rank(i) = Rank(j) /\ i <= j)
<1>1. SelectRPO(outs, autoOK) = UNION {outs[i].rpo : i \in {j \in DOMAIN outs : Best(j)}}
  BY DEF SelectRPO
<1>2. DOMAIN outs \subseteq Nat /\ \A i \in DOMAIN outs : outs[i] \in Outcomes
  BY LenProperties, ElementOfSeq
<1>3. \A i \in DOMAIN outs : outs[i].rpo \subseteq [rank : 0 .. 2, age : Int]
  BY <1>2 DEF Outcomes
<1>4. ASSUME NEW i \in DOMAIN outs, outs[i].rpo # {} PROVE Rank(i) \in 0 .. 2
  <2>1. (CHOOSE r \in outs[i].rpo : TRUE) \in outs[i].rpo
    BY <1>4
  <2> QED BY <1>3, <2>1
<1>5. ASSUME autoOK, \E i \in DOMAIN outs : outs[i].rpo # {} PROVE \E i \in DOMAIN outs : Best(i)
  <2>1. \A i \in DOMAIN outs : Eligible(i) <=> outs[i].rpo # {}
    BY <1>5
  <2> DEFINE E == {i \in DOMAIN outs : Eligible(i)}
             R == {Rank(i) : i \in E}
  <2>2. R \in SUBSET Nat /\ R # {}
    <3>1. E # {} /\ \A i \in E : Rank(i) \in Nat
      BY <1>4, <1>5, <2>1
    <3> HIDE DEF E, Rank
    <3> QED BY <3>1
  <2>3. PICK x \in R : \A v \in R : x <= v
    <3> HIDE DEF R
    <3> QED BY <2>2, LeastIs
  <2> DEFINE F == {i \in E : Rank(i) = x}
  <2>4. F \in SUBSET Nat /\ F # {}
    BY <1>2, <2>3
  <2>5. PICK i \in F : \A j \in F : i <= j
    <3> HIDE DEF F
    <3> QED BY <2>4, LeastIs
  <2>6. ASSUME NEW j \in E PROVE Rank(i) < Rank(j) \/ (Rank(i) = Rank(j) /\ i <= j)
    <3>1. x <= Rank(j) /\ Rank(i) = x /\ x \in Nat /\ Rank(j) \in Nat
      <4> HIDE DEF E, Rank
      <4> QED BY <2>2, <2>3, <2>5, <2>6
    <3>2. Rank(j) = x => i <= j
      <4> HIDE DEF E, Rank
      <4> QED BY <2>5, <2>6
    <3> HIDE DEF E, Rank
    <3> QED BY <3>1, <3>2
  <2>7. i \in DOMAIN outs /\ Eligible(i)
    BY <2>5
  <2>8. \A j \in DOMAIN outs : Eligible(j) => Rank(i) < Rank(j) \/ (Rank(i) = Rank(j) /\ i <= j)
    <3> SUFFICES ASSUME NEW j \in DOMAIN outs, Eligible(j) PROVE Rank(i) < Rank(j) \/ (Rank(i) = Rank(j) /\ i <= j)
      OBVIOUS
    <3>1. j \in E
      OBVIOUS
    <3> HIDE DEF E, Eligible, Rank
    <3> QED BY <2>6, <3>1
  <2> HIDE DEF Eligible, Rank
  <2> QED BY <2>7, <2>8
<1>6. \A i \in DOMAIN outs : Best(i) => outs[i].rpo # {}
  OBVIOUS
<1> HIDE DEF Best
<1> QED BY <1>1, <1>3, <1>5, <1>6

\* What the run is worth that verifies when its checks are weighed.
LEMMA VerdictIs ==
  ASSUME NEW b, NEW tools, b.spec \in Declarations, b.target \in Artifacts, b.res \in RunResults, b.ran, ~b.canceled,
         b.target # None \/ ~RequiresTarget(Effective(b.spec.checks)),
         Len(b.res.outs) = Len(Effective(b.spec.checks)),
         \A k \in DOMAIN b.res.outs : Judged(Effective(b.spec.checks)[k], b.target, b.res.outs[k], tools),
         b.res.rpo = {[r EXCEPT !.age = @ * TickMs] : r \in SelectRPO(b.res.outs, b.spec.rpo > 0)},
         Verified(b.spec, b.res.outs, b.res.rto, b.res.rpo)
  PROVE  Earned(b, tools)
<1> DEFINE checks == Effective(b.spec.checks)
           outs == b.res.outs
<1>1. DOMAIN outs = DOMAIN checks /\ outs \in Seq(Outcomes)
  BY EffectiveIs, LenProperties DEF RunResults
<1>2. b.spec.rto \in Int /\ b.spec.rpo \in Int /\ b.res.rto \in Int /\ b.res.rpo \subseteq [rank : 0 .. 2, age : Int]
  BY DEF Declarations, RunResults
<1>3. ASSUME NEW k \in DOMAIN checks
      PROVE  /\ outs[k].pass /\ Judged(checks[k], b.target, outs[k], tools) /\ outs[k].type = checks[k].type
             /\ checks[k].type = "key_fingerprint" => checks[k].keys \in tools
             /\ checks[k].type = "sqlite" => \A x \in checks[k].tables : x.of # "bad"
  BY <1>1 DEF Verified, ElementsOf, Judged
<1>4. BudgetFailures(b.spec, b.res.rto, b.res.rpo) = {}
  BY DEF Verified
<1>5. b.spec.rto > 0 => b.res.rto <= b.spec.rto
  BY <1>2, <1>4 DEF BudgetFailures
<1>6. ASSUME b.spec.rpo > 0 PROVE b.res.rpo # {} \/ FreshnessDeclared(checks)
  BY <1>4, <1>6 DEF BudgetFailures
<1>7. ASSUME b.spec.rpo > 0, NEW r \in b.res.rpo PROVE r.age <= b.spec.rpo
  <2>1. ~(r.age > b.spec.rpo)
    BY <1>4, <1>7 DEF BudgetFailures
  <2>2. r.age \in Int
    BY <1>2, <1>7
  <2> QED BY <1>2, <2>1, <2>2
<1>8. b.res.rpo = {} <=> SelectRPO(outs, b.spec.rpo > 0) = {}
  OBVIOUS
<1>9. FreshnessDeclared(checks) <=> \E k \in DOMAIN checks : Dates(checks[k])
  BY DEF FreshnessDeclared, ElementsOf, Dates
\* a check that dates what it passed gave it an age
<1>10. ASSUME b.spec.rpo > 0, FreshnessDeclared(checks) PROVE b.res.rpo # {} \/ Unmeasured(b)
  <2>1. PICK k \in DOMAIN checks : Dates(checks[k])
    BY <1>9, <1>10
  <2>2. outs[k].rpo # {} \/ (checks[k].type \in {"git", "file_tree"} /\ b.target.stamp = NoTime)
    BY <1>3, <2>1 DEF Judged
  <2>3. CASE outs[k].rpo # {}
    <3>1. SelectRPO(outs, b.spec.rpo > 0) # {}
      BY <1>1, <1>10, <2>3, FreshestIs
    <3> QED BY <1>8, <3>1
  <2>4. CASE checks[k].type \in {"git", "file_tree"} /\ b.target.stamp = NoTime
    <3>1. b.spec.checks # <<>>
      BY <2>4, EffectiveIs DEF Effective
    <3>2. checks = b.spec.checks
      BY <3>1 DEF Effective
    <3> QED BY <2>4, <3>2 DEF Unmeasured, ElementsOf
  <2> QED BY <2>2, <2>3, <2>4
<1>11. b.spec.rpo > 0 => (\E r \in b.res.rpo : r.age <= b.spec.rpo) \/ Unmeasured(b)
  BY <1>6, <1>7, <1>10
\* what the checks cannot date has no age, so a budget for it is not met
<1>12. ASSUME b.spec.rpo > 0 PROVE FreshnessDeclared(checks)
  <2> SUFFICES ASSUME ~FreshnessDeclared(checks) PROVE FALSE
    OBVIOUS
  <2>1. \A k \in DOMAIN outs : outs[k].rpo = {}
    BY <1>1, <1>3, <1>9 DEF Judged
  <2>2. SelectRPO(outs, b.spec.rpo > 0) = {}
    <3>1. (b.spec.rpo > 0) \in BOOLEAN
      OBVIOUS
    <3> HIDE DEF outs
    <3> QED BY <1>1, <2>1, <3>1, FreshestIs
  <2> QED BY <1>6, <1>8, <1>12, <2>2
<1>13. LintErrors(b.spec) = {}
  <2>1. LintBudgets(b.spec) = {}
    BY <1>12 DEF LintBudgets
  <2>2. \A c \in ElementsOf(b.spec.checks) : c.type = "sqlite" => \A x \in c.tables : x.of # "bad"
    BY <1>3 DEF ElementsOf, Effective
  <2>3. LintTableConstraints(b.spec) = {}
    BY <2>2 DEF LintTableConstraints
  <2> QED BY <2>1, <2>3 DEF LintErrors
<1>14. \A c \in ElementsOf(checks) : c.type = "key_fingerprint" => c.keys \in tools
  BY <1>3 DEF ElementsOf
<1> QED BY <1>3, <1>5, <1>11, <1>13, <1>14 DEF Earned

-----------------------------------------------------------------------------
(* The start.                                                              *)

LEMMA NoneIs == None \in Artifacts /\ NoResult \in RunResults /\ NoSpec \in Declarations /\ NoBasis \in Bases
<1>1. None \in Artifacts
  BY DEF None, Artifacts, NoTime
<1>2. NoResult \in RunResults
  BY DEF NoResult, RunResults
<1>3. NoSpec \in Declarations
  BY DEF NoSpec, Declarations
<1> QED BY <1>1, <1>2, <1>3 DEF NoBasis, Bases

LEMMA InitIInv == Init => IInv
<1> SUFFICES ASSUME Init PROVE IInv
  OBVIOUS
<1> USE CaseAssumption DEF Init
<1>1. WorldOk
  BY DEF WorldOk
<1>2. FileOk
  BY NoneIs DEF FileOk, NoRecord, Records, NoTime
<1>3. ASSUME NEW i \in Commands
      PROVE  cmd[i] \in DrillProcesses /\ Fits(cmd[i], case.tools) /\ Told(cmd[i], clock, record)
  BY NoneIs DEF Idle, DrillProcesses, NoTime, Fits, Told
<1>4. TypeOK
  BY <1>1, <1>2, <1>3 DEF TypeOK
<1>5. Recorded(record, case.tools)
  BY DEF Recorded, NoRecord
<1> QED BY <1>3, <1>4, <1>5 DEF IInv

-----------------------------------------------------------------------------
(* The processes. A step of one leaves the others what they were.          *)

LEMMA StepKeeps ==
  ASSUME IInv, NEW i \in Commands, NEW c \in DrillProcesses, Step(i, c),
         Fits(c, case.tools), Told(c, clock, record)
  PROVE  IInv'
<1>1. UNCHANGED <<case, clock, live, source, changes, drill, record, runs>> /\ cmd' = [cmd EXCEPT ![i] = c]
  BY DEF Step, Becomes, world
<1>2. TypeOK'
  BY <1>1 DEF IInv, TypeOK, WorldOk, FileOk
<1>3. \A j \in Commands : cmd'[j] = IF j = i THEN c ELSE cmd[j]
  BY <1>1 DEF IInv, TypeOK
<1> QED BY <1>1, <1>2, <1>3 DEF IInv

LEMMA CommandIs ==
  ASSUME IInv, NEW i \in Commands
  PROVE  /\ cmd[i] \in DrillProcesses /\ cmd[i].res \in RunResults /\ cmd[i].spec \in Declarations
         /\ cmd[i].target \in Artifacts /\ cmd[i].pre \in Artifacts /\ cmd[i].began \in Int
         /\ Fits(cmd[i], case.tools) /\ Told(cmd[i], clock, record)
BY DEF IInv, TypeOK, DrillProcesses

LEMMA StartKeeps == ASSUME IInv, NEW i \in Commands, Start(i) PROVE IInv'
<1> DEFINE c == [cmd[i] EXCEPT !.pc = IF cmd[i].mode = "pin" THEN "pin" ELSE "prepare", !.spec = drill]
<1>1. cmd[i].mode # "none" /\ Step(i, c)
  BY DEF Start
<1>2. cmd[i] \in DrillProcesses /\ drill \in Declarations
  BY CommandIs DEF IInv, TypeOK, FileOk
<1>3. c \in DrillProcesses
  BY <1>2 DEF DrillProcesses
<1>4. c.pc \in {"pin", "prepare"} /\ c.mode = cmd[i].mode /\ c.wrote = cmd[i].wrote /\ (c.pc = "pin" <=> c.mode = "pin")
  BY <1>2 DEF DrillProcesses
<1> HIDE DEF c
<1>5. Told(c, clock, record) /\ Fits(c, case.tools)
  BY <1>1, <1>2, <1>4, CommandIs DEF DrillProcesses, Told, Fits
<1> QED BY <1>1, <1>3, <1>5, StepKeeps

LEMMA CancelKeeps == ASSUME IInv, NEW i \in Commands, Cancel(i) PROVE IInv'
<1> DEFINE c == [cmd[i] EXCEPT !.canceled = TRUE]
<1>1. Step(i, c) /\ cmd[i].pc \in {"recover", "check"}
  BY DEF Cancel
<1>2. c \in DrillProcesses /\ Told(c, clock, record)
  BY CommandIs DEF DrillProcesses, Told
<1>3. Fits(c, case.tools)
  BY <1>1, CommandIs DEF Fits, Underway, DrillProcesses
<1> HIDE DEF c
<1> QED BY <1>1, <1>2, <1>3, StepKeeps

LEMMA PrepareKeeps == ASSUME IInv, NEW i \in Commands, Prepare(i) PROVE IInv'
<1> DEFINE c == [cmd[i] EXCEPT !.pc = "report", !.res = Unreachable]
           d == [cmd[i] EXCEPT !.pc = "recover", !.pre = live, !.began = clock]
<1>1. cmd[i].pc = "prepare" /\ (Step(i, c) \/ Step(i, d))
  BY DEF Prepare, At
<1>2. c \in DrillProcesses /\ Told(c, clock, record) /\ Fits(c, case.tools)
  <2>1. Unreachable \in RunResults /\ ~Unreachable.verified /\ Unreachable.unreachable /\ Unreachable.outs = <<>>
    BY NoneIs DEF Unreachable, NoResult, RunResults
  <2>2. c.res = Unreachable /\ c.pc = "report" /\ c.mode = cmd[i].mode /\ c.wrote = cmd[i].wrote
    BY CommandIs DEF DrillProcesses
  <2>3. c \in DrillProcesses
    BY <2>1, CommandIs DEF DrillProcesses
  <2> HIDE DEF c
  <2> QED BY <1>1, <2>1, <2>2, <2>3, CommandIs DEF Told, Fits, Honest
<1>3. d \in DrillProcesses /\ Told(d, clock, record) /\ Fits(d, case.tools)
  <2>1. live \in Artifacts /\ clock \in Nat
    BY DEF IInv, TypeOK, WorldOk
  <2>2. d \in DrillProcesses
    <3>1. cmd[i] \in DrillProcesses /\ "recover" \in {"off", "recover"} /\ clock \in Int
      BY <2>1, CommandIs
    <3> QED BY <2>1, <3>1 DEF DrillProcesses
  <2>3. d.pc = "recover" /\ d.mode = cmd[i].mode /\ d.wrote = cmd[i].wrote
    BY CommandIs DEF DrillProcesses
  <2> HIDE DEF d
  <2> QED BY <1>1, <2>2, <2>3, CommandIs DEF Told, Fits
<1> HIDE DEF c, d
<1> QED BY <1>1, <1>2, <1>3, StepKeeps

LEMMA RecoverKeeps == ASSUME IInv, NEW i \in Commands, Recover(i) PROVE IInv'
<1> DEFINE checks == Effective(cmd[i].spec.checks)
           W(t) == [cmd[i] EXCEPT !.pc = IF RequiresTarget(checks) /\ t = None THEN "report" ELSE "check",
                                  !.target = t, !.ran = TRUE, !.res = Disputed]
           F(r) == [cmd[i] EXCEPT !.pc = "report", !.ran = TRUE, !.res = r]
<1>1. cmd[i].pc = "recover" /\ cmd[i].mode = "drill" /\ cmd[i] \in DrillProcesses
  BY CommandIs DEF Recover, At, Fits
<1>2. /\ Unreachable \in RunResults /\ ~Unreachable.verified /\ Unreachable.unreachable /\ Unreachable.outs = <<>>
      /\ Disputed \in RunResults /\ ~Disputed.verified /\ ~Disputed.unreachable /\ Disputed.outs = <<>>
  BY NoneIs DEF Unreachable, Disputed, NoResult, RunResults
\* the recovery failed
<1>3. ASSUME NEW r \in {Unreachable, Disputed}, r = Disputed => ~cmd[i].canceled, Step(i, F(r)) PROVE IInv'
  <2>1. F(r) \in DrillProcesses
    BY <1>1, <1>2, <1>3 DEF DrillProcesses
  <2>2. /\ F(r).pc = "report" /\ F(r).mode = "drill" /\ F(r).res = r /\ F(r).ran
        /\ F(r).wrote = cmd[i].wrote /\ F(r).canceled = cmd[i].canceled
    BY <1>1 DEF DrillProcesses
  <2> HIDE DEF F
  <2>3. Honest(F(r), case.tools)
    BY <1>2, <1>3, <2>2 DEF Honest
  <2>4. Fits(F(r), case.tools) /\ Told(F(r), clock, record)
    BY <2>2, <2>3, CommandIs DEF Told, Fits
  <2> QED BY <1>3, <2>1, <2>4, StepKeeps
\* it left t
<1>4. ASSUME NEW t \in Artifacts, ~cmd[i].canceled, Step(i, W(t)) PROVE IInv'
  <2>1. W(t) \in DrillProcesses
    BY <1>1, <1>2, <1>4 DEF DrillProcesses
  <2>2. /\ W(t).pc = IF RequiresTarget(checks) /\ t = None THEN "report" ELSE "check"
        /\ W(t).mode = "drill" /\ W(t).res = Disputed /\ W(t).ran /\ W(t).target = t
        /\ W(t).spec = cmd[i].spec /\ W(t).wrote = cmd[i].wrote /\ W(t).canceled = cmd[i].canceled
    BY <1>1 DEF DrillProcesses
  <2> HIDE DEF W
  <2>3. Honest(W(t), case.tools)
    BY <1>2, <1>4, <2>2 DEF Honest
  <2>4. W(t).pc = "check" => Underway(W(t), case.tools)
    <3>1. Len(checks) > 0 /\ Len(Disputed.outs) = 0 /\ DOMAIN Disputed.outs = {}
      BY <1>2, CommandIs, EffectiveIs
    <3> QED BY <1>2, <2>2, <3>1 DEF Underway
  <2>5. Fits(W(t), case.tools) /\ Told(W(t), clock, record)
    BY <2>2, <2>3, <2>4, CommandIs DEF Told, Fits
  <2> QED BY <1>4, <2>1, <2>5, StepKeeps
<1>5. source \in Artifacts /\ None \in Artifacts
  BY NoneIs DEF IInv, TypeOK, WorldOk
<1>6. \/ cmd[i].canceled /\ Step(i, F(Unreachable))
      \/ ~cmd[i].canceled /\ (Step(i, F(Disputed)) \/ Step(i, F(Unreachable)) \/ Step(i, W(source)) \/ Step(i, W(None)))
  BY DEF Recover
<1>7. Unreachable # Disputed
  BY <1>2
<1> HIDE DEF F, W
<1> QED BY <1>3, <1>4, <1>5, <1>6, <1>7

\* The next check is judged, and what was judged stays.
LEMMA CheckKeeps == ASSUME IInv, NEW i \in Commands, CheckOne(i) PROVE IInv'
<1> DEFINE c == cmd[i]
           checks == Effective(c.spec.checks)
           k == Len(c.res.outs) + 1
<1>1. c.pc = "check" /\ c \in DrillProcesses /\ Underway(c, case.tools) /\ c.res \in RunResults
  BY CommandIs DEF CheckOne, At, Fits
<1>2. PICK ran \in {"ok", "failed"} :
        LET env == [pre |-> c.pre, live |-> live, now |-> clock, tools |-> case.tools,
                    ran |-> IF c.canceled THEN "canceled" ELSE ran]
            outs == Append(c.res.outs, Outcome(checks[k], c.target, env))
        IN  Step(i, [c EXCEPT !.res = [@ EXCEPT !.outs = outs, !.unreachable = c.canceled],
                              !.pc = IF c.canceled THEN "report"
                                     ELSE IF k = Len(checks) THEN "weigh" ELSE "check"])
  BY DEF CheckOne
<1> DEFINE env == [pre |-> c.pre, live |-> live, now |-> clock, tools |-> case.tools,
                   ran |-> IF c.canceled THEN "canceled" ELSE ran]
           o == Outcome(checks[k], c.target, env)
           outs == Append(c.res.outs, o)
           res == [c.res EXCEPT !.outs = outs, !.unreachable = c.canceled]
           d == [c EXCEPT !.res = res, !.pc = IF c.canceled THEN "report"
                                              ELSE IF k = Len(checks) THEN "weigh" ELSE "check"]
<1>3. Step(i, d)
  BY <1>2
<1>4. /\ c.res.outs \in Seq(Outcomes) /\ k \in 1 .. Len(checks) /\ DOMAIN c.res.outs = 1 .. k - 1
      /\ DOMAIN checks = 1 .. Len(checks) /\ checks[k] \in DeclaredChecks /\ Len(checks) \in Nat
  <2>1. c.res.outs \in Seq(Outcomes) /\ Len(c.res.outs) \in Nat /\ DOMAIN c.res.outs = 1 .. Len(c.res.outs)
    BY <1>1, LenProperties DEF RunResults
  <2>2. Len(checks) \in Nat /\ DOMAIN checks = 1 .. Len(checks) /\ \A j \in DOMAIN checks : checks[j] \in DeclaredChecks
    BY CommandIs, EffectiveIs
  <2>3. Len(c.res.outs) < Len(checks)
    BY <1>1 DEF Underway
  <2> HIDE DEF checks, c
  <2> QED BY <2>1, <2>2, <2>3
<1>5. o \in Outcomes /\ Judged(checks[k], c.target, o, case.tools)
  <2>1. env.now \in Int /\ env.tools = case.tools
    BY DEF IInv, TypeOK, WorldOk
  <2> HIDE DEF env, checks, k
  <2> QED BY <1>4, <2>1, CommandIs, OutcomeIs
<1>6. /\ outs \in Seq(Outcomes) /\ Len(outs) = k /\ DOMAIN outs = 1 .. k
      /\ \A j \in 1 .. k : outs[j] = IF j = k THEN o ELSE c.res.outs[j]
  <2> HIDE DEF o
  <2> QED BY <1>4, <1>5, AppendProperties, LenProperties
<1>7. /\ res \in RunResults /\ res.verified = c.res.verified /\ res.unreachable = c.canceled /\ res.outs = outs
  <2>1. c.canceled \in BOOLEAN
    BY <1>1 DEF DrillProcesses
  <2> HIDE DEF outs, c
  <2> QED BY <1>1, <1>6, <2>1 DEF RunResults
<1>8. /\ d \in DrillProcesses /\ d.res = res /\ d.mode = c.mode /\ d.spec = c.spec /\ d.target = c.target
      /\ d.ran = c.ran /\ d.canceled = c.canceled /\ d.wrote = c.wrote
      /\ d.pc = IF c.canceled THEN "report" ELSE IF k = Len(checks) THEN "weigh" ELSE "check"
  <2> HIDE DEF res, checks, k
  <2> QED BY <1>1, <1>7 DEF DrillProcesses
<1> HIDE DEF d, res, outs, o
<1>9. \A j \in DOMAIN outs : j \in DOMAIN checks /\ Judged(checks[j], c.target, outs[j], case.tools)
  <2> SUFFICES ASSUME NEW j \in DOMAIN outs
               PROVE  j \in DOMAIN checks /\ Judged(checks[j], c.target, outs[j], case.tools)
    OBVIOUS
  <2>1. j \in DOMAIN checks
    BY <1>4, <1>6
  <2>2. CASE j = k
    BY <1>5, <1>6, <2>1, <2>2
  <2>3. CASE j # k
    <3>1. j \in DOMAIN c.res.outs /\ outs[j] = c.res.outs[j]
      BY <1>4, <1>6, <2>3
    <3> QED BY <1>1, <2>1, <3>1 DEF Underway
  <2> QED BY <2>2, <2>3
<1>10. d.pc \in {"check", "weigh"} => Underway(d, case.tools)
  <2> SUFFICES ASSUME d.pc \in {"check", "weigh"} PROVE Underway(d, case.tools)
    OBVIOUS
  <2>1. ~c.canceled /\ d.pc = IF k = Len(checks) THEN "weigh" ELSE "check"
    BY <1>8
  <2>2. /\ d.pc = "check" => Len(d.res.outs) < Len(checks)
        /\ d.pc = "weigh" => Len(d.res.outs) = Len(checks)
    BY <1>4, <1>6, <1>7, <1>8, <2>1
  <2>3. /\ ~d.res.verified /\ ~d.res.unreachable /\ d.mode = "drill" /\ d.ran
        /\ d.target # None \/ ~RequiresTarget(checks)
    BY <1>1, <1>7, <1>8, <2>1 DEF Underway
  <2> HIDE DEF c
  <2> QED BY <1>7, <1>8, <1>9, <2>1, <2>2, <2>3 DEF Underway
<1>11. d.pc = "report" => Honest(d, case.tools) /\ d.mode = "drill"
  <2> SUFFICES ASSUME d.pc = "report" PROVE Honest(d, case.tools) /\ d.mode = "drill"
    OBVIOUS
  <2>1. c.canceled
    BY <1>8
  <2> QED BY <1>1, <1>7, <1>8, <2>1 DEF Honest, Underway
<1>12. Fits(d, case.tools) /\ Told(d, clock, record)
  <2>1. d.pc \in {"report", "weigh", "check"} /\ Told(c, clock, record) /\ d.mode = "drill"
    BY <1>1, <1>8, CommandIs DEF Underway
  <2> HIDE DEF c
  <2> QED BY <1>8, <1>10, <1>11, <2>1 DEF Fits, Told
<1> QED BY <1>3, <1>8, <1>12, StepKeeps

LEMMA WeighKeeps == ASSUME IInv, NEW i \in Commands, Weigh(i) PROVE IInv'
<1> DEFINE c == cmd[i]
           checks == Effective(c.spec.checks)
           rto == (clock - c.began) * TickMs
           rpo == {[r EXCEPT !.age = @ * TickMs] : r \in SelectRPO(c.res.outs, c.spec.rpo > 0)}
           res == [c.res EXCEPT !.rto = rto, !.rpo = rpo, !.verified = Verified(c.spec, c.res.outs, rto, rpo)]
           d == [c EXCEPT !.pc = "report", !.res = res]
<1>1. c.pc = "weigh" /\ c \in DrillProcesses /\ Underway(c, case.tools) /\ c.res \in RunResults /\ Step(i, d)
  BY CommandIs DEF Weigh, At, Fits
<1>2. rto \in Int
  <2>1. clock \in Int /\ c.began \in Int /\ TickMs \in Int
    BY CommandIs, TimeAssumption DEF IInv, TypeOK, WorldOk
  <2> HIDE DEF c
  <2> QED BY <2>1
<1>3. rpo \in SUBSET [rank : 0 .. 2, age : Int]
  <2>1. SelectRPO(c.res.outs, c.spec.rpo > 0) \subseteq [rank : 0 .. 2, age : Int]
    <3>1. c.res.outs \in Seq(Outcomes) /\ (c.spec.rpo > 0) \in BOOLEAN
      BY <1>1 DEF RunResults
    <3> HIDE DEF c
    <3> QED BY <3>1, FreshestIs
  <2>2. ASSUME NEW r \in [rank : 0 .. 2, age : Int] PROVE [r EXCEPT !.age = @ * TickMs] \in [rank : 0 .. 2, age : Int]
    BY TimeAssumption
  <2> QED BY <2>1, <2>2
<1>4. Verified(c.spec, c.res.outs, rto, rpo) \in BOOLEAN
  BY DEF Verified
<1>5. /\ res \in RunResults /\ res.outs = c.res.outs /\ res.rto = rto /\ res.rpo = rpo
      /\ res.verified = Verified(c.spec, c.res.outs, rto, rpo) /\ res.unreachable = c.res.unreachable
  <2> HIDE DEF rto, rpo
  <2> QED BY <1>1, <1>2, <1>3, <1>4 DEF RunResults
<1>6. /\ d \in DrillProcesses /\ d.res = res /\ d.mode = c.mode /\ d.spec = c.spec /\ d.target = c.target
      /\ d.ran = c.ran /\ d.canceled = c.canceled /\ d.wrote = c.wrote /\ d.pc = "report"
  <2> HIDE DEF res
  <2> QED BY <1>1, <1>5 DEF DrillProcesses
<1> HIDE DEF d, res
<1>7. d.ran /\ ~d.canceled /\ d.mode = "drill"
  BY <1>1, <1>6 DEF Underway
<1>8. ASSUME d.res.verified PROVE Earned(d, case.tools)
  <2>1. Verified(d.spec, d.res.outs, d.res.rto, d.res.rpo)
    BY <1>5, <1>6, <1>8
  <2>2. d.spec \in Declarations /\ d.target \in Artifacts /\ d.res \in RunResults
    BY <1>5, <1>6, CommandIs
  <2>3. /\ d.target # None \/ ~RequiresTarget(Effective(d.spec.checks))
        /\ Len(d.res.outs) = Len(Effective(d.spec.checks))
        /\ \A k \in DOMAIN d.res.outs : Judged(Effective(d.spec.checks)[k], d.target, d.res.outs[k], case.tools)
    BY <1>1, <1>5, <1>6 DEF Underway
  <2>4. d.res.rpo = {[r EXCEPT !.age = @ * TickMs] : r \in SelectRPO(d.res.outs, d.spec.rpo > 0)}
    BY <1>5, <1>6
  <2> QED BY <1>7, <2>1, <2>2, <2>3, <2>4, VerdictIs
<1>9. Honest(d, case.tools)
  BY <1>1, <1>5, <1>6, <1>7, <1>8 DEF Honest, Underway
<1>10. Fits(d, case.tools) /\ Told(d, clock, record)
  BY <1>6, <1>7, <1>9, CommandIs DEF Fits, Told
<1> QED BY <1>1, <1>6, <1>10, StepKeeps

LEMMA PinKeeps == ASSUME IInv, NEW i \in Commands, Pin(i) PROVE IInv'
<1>1. PICK ok \in BOOLEAN : Step(i, [cmd[i] EXCEPT !.pc = IF ok THEN "log" ELSE "write", !.res = PinResult(ok)])
  BY DEF Pin
<1> DEFINE d == [cmd[i] EXCEPT !.pc = IF ok THEN "log" ELSE "write", !.res = PinResult(ok)]
<1>2. cmd[i] \in DrillProcesses /\ cmd[i].mode = "pin"
  BY CommandIs DEF Pin, At, Fits
<1>3. /\ PinResult(ok) \in RunResults /\ PinResult(ok).verified = ok /\ PinResult(ok).unreachable = ~ok
      /\ PinResult(ok).outs = <<>>
  BY NoneIs DEF PinResult, NoResult, RunResults
<1>4. /\ d \in DrillProcesses /\ d.res = PinResult(ok) /\ d.wrote = cmd[i].wrote /\ d.mode = "pin"
      /\ d.pc = IF ok THEN "log" ELSE "write"
  <2> HIDE DEF PinResult
  <2> QED BY <1>2, <1>3 DEF DrillProcesses
<1> HIDE DEF d
<1>5. Fits(d, case.tools) /\ Told(d, clock, record)
  <2>1. Told(cmd[i], clock, record)
    BY CommandIs
  <2> HIDE DEF PinResult
  <2> QED BY <1>3, <1>4, <2>1 DEF Fits, Told, Honest
<1> QED BY <1>1, <1>4, <1>5, StepKeeps DEF d

LEMMA ParseKeyKeeps == ASSUME IInv, NEW i \in Commands, ParseKey(i) PROVE IInv'
<1> DEFINE d == [cmd[i] EXCEPT !.pc = IF cmd[i].key = "bad" THEN "refused" ELSE "write"]
<1>1. cmd[i].pc = "report" /\ Step(i, d) /\ cmd[i] \in DrillProcesses
  BY CommandIs DEF ParseKey, At
<1>2. /\ d \in DrillProcesses /\ d.res = cmd[i].res /\ d.wrote = cmd[i].wrote /\ d.mode = cmd[i].mode
      /\ d.spec = cmd[i].spec /\ d.target = cmd[i].target /\ d.canceled = cmd[i].canceled /\ d.ran = cmd[i].ran
      /\ d.pc \in {"refused", "write"}
  BY <1>1 DEF DrillProcesses
<1>3. Honest(cmd[i], case.tools) /\ cmd[i].mode = "drill"
  BY <1>1, CommandIs DEF Fits
<1> HIDE DEF d
<1>4. Honest(d, case.tools)
  BY <1>2, <1>3 DEF Honest, Earned, Unmeasured
<1>5. Fits(d, case.tools) /\ Told(d, clock, record)
  BY <1>2, <1>3, <1>4, CommandIs DEF Fits, Told
<1> QED BY <1>1, <1>2, <1>5, StepKeeps

\* What is written is what was decided, now.
LEMMA EntryIs ==
  ASSUME IInv, NEW i \in Commands, At(i, "write")
  PROVE  /\ Entry(cmd[i]) \in Records /\ Recorded(Entry(cmd[i]), case.tools) /\ Entry(cmd[i]).at = clock
         /\ Entry(cmd[i]).verified = cmd[i].res.verified
         /\ cmd[i].mode = "pin" => /\ Entry(cmd[i]).status = "unreachable" /\ ~Entry(cmd[i]).verified
                                   /\ Entry(cmd[i]).until = NoTime
<1> DEFINE c == cmd[i]
           b == [spec |-> c.spec, target |-> c.target, canceled |-> c.canceled, ran |-> c.ran, res |-> c.res]
<1>1. c \in DrillProcesses /\ c.res \in RunResults /\ clock \in Nat /\ Honest(c, case.tools)
  BY CommandIs DEF IInv, TypeOK, WorldOk, At, Fits
<1>2. b \in Bases
  BY <1>1 DEF Bases, DrillProcesses
<1>3. /\ Entry(c).status = Status(c.res) /\ Entry(c).verified = c.res.verified /\ Entry(c).at = clock
      /\ Entry(c).until = (IF c.res.verified /\ c.mode = "drill" THEN clock + Ttl ELSE NoTime) /\ Entry(c).basis = b
  BY DEF Entry
<1>4. Status(c.res) \in {"validated", "unreachable", "disputed"} /\ c.res.verified \in BOOLEAN
  BY <1>1 DEF Status, RunResults
<1>5. (IF c.res.verified /\ c.mode = "drill" THEN clock + Ttl ELSE NoTime) \in Int
  BY <1>1, TimeAssumption DEF NoTime
<1>6. Entry(c) \in Records
  <2> HIDE DEF b, c
  <2> QED BY <1>1, <1>2, <1>4, <1>5 DEF Entry, Records, b
<1>7. Honest(b, case.tools)
  BY <1>1 DEF Honest, Earned, Unmeasured
<1>8. Recorded(Entry(c), case.tools)
  <2> HIDE DEF c
  <2> QED BY <1>3, <1>4, <1>7 DEF Recorded
<1>9. c.mode = "pin" => Entry(c).status = "unreachable" /\ ~Entry(c).verified /\ Entry(c).until = NoTime
  BY <1>3, CommandIs DEF At, Fits, Status
<1> QED BY <1>3, <1>6, <1>8, <1>9

LEMMA WriteKeeps == ASSUME IInv, NEW i \in Commands, Write(i) PROVE IInv'
<1> DEFINE d == [cmd[i] EXCEPT !.pc = "log", !.wrote = clock]
<1>1. /\ At(i, "write") /\ record' = Entry(cmd[i]) /\ cmd' = [cmd EXCEPT ![i] = d]
      /\ UNCHANGED <<case, clock, live, source, changes, drill, runs>>
  BY DEF Write, Becomes, world
<1>2. clock \in Nat /\ cmd[i] \in DrillProcesses
  BY CommandIs DEF IInv, TypeOK, WorldOk
<1>3. d \in DrillProcesses /\ d.pc = "log" /\ d.wrote = clock /\ d.mode # "none"
  <2>1. clock \in Int /\ "log" \in {"log"} /\ cmd[i].mode # "none"
    BY <1>1, <1>2, CommandIs DEF Fits, At
  <2>2. d \in DrillProcesses
    BY <1>2, <2>1 DEF DrillProcesses
  <2> QED BY <1>2, <2>1, <2>2 DEF DrillProcesses
<1> HIDE DEF d
<1>4. TypeOK' /\ Recorded(record', case.tools)
  <2>1. record' \in Records /\ Recorded(record', case.tools)
    BY <1>1, EntryIs
  <2>2. WorldOk' /\ FileOk'
    BY <1>1, <2>1 DEF IInv, TypeOK, WorldOk, FileOk
  <2>3. cmd' \in [Commands -> DrillProcesses]
    BY <1>1, <1>3 DEF IInv, TypeOK
  <2> QED BY <2>1, <2>2, <2>3 DEF TypeOK
<1>5. ASSUME NEW j \in Commands PROVE Fits(cmd'[j], case.tools) /\ Told(cmd'[j], clock, record')
  <2>1. cmd'[j] = IF j = i THEN d ELSE cmd[j]
    BY <1>1 DEF IInv, TypeOK
  <2>2. record'.at = clock
    BY <1>1, EntryIs
  <2>3. CASE j = i
    BY <1>2, <1>3, <2>1, <2>2, <2>3 DEF Fits, Told
  <2>4. CASE j # i
    <3>1. cmd[j].wrote <= clock /\ cmd[j].wrote \in Int /\ Fits(cmd[j], case.tools)
      BY CommandIs DEF Told, DrillProcesses
    <3> QED BY <1>2, <2>1, <2>2, <2>4, <3>1 DEF Told
  <2> QED BY <2>3, <2>4
<1> QED BY <1>1, <1>4, <1>5 DEF IInv

LEMMA LogKeeps == ASSUME IInv, NEW i \in Commands, Log(i) PROVE IInv'
<1> DEFINE d == [cmd[i] EXCEPT !.pc = "done"]
           line == [mode |-> cmd[i].mode, verified |-> cmd[i].res.verified, rto |-> cmd[i].res.rto,
                    rpo |-> cmd[i].res.rpo]
<1>1. /\ cmd[i].pc = "log" /\ cmd' = [cmd EXCEPT ![i] = d] /\ (runs' = Append(runs, line) \/ runs' = runs)
      /\ UNCHANGED <<case, clock, live, source, changes, drill, record>>
  BY DEF Log, At, Becomes, world
<1>2. cmd[i] \in DrillProcesses /\ cmd[i].res \in RunResults /\ Told(cmd[i], clock, record) /\ Fits(cmd[i], case.tools)
  BY CommandIs
<1>3. d \in DrillProcesses /\ d.pc = "done" /\ d.wrote = cmd[i].wrote /\ d.mode = cmd[i].mode /\ d.res = cmd[i].res
  BY <1>2 DEF DrillProcesses
<1>4. Fits(d, case.tools) /\ Told(d, clock, record)
  <2> HIDE DEF d
  <2> QED BY <1>1, <1>2, <1>3 DEF Fits, Told
<1> HIDE DEF d
\* only a drill and a pin check get as far as the log
<1>5. line \in Runs
  <2>1. cmd[i].mode \in {"drill", "pin"}
    BY <1>1, <1>2 DEF DrillProcesses, Fits
  <2> QED BY <1>2, <2>1 DEF DrillProcesses, RunResults, Runs
<1>6. TypeOK'
  <2>1. runs' \in Seq(Runs)
    BY <1>1, <1>5, AppendProperties DEF IInv, TypeOK, FileOk
  <2>2. WorldOk' /\ FileOk' /\ cmd' \in [Commands -> DrillProcesses]
    BY <1>1, <1>3, <2>1 DEF IInv, TypeOK, WorldOk, FileOk
  <2> QED BY <2>2 DEF TypeOK
<1>7. \A j \in Commands : cmd'[j] = IF j = i THEN d ELSE cmd[j]
  BY <1>1 DEF IInv, TypeOK
<1> QED BY <1>1, <1>4, <1>6, <1>7 DEF IInv

-----------------------------------------------------------------------------
(* The world, and the next step.                                           *)

LEMMA TickKeeps == ASSUME IInv, Tick PROVE IInv'
<1>1. clock' = clock + 1 /\ UNCHANGED <<case, live, source, changes, drill, record, runs, cmd>> /\ clock \in Nat
  BY DEF Tick, IInv, TypeOK, WorldOk
<1>2. TypeOK'
  BY <1>1 DEF IInv, TypeOK, WorldOk, FileOk
<1>3. ASSUME NEW j \in Commands PROVE Fits(cmd[j], case.tools) /\ Told(cmd[j], clock', record)
  <2>1. cmd[j].wrote \in Int /\ Fits(cmd[j], case.tools) /\ Told(cmd[j], clock, record)
    BY CommandIs DEF DrillProcesses
  <2> QED BY <1>1, <2>1 DEF Told
<1> QED BY <1>1, <1>2, <1>3 DEF IInv

LEMMA ChangeKeeps == ASSUME IInv, Change PROVE IInv'
<1>1. changes' = changes + 1 /\ UNCHANGED <<case, clock, drill, record, runs, cmd>> /\ (Backup \/ Rot \/ Lose \/ Use)
  BY DEF Change
<1>2. clock \in Nat /\ changes \in Nat /\ live \in Artifacts /\ source \in Artifacts
  BY DEF IInv, TypeOK, WorldOk
<1>3. live' \in Artifacts /\ source' \in Artifacts
  <2>1. CASE Backup
    BY <1>2, <2>1 DEF Backup
  <2>2. CASE Rot
    BY <1>2, <2>2 DEF Rot, Artifacts
  <2>3. CASE Lose
    BY <1>2, <2>3, NoneIs DEF Lose
  <2>4. CASE Use
    <3>1. clock \in Int /\ live \in Artifacts /\ live.count + 1 \in Nat
      BY <1>2 DEF Artifacts
    <3>2. [live EXCEPT !.count = @ + 1, !.stamp = clock] \in Artifacts
      BY <3>1 DEF Artifacts
    <3> QED BY <1>2, <2>4, <3>2 DEF Use
  <2> QED BY <1>1, <2>1, <2>2, <2>3, <2>4
<1>4. TypeOK'
  BY <1>1, <1>2, <1>3 DEF IInv, TypeOK, WorldOk, FileOk
<1> QED BY <1>1, <1>4 DEF IInv

LEMMA CalibrateKeeps == ASSUME IInv, Calibrate PROVE IInv'
<1>1. drill' = Calibrated(drill, runs, MinRuns) /\ UNCHANGED <<case, clock, live, source, changes, record, runs, cmd>>
  BY DEF Calibrate, world
<1>2. drill' \in Declarations
  BY <1>1, CalibratedIs DEF IInv, TypeOK, FileOk
<1>3. TypeOK'
  BY <1>1, <1>2 DEF IInv, TypeOK, WorldOk, FileOk
<1> QED BY <1>1, <1>3 DEF IInv

LEMMA NextIInv == IInv /\ [Next]_vars => IInv'
<1> SUFFICES ASSUME IInv, [Next]_vars PROVE IInv'
  OBVIOUS
<1>1. ASSUME NEW i \in Commands, Process(i) PROVE IInv'
  BY <1>1, StartKeeps, CancelKeeps, PrepareKeeps, RecoverKeeps, CheckKeeps, WeighKeeps, PinKeeps,
     ParseKeyKeeps, WriteKeeps, LogKeeps DEF Process
<1>2. CASE UNCHANGED vars
  BY <1>2 DEF vars, world, IInv, TypeOK, WorldOk, FileOk
<1> QED BY <1>1, <1>2, TickKeeps, ChangeKeeps, CalibrateKeeps DEF Next

LEMMA Inductive == Spec => []IInv
BY InitIInv, NextIInv, PTL DEF Spec

-----------------------------------------------------------------------------
(* What follows.                                                           *)

\* The world, the file and the processes stay in their domains, whatever is
\* declared, changed and calibrated.
THEOREM TypeCorrect == Spec => []TypeOK
<1>1. IInv => TypeOK
  BY DEF IInv
<1> QED BY <1>1, Inductive, PTL

\* However many commands overlap, whatever they change and whenever they are
\* cancelled, a record that is verified comes from a run that recovered
\* something, passed every declared check and kept both budgets.
THEOREM EarnsVerified == Spec => []VerifiedIsEarned
<1>1. IInv => VerifiedIsEarned
  <2> SUFFICES ASSUME IInv, record.verified PROVE Earned(record.basis, case.tools)
    BY DEF VerifiedIsEarned
  <2>1. Recorded(record, case.tools)
    BY DEF IInv
  <2> QED BY <2>1 DEF Recorded, Honest
<1> QED BY <1>1, Inductive, PTL

\* A failure is recorded with the word that fits it, and stays recorded until
\* something later is, whoever writes in between.
THEOREM TellsFailure == Spec => []FailureIsTold
<1>1. IInv => WordsAreHonest
  <2> SUFFICES ASSUME IInv PROVE WordsAreHonest
    OBVIOUS
  <2>1. Recorded(record, case.tools)
    BY DEF IInv
  <2> QED BY <2>1 DEF WordsAreHonest, Recorded, Honest, Status
<1>2. IInv => FailureIsLoud
  BY DEF FailureIsLoud, IInv, Told
<1> QED BY <1>1, <1>2, Inductive, PTL DEF FailureIsTold

\* Whatever else goes on, a step of a pin check that changes the record
\* records a failure.
THEOREM PinsProveNothing == Spec => PinProvesNothing
<1> DEFINE Harmless == \A i \in Commands : cmd[i].mode = "pin" /\ cmd'[i] # cmd[i] /\ record' # record
                         => record'.status = "unreachable" /\ ~record'.verified /\ record'.until = NoTime
<1>1. IInv /\ [Next]_vars => [Harmless]_vars
  <2> SUFFICES ASSUME IInv, Next, NEW i \in Commands, cmd[i].mode = "pin", cmd'[i] # cmd[i], record' # record
               PROVE  record'.status = "unreachable" /\ ~record'.verified /\ record'.until = NoTime
    OBVIOUS
  <2>1. PICK j \in Commands : Write(j)
    BY DEF Next, Tick, Change, Calibrate, world, Process, Start, Cancel, Prepare, Recover, CheckOne, Weigh, Pin,
           ParseKey, Log, Step
  <2>2. /\ record' = Entry(cmd[j]) /\ At(j, "write")
        /\ cmd' = [cmd EXCEPT ![j] = [cmd[j] EXCEPT !.pc = "log", !.wrote = clock]]
    BY <2>1 DEF Write, Becomes
  <2>3. i = j
    BY <2>2 DEF IInv, TypeOK
  <2> QED BY <2>2, <2>3, EntryIs
<1> QED BY <1>1, Inductive, PTL DEF Spec, PinProvesNothing

-----------------------------------------------------------------------------
(* Drafts.                                                                 *)

\* The powers of ten up to the N-th.
ArePowers(f, N) == f = [i \in 0 .. N |-> IF i = 0 THEN 1 ELSE 10 * f[i - 1]]

LEMMA PowersGrow ==
  ASSUME NEW N \in Nat, NEW f, ArePowers(f, N)
  PROVE  \A i \in 0 .. N : f[i] \in Nat /\ i < f[i]
<1> DEFINE Ok(i) == f[i] \in Nat /\ i < f[i]
           S == {i \in 0 .. N : ~Ok(i)}
<1>1. \A i \in 0 .. N : f[i] = IF i = 0 THEN 1 ELSE 10 * f[i - 1]
  BY DEF ArePowers
<1>2. Ok(0)
  BY <1>1
<1>3. ASSUME NEW i \in 0 .. N, i # 0, Ok(i - 1) PROVE Ok(i)
  BY <1>1, <1>3
<1> SUFFICES ASSUME S # {} PROVE FALSE
  OBVIOUS
<1>4. S \in SUBSET Nat
  OBVIOUS
<1> HIDE DEF Ok
<1>5. PICK i \in S : \A j \in S : i <= j
  <2> HIDE DEF S
  <2> QED BY <1>4, LeastIs
<1>6. i \in 0 .. N /\ i # 0 /\ ~Ok(i)
  BY <1>2, <1>5
<1>7. i - 1 \in 0 .. N /\ ~(i <= i - 1)
  BY <1>6
<1>8. Ok(i - 1)
  BY <1>5, <1>7
<1> QED BY <1>3, <1>6, <1>8

LEMMA PowersExist ==
  ASSUME NEW N \in Nat
  PROVE  \E f : ArePowers(f, N)
<1> DEFINE Has(m) == \E f : ArePowers(f, m)
           S == {m \in Nat : ~Has(m)}
<1>1. Has(0)
  <2> DEFINE f == [i \in 0 .. 0 |-> 1]
  <2>1. ArePowers(f, 0)
    BY DEF ArePowers
  <2> QED BY <2>1
<1>2. ASSUME NEW m \in Nat, Has(m) PROVE Has(m + 1)
  <2>1. PICK f : ArePowers(f, m)
    BY <1>2
  <2> DEFINE g == [i \in 0 .. m + 1 |-> IF i = m + 1 THEN 10 * f[m] ELSE f[i]]
  <2>2. \A i \in 0 .. m : f[i] = IF i = 0 THEN 1 ELSE 10 * f[i - 1]
    BY <2>1 DEF ArePowers
  <2>3. \A i \in 0 .. m + 1 : g[i] = IF i = 0 THEN 1 ELSE 10 * g[i - 1]
    <3> SUFFICES ASSUME NEW i \in 0 .. m + 1 PROVE g[i] = IF i = 0 THEN 1 ELSE 10 * g[i - 1]
      OBVIOUS
    <3>1. CASE i = m + 1
      <4>1. g[i] = 10 * f[m] /\ g[i - 1] = f[m] /\ i # 0
        BY <3>1
      <4> HIDE DEF g
      <4> QED BY <4>1
    <3>2. CASE i # m + 1
      <4>1. i \in 0 .. m /\ g[i] = f[i] /\ (i # 0 => g[i - 1] = f[i - 1])
        BY <3>2
      <4> HIDE DEF g
      <4> QED BY <2>2, <4>1
    <3> QED BY <3>1, <3>2
  <2>4. g = [i \in 0 .. m + 1 |-> g[i]]
    OBVIOUS
  <2> HIDE DEF g
  <2>5. ArePowers(g, m + 1)
    BY <2>3, <2>4 DEF ArePowers
  <2> QED BY <2>5
<1> HIDE DEF Has
<1>3. S = {}
  <2> SUFFICES ASSUME S # {} PROVE FALSE
    OBVIOUS
  <2>1. S \in SUBSET Nat
    OBVIOUS
  <2>2. PICK m \in S : \A j \in S : m <= j
    <3> HIDE DEF S
    <3> QED BY <2>1, LeastIs
  <2>3. m \in Nat /\ ~Has(m) /\ m # 0
    BY <1>1, <2>2
  <2>4. m - 1 \in Nat /\ (m - 1) + 1 = m /\ ~(m <= m - 1)
    BY <2>3
  <2>5. Has(m - 1)
    BY <2>2, <2>4
  <2> QED BY <1>2, <2>3, <2>4, <2>5
<1>4. Has(N)
  BY <1>3
<1> QED BY <1>4 DEF Has

\* Some power of ten leaves a number two figures at most, and the first to do so
\* leaves it two, unless it has only one.
LEMMA MagnitudeIs ==
  ASSUME NEW m \in Nat, NEW f, ArePowers(f, m)
  PROVE  \E i \in 0 .. m : 85 * m < 100 * 100 * f[i] /\ (i > 0 => 85 * m >= 100 * 10 * f[i])
<1> DEFINE S == {i \in 0 .. m : 85 * m < 100 * 100 * f[i]}
<1>1. \A i \in 0 .. m : f[i] \in Nat /\ i < f[i]
  BY PowersGrow
<1>2. S \in SUBSET Nat /\ S # {}
  <2>1. m \in 0 .. m /\ f[m] \in Nat /\ m < f[m]
    BY <1>1
  <2>2. m \in S
    BY <2>1
  <2> QED BY <2>2
<1>3. PICK i \in S : \A j \in S : i <= j
  <2> HIDE DEF S
  <2> QED BY <1>2, LeastIs
<1>4. ASSUME i > 0 PROVE 85 * m >= 100 * 10 * f[i]
  <2>1. i \in 0 .. m /\ i - 1 \in 0 .. m /\ ~(i <= i - 1)
    BY <1>3, <1>4
  <2>2. f[i - 1] \in Nat /\ i - 1 \notin S
    BY <1>1, <1>3, <2>1
  <2>3. 85 * m >= 100 * 100 * f[i - 1]
    BY <2>1, <2>2
  <2>4. f[i] = 10 * f[i - 1]
    BY <1>4, <2>1 DEF ArePowers
  <2> QED BY <2>2, <2>3, <2>4
<1> QED BY <1>3, <1>4

LEMMA DividedBack ==
  ASSUME NEW a \in Nat, NEW b \in Nat, b > 0
  PROVE  (a \div b) \in Nat /\ (a \div b) * b <= a
OBVIOUS

\* What a draft asks for is not more than what was counted.
LEMMA FloorIs ==
  ASSUME NEW m \in Nat, m # 0
  PROVE  Floor(m) \in Nat /\ Floor(m) <= m
<1>1. CASE m < 10
  BY <1>1 DEF Floor
<1>2. CASE ~(m < 10)
  <2> DEFINE power == CHOOSE f : f = [i \in 0 .. m |-> IF i = 0 THEN 1 ELSE 10 * f[i - 1]]
             Fits10(i) == 85 * m < 100 * 100 * power[i] /\ (i > 0 => 85 * m >= 100 * 10 * power[i])
             magnitude == CHOOSE i \in 0 .. m : Fits10(i)
             scale == power[magnitude]
             q == (85 * m) \div (100 * scale)
  <2>1. ArePowers(power, m)
    <3>1. \E f : f = [i \in 0 .. m |-> IF i = 0 THEN 1 ELSE 10 * f[i - 1]]
      BY PowersExist DEF ArePowers
    <3>2. power = [i \in 0 .. m |-> IF i = 0 THEN 1 ELSE 10 * power[i - 1]]
      BY <3>1, Zenon
    <3> QED BY <3>2 DEF ArePowers
  <2>2. RoundDownSigFigs(m) = q * scale
    BY DEF RoundDownSigFigs
  <2> HIDE DEF power
  <2>3. magnitude \in 0 .. m
    <3>1. \E i \in 0 .. m : Fits10(i)
      BY <2>1, MagnitudeIs
    <3> HIDE DEF Fits10
    <3> QED BY <3>1
  <2> HIDE DEF magnitude
  <2>4. scale \in Nat /\ scale > 0
    BY <2>1, <2>3, PowersGrow
  <2> HIDE DEF scale
  <2>5. q \in Nat /\ q * (100 * scale) <= 85 * m
    BY <2>4, DividedBack
  <2> HIDE DEF q
  <2>6. q * scale \in Nat /\ 100 * (q * scale) = q * (100 * scale)
    BY <2>4, <2>5
  <2>7. q * scale <= m
    BY <2>5, <2>6
  <2> QED BY <1>2, <2>2, <2>6, <2>7 DEF Floor
<1> QED BY <1>1, <1>2

LEMMA TwoJoined == ASSUME NEW x, NEW y PROVE <<x>> \o <<y>> = <<x, y>>
<1> DEFINE s == <<x>> \o <<y>>
<1>1. <<x>> \in Seq({x, y}) /\ <<y>> \in Seq({x, y}) /\ <<x, y>> \in Seq({x, y})
  OBVIOUS
<1>2. s \in Seq({x, y}) /\ Len(s) = 2 /\ s[1] = x /\ s[2] = y
  BY <1>1, ConcatProperties
<1>3. \A k \in 1 .. 2 : s[k] = <<x, y>>[k]
  BY <1>2
<1> HIDE DEF s
<1>4. s = <<x, y>>
  BY <1>1, <1>2, <1>3, SeqEqual
<1> QED BY <1>4 DEF s

\* A draft has a check, and asks of the artifact what it was measured to be.
LEMMA DraftIs ==
  ASSUME NEW a \in Artifacts, a.form # "none"
  PROVE  /\ Effective(Propose(a).checks) = Propose(a).checks /\ Propose(a).rto = 0 /\ Propose(a).rpo = 0
         /\ \A k \in DOMAIN Propose(a).checks :
              LET c == Propose(a).checks[k] IN
              \/ a.form = "repo" /\ c = [type |-> "git", refs |-> AtLeast(Floor(a.count))]
              \/ a.form = "tree" /\ a.looks = {} /\ c = ProposeFileTree(a)
              \/ a.form = "db" /\ c = ProposeSQLite(a)
              \/ a.form = "file" /\ c = [type |-> "byte_identical"]
              \/ /\ a.form = "tree"
                 /\ \E s \in a.looks : c = [type |-> "key_fingerprint", keys |-> s, expectFrom |-> TRUE,
                                            expect |-> {}, minKeys |-> 1]
<1> DEFINE Key(s) == [type |-> "key_fingerprint", keys |-> s, expectFrom |-> TRUE, expect |-> {}, minKeys |-> 1]
           checks == Propose(a).checks
<1>1. checks = ProposeValidate(a) /\ Propose(a).rto = 0 /\ Propose(a).rpo = 0
  BY DEF Propose
<1>2. CASE a.form = "repo"
  <2>1. checks = <<[type |-> "git", refs |-> AtLeast(Floor(a.count))]>>
    BY <1>1, <1>2 DEF ProposeValidate, DetectArtifactType
  <2>2. checks # <<>> /\ \A k \in DOMAIN checks : checks[k] = [type |-> "git", refs |-> AtLeast(Floor(a.count))]
    BY <2>1
  <2> HIDE DEF checks
  <2> QED BY <1>1, <1>2, <2>2 DEF Effective, checks
<1>3. CASE a.form = "db"
  <2>1. checks = <<ProposeSQLite(a)>>
    BY <1>1, <1>3 DEF ProposeValidate, DetectArtifactType
  <2>2. checks # <<>> /\ \A k \in DOMAIN checks : checks[k] = ProposeSQLite(a)
    BY <2>1
  <2> HIDE DEF checks
  <2> QED BY <1>1, <1>3, <2>2 DEF Effective, checks
<1>4. CASE a.form = "file"
  <2>1. checks = <<[type |-> "byte_identical"]>>
    BY <1>1, <1>4 DEF ProposeValidate, DetectArtifactType
  <2>2. checks # <<>> /\ \A k \in DOMAIN checks : checks[k] = [type |-> "byte_identical"]
    BY <2>1
  <2> HIDE DEF checks
  <2> QED BY <1>1, <1>4, <2>2 DEF Effective, checks
<1>5. CASE a.form = "tree" /\ a.looks = {}
  <2>1. checks = <<ProposeFileTree(a)>>
    BY <1>1, <1>5 DEF ProposeValidate, DetectArtifactType
  <2>2. checks # <<>> /\ \A k \in DOMAIN checks : checks[k] = ProposeFileTree(a)
    BY <2>1
  <2> HIDE DEF checks
  <2> QED BY <1>1, <1>5, <2>2 DEF Effective, checks
<1>6. CASE a.form = "tree" /\ a.looks # {}
  <2>1. checks = ProposeKeys(a)
    BY <1>1, <1>6 DEF ProposeValidate, DetectArtifactType
  <2>2. a.looks \subseteq {"ssh", "gpg"}
    BY DEF Artifacts
  <2> DEFINE one == IF "ssh" \in a.looks THEN <<Key("ssh")>> ELSE <<>>
             two == IF "gpg" \in a.looks THEN <<Key("gpg")>> ELSE <<>>
  <2>3. checks = one \o two
    BY <2>1 DEF ProposeKeys
  <2>4. one \o two # <<>> /\ \A k \in DOMAIN (one \o two) : \E s \in a.looks : (one \o two)[k] = Key(s)
    <3> HIDE DEF Key
    <3>1. CASE "ssh" \in a.looks /\ "gpg" \in a.looks
      <4>1. one = <<Key("ssh")>> /\ two = <<Key("gpg")>>
        BY <3>1
      <4> HIDE DEF one, two
      <4>2. one \o two = <<Key("ssh"), Key("gpg")>>
        BY <4>1, TwoJoined
      <4> QED BY <3>1, <4>2
    <3>2. CASE "ssh" \in a.looks /\ "gpg" \notin a.looks
      <4>1. one \o two = <<Key("ssh")>>
        BY <3>2
      <4> HIDE DEF one, two
      <4> QED BY <3>2, <4>1
    <3>3. CASE "ssh" \notin a.looks /\ "gpg" \in a.looks
      <4>1. one \o two = <<Key("gpg")>>
        BY <3>3
      <4> HIDE DEF one, two
      <4> QED BY <3>3, <4>1
    <3> QED BY <1>6, <2>2, <3>1, <3>2, <3>3
  <2> HIDE DEF checks, one, two, Key
  <2>5. checks # <<>> /\ \A k \in DOMAIN checks : \E s \in a.looks : checks[k] = Key(s)
    BY <2>3, <2>4
  <2> QED BY <1>1, <1>6, <2>5 DEF Effective, checks, Key
<1> QED BY <1>2, <1>3, <1>4, <1>5, <1>6 DEF Artifacts, Files, Directories

LEMMA AtLeastHolds ==
  ASSUME NEW n \in Nat, NEW got \in Nat, n <= got
  PROVE  AllHold(AtLeast(n), got)
<1>1. CompareCount(">=", got, n)
  BY DEF CompareCount
<1> QED BY <1>1 DEF AllHold, AtLeast, EvalCountConstraint

\* On an exact copy every check of a draft passes.
LEMMA DraftPasses ==
  ASSUME NEW a \in Artifacts, IsFiniteSet(a.keys), a.form # "none", a.sound, ~Hollow(a), NEW env,
         env.pre = a, env.live = a, a.looks \subseteq env.tools, NEW k \in DOMAIN Propose(a).checks
  PROVE  Passes(Propose(a).checks[k], a, env)
<1> DEFINE c == Propose(a).checks[k]
<1>1. /\ a.count \in Nat /\ a.stamp \in Int
      /\ a.count # 0 => Floor(a.count) \in Nat /\ Floor(a.count) <= a.count
  BY FloorIs DEF Artifacts
<1>2. CASE a.form = "repo" /\ c = [type |-> "git", refs |-> AtLeast(Floor(a.count))]
  <2>1. a.count # 0
    BY <1>2 DEF Hollow, DetectArtifactType
  <2>2. RunGit(c, a)
    <3>1. c.refs = AtLeast(Floor(a.count))
      BY <1>2
    <3>2. AllHold(c.refs, a.count)
      BY <1>1, <2>1, <3>1, AtLeastHolds
    <3> QED BY <1>2, <3>2 DEF RunGit
  <2>3. c.type = "git"
    BY <1>2
  <2> HIDE DEF c
  <2> QED BY <2>2, <2>3 DEF Passes, c
<1>3. CASE a.form = "tree" /\ a.looks = {} /\ c = ProposeFileTree(a)
  <2>1. a.count # 0 /\ \A t \in a.tops : ~t.empty
    BY <1>3 DEF Hollow, DetectArtifactType
  <2>2. c.type = "file_tree" /\ c.files = AtLeast(Floor(a.count)) /\ c.must = NotableTopLevelEntries(a.tops)
    BY <1>3 DEF ProposeFileTree
  <2>3. AllHold(c.files, a.count)
    BY <1>1, <2>1, <2>2, AtLeastHolds
  <2>4. c.must \subseteq NonEmptyTops(a)
    BY <2>1, <2>2 DEF NotableTopLevelEntries, NonEmptyTops
  <2> HIDE DEF c
  <2>5. RunFileTree(c, a)
    BY <1>3, <2>3, <2>4 DEF RunFileTree, Directories
  <2> QED BY <2>2, <2>5 DEF Passes, c
<1>4. CASE a.form = "db" /\ c = ProposeSQLite(a)
  <2>1. /\ c.type = "sqlite" /\ c.fresh = HasFreshness(a)
        /\ c.tables = IF a.count > 0 THEN DefaultTableFloor ELSE {}
    BY <1>4 DEF ProposeSQLite
  <2>2. ASSUME NEW t \in c.tables PROVE TableCount(t, a, env.live)
    <3>1. a.count > 0 /\ t = [op |-> ">=", n |-> 90, of |-> "live"]
      BY <2>1, <2>2 DEF DefaultTableFloor
    <3>2. a.count >= Threshold(90, a.count)
      BY <1>1 DEF Threshold
    <3> QED BY <1>4, <3>1, <3>2 DEF TableCount, CompareCount
  <2>3. c.fresh => a.stamp # NoTime
    BY <2>1 DEF HasFreshness
  <2> HIDE DEF c
  <2>4. RunSQLite(c, a, env)
    BY <1>4, <2>2, <2>3 DEF RunSQLite
  <2> QED BY <2>1, <2>4 DEF Passes, c
<1>5. CASE a.form = "file" /\ c = [type |-> "byte_identical"]
  BY <1>5 DEF Passes, RunByteIdentical, Files
<1>6. ASSUME a.form = "tree", NEW s \in a.looks,
             c = [type |-> "key_fingerprint", keys |-> s, expectFrom |-> TRUE, expect |-> {}, minKeys |-> 1]
      PROVE  Passes(c, a, env)
  <2> DEFINE found == CollectFingerprints(s, a)
  <2>1. /\ c.type = "key_fingerprint" /\ c.keys = s /\ c.expectFrom /\ c.expect = {} /\ c.minKeys = 1
    BY <1>6
  <2>2. found # {}
    BY <1>6 DEF Hollow, DetectArtifactType
  <2>3. IsFiniteSet(found)
    <3>1. IsFiniteSet({f \in a.keys : f.scheme = s})
      BY FS_Subset
    <3> DEFINE mine == {f \in a.keys : f.scheme = s}
               print == [f \in mine |-> f.print]
    <3>2. found = {print[f] : f \in mine}
      BY DEF CollectFingerprints
    <3>3. print \in Surjection(mine, found)
      BY <3>2 DEF Surjection
    <3> QED BY <3>1, <3>3, FS_Surjection
  <2>4. Cardinality(found) >= 1
    <3> HIDE DEF found
    <3>1. Cardinality(found) \in Nat /\ Cardinality(found) # 0
      BY <2>2, <2>3, FS_CardinalityType, FS_EmptySet
    <3> QED BY <3>1
  <2> HIDE DEF c
  <2>5. RunKeyFingerprint(c, a, env)
    BY <1>6, <2>1, <2>4 DEF RunKeyFingerprint, MissingFingerprints
  <2> QED BY <2>1, <2>5 DEF Passes
<1> HIDE DEF c
<1> QED BY <1>2, <1>3, <1>4, <1>5, <1>6, DraftIs DEF c

\* c recovered an exact copy of a, of which its checks are the draft.
Draft(c, a, tools) ==
  /\ c.target.form # "none" /\ c.target = a /\ c.pre = a
  /\ a.sound /\ ~Hollow(a) /\ a.looks \subseteq tools
  /\ c.spec = Propose(a)

\* While it is one, its checks pass. What a drill saw when it began has not more
\* in it than there is now, so that an artifact in use is never a copy again.
CopyFits(c, a, tools) ==
  /\ c.pre.count <= a.count
  /\ c.pc \in {"off", "prepare", "recover"} => c.target = None
  /\ c.pc \in {"check", "weigh"} /\ Draft(c, a, tools) => \A k \in DOMAIN c.res.outs : c.res.outs[k].pass
  /\ c.pc = "report" /\ ~c.canceled /\ Draft(c, a, tools) => c.res.verified

Copies == live.keys = case.live.keys /\ \A i \in Commands : CopyFits(cmd[i], live, case.tools)

LEMMA InitCopies == Init => Copies
<1> SUFFICES ASSUME Init PROVE Copies
  OBVIOUS
<1>1. live = case.live /\ case \in Cases
  BY DEF Init
<1>2. live \in Artifacts
  BY <1>1, CaseAssumption
<1>3. ASSUME NEW i \in Commands PROVE CopyFits(cmd[i], live, case.tools)
  <2>1. cmd[i] = Idle(case.cmds[i].mode, case.cmds[i].key)
    BY DEF Init
  <2>2. cmd[i].pre = None /\ cmd[i].target = None /\ cmd[i].pc = "off"
    BY <2>1 DEF Idle
  <2>3. None.count = 0 /\ live.count \in Nat
    BY <1>2 DEF None, Artifacts
  <2> QED BY <2>2, <2>3 DEF CopyFits
<1> QED BY <1>1, <1>3 DEF Copies

LEMMA StepCopies ==
  ASSUME IInv, Copies, NEW i \in Commands, NEW c, cmd' = [cmd EXCEPT ![i] = c],
         UNCHANGED <<case, live>>, CopyFits(c, live, case.tools)
  PROVE  Copies'
<1>1. \A j \in Commands : cmd'[j] = IF j = i THEN c ELSE cmd[j]
  BY DEF IInv, TypeOK
<1> QED BY <1>1 DEF Copies

\* A process that is past its report is none of these.
LEMMA PastCopies ==
  ASSUME NEW c, NEW d, NEW a, NEW tools, CopyFits(c, a, tools), d.pre = c.pre,
         d.pc \in {"pin", "write", "log", "refused", "done"}
  PROVE  CopyFits(d, a, tools)
BY DEF CopyFits

LEMMA NoneIsNoDraft ==
  ASSUME NEW c, NEW a, NEW tools, c.target = None
  PROVE  ~Draft(c, a, tools)
BY DEF Draft, None

\* The next check of a draft passes too.
LEMMA CheckCopies == ASSUME IInv, Copies, NEW i \in Commands, CheckOne(i) PROVE Copies'
<1> DEFINE c == cmd[i]
           checks == Effective(c.spec.checks)
           k == Len(c.res.outs) + 1
<1>1. c.pc = "check" /\ c \in DrillProcesses /\ Underway(c, case.tools) /\ c.res \in RunResults
  BY CommandIs DEF CheckOne, At, Fits
<1>2. PICK ran \in {"ok", "failed"} :
        LET env == [pre |-> c.pre, live |-> live, now |-> clock, tools |-> case.tools,
                    ran |-> IF c.canceled THEN "canceled" ELSE ran]
            outs == Append(c.res.outs, Outcome(checks[k], c.target, env))
        IN  Step(i, [c EXCEPT !.res = [@ EXCEPT !.outs = outs, !.unreachable = c.canceled],
                              !.pc = IF c.canceled THEN "report"
                                     ELSE IF k = Len(checks) THEN "weigh" ELSE "check"])
  BY DEF CheckOne
<1> DEFINE env == [pre |-> c.pre, live |-> live, now |-> clock, tools |-> case.tools,
                   ran |-> IF c.canceled THEN "canceled" ELSE ran]
           o == Outcome(checks[k], c.target, env)
           outs == Append(c.res.outs, o)
           res == [c.res EXCEPT !.outs = outs, !.unreachable = c.canceled]
           d == [c EXCEPT !.res = res, !.pc = IF c.canceled THEN "report"
                                              ELSE IF k = Len(checks) THEN "weigh" ELSE "check"]
<1>3. Step(i, d)
  BY <1>2
<1>4. c.res.outs \in Seq(Outcomes) /\ k \in DOMAIN checks /\ DOMAIN c.res.outs = 1 .. k - 1 /\ k \in Nat
  <2>1. c.res.outs \in Seq(Outcomes) /\ Len(c.res.outs) \in Nat /\ DOMAIN c.res.outs = 1 .. Len(c.res.outs)
    BY <1>1, LenProperties DEF RunResults
  <2>2. Len(checks) \in Nat /\ DOMAIN checks = 1 .. Len(checks)
    BY CommandIs, EffectiveIs
  <2>3. Len(c.res.outs) < Len(checks)
    BY <1>1 DEF Underway
  <2> HIDE DEF checks, c
  <2> QED BY <2>1, <2>2, <2>3
<1>5. checks[k] \in DeclaredChecks
  <2> HIDE DEF k
  <2> QED BY <1>4, CommandIs, EffectiveIs
<1>6. o \in Outcomes /\ o.pass = Passes(checks[k], c.target, env)
  <2>1. env.now \in Int
    BY DEF IInv, TypeOK, WorldOk
  <2>2. Outcome(checks[k], c.target, env) \in Outcomes
    <3> HIDE DEF env, checks, k
    <3> QED BY <1>5, <2>1, CommandIs, OutcomeIs
  <2> HIDE DEF env, checks, k
  <2> QED BY <2>2 DEF Outcome
<1>7. DOMAIN outs = 1 .. k /\ \A j \in 1 .. k : outs[j] = IF j = k THEN o ELSE c.res.outs[j]
  <2> HIDE DEF o
  <2> QED BY <1>4, <1>6, AppendProperties, LenProperties
<1>8. res.outs = outs
  <2> HIDE DEF outs
  <2> QED BY <1>1 DEF RunResults
<1>9. /\ d.res = res /\ d.spec = c.spec /\ d.target = c.target /\ d.pre = c.pre /\ d.canceled = c.canceled
      /\ d.pc = IF c.canceled THEN "report" ELSE IF k = Len(checks) THEN "weigh" ELSE "check"
  <2> HIDE DEF res, checks, k
  <2> QED BY <1>1 DEF DrillProcesses
<1>10. env.pre = c.pre /\ env.live = live /\ env.tools = case.tools
  OBVIOUS
<1> HIDE DEF d, res, outs, o, env
<1>11. CopyFits(c, live, case.tools) /\ IsFiniteSet(live.keys) /\ live \in Artifacts
  BY CaseAssumption DEF Copies, IInv, TypeOK, WorldOk
<1>12. ASSUME d.pc \in {"check", "weigh"}, Draft(d, live, case.tools), NEW j \in DOMAIN outs PROVE outs[j].pass
  <2>1. Draft(c, live, case.tools)
    BY <1>9, <1>12 DEF Draft
  <2>2. CASE j = k
    <3>1. checks = Propose(live).checks
      BY <1>11, <2>1, DraftIs DEF Draft
    <3>2. Passes(Propose(live).checks[k], live, env)
      <4>1. k \in DOMAIN Propose(live).checks
        BY <1>4, <3>1
      <4> HIDE DEF k
      <4> QED BY <1>10, <1>11, <2>1, <4>1, DraftPasses DEF Draft
    <3>3. outs[j] = o
      BY <1>7, <1>12, <2>2
    <3> QED BY <1>6, <2>1, <3>1, <3>2, <3>3 DEF Draft
  <2>3. CASE j # k
    <3>1. j \in DOMAIN c.res.outs /\ outs[j] = c.res.outs[j]
      BY <1>4, <1>7, <1>12, <2>3
    <3>2. c.res.outs[j].pass
      BY <1>1, <1>11, <2>1, <3>1 DEF CopyFits
    <3> QED BY <3>1, <3>2
  <2> QED BY <2>2, <2>3
<1>13. CopyFits(d, live, case.tools)
  <2>1. d.pc \in {"check", "weigh"} \/ (d.pc = "report" /\ d.canceled)
    BY <1>9
  <2>2. d.pre.count <= live.count
    BY <1>9, <1>11 DEF CopyFits
  <2> QED BY <1>8, <1>9, <1>12, <2>1, <2>2 DEF CopyFits
<1> QED BY <1>3, <1>13, StepCopies DEF Step, Becomes, world

\* A draft sets no budget, so it verifies when its checks have passed.
LEMMA WeighCopies == ASSUME IInv, Copies, NEW i \in Commands, Weigh(i) PROVE Copies'
<1> DEFINE c == cmd[i]
           rto == (clock - c.began) * TickMs
           rpo == {[r EXCEPT !.age = @ * TickMs] : r \in SelectRPO(c.res.outs, c.spec.rpo > 0)}
           res == [c.res EXCEPT !.rto = rto, !.rpo = rpo, !.verified = Verified(c.spec, c.res.outs, rto, rpo)]
           d == [c EXCEPT !.pc = "report", !.res = res]
<1>1. c.pc = "weigh" /\ c \in DrillProcesses /\ c.res \in RunResults /\ Step(i, d)
  BY CommandIs DEF Weigh, At
<1>2. CopyFits(c, live, case.tools) /\ live \in Artifacts
  BY DEF Copies, IInv, TypeOK, WorldOk
<1>3. res.verified = Verified(c.spec, c.res.outs, rto, rpo)
  <2> HIDE DEF rto, rpo
  <2> QED BY <1>1 DEF RunResults
<1>4. d.res = res /\ d.pc = "report" /\ d.spec = c.spec /\ d.target = c.target /\ d.pre = c.pre
  <2> HIDE DEF res
  <2> QED BY <1>1 DEF DrillProcesses
<1> HIDE DEF d, res, rto, rpo
<1>5. ASSUME Draft(d, live, case.tools) PROVE d.res.verified
  <2>1. Draft(c, live, case.tools)
    BY <1>4, <1>5 DEF Draft
  <2>2. \A k \in DOMAIN c.res.outs : c.res.outs[k].pass
    BY <1>1, <1>2, <2>1 DEF CopyFits
  <2>3. c.spec.rto = 0 /\ c.spec.rpo = 0
    BY <1>2, <2>1, DraftIs DEF Draft
  <2>4. BudgetFailures(c.spec, rto, rpo) = {}
    <3> HIDE DEF c
    <3> QED BY <2>3 DEF BudgetFailures
  <2>5. Verified(c.spec, c.res.outs, rto, rpo)
    <3> HIDE DEF c
    <3> QED BY <2>2, <2>4 DEF Verified, ElementsOf
  <2> QED BY <1>3, <1>4, <2>5
<1>6. CopyFits(d, live, case.tools)
  BY <1>2, <1>4, <1>5 DEF CopyFits
<1> QED BY <1>1, <1>6, StepCopies DEF Step, Becomes, world

\* What has recovered nothing is no draft.
LEMMA BareCopies ==
  ASSUME NEW d, NEW a, NEW tools, d.pre.count <= a.count, d.target = None
  PROVE  CopyFits(d, a, tools)
BY NoneIsNoDraft DEF CopyFits

LEMMA CopyIs ==
  ASSUME IInv, Copies, NEW i \in Commands
  PROVE  cmd[i] \in DrillProcesses /\ CopyFits(cmd[i], live, case.tools) /\ live \in Artifacts
BY CommandIs DEF Copies, IInv, TypeOK, WorldOk

LEMMA StartCopies == ASSUME IInv, Copies, NEW i \in Commands, Start(i) PROVE Copies'
<1> DEFINE d == [cmd[i] EXCEPT !.pc = IF cmd[i].mode = "pin" THEN "pin" ELSE "prepare", !.spec = drill]
<1>1. cmd[i].pc = "off" /\ Step(i, d)
  BY DEF Start, At
<1>2. d.target = cmd[i].target /\ d.pre = cmd[i].pre
  BY CopyIs DEF DrillProcesses
<1> HIDE DEF d
<1>3. CopyFits(d, live, case.tools)
  BY <1>1, <1>2, CopyIs, BareCopies DEF CopyFits
<1> QED BY <1>1, <1>3, StepCopies DEF Step, Becomes, world

LEMMA CancelCopies == ASSUME IInv, Copies, NEW i \in Commands, Cancel(i) PROVE Copies'
<1> DEFINE d == [cmd[i] EXCEPT !.canceled = TRUE]
<1>1. cmd[i].pc \in {"recover", "check"} /\ Step(i, d)
  BY DEF Cancel
<1>2. d.target = cmd[i].target /\ d.pre = cmd[i].pre /\ d.pc = cmd[i].pc /\ d.spec = cmd[i].spec /\ d.res = cmd[i].res
  BY CopyIs DEF DrillProcesses
<1> HIDE DEF d
<1>3. CopyFits(d, live, case.tools)
  BY <1>1, <1>2, CopyIs DEF CopyFits, Draft
<1> QED BY <1>1, <1>3, StepCopies DEF Step, Becomes, world

LEMMA PrepareCopies == ASSUME IInv, Copies, NEW i \in Commands, Prepare(i) PROVE Copies'
<1> DEFINE c == [cmd[i] EXCEPT !.pc = "report", !.res = Unreachable]
           d == [cmd[i] EXCEPT !.pc = "recover", !.pre = live, !.began = clock]
<1>1. cmd[i].pc = "prepare" /\ (Step(i, c) \/ Step(i, d))
  BY DEF Prepare, At
<1>2. c.target = cmd[i].target /\ c.pre = cmd[i].pre /\ d.target = cmd[i].target /\ d.pre = live
  BY CopyIs DEF DrillProcesses
<1>3. live.count <= live.count
  BY CopyIs DEF Artifacts
<1> HIDE DEF c, d
<1>4. CopyFits(c, live, case.tools) /\ CopyFits(d, live, case.tools)
  BY <1>1, <1>2, <1>3, CopyIs, BareCopies DEF CopyFits
<1> QED BY <1>1, <1>4, StepCopies DEF Step, Becomes, world

LEMMA RecoverCopies == ASSUME IInv, Copies, NEW i \in Commands, Recover(i) PROVE Copies'
<1> DEFINE needs == RequiresTarget(Effective(cmd[i].spec.checks))
           W(t) == [cmd[i] EXCEPT !.pc = IF needs /\ t = None THEN "report" ELSE "check",
                                  !.target = t, !.ran = TRUE, !.res = Disputed]
           F(r) == [cmd[i] EXCEPT !.pc = "report", !.ran = TRUE, !.res = r]
<1>1. cmd[i].pc = "recover" /\ cmd[i] \in DrillProcesses
  BY CommandIs DEF Recover, At
\* the recovery failed
<1>2. ASSUME NEW r, Step(i, F(r)) PROVE Copies'
  <2>1. F(r).target = cmd[i].target /\ F(r).pre = cmd[i].pre
    BY <1>1 DEF DrillProcesses
  <2> HIDE DEF F
  <2>2. CopyFits(F(r), live, case.tools)
    BY <1>1, <2>1, CopyIs, BareCopies DEF CopyFits
  <2> QED BY <1>2, <2>2, StepCopies DEF Step, Becomes, world
\* it left t
<1>3. ASSUME NEW t \in Artifacts, Step(i, W(t)) PROVE Copies'
  <2>1. /\ W(t).pc = (IF needs /\ t = None THEN "report" ELSE "check")
        /\ W(t).target = t /\ W(t).pre = cmd[i].pre /\ W(t).res = Disputed
    BY <1>1 DEF DrillProcesses
  <2> HIDE DEF W
  <2>2. DOMAIN Disputed.outs = {}
    BY DEF Disputed, NoResult
  <2>3. CopyFits(W(t), live, case.tools)
    <3>1. W(t).pre.count <= live.count
      BY <2>1, CopyIs DEF CopyFits
    <3>2. CASE t = None
      BY <2>1, <3>1, <3>2, BareCopies
    <3>3. CASE t # None
      BY <2>1, <2>2, <3>1, <3>3 DEF CopyFits
    <3> QED BY <3>2, <3>3
  <2> QED BY <1>3, <2>3, StepCopies DEF Step, Becomes, world
<1>4. source \in Artifacts /\ None \in Artifacts
  BY NoneIs DEF IInv, TypeOK, WorldOk
<1>5. Step(i, F(Unreachable)) \/ Step(i, F(Disputed)) \/ Step(i, W(source)) \/ Step(i, W(None))
  BY DEF Recover
<1> HIDE DEF F, W
<1> QED BY <1>2, <1>3, <1>4, <1>5

\* Past its report a process keeps what it saw.
LEMMA LateCopies ==
  ASSUME IInv, Copies, NEW i \in Commands, Pin(i) \/ ParseKey(i) \/ Write(i) \/ Log(i)
  PROVE  Copies'
<1>1. UNCHANGED <<case, live>>
  BY DEF Pin, ParseKey, Write, Log, Step, world
<1>2. cmd[i] \in DrillProcesses /\ CopyFits(cmd[i], live, case.tools)
  BY CopyIs
<1>3. ASSUME NEW d, cmd' = [cmd EXCEPT ![i] = d], d.pre = cmd[i].pre,
             d.pc \in {"pin", "write", "log", "refused", "done"}
      PROVE  Copies'
  <2>1. CopyFits(d, live, case.tools)
    BY <1>2, <1>3, PastCopies
  <2> QED BY <1>1, <1>3, <2>1, StepCopies
<1>4. CASE Pin(i)
  <2>1. PICK ok \in BOOLEAN : Step(i, [cmd[i] EXCEPT !.pc = IF ok THEN "log" ELSE "write", !.res = PinResult(ok)])
    BY <1>4 DEF Pin
  <2> DEFINE d == [cmd[i] EXCEPT !.pc = IF ok THEN "log" ELSE "write", !.res = PinResult(ok)]
  <2>2. d.pre = cmd[i].pre /\ d.pc \in {"log", "write"}
    BY <1>2 DEF DrillProcesses
  <2>3. cmd' = [cmd EXCEPT ![i] = d]
    BY <2>1 DEF Step, Becomes
  <2> HIDE DEF d
  <2> QED BY <1>3, <2>2, <2>3
<1>5. CASE ParseKey(i)
  <2> DEFINE d == [cmd[i] EXCEPT !.pc = IF cmd[i].key = "bad" THEN "refused" ELSE "write"]
  <2>1. d.pre = cmd[i].pre /\ d.pc \in {"refused", "write"}
    BY <1>2 DEF DrillProcesses
  <2>2. cmd' = [cmd EXCEPT ![i] = d]
    BY <1>5 DEF ParseKey, Step, Becomes
  <2> HIDE DEF d
  <2> QED BY <1>3, <2>1, <2>2
<1>6. CASE Write(i)
  <2> DEFINE d == [cmd[i] EXCEPT !.pc = "log", !.wrote = clock]
  <2>1. d.pre = cmd[i].pre /\ d.pc = "log"
    BY <1>2 DEF DrillProcesses
  <2>2. cmd' = [cmd EXCEPT ![i] = d]
    BY <1>6 DEF Write, Becomes
  <2> HIDE DEF d
  <2> QED BY <1>3, <2>1, <2>2
<1>7. CASE Log(i)
  <2> DEFINE d == [cmd[i] EXCEPT !.pc = "done"]
  <2>1. d.pre = cmd[i].pre /\ d.pc = "done"
    BY <1>2 DEF DrillProcesses
  <2>2. cmd' = [cmd EXCEPT ![i] = d]
    BY <1>7 DEF Log, Becomes
  <2> HIDE DEF d
  <2> QED BY <1>3, <2>1, <2>2
<1> QED BY <1>4, <1>5, <1>6, <1>7

\* What is used has more in it than any drill that began before has seen.
LEMMA ChangeCopies == ASSUME IInv, Copies, Change PROVE Copies'
<1>1. UNCHANGED <<case, cmd>> /\ live \in Artifacts
  BY DEF Change, IInv, TypeOK, WorldOk
<1>2. CASE UNCHANGED live
  BY <1>1, <1>2 DEF Copies
<1>3. CASE Use
  <2>1. live' = [live EXCEPT !.count = @ + 1, !.stamp = clock]
    BY <1>3 DEF Use
  <2>2. live'.count = live.count + 1 /\ live'.keys = live.keys /\ live.count \in Nat
    BY <1>1, <2>1 DEF Artifacts
  <2>3. ASSUME NEW i \in Commands PROVE CopyFits(cmd[i], live', case.tools)
    <3>1. CopyFits(cmd[i], live, case.tools) /\ cmd[i].pre.count \in Nat
      BY CopyIs, CommandIs DEF Artifacts
    <3>2. cmd[i].pre.count <= live'.count /\ cmd[i].pre.count # live'.count
      BY <2>2, <3>1 DEF CopyFits
    <3>3. ~Draft(cmd[i], live', case.tools)
      BY <3>2 DEF Draft
    <3> QED BY <3>1, <3>2, <3>3 DEF CopyFits
  <2> QED BY <1>1, <2>2, <2>3 DEF Copies
<1> QED BY <1>2, <1>3 DEF Change, Backup, Rot, Lose

LEMMA NextCopies == IInv /\ Copies /\ [Next]_vars => Copies'
<1> SUFFICES ASSUME IInv, Copies, [Next]_vars PROVE Copies'
  OBVIOUS
<1>1. ASSUME NEW i \in Commands, Process(i) PROVE Copies'
  BY <1>1, StartCopies, CancelCopies, PrepareCopies, RecoverCopies, CheckCopies, WeighCopies, LateCopies DEF Process
<1>2. CASE UNCHANGED vars
  BY <1>2 DEF vars, world, Copies
<1>3. CASE Tick \/ Calibrate
  BY <1>3 DEF Tick, Calibrate, world, Copies
<1> QED BY <1>1, <1>2, <1>3, ChangeCopies DEF Next

LEMMA CopiesInductive == Spec => []Copies
BY InitCopies, NextCopies, Inductive, PTL DEF Spec

LEMMA DraftsFit == Spec => []DraftFits
<1>1. Copies => DraftFits
  BY DEF Copies, CopyFits, Draft, DraftFits, Copied
<1> QED BY <1>1, CopiesInductive, PTL

-----------------------------------------------------------------------------
(* Budgets.                                                                *)

\* What is above the bound only where a sample is above the percentile, is for
\* one sample in twenty at most.
LEMMA WithinIs ==
  ASSUME NEW s, IsFiniteSet(DOMAIN s), DOMAIN s # {}, \A k \in DOMAIN s : s[k] \in Int,
         NEW t, DOMAIN t = DOMAIN s, NEW b,
         \A k \in DOMAIN s : t[k] > b => s[k] > Percentile95(s)
  PROVE  MostlyWithin(t, b)
<1> DEFINE n == Cardinality(DOMAIN s)
           p == Percentile95(s)
           below == {k \in DOMAIN s : s[k] <= p}
           above == {k \in DOMAIN t : t[k] > b}
           rank == (95 * n + 99) \div 100
<1>1. n \in Nat /\ p \in Int /\ rank <= Cardinality(below)
  BY PercentileIs, FS_CardinalityType
<1>2. above \subseteq DOMAIN s \ below
  BY <1>1
<1>3. below \subseteq DOMAIN s
  OBVIOUS
<1> HIDE DEF p, below, above
<1>4. IsFiniteSet(below) /\ Cardinality(below) \in Nat /\ IsFiniteSet(DOMAIN s \ below)
      /\ Cardinality(DOMAIN s \ below) = n - Cardinality(below)
  <2>1. IsFiniteSet(below) /\ DOMAIN s \cap below = below
    BY <1>3, FS_Subset
  <2> QED BY <2>1, FS_Difference, FS_CardinalityType
<1>5. Cardinality(above) \in Nat /\ Cardinality(above) <= n - Cardinality(below)
  BY <1>2, <1>4, FS_Subset, FS_CardinalityType
<1> HIDE DEF n
<1>6. 20 * Cardinality(above) <= n
  BY <1>1, <1>4, <1>5
<1> QED BY <1>6 DEF MostlyWithin, n, above

\* A proposed time is the least friendly one from d on; to write it with its
\* unit loses nothing.
LEMMA FriendlyIs ==
  ASSUME NEW d \in Int, d >= RtoFloor
  PROVE  RoundUpFriendlyRTO(d) \in Int /\ RoundUpFriendlyRTO(d) >= d
         /\ FormatCalibratedRTO(RoundUpFriendlyRTO(d)) = RoundUpFriendlyRTO(d)
<1> USE DEF RtoFloor, Minute, Second
<1>1. CASE d > 5 * Minute
  <2> DEFINE q == (d + 59999) \div 60000
  <2>1. q \in Int /\ 60000 * q >= d /\ RoundUpFriendlyRTO(d) = q * 60000
    BY <1>1 DEF RoundUpFriendlyRTO, RoundUp
  <2> HIDE DEF q
  <2>2. (q * 60000) \div 60000 = q
    BY <2>1
  <2> QED BY <1>1, <2>1, <2>2 DEF FormatCalibratedRTO
<1>2. CASE d <= 5 * Minute
  <2> DEFINE q == (d + 29999) \div 30000
  <2>1. q \in Int /\ 30000 * q >= d /\ q <= 10 /\ RoundUpFriendlyRTO(d) = q * 30000
    BY <1>2 DEF RoundUpFriendlyRTO, RoundUp
  <2> HIDE DEF q
  <2>2. (q * 30000) \div 1000 = q * 30
    BY <2>1
  <2>3. CASE q = 10
    BY <1>2, <2>1, <2>3 DEF FormatCalibratedRTO
  <2>4. CASE q < 10
    BY <1>2, <2>1, <2>2, <2>4 DEF FormatCalibratedRTO
  <2> QED BY <2>1, <2>3, <2>4
<1> QED BY <1>1, <1>2

LEMMA LargerIs ==
  ASSUME NEW a \in Int, NEW b \in Int
  PROVE  Larger(a, b) \in Int /\ Larger(a, b) >= a /\ Larger(a, b) >= b
BY DEF Larger

\* The proposed budgets have their margins.
LEMMA ProposedIs ==
  ASSUME NEW s, Percentile95(s) \in Int
  PROVE  /\ ProposedRTO(s) \in Int /\ ProposedRTO(s) >= Margin * Percentile95(s) /\ ProposedRTO(s) >= RtoFloor
         /\ FormatCalibratedRTO(ProposedRTO(s)) = ProposedRTO(s)
         /\ ProposedRPO(s) \in Int /\ ProposedRPO(s) - RpoFloor >= Percentile95(s)
<1> DEFINE p == Percentile95(s)
           d == Larger(Margin * p, RtoFloor)
           e == Larger((3 * p + 1) \div 2, p + RpoFloor)
<1>1. p \in Int
  OBVIOUS
<1> HIDE DEF p
<1>2. d \in Int /\ d >= Margin * p /\ d >= RtoFloor
  <2>1. Margin * p \in Int /\ RtoFloor \in Int
    BY <1>1 DEF Margin, RtoFloor, Second
  <2> HIDE DEF Margin, RtoFloor
  <2> QED BY <2>1, LargerIs
<1>3. e \in Int /\ e >= p + RpoFloor
  <2>1. (3 * p + 1) \div 2 \in Int /\ p + RpoFloor \in Int
    BY <1>1 DEF RpoFloor, Hour, Minute, Second
  <2> QED BY <2>1, LargerIs
<1>4. ProposedRTO(s) = RoundUpFriendlyRTO(d) /\ ProposedRPO(s) = RoundUp(e, Hour)
  BY DEF ProposedRTO, ProposedRPO, p
<1> HIDE DEF d, e
<1>5. RoundUp(e, Hour) \in Int /\ RoundUp(e, Hour) >= e
  BY <1>3 DEF RoundUp, Hour, Minute, Second
<1>6. /\ RoundUpFriendlyRTO(d) \in Int /\ RoundUpFriendlyRTO(d) >= d
      /\ FormatCalibratedRTO(RoundUpFriendlyRTO(d)) = RoundUpFriendlyRTO(d)
  BY <1>2, FriendlyIs
<1>7. Margin * p \in Int /\ RtoFloor \in Int /\ RpoFloor \in Int
  BY <1>1 DEF Margin, RtoFloor, RpoFloor, Hour, Minute, Second
<1> HIDE DEF Margin, RtoFloor, RpoFloor
<1> QED BY <1>1, <1>2, <1>3, <1>4, <1>5, <1>6, <1>7 DEF p

\* What a drill that is calibrated is given.
LEMMA BudgetsFit ==
  ASSUME NEW d \in Declarations, NEW rs \in Seq(Runs), NEW e, e = Calibrated(d, rs, MinRuns), e # d
  PROVE  /\ MostlyWithin([k \in DOMAIN RtoSamples(rs) |-> Margin * RtoSamples(rs)[k]], e.rto)
         /\ e.rpo # d.rpo => MostlyWithin(RpoSamples(rs), e.rpo - RpoFloor)
         /\ e.rto >= RtoFloor
         /\ e.rto = ProposedRTO(RtoSamples(rs))
<1> DEFINE S == RtoSamples(rs)
           O == RpoSamples(rs)
<1>1. /\ IsFiniteSet(DOMAIN S) /\ \A k \in DOMAIN S : S[k] \in Int
      /\ IsFiniteSet(DOMAIN O) /\ \A k \in DOMAIN O : O[k] \in Int
      /\ Cardinality(DOMAIN S) \in Nat /\ Cardinality(DOMAIN O) \in Nat
  BY SamplesAre, FS_CardinalityType
<1>2. Cardinality(DOMAIN S) >= MinRuns
  <2>1. ~(Cardinality(DOMAIN S) < MinRuns)
    BY DEF Calibrated
  <2> HIDE DEF S
  <2> QED BY <1>1, <2>1, TimeAssumption
<1>3. /\ e.rto = FormatCalibratedRTO(ProposedRTO(S))
      /\ e.rpo = IF Cardinality(DOMAIN O) >= MinRuns THEN ProposedRPO(O) ELSE d.rpo
  <2>1. ~(Cardinality(DOMAIN S) < MinRuns)
    BY DEF Calibrated
  <2>2. e = [d EXCEPT !.rto = FormatCalibratedRTO(ProposedRTO(S)),
                      !.rpo = IF Cardinality(DOMAIN O) >= MinRuns THEN ProposedRPO(O) ELSE @]
    BY <2>1 DEF Calibrated
  <2> HIDE DEF S, O
  <2> QED BY <2>2 DEF Declarations
<1> HIDE DEF S, O
<1>4. DOMAIN S # {} /\ Percentile95(S) \in Int
  <2>1. DOMAIN S # {}
    BY <1>1, <1>2, FS_EmptySet, TimeAssumption
  <2> QED BY <1>1, <2>1, PercentileIs
<1>5. e.rto = ProposedRTO(S) /\ e.rto \in Int /\ e.rto >= Margin * Percentile95(S) /\ e.rto >= RtoFloor
  BY <1>3, <1>4, ProposedIs
<1>6. MostlyWithin([k \in DOMAIN S |-> Margin * S[k]], e.rto)
  <2> DEFINE t == [k \in DOMAIN S |-> Margin * S[k]]
  <2>1. ASSUME NEW k \in DOMAIN S, t[k] > e.rto PROVE S[k] > Percentile95(S)
    <3>1. S[k] \in Int /\ Margin * S[k] > e.rto
      BY <1>1, <2>1
    <3> HIDE DEF t
    <3> QED BY <1>4, <1>5, <3>1 DEF Margin
  <2>2. DOMAIN t = DOMAIN S
    OBVIOUS
  <2> HIDE DEF t
  <2>3. MostlyWithin(t, e.rto)
    BY <1>1, <1>4, <2>1, <2>2, WithinIs
  <2> QED BY <2>3 DEF t
<1>7. ASSUME e.rpo # d.rpo PROVE MostlyWithin(O, e.rpo - RpoFloor)
  <2>1. Cardinality(DOMAIN O) >= MinRuns /\ e.rpo = ProposedRPO(O)
    BY <1>3, <1>7
  <2>2. DOMAIN O # {} /\ Percentile95(O) \in Int
    <3>1. DOMAIN O # {}
      BY <1>1, <2>1, FS_EmptySet, TimeAssumption
    <3> QED BY <1>1, <3>1, PercentileIs
  <2>3. e.rpo \in Int /\ e.rpo - RpoFloor >= Percentile95(O) /\ e.rpo - RpoFloor \in Int
    BY <2>1, <2>2, ProposedIs DEF RpoFloor, Hour, Minute, Second
  <2>4. ASSUME NEW k \in DOMAIN O, O[k] > e.rpo - RpoFloor PROVE O[k] > Percentile95(O)
    <3>1. O[k] \in Int
      BY <1>1
    <3> DEFINE b == e.rpo - RpoFloor
    <3>2. O[k] > b /\ b >= Percentile95(O) /\ b \in Int
      BY <2>3, <2>4
    <3> HIDE DEF b
    <3> QED BY <2>2, <3>1, <3>2
  <2> QED BY <1>1, <2>2, <2>4, WithinIs
<1> QED BY <1>5, <1>6, <1>7 DEF S, O

LEMMA BudgetsAreKept == Spec => CalibratedFits
<1> DEFINE Fitting == drill' # drill =>
       /\ MostlyWithin([k \in DOMAIN RtoSamples(runs) |-> Margin * RtoSamples(runs)[k]], drill'.rto)
       /\ drill'.rpo # drill.rpo => MostlyWithin(RpoSamples(runs), drill'.rpo - RpoFloor)
       /\ drill'.rto >= RtoFloor
       /\ drill'.rto = ProposedRTO(RtoSamples(runs))
<1>1. IInv /\ [Next]_vars => [Fitting]_vars
  <2> SUFFICES ASSUME IInv, Next, drill' # drill PROVE Fitting
    BY DEF vars
  <2>1. Calibrate
    BY DEF Next, Tick, Change, Process, Start, Cancel, Prepare, Recover, CheckOne, Weigh, Pin, ParseKey, Write, Log,
           Step
  <2>2. drill' = Calibrated(drill, runs, MinRuns) /\ drill \in Declarations /\ runs \in Seq(Runs)
    BY <2>1 DEF Calibrate, IInv, TypeOK, FileOk
  <2> QED BY <2>2, BudgetsFit
<1> QED BY <1>1, Inductive, PTL DEF Spec, CalibratedFits

\* What the program writes for the owner fits: whatever the artifact was that
\* drill propose measured, its draft verifies on an exact copy, however the
\* commands and the changes interleave; and whatever runs taught it, a budget of
\* drill --calibrate leaves its margin to all but one run in twenty.
THEOREM WhatIsWritten == Spec => WrittenFits
BY DraftsFit, BudgetsAreKept, PTL DEF WrittenFits

=============================================================================
