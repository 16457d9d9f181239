------------------------------- MODULE Runner -------------------------------
(***************************************************************************)
(* The two ways the program runs a declared command, with the processes    *)
(* that the command leaves around it:                                      *)
(*   "run"    command.run: recoveries, checks, pins and command probes;    *)
(*   "serve"  drill.runServe: boot the recovered artifact and probe it.    *)
(* Both start the command as the leader of a process group of its own.     *)
(* The group, the pipe of the output and the signals are the operating     *)
(* system's: a process may fork helpers, redirect its output away from the *)
(* pipe and leave the group (setsid). SIGTERM is a request: a process that *)
(* listens to it exits, which any process may do at any time, so the       *)
(* signal itself has no action; SIGKILL has.                               *)
(* Time is abstract: a timer that is running may fire at any moment.       *)
(***************************************************************************)
EXTENDS Naturals, FiniteSets

CONSTANTS Helpers,      \* processes the command may fork
          MaxProbes     \* probes a serve check declares

ASSUME RunnerAssumption == MaxProbes \in Nat \ {0}

VARIABLES mode,      \* which of the two runs
          procs,     \* the processes that were started: what each is like and whether it lives
          code,      \* exit status of the leader: "none" while it lives, then "zero" or "nonzero"
          canceled,  \* the caller's context is done, or the command's own timeout passed
          pc,        \* where the engine is
          probed,    \* serve: probes that have answered, in order
          result     \* what the engine returned

runnerVars == <<mode, procs, code, canceled, pc, probed, result>>

Leader == "leader"
Processes == {Leader} \cup Helpers

Live == {p \in DOMAIN procs : procs[p].live}
Group == {p \in Live : procs[p].group}
Holders == {p \in Live : procs[p].pipe}

Results == {"none", "ok", "failed", "canceled", "cutoff", "exited", "not_ready"}

RunnerTypeOK ==
  /\ mode \in {"run", "serve"}
  /\ DOMAIN procs \subseteq Processes
  /\ \A p \in DOMAIN procs : procs[p] \in [group : BOOLEAN, pipe : BOOLEAN, live : BOOLEAN]
  /\ code \in {"none", "zero", "nonzero"}
  /\ canceled \in BOOLEAN
  /\ pc \in {"wait", "cleanup", "stopping", "drain", "ready", "probing", "kill", "killing", "killed", "done"}
  /\ probed \in 0 .. MaxProbes
  /\ result \in Results

RunnerInit ==
  /\ mode \in {"run", "serve"}
  /\ procs = [p \in {Leader} |-> [group |-> TRUE, pipe |-> TRUE, live |-> TRUE]]
  /\ code = "none"
  /\ canceled = FALSE
  /\ pc = IF mode = "run" THEN "wait" ELSE "ready"
  /\ probed = 0
  /\ result = "none"

-----------------------------------------------------------------------------
(* The command and its helpers.                                            *)

\* a helper starts in the group and on the pipe of the process that forks it
Fork(p, h) ==
  /\ p \in Live /\ h \notin DOMAIN procs /\ pc # "done"
  /\ procs' = [q \in DOMAIN procs \cup {h} |-> IF q = h THEN procs[p] ELSE procs[q]]
  /\ UNCHANGED <<mode, code, canceled, pc, probed, result>>

\* it redirects its output, or leaves the group (a group's leader cannot)
Detach(p) ==
  /\ p \in Live /\ pc # "done"
  /\ \/ procs[p].pipe /\ procs' = [procs EXCEPT ![p].pipe = FALSE]
     \/ procs[p].group /\ p # Leader /\ procs' = [procs EXCEPT ![p].group = FALSE]
  /\ UNCHANGED <<mode, code, canceled, pc, probed, result>>

\* the processes that a set of deaths leaves
After(dead) == [p \in DOMAIN procs |-> [procs[p] EXCEPT !.live = @ /\ p \notin dead]]
ExitCode(dead, c) == IF Leader \in dead \cap Live THEN c ELSE code

Exit(p) ==
  /\ p \in Live
  /\ procs' = After({p})
  /\ \E c \in {"zero", "nonzero"} : code' = ExitCode({p}, c)
  /\ UNCHANGED <<mode, canceled, pc, probed, result>>

\* the caller is cancelled, or the timeout of the command passes
CancelCommand ==
  /\ ~canceled /\ pc # "done"
  /\ canceled' = TRUE
  /\ UNCHANGED <<mode, procs, code, pc, probed, result>>

-----------------------------------------------------------------------------
\* mutant of Kill: only the leader is killed
KillLeader ==
  /\ procs' = After({Leader})
  /\ code' = ExitCode({Leader}, "nonzero")

\* SIGKILL is not waited for by anyone who is alive: the group is gone at once
Kill ==
  /\ procs' = After(Group)
  /\ code' = ExitCode(Group, "nonzero")

-----------------------------------------------------------------------------
(* command.run.                                                            *)

\* cmd.Wait returns: the leader is gone (the pipe is drained separately). A
\* cancellation that is already there wins over the exit status.
Collect ==
  /\ pc = "wait" /\ Leader \notin Live
  /\ result' = IF canceled THEN "canceled" ELSE IF code = "zero" THEN "ok" ELSE "failed"
  /\ pc' = "cleanup"
  /\ UNCHANGED <<mode, procs, code, canceled, probed>>

\* cleanupProcessGroup: 20 ms after the TERM, what is left of the group is killed
Cleanup ==
  /\ pc = "cleanup"
  /\ Kill
  /\ pc' = "drain"
  /\ UNCHANGED <<mode, canceled, probed, result>>

\* the context is done first: TERM to the group
TimeOut ==
  /\ pc = "wait" /\ canceled
  /\ result' = "canceled"
  /\ pc' = "stopping"
  /\ UNCHANGED <<mode, procs, code, canceled, probed>>

\* stopProcessGroup: the leader went within 500 ms, or the timer fired; either way the group is killed
Stop ==
  /\ pc = "stopping"
  /\ Kill
  /\ pc' = "drain"
  /\ UNCHANGED <<mode, canceled, probed, result>>

\* mutant of Drain: there is no cutoff
DrainAll ==
  /\ pc = "drain" /\ Holders = {}
  /\ pc' = "done"
  /\ UNCHANGED <<mode, procs, code, canceled, probed, result>>

\* finishOutput: the end of the output, or the second cutoff
Drain ==
  /\ pc = "drain"
  /\ \/ Holders = {} /\ UNCHANGED result
     \/ result' = IF result = "ok" THEN "cutoff" ELSE result
  /\ pc' = "done"
  /\ UNCHANGED <<mode, procs, code, canceled, probed>>

-----------------------------------------------------------------------------
(* drill.runServe. Its output goes to a buffer of the program, so cmd.Wait *)
(* returns (w.Done closes) only when nobody holds the pipe any more.       *)

DoneClosed == Leader \notin Live /\ Holders = {}

\* a probe is answered by whoever listens, or is a command of its own
ProbePasses ==
  /\ pc \in {"ready", "probing"}
  /\ probed' = probed + 1
  /\ pc' = IF probed + 1 = MaxProbes THEN "kill" ELSE "probing"
  /\ result' = IF probed + 1 = MaxProbes /\ result = "none" THEN "ok" ELSE result
  /\ UNCHANGED <<mode, procs, code, canceled>>

\* after readiness a probe that fails does not stop the rest
ProbeFails ==
  /\ pc = "probing"
  /\ probed' = probed + 1
  /\ result' = "failed"
  /\ pc' = IF probed + 1 = MaxProbes THEN "kill" ELSE "probing"
  /\ UNCHANGED <<mode, procs, code, canceled>>

\* waitReady gives up: the process is gone, the deadline or the caller's context is done
GiveUp ==
  /\ pc = "ready"
  /\ \/ DoneClosed /\ result' = "exited"
     \/ result' = "not_ready"
     \/ canceled /\ result' = "canceled"
  /\ pc' = "kill"
  /\ UNCHANGED <<mode, procs, code, canceled, probed>>

\* killProcessGroup, deferred on every path: nothing to do when Done is closed, else TERM
KillGroup ==
  /\ pc = "kill"
  /\ pc' = IF DoneClosed THEN "done" ELSE "killing"
  /\ UNCHANGED <<mode, procs, code, canceled, probed, result>>

\* Done closes within the 5 s, or the group is killed
AfterTerm ==
  /\ pc = "killing"
  /\ \/ DoneClosed /\ pc' = "done" /\ UNCHANGED <<procs, code>>
     \/ Kill /\ pc' = "killed"
  /\ UNCHANGED <<mode, canceled, probed, result>>

\* the last wait has no bound
AfterKill ==
  /\ pc = "killed" /\ DoneClosed
  /\ pc' = "done"
  /\ UNCHANGED <<mode, procs, code, canceled, probed, result>>

-----------------------------------------------------------------------------
RunStep == Collect \/ Cleanup \/ TimeOut \/ Stop \/ Drain
ServeStep == ProbePasses \/ ProbeFails \/ GiveUp \/ KillGroup \/ AfterTerm \/ AfterKill
Engine == RunStep \/ ServeStep

RunnerNext ==
  \/ \E p \in Processes, h \in Helpers : Fork(p, h)
  \/ \E p \in Processes : Detach(p) \/ Exit(p)
  \/ CancelCommand
  \/ Engine

\* The timers run out (CancelCommand, GiveUp and the second disjuncts of
\* AfterTerm and Drain are theirs) and the engine's goroutine is scheduled. Nothing is
\* assumed of the command: it may run, hold the pipe and ignore TERM for ever.
Fairness == WF_runnerVars(Engine) /\ WF_runnerVars(CancelCommand)

RunnerSpec == RunnerInit /\ [][RunnerNext]_runnerVars /\ Fairness

-----------------------------------------------------------------------------
(* Properties.                                                             *)

\* A command that succeeded exited with zero, and nobody can write to its
\* output any more: not a helper it left behind, not one that left the group.
\* What a proof was drawn from is all that the command will ever say.
SuccessIsWhole ==
  mode = "run" /\ pc = "done" /\ result = "ok" => code = "zero" /\ Holders = {}

\* A command that was cancelled before its exit was collected never succeeds,
\* even when it exits with zero at that moment (command.go:108, "cannot
\* establish proof").
CanceledNeverSucceeds ==
  [][mode = "run" /\ pc = "wait" /\ canceled => result' # "ok"]_runnerVars

\* When the engine returns, no process of the command's group that was started
\* before the kill still writes to the output; and command.run leaves nothing
\* of the group at all, whatever ignored SIGTERM or redirected its output.
GroupIsGone ==
  pc = "done" => {p \in Group : procs[p].pipe \/ mode = "run"} = {}

\* Nobody writes on: what the engine reports is all there will be, and its
\* processes are gone when it returns.
NobodyWritesOn == SuccessIsWhole /\ GroupIsGone

\* The drill goes on: command.run returns whatever the command does, and a
\* serve check returns unless a process that left the group holds the pipe for
\* ever (the last wait of killProcessGroup has no bound).
Returns == <>(pc = "done") \/ (mode = "serve" /\ <>[](\E p \in Holders : ~procs[p].group))

\* What serve.go:77 and :89 say: the whole tree is killed on every path, so
\* that no server is left to corrupt the next run.
NothingLeft == pc = "done" => Group = {}
=============================================================================
