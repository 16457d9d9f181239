-------------------------------- MODULE Hook --------------------------------
(***************************************************************************)
(* The hook that a coding agent calls before it uses a tool                  *)
(* (internal/cli/agent_hook.go): a command line is typed, read by            *)
(* shellintent.Parse, translated to change intents and judged.             *)
(*                                                                         *)
(* The line is grown as a structure (Lines), so that what it runs is known  *)
(* from elsewhere than its text, from which the hook has to find it out.    *)
(* The reader (Shell), path.Clean and the reference (Script) are parameters, *)
(* and the names Hook... leave room for Gate's beside them.                 *)
(***************************************************************************)
EXTENDS Rules, Lines, Paths

CONSTANTS
  Reading(_),      \* a line -> what shellintent.Parse returns of its text
  Cleaned(_),      \* path.Clean
  Effects(_, _),   \* a line, a directory -> all that a shell in it runs
  Unreadable(_),   \* lines nested too deeply, or with too many spellings
  Undetermined(_), \* lines whose directories are a matter of what commands return
  Calls,      \* how the tool is called, and what the hook finds
  Directories,\* the directories that are there
  Process,    \* the directory of the process
  Repository, \* directory -> the root of its repository, where it is in one
  MaxPieces,  \* bound: commands and constructs of a line
  MaxOpen,    \* bound: constructs within each other
  Now         \* the clock

ASSUME HookAssumption == {MaxPieces, MaxOpen, Now} \subseteq Nat /\ Process \in Directories
\* fromRawGuard, fromRawProof and fromRawFact: ages and times are what parses as such.
ASSUME CallAssumption ==
         \A call \in Calls :
           /\ \A x \in DOMAIN call.context.guards : call.context.guards[x].maxAge \in Nat
           /\ \A q \in DOMAIN call.context.proofs :
                {call.context.proofs[q].expires, call.context.proofs[q].observed} \subseteq Nat
           /\ \A f \in DOMAIN call.context.facts : call.context.facts[f] \in Nat

VARIABLES
  line,    \* the lists that are open, the innermost last
  pieces,  \* commands and constructs so far
  parsed,  \* what Parse returned
  answer   \* the call and what the hook said

HookVars == <<line, pieces, parsed, answer>>

NotYet == [call |-> Absent, said |-> "nothing"]
Typing == parsed = Absent /\ answer = NotYet

HookInit == /\ line = <<[kind |-> "line", sep |-> "", items |-> <<>>]>>
            /\ pieces = 0 /\ parsed = Absent /\ answer = NotYet

-----------------------------------------------------------------------------
(* The line is typed                                                       *)

Seps == {"&&", "||", ";", "|", "&", "\n"}

Top == line[Len(line)]
Grow(it) == [line EXCEPT ![Len(line)].items = Append(@, it)]

\* Bound: a newline only behind a here-document, which leaves the next command on
\* a line of its own (and before fi).
Joint(sep) ==
  LET n == Len(Top.items)
  IN  IF n = 0 THEN sep = ";"
      ELSE Top.items[n].kind \in {"heredoc", "quoted heredoc"} <=> sep = "\n"

AddPiece == Typing /\ pieces < MaxPieces /\ pieces' = pieces + 1

Type ==
  /\ AddPiece
  /\ \E c \in DOMAIN Commands, sep \in Seps : Joint(sep) /\ line' = Grow(Item(c, sep))
  /\ UNCHANGED <<parsed, answer>>

Open ==
  /\ AddPiece /\ Len(line) <= MaxOpen
  /\ \E k \in Kinds, sep \in Seps :
       Joint(sep) /\ line' = Append(line, [kind |-> k, sep |-> sep, items |-> <<>>])
  /\ UNCHANGED <<parsed, answer>>

\* The words of a plain ssh session are not quoted: one command.
Close ==
  /\ Typing /\ Len(line) > 1 /\ Top.items # <<>>
  /\ Top.kind = "plain ssh" =>
       /\ Len(Top.items) = 1 /\ Top.items[1].kind = "command" /\ Top.items[1].into = <<>>
       /\ Commands[Top.items[1].cmd].plain
  /\ LET n == Len(line)
     IN  line' = [Front(line) EXCEPT ![n - 1].items =
                    Append(@, Construct(Top.kind, Top.sep, Top.items))]
  /\ UNCHANGED <<pieces, parsed, answer>>

\* > out, behind the last item.
Divert ==
  /\ AddPiece /\ Top.items # <<>>
  /\ LET n == Len(Top.items)
     IN  /\ Top.items[n].kind \in Divertible /\ Top.items[n].into = <<>>
         /\ line' = [line EXCEPT ![Len(line)].items[n].into = <<"out">>]
  /\ UNCHANGED <<parsed, answer>>

Items == line[1].items

\* shellintent.Parse
Read ==
  /\ Typing /\ Len(line) = 1 /\ Items # <<>>
  /\ parsed' = Reading(Items)
  /\ UNCHANGED <<line, pieces, answer>>

-----------------------------------------------------------------------------
(* translateAgentEvent                                                     *)

ExpandTilde(w) == IF w = <<"~">> THEN Home ELSE ExpandHome(w)

\* anchorHookPaths, then the absolute path.  cwd: the directory of the hook.
Anchored(dir, p, cwd) ==
  LET d == ExpandTilde(dir)
      q == ExpandTilde(p)
      joined == IF dir # <<>> /\ ~Absolute(q) THEN Cleaned(d \o <<"/">> \o q) ELSE q
  IN  Cleaned(IF Absolute(joined) THEN joined ELSE cwd \o <<"/">> \o joined)

\* hookRepoRoot
RepoRoot(dir, cwd) ==
  LET at == Anchored(<<>>, IF dir = <<>> THEN <<".">> ELSE dir, cwd)
  IN  IF at \in DOMAIN Repository THEN Repository[at] ELSE at

Intent(action, paths, command) ==
  [d \in Dim |-> CASE d = "paths" -> paths [] d = "actions" -> {action}
                   [] d = "commands" -> command [] d = "windows" -> {"coding-agent"} [] OTHER -> {}]

Acts(op)    == op.action # ""
Complete(p) == p.fail = ""

\* Operations that act; of the others, those that are not known to be harmless.
Acting(ops)       == SelectSeq(ops, Acts)
Unrecognized(ops) == SelectSeq(ops, LAMBDA op : ~Acts(op) /\ ~op.benign)

IntentOf(op, cwd) ==
  Intent(op.action,
         IF op.repo THEN {RepoRoot(op.dir, cwd)}
         ELSE {Anchored(op.dir, w, cwd) : w \in ToSet(op.paths) \cup ToSet(op.targets)},
         {op.command})

\* The changes that a line proposes, judged together.
IntentsOf(ops, cwd) == {IntentOf(op, cwd) : op \in ToSet(Acting(ops))}

-----------------------------------------------------------------------------
(* The event                                                               *)

\* decodeAgentEvent: what the tool call says, by vendor.  Cursor's shell event
\* carries the command itself; next to a tool call, that would be its server's.
Decoded(call) ==
  LET e    == call.event
      bad  == [ok |-> FALSE, tool |-> ""]
      tool == e.tool # "" \/ e.input \/ e.name = "beforeMCPExecution"
      sent == IF e.tool = "" \/ ~e.input THEN bad ELSE [ok |-> TRUE, tool |-> e.tool]
  IN  IF e.more THEN bad
      ELSE IF call.vendor # "cursor" THEN sent
      ELSE IF e.name \notin {"", "beforeShellExecution", "beforeMCPExecution"} THEN bad
      ELSE IF ~tool THEN (IF e.command THEN [ok |-> TRUE, tool |-> "Bash"] ELSE bad)
      ELSE IF e.name = "beforeShellExecution" THEN bad ELSE sent

Tool(call, tool) ==
  IF call.vendor # "gemini" THEN tool
  ELSE CASE tool = "run_shell_command"       -> "Bash"
         [] tool \in {"write_file", "replace"} -> "Write"
         [] OTHER                              -> tool

Edits == {"Edit", "Write", "MultiEdit", "NotebookEdit"}

-----------------------------------------------------------------------------
(* The decision                                                            *)

\* preflight.Run, for a ledger and context that can be read: no overrides.
Found(call, intents) == Evaluate(intents, call.context, Now, call.strict)

\* Mutant: without an intent file, what only warns passes.
DegradedByExit(findings) == ExitCode(Overall(findings), FALSE) = 0

\* evaluateAgentHookDegraded: every finding names a guard, or stands for one.
Degraded(findings) == ExitCode(Overall(findings), FALSE) = 0 /\ findings = {}

\* evaluateAgentHook: a lone intent travels in a file.
Passes(call, findings, alone) ==
  /\ call.gate
  /\ IF alone /\ ~call.runtime THEN Degraded(findings) ELSE ExitCode(Overall(findings), FALSE) = 0

Allows(call, intents, alone) == Passes(call, Found(call, intents), alone)

\* hookHasScopedCommandCoverage, or the context cannot be loaded.
Scoped(call) == ~call.gate \/ call.context.coverage # {}

Cwd(call) == IF call.cwd = <<>> THEN Process ELSE call.cwd
InPlace(call) == call.cwd # <<>> => Absolute(call.cwd) /\ call.cwd \in Directories

\* agentHook, for a command line that was read as p.
OnShell(call, p) ==
  LET acting == Acting(p.ops)
  IN  IF ~Complete(p) THEN ~call.strict /\ ~Scoped(call)
      ELSE IF acting = <<>> THEN ~call.strict
      ELSE /\ Allows(call, IntentsOf(p.ops, Cwd(call)), Len(acting) = 1)
           /\ ~call.strict \/ Unrecognized(p.ops) = <<>>

OnEdit(call, path) ==
  path # <<>> /\ Allows(call, {Intent("modify_file", {Anchored(<<>>, path, Cwd(call))}, {})}, TRUE)

Say(call, allowed) == answer' = [call |-> call, said |-> IF allowed THEN "allow" ELSE "deny"]

\* agentHook.  Only a shell call needs a line.
Ask(call) ==
  LET d == Decoded(call)
      t == Tool(call, d.tool)
  IN  /\ answer = NotYet
      /\ IF ~d.ok \/ ~InPlace(call) THEN pieces = 0 /\ Say(call, FALSE)
         ELSE IF t = "Bash" THEN parsed # Absent /\ Say(call, OnShell(call, parsed))
         ELSE IF t \in Edits THEN pieces = 0 /\ Say(call, OnEdit(call, call.file))
         ELSE pieces = 0 /\ Say(call, ~call.strict)
      /\ UNCHANGED <<line, pieces, parsed>>

HookNext == \/ Type \/ Open \/ Close \/ Divert \/ Read
            \/ \E call \in Calls : Ask(call)

HookSpec == HookInit /\ [][HookNext]_HookVars

-----------------------------------------------------------------------------
(* Properties                                                              *)

\* Of an operation that does nothing here the text is not used.
Shown(op) == IF op.action = "" /\ op.remote = <<>> THEN [op EXCEPT !.command = <<>>] ELSE op

\* Where a word points for a shell in dir.
Full(dir, w) == IF w[1] = "~" THEN Home \o Tail(w) ELSE Below(dir, w)

\* The change that an operation makes, if a shell runs it.
ChangeOf(run) ==
  Intent(run.action,
         IF run.repo THEN {IF run.dir \in DOMAIN Repository THEN Repository[run.dir] ELSE run.dir}
         ELSE {Full(run.dir, w) : w \in ToSet(run.paths) \cup ToSet(run.targets)},
         {run.command})

Changes(runs)      == {ChangeOf(run) : run \in {r \in runs : Acts(r)}}
AllKnown(runs)     == \A run \in runs : Acts(run) \/ run.benign

\* From a directory that is there, the changes are the ones that a shell would make.
TranslatesWhatRuns(cwd) ==
  LET runs == Effects(Items, cwd)
  IN  /\ IntentsOf(parsed.ops, cwd) = Changes(runs)
      /\ Unrecognized(parsed.ops) = <<>> <=> AllKnown(runs)

\* An edit is of the file that the tool writes.
NamesWhatIsEdited(call) ==
  InPlace(call) /\ call.file # <<>> => Anchored(<<>>, call.file, Cwd(call)) = Full(Cwd(call), call.file)

\* What was read, where it can be known, is what runs.
Understood ==
  parsed # Absent /\ ~Undetermined(Items) =>
    IF ~Complete(parsed) THEN Unreadable(Items)
    ELSE /\ {Shown(parsed.ops[i]) : i \in DOMAIN parsed.ops} = Effects(Items, <<>>)
         /\ \A cwd \in Directories : TranslatesWhatRuns(cwd)

\* Through separators, quotes, here-documents, substitutions, subshells and
\* sessions on other hosts, however they are nested, the hook reads exactly the
\* operations that a shell would run, in the directory where it would run them,
\* or it says that it cannot ("a failed parse never yields a partial guess"); a
\* path on another host is never taken for one here; and from whatever directory
\* it is called, the changes that it will judge are the ones that would be made.
ReadsWhatRuns == answer = NotYet => Understood /\ \A call \in Calls : NamesWhatIsEdited(call)

Blocked(call, ci) == Overall(Evaluate({ci}, call.context, Now, call.strict)) = "block"

\* An intent file is only for a line with one operation that acts.
AllMayRun(call, runs) ==
  \A run \in runs :
    IF Acts(run)
    THEN /\ call.gate /\ ~Blocked(call, ChangeOf(run))
         /\ ~call.runtime /\ Len(Acting(parsed.ops)) = 1 =>
              GuardFindings(ChangeOf(run), {ChangeOf(run)}, call.context, Now) = {}
    ELSE call.strict => run.benign

\* Nothing that a line runs slips by: where the hook says allow, each change of
\* the line, judged by itself, is one that the policy lets pass, and in strict
\* mode every other command is known to be harmless; what could not be read is let
\* through only where no policy speaks of commands; without a gate nothing that
\* acts is, and without an intent file no single change that a guard names.
AllowedIsJudged ==
  answer.said = "allow" =>
    LET call == answer.call
        t    == Tool(call, Decoded(call).tool)
    IN  /\ Decoded(call).ok /\ InPlace(call)
        /\ t = "Bash" /\ ~Complete(parsed) => ~call.strict /\ call.gate /\ call.context.coverage = {}
        /\ t = "Bash" /\ Complete(parsed) /\ ~Undetermined(Items) => AllMayRun(call, Effects(Items, Cwd(call)))
        /\ t \in Edits => call.gate /\ ~Blocked(call, Intent("modify_file", {Full(Cwd(call), call.file)}, {}))
=============================================================================
