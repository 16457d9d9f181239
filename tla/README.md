# Restore Gap: specifications, model checks and proofs

This directory specifies `restoregap` and its cloud server in TLA+. It holds one module per
component, configurations with which TLC checks small instances, and proofs that TLAPS
checks for every instance. `PROJECT.json` lists the runs, the mutants that show each
property can fail, the source lines behind each definition, the hazards and the theorems.

- `tlc -workers 2 -config Gate.cfg MCGate` checks a run (see `PROJECT.json` for the pairs).
- `tlapm LedgerProofs.tla` checks the proofs about the ledger; ProofStoreProofs, PolicyProofs, GateProofs,
  MonitorProofs, DrillProofs (with Runner), AccountsProofs and BillingProofs are about their modules.

## 1. The system

Restore Gap lets a risky change through only if a recovery of what it may destroy was
demonstrated. Owners declare *guards*, *drills*, *proofs* and *facts* in context files
(`restoregap.yml`). `drill` runs the declared recovery and records a proof. `preflight`,
called by people, hooks and agents, judges a change intent against guards and proofs
and records the decision in a hash-chained *ledger*. `status` and `next` tell the owner what
is missing. `bundle` ships the state of a machine to a fleet view or to the cloud
server, which watches that machines keep reporting.

| Component | State it keeps | Operations | Talks to | Modules |
|---|---|---|---|---|
| Ledger (`internal/ledger`) | a JSONL file, a lock file beside it | `Append`, `Anchor`, `ReadAll`, `VerifyEntries`, `ActiveOverrides` | every command, from any process | Ledger, AuditLog |
| Proof store and writers (`internal/proofstore`, `cli/accept.go`, `internal/classify`, `cli/drill_calibrate.go`) | the context file, its lock, backups | `Upsert` (locked, renamed into place); `accept`, `classify --apply`, `drill --calibrate --apply` (read, rewrite in place) | the file, then the ledger | ProofStore |
| Rules, verdicts, proof checks (`internal/rules`, `internal/engine`, `internal/contextspec`) | none | `EvaluateWithOptions`, `CheckProofWithBinding`, `Decide`, `ApplyOverrides`, `Overall`, `Lint` | called by the gate | Rules, Lint |
| Policy layers (`internal/policy`) | none that lasts | `Merge`: load the layers, fold their guards, tighten only | reads context files, called by the gate | Layers, Policy |
| Gate (`internal/preflight`) | none that lasts | `Run`: load, verify the ledger, judge, record, exit code | reads files and ledger, appends | Gate |
| Agent hook and shell intent (`cli/agent_hook.go`, `internal/shellintent`, `internal/globmatch`) | none | decode an agent's event, parse its command line, ask the gate, answer | the gate; called by agents before every tool call | Lex, Shapes, Hosts, Shell, Globs, Script, Hook |
| Drill runner (`internal/drill`, `cli/drill.go`) | a sandbox directory | recover, checks, budgets, record; pins, drafts, lint, calibration | commands; results go to the proof store and the ledger | Checks, Drill |
| Command engines (`internal/command`, `drill/serve.go`) | child processes | run to the end, or serve and probe; kill the group | the operating system | Runner |
| Status and next (`internal/status`) | none | standing, level, headline, verdict, tree, next steps | reads files | Status, Estate |
| Bundles and fleet (`internal/bundle`, `status/fleet.go`) | archives | export, sign, verify, load, summarise, merge | ledger, context files | Bundle, Estate |
| Cloud: ingest and monitor (`internal/cloud`) | SQLite rows, archives | push, lapses, alerts, delivery, retention | HTTP, SMTP, webhooks | Ingest, Monitor |
| Cloud: accounts | links, sessions, tokens, workspaces; the limiter in memory | sign-in, forms, tokens, share links | mail, browsers | Accounts |
| Cloud: billing | the workspace's row; handled events in memory | checkout, webhook, set-plan | Stripe | Billing |
| Evidence, MCP server | none | ingest evidence; acknowledge risk | proof store, ledger | ProofStore, Gate |
| Discovery, protection, migration, reports | templates, rendered text | scan, propose, convert, render | context files | none |

What is hard about it:

- *Interleaving.* Any number of processes on a machine append to one ledger and rewrite
  one context file; the gate and the export read files and ledger one after another while
  they change; the cloud's monitor, its ingestion and its pages share rows; browsers race.
- *Failure.* Processes die between two steps, power is lost, writes are cut short,
  syncs and renames fail, alerts and events are lost, late or repeated, commands leave helpers behind.
- *Ordering and staleness.* A drill runs a recipe that is edited meanwhile; overrides,
  proofs and facts expire; evidence outlives a reinstall; layers are folded in order; bundles and
  Stripe's events arrive in any order.
- *Many readings of one thing.* Five reports derive the standing of a proof, lint and gate read the
  same guards, and the hook must read a command line as the shell will.

What makes each component correct is the list of hazards in `PROJECT.json`; each
hazard names the properties that would catch it, or says why none does.

## 2. The modules

```
AuditLog  <-- implemented by --  Ledger        LedgerProofs (theorems)
ProofStore                                     ProofStoreProofs (theorems)
Rules  <-- Layers, Lint <-- Policy             PolicyProofs (theorems)
Rules  <-- Gate                                GateProofs (theorems)
Rules  <-- Status <-- Bundle (with Layers) <-- Estate         PolicyProofs too
Rules, Lines, Paths <-- Hook                   GateProofs too
Lex <-- Shapes, Hosts <-- Shell <-- Globs; Script    what MCHook gives Hook's parameters
Checks <-- Drill                               DrillProofs (theorems)
Runner                                         the same module
Accounts                                       AccountsProofs (theorems)
Billing                                        BillingProofs (theorems)
Ingest <-- Monitor                             MonitorProofs (theorems)
MCLedger, MCProofStore, MCPolicy, MCGate, MCHook, MCDrill, MCRunner, MCEstate,
MCMonitor, MCAccounts, MCBilling                instances for TLC
```

**Ledger** takes `Append` apart: look for the file, lock, open and read the tail, write,
fsync, sync the directory of a new file, unlock. `pc[p]` is where a process is inside it,
`file` the lines, `synced` how many of them an fsync has covered, `named` whether the
file's directory entry is on disk. `Anchor` decides on a snapshot read without the lock,
then appends. A line is whole, without its newline, torn, or run together with the
next one. A hash is the content it was computed from, so that it is equal only for equal
content; since an id is written once and its `prev` never changes, id and payload stand
for the content. **AuditLog** is what callers rely on: entries are added one at a time,
at the end, and one whose caller was told of success stays. `Ledger!Implements` maps
`file` to the ids of its readable lines, which are a prefix of it as long as no write ends just before its newline.

**ProofStore** is one context file and the two ways of rewriting it. `Upsert` locks,
reads, merges, writes a temporary file, renames it and syncs the directory; the others read,
back up, truncate and write. A document says for each proof its status, binding, epoch
stamp and acceptance; `seen`, `ran` and `made` are history, for the properties, and so is `met`: the rewrites that another
overlapped, one of the two unlocked. Rewrites overlap as they like. `tornBy` is what left the file without a document.
A file that is not a whole document is the one value `Torn`: the encoder writes the keys of the
document in order and `version` comes last, so that no strict prefix parses.
`Put` may leave `Torn` when the file was whole, because a write over a longer one that
another process has just written may leave that one's end. `open` is which processes
still have the file at the path open: after a rename, a late write goes to the file that
was replaced.

**Rules** is the decision core, all operators: matching per dimension, dependency
conflicts, the checks of a proof and a fact, `Decide`, heuristics, strict coverage, overrides,
the overall verdict and the exit code. A guard's matcher and an intent are records of sets
per dimension; glob matching is the constant relation `Glob`, and `Beneath` is its
counterpart for the deletion of a directory. A finding is its id and verdict. **Lint** is what `context lint`
says of a file, without evidence and without a change. **Layers** adds
`tightens` and the fold of one guard, and **Policy** is one run of `Merge` on any
sequence of layers: `layers` read so far, the layer `at` hand, guards still `todo`, and
`acc`, the merge state.

**Gate** is `preflight.Run`: `pc` walks from `policy` over `evidence` and `ledger` to
`judge` and `record`, or to `broken` for exit code 3. The context is split over two
files, so that one may change after the other was read. Around it, a drill begins with the recipe it read
and ends with a record; a pin check fails; evidence is ingested; the owner accepts, edits a
recipe or the guards, acknowledges a finding, anchors an altered entry; the clock advances; the
machine is installed again. A rewrite of a file and an append are single steps here,
since ProofStore and Ledger show what they consist of; that an unlocked rewrite may lose
another's update is left to ProofStore.

**Hook** is the path from an agent's event to the answer. A text is a sequence of symbols: a letter, an
operator such as `&&`, a newline. **Lex** is the lexer with its quotes, substitutions, heredocs and
redirections; **Shapes** says what a command does by its options and operands; **Hosts** spells an ssh
host in all the ways that mean the same address (a byte has 4 values instead of 256); **Shell** is the parser: wrappers (sudo, env, bash -c, ssh, docker),
`cd`, subshells, branches, remote operations. **Globs** is glob matching, with which the instance fills in
`Glob` and `Beneath`. **Script** is independent of all of them: a line is a *structure* of commands and
constructs (**Lines**), `Written` is its text and `Runs` is what a shell does with it, in which directories and
on which host. In **Hook** an agent types such a line piece by piece (`Type`, `Open`, `Close`, `Divert`), the hook reads it
(`Read`), and it is asked in any of the ways in which agents and machines differ (`Ask`): the
event formats of three agents, strict mode, no runtime directory, a broken gate, scoped coverage, a directory
that is missing or relative, events that cannot be decoded.

Hook does not extend the parser. The reader, `path.Clean` and what a shell runs are its parameters
(`Reading`, `Cleaned`, `Effects`, `Unreadable`, `Undetermined`), and `MCHook` gives them as `Parse` of `Written`, `Clean`,
`Runs`, the limits of depth and of spellings, and `Astray`; so the decision can be proved about for any
reader, while the reader, which is recursive, is checked by TLC. **Paths** has the home
directory and what is below a directory, for both sides.

**Runner** has the two engines that run a declared command, and the processes around them: a helper may
be forked, leave the group, redirect its output, ignore SIGTERM. `procs` is who lives and who holds the pipe; `pc` is
where the engine is. Time is abstract: a running timer may fire at any moment.

**Checks** has what a drill measures and what `propose`, `lint` and `calibrate` compute. An artifact is what
the checks can tell apart: its kind, count, newest stamp, entries, key files, soundness. **Drill** is the command, run by run: prepare,
recover, check by check, weigh the budgets, parse the signing key, write the record, append the telemetry, with pin
checks beside it, cancellation at any moment, and a live artifact and a backup that change meanwhile. How a
command ends is a choice here; Runner shows how it comes about.

**Status** is every derivation behind `status` and `next`, as operators over a context, an epoch and a day:
layer, scope, state and recovery level of a proof, headline, verdict, rows, tree, next steps. **Bundle** has
the archive, its manifest and signature, the slice of the ledger, verification, loading, the signed
summary, and the merge of several hosts. **Estate** puts both into time: days pass, owners edit,
ledgers grow, a machine is installed again, an export reads one thing after another, an archive is damaged or cut short.
What is folded in the code is said here without recursion: a sorted list by the rank of each element (`InOrder`, for orders
that tell any two rows apart), and a fleet by what one bundle, whose rows have different keys, does to it.

**Ingest** is the cloud's ingest handler for one workspace. The server's database has one
connection (`store.go:87`), so one call of the store is one step, and `req[r].pc` says
which call handler `r` makes next: `wait` for `ingestMu`, `limit` or `replay`, `upsert`, `latest`,
`previous` and `proofs` (what to compare with), `write` and `insert` (the two halves of
`SaveBundle`), `recovered` and `regressed` (the alerts). What a handler read earlier it keeps in its
record: whether the host was known and lapsed, whether the bundle is the newest, which
proofs were healthy. `hosts`, `rows`, `files` and `queue` are the tables of
hosts, bundles and undelivered alerts and the archive directory. A bundle is a member of
`Archives`: host, key, generation time, and the proofs it shows healthy and not; the same
archive again is the same member. The settings page changes a key or a cadence at any moment.
Times are kept as ages (`silence` since `LastSeenAt`, the age of a request and of an
alert), so that no clock has to be bounded.

**Monitor** adds `Tick` of `monitor.go`, a pass after the other: the hosts are listed, and those that are
quiet in that list are marked and reported one by one; the queued alerts are listed, and
each is sent and then marked as delivered, or given up if it is too old; bundles are
pruned in one transaction, and their files are removed after it. `mon` is the pass with its
lists, `doomed` the files still to be removed, `horizon` the generation at which the retention
window begins. `Crash` ends handlers and pass between any two steps and leaves the tables. An
endpoint answers or not, as it likes. Every fallible call fails at the cost of one of `MaxFaults`.

**Accounts** is sign-in links and their limiter, sessions, the form token of every page, push tokens and share
links. Three things take several calls, one step each, with other requests, failures and restarts in between. Asking for
a link (`Ask`, `AllowLogin`, `LookUp`, `SendLogin`) reads the clock, counts the request under the limiter's lock, looks the
address up, and makes the link by a clock reading of its own. Pressing a link's button is four calls (`Consume` and what
follows), and so the operator's command is three (`EnsureUser`, `AdminWorkspace`, `AdminLink`). The handlers behind
a session are one step each: what they do after looking the session up depends only on its workspace, and no row changes
workspace. A secret is the position of its row; a remembered request for a link is its moment and a number that tells it from
the others of its address. `hit` of a link is history: what the limiter counted its request as. So is `acted`: where an
accepted form was shown, and where it acted.

**Billing** is one workspace and Stripe. Stripe is an environment that keeps subscriptions, says so in events and sends
each until it is answered, in any order and sometimes again. The handler's three calls (row, Stripe, row)
are steps; `seen` is its memory of handled events, lost in a restart and bounded by `EventMemory`.

## 3. What the runs show

Every run holds.

| Run | Question |
|---|---|
| `ledger_core` | With power lost at any step: is what was acknowledged kept and every tail that was read durable (`Durable`), does anchoring give what verification needs (`AnchorsSuffice`), does every call return (`AppendReturns`), is it an audit trail (`Implements`)? |
| `ledger_faults` | With every fault at once: is the chain linked (`ChainLinked`), is nothing appended behind a line that cannot be read (`CorruptionIsFinal`)? |
| `proofstore` | With rewrites that overlap as they like: is no update lost but one that an unlocked rewrite overlapped (`NoLostUpdate`), has every other ledger entry its result (`TelemetryBacked`), is no proof bound to a recipe that did not run (`BoundToWhatRan`), is there a complete backup for a file torn by a rewrite that nothing overlapped (`BackupCoversTorn`)? |
| `policy` | Whatever the layers: met or reported (`NothingSilent`); the first declaration is a floor, in the guards and in every verdict (`FloorStands`); what `context lint` says beforehand is what the gate does (`LintForetells`). |
| `gate` | Does a pass rest on a recovery that was run (`PassIsBacked`), is the verdict told the verdict recorded (`DecisionOnRecord`), do exceptions end (`OverrideEnds`), do neither company nor waiting help (`NothingGained`), is coverage explicit (`CoverageIsExplicit`)? |
| `hook` | Is what the hook reads off a line what a shell would run, where it would run it (`ReadsWhatRuns`)? Was everything that the hook allows judged, in whatever way it was asked (`AllowedIsJudged`)? |
| `runner` | When an engine returns, does nobody write on, and does success mean the whole output (`NobodyWritesOn`)? Does it return (`Returns`)? |
| `drill` | Is a verified record earned (`VerifiedIsEarned`), is a failure told in the right word and in place of the old success (`FailureIsTold`), do drafts and calibrated budgets fit what they were measured from (`WrittenFits`), does a pin check prove nothing (`PinProvesNothing`)? |
| `estate` | Do verdict, headline, tree, rows and summary agree (`StatusAgrees`), does `next` name every gap (`NextCoversGaps`), does evidence only wear out (`LaterIsNoBetter`), does a bundle that verifies say what its host said, does damage show, does the newest win (`BundleIsFaithful`)? |
| `monitor` | With a crash or a failing call anywhere: has every row its archive, is a push stored once, does the limit hold (`StoreIsSound`); does retention keep the newest (`NewestIsKept`); are alerts true, in order and not repeated (`AlertsAreTrue`); is a silence reported (`SilenceIsReported`); does the queue empty (`QueueDrains`)? |
| `accounts` | Does a link sign in once (`SignsInOnce`), does the limiter limit what is asked for and sent in one window (`LimitHolds`), does a form act only where it was shown (`ActsWhereShown`)? |
| `billing` | Once an event is answered, does the row agree with Stripe (`SettledAgrees`)? Once a subscription was applied, does no checkout opened later carry a trial (`NoSecondTrial`)? |

Conditions that a reader should know:

- Three properties of `proofstore` leave out the rewrites in `met`; what then happens to those is under the divergences
  below. `ledger_core` runs without `kill`, so of the ways in which a call may end early `AppendReturns` meets the
  refusal of a corrupt tail and the loss of power; `ChainLinked` and `CorruptionIsFinal` are checked with all of them.
- `FloorStands` carries a condition, `SameElsewhere`: apart from what `tightens` compares, the two guards
  are alike. `PassIsBacked` is about guards that block and ask for a bound proof; others accept attestations by
  design. `CoverageIsExplicit` leaves out changes that an override excuses. `OverrideEnds` allows an entry that
  was altered and then vouched for by the owner, as verification does.
- `LintForetells` leaves out duplicates that differ in `require_bound` (see below).
- `VerifiedIsEarned` lets an RPO budget go unmeasured where a git or file_tree check found nothing to
  measure. `FailureIsTold` compares the times at which results were recorded, and leaves out the command that is refused for its
  signing key: it records nothing.
- `WrittenFits` leaves out drafts of artifacts with nothing in them to recover (`Hollow`). Of a calibrated budget it asks that all but
  one in twenty of the runs that taught it keep the margin: that is what a 95th percentile promises for any number of runs.
- `Returns` excepts a serve check whose output is held for ever by a process that left the group.
- `ReadsWhatRuns` leaves out three kinds of lines (`Astray`): a `cd` followed by `||` in its list, a list of
  several commands with a `cd` in the background, and a piped, redirected or backgrounded `if` with a `cd`. It is
  evaluated before the answer: nothing that it speaks of changes afterwards.
- `AllowedIsJudged` says of a missing intent file only what it means for a line with one operation that acts. The hook
  counts operations, not changes: `make > out; make > out` proposes one change twice, and is judged without a file, where a
  guard that warns does not deny.
- Part of `AlertsAreTrue` speaks of behaviours without a failed call, because `ingest.go:241` takes an error of the
  query for "this is the newest". `SilenceIsReported` holds once no failure is left to come: a host is marked
  before its alert is stored, so a crash between the two calls loses the alert.
  Its run has every host watched (`Cadences = {TRUE}`), so that a cadence taken away does not happen in it.
- `LimitHolds` counts the links that were asked for and sent within a stretch of one window; see `LimitOnSent` below.
- `SettledAgrees` excepts an event that was applied after a newer one. `NoSecondTrial` speaks of checkouts opened after a
  subscription was applied: of two that are opened before it, both carry a trial.

### Known divergences

Met while modelling, each between what the code does and what a document or comment says. Where a
name is given, the module defines the property as the document has it; it is in no run, because it fails.

- *Lint.* `guardSubstanceKey` (`lint.go:206`) leaves out `RequireBound`, so two guards that differ in it are
  reported as duplicates, one of which can be deleted; "deleting one loses nothing" (`lint.go:203`) does not
  hold then (`LintForetellsBinding` in Policy).
- *Ledger.* A process that dies before it has synced the directory of a new ledger leaves one that the next
  takes for an old one; its acknowledged entry is not safe (`AckedSurvives` with `kill`, `ledger.go:100`).
  A write that ends exactly before its newline leaves a line that parses, so that the next `Append` does not refuse it: its
  entry is glued onto that line, neither can be read, and its caller is told of success (`Implements` with
  `writefail` and `unended`, `ledger.go:156` and `:213`).
- *Context file.* The lock "protects cooperating writers from partial writes and lost updates" (`docs/ARCHITECTURE.md`),
  but `accept`, `classify` and `calibrate` do not take it, and what they overlap may be lost (`NothingLost`,
  `accept.go:263`, `docs/SCHEMA.md:84`); acceptance stamps old evidence with the new epoch (`EpochHonest`,
  `accept.go:209`); `--apply` of calibration loses the comments of the file.
- *Gate.* Evidence from before a reinstall is accepted (`EpochRespected`, `proofcheck.go:108`); an override of
  one finding excuses a change of other paths with the same first resource (`OverrideOfOneFinding`,
  `decide.go:213`). *Layers.* A guard can be loosened in dimensions that `tightens` does not compare
  (`NeverLoosened`, `layers.go:148`).
- *Drill.* A budget that was declared may go unmeasured (`BudgetsAreMeasured`, `drill.go:17`); a check that failed
  before a cancellation is recorded as unreachable; a draft of a hollow artifact fails on a perfect copy;
  telemetry says that the RTO was met for a drill that never ran; the floor of 30 s in calibration can trigger
  its own warning of more than ten times. *Serve.* A process that left the group survives the kill
  (`NothingLeft`, `serve.go:77` and `:89`), and the last wait has no bound while it holds the pipe; a command probe can
  pass after the served process has exited; the free port may be taken before the command binds it.
- *Status.* `next` passes over evidence of an earlier epoch whose level is restores or more (`next.go:66`), and
  disputed or expired proofs that are accepted; a lapsed acceptance over fresh evidence is lapsed in the tree and
  observed in the headline; contradicted is no state of `classifyProofState`; a drill that never ran is unreviewed and
  in `next`, but headline and verdict do not count it; the default scope of a file wins over a guard's with several
  files and loses with one.
- *Bundle.* The literal of `GenesisHash` has 61 zeros (`ledger.go:17`), so that `bundle export --summary-only` over an
  empty ledger fails its own check (`summary.go:507`); a policy of several layers is exported in a form that verifies and cannot
  be merged; a file edited between two reads makes the host's own bundle fail; the summary may say "pass" for evidence of an earlier epoch; with
  clocks that run backwards a `--since` slice need not be contiguous, and then it fails.
- *Hook.* `cd a && x & y` keeps `a` for `y`, although a shell runs the list in a subshell; `cd nowhere || x` evaluates
  `x` in `nowhere`; an `if` with a `cd` that is piped or redirected keeps the moved directory; `builtin cd`, `command cd` and piped `{ }`
  groups are not followed; `$((a); b)` is taken for arithmetic. A relative path after these is judged in another directory.
- *Cloud.* A request that the limiter counted and that is held up sends its link with those of the next window, so that
  more than `loginLimit` may be sent within one (`LimitOnSent`, `auth.go:247`). A host whose late bundle, or whose bundle read just before the mark, clears a lapse gets no "recovered"
  (`docs/CLOUD.md:91`); a late bundle clears the lapse; an account may end up with a second workspace (`OneWorkspaceEach`,
  `auth.go:297`); an event of a replaced subscription can cancel the new one's row (`LateEventSparesTheNewOne`,
  `billing.go:124`); `set-plan` writes back a row it read before; two open checkouts are both billed; a push token can read
  the fleet (`docs/CLOUD.md`, "it cannot read").

### Bounds

- *Ledger*: two processes, two payloads, four calls, one changed entry. Two
  processes give every race for one lock; four calls give an original, an anchor, and
  entries before and after both. Ids are the numbers of the calls, so that they never repeat.
- *ProofStore*: two processes, three commands on one proof with all failures, which gives
  a writer before, during and after another, locked or not, and every way in which two overlap. A reinstall once.
- *Policy*: three layers, two ids, guards in every combination of enforcement, three
  ages, two path sets, with and without binding; four moments and seven states of the evidence. What lint reads is the
  guards of at most two of these files, which has every pair of guards.
- *Gate*: one proof with two recipes, one fact, two policies, five invocations (strict,
  plan, no ledger, `--as-of`, several intents), four steps of the environment or starts of the
  gate, three ticks, lifetimes and ages of one and two ticks so that every boundary lies
  inside. Four steps give, say, a run, an override, a tick and a second run, or a drill that
  begins, an edit of its recipe, and a run; the steps of a run itself and the end of a drill are free. The results and the ledger
  are bounded by the steps.

- *Monitor*: two requests, so a push beside itself, beside a newer or a late one, and beside the first push
  of another host; two hosts with room for one, which makes the limit bite; two
  generations of one host with a proof that regresses; two keys; three ids of archives on disk.
  A host with a cadence is silent after one tick and an alert is given up after one.
  One failure of any call, or one crash, in a behaviour. `MaxQueue = 0` admits a push only while no alert
  is queued, which bounds the queue at what two pushes and one pass can raise. `MaxWait = 0` and
  `MaxPass = 0`: the clock moves between requests and passes and not inside them. The
  first is the coarsest bound: that a request is older than the last sighting of its host, where
  `last_seen_at` takes the later of two times, does not happen in the run. The proofs have none of these bounds.
- *Hook*: lines of three pieces out of nine commands, eleven constructs and six separators, nested twice, a newline only behind
  a here-document and before `fi`, where it differs from a semicolon; a directory and a host that guards
  protect; the limits of nesting and of spellings at 1 and 2, so that they are met. Three pieces give a `cd`, a separator or a
  construct and a command that depends on it, in every order. Tables of options keep the entries that
  tell tools apart.
- *Runner*: two helpers, one that holds the pipe and one that left the group; two probes.
- *Drill*: two commands of one proof, each with at most two checks; artifacts of every kind, whole, empty and rotten; three
  ticks, two changes; samples around the boundaries of rounding.
- *Estate*: two kinds of instance: one proof in every combination of condition (binding, level, epoch, acceptance,
  expiry) over the days at which something changes; and two hosts with two files, one reinstall and one append that
  export while they are edited; an archive that verifies is damaged once, after the last export. Counts, filters and orders need no more than two rows.
- *Accounts*: four instances: two browsers race over the links of one address, with a restart; two people use one browser
  one after the other and leave pages open; three addresses ask for links while the limiter, with room for two, forgets; two
  requests for one address overlap and are held up between their calls, with a restart. Limits and lifetimes of one to three,
  so that every boundary lies inside. *Billing*: two checkouts, two subscriptions, a memory of two
  events, one restart.

Symmetry is used where processes and proofs are interchangeable, never with a temporal
property.

### Fairness

The temporal properties need it: `AppendReturns`, `SilenceIsReported`, `QueueDrains` and `Returns`.

`Ledger!FairSpec` has weak fairness of `Advance(p)` for
each process: a process inside `Append` is scheduled, system calls return, and a free
lock goes to somebody who waits for it. The code has no loop and no retry between lock and unlock,
and the kernel releases the lock of a dead process. Nothing makes a process call
`Append`, nothing makes power fail, and weak fairness says nothing on the order in
which waiting processes get the lock: with finitely many calls each gets it.

`Monitor!Fairness` has weak fairness of `Pass`, since `RunMonitor` loops until the server ends and a
send has a timeout of 30 s; weak fairness of the handlers taken together, which call the
store one after another and wait only for `ingestMu`; and strong fairness of `Tick`. It
is strong because a pass may start whenever none runs, while the code waits for a ticker between two:
time does go by there, again and again. Nobody has to push, no endpoint has to
answer, no call has to fail. `QueueDrains` assumes in addition that the pushes stop.

`Runner!Fairness` has weak fairness of the engine, whose timers fire and whose system calls return, and of
`Cancel`: every drill runs under a timeout. Nothing makes a process exit, listen or let go of the pipe.

All other properties are safety properties.

Deadlock is not checked: commands end, their number is bounded, and then the system rests.

## 4. What is proved

`LedgerProofs`: `TypeCorrect` and `ChainIsLinked`, for any set of processes and
payloads, any bounds and any set of faults. The chain alone is not inductive: a writer
must also have read the tail that is still the tail when it writes. The invariant `IInv` is
the type invariant; that a process between lock and unlock holds the lock, which gives
mutual exclusion; that between reading and writing, `tail[p]` is the hash of the last line; and the chain. Lemmas show that a chained file stays chained when a line is appended
to it, when it is cut to a prefix, possibly through a line, and when the content of a line changes under
its stored hash; the proof of the step has one case per action. `DurableUnlessKilled` is `Durable` for
`Faults \subseteq {"powercut"}`, any number of processes, calls and edits. `DInv` adds where the disk stands: a
file that is not there is empty and whoever is inside looked for it in time; a file without its directory entry has
somebody inside who will sync it, and nothing acknowledged; only the line of the process about to fsync
is not yet covered. `CutKept` says what any loss of power leaves, and `StillKept` that what could be read there still can. `CorruptionStays` is
`CorruptionIsFinal`: whoever is about to write has read a file in which every line parsed (`HasRead`), and nobody else
lets a line go bad before it writes. `LockIsNotLeaked` is the safety core of the liveness property `AppendReturns`: under any faults
whoever holds the flock is inside the critical section, so no error path and no death keeps it.

`AnchorsAreEnough` is `AnchorsSuffice`, for any faults. `Anchor` picks its entry and the hash to vouch for from a
file that it read without the lock, so `AInv` says what stays true until its line lands: an id is used once, and
that of a call under way is nowhere yet (`Numbered`, `Unused`); an anchor, written or about to be, has the stored hash
of its entry (`Vouching`), which no edit changes; and it comes behind that entry, whatever is cut off (`FileOk`).
`LastOne`, by well-founded induction, gives the anchor that governs.

The refinement has two theorems, because what it needs of the disk it needs only where power may be lost. Both rest on `TInv`: the
invariants that hold under any faults; `TornLast`, only the last line may be unreadable, since nobody writes behind one; and `InPlace`,
the line of whoever is about to fsync or return is the last one and can be read. It is inductive wherever no write ends just before its
newline. So the trail is the ids of the first `k` lines (`Reading`), and each step maps: a write adds an id that is
nowhere yet (`Unused`); a return acknowledges the id of the last line; a write that fails adds nothing readable
(`FailedWriteKeepsTrail`); every other step, an edit, a death and a failed fsync included, stutters. `ImplementsWhilePowered` follows,
for `kill`, `writefail`, `fsyncfail` and `syncdirfail` in any combination. `ImplementsAuditLog`, for
`Faults \subseteq {"powercut"}`, adds `DInv`: a loss of power keeps a prefix (`SurvivorIsPart`) that holds all that was
acknowledged (`Kept`). Outside the two sets of faults the refinement is false: a creator that dies before it has synced the
directory, or whose sync fails, leaves a file that a loss of power takes away whole, and an unended line takes the entry
glued onto it.

`ProofStoreProofs`: `BoundByRunning` is `BoundToWhatRan`, for any writers, overlapping or not, and any failures: every document,
in the file, on disk or in the hands of a process, is `Honest`. The other three, `NoUpdateLost`, `TelemetryIsBacked` and
`TornHasBackup`, take nothing from the writers either: they say what an unlocked rewrite can take away, namely what it overlaps,
and no more. They ask only that `Torn` is not a document (`TornIsNone`), as any model value is.
Their invariant `SInv` says that the lock serialises the `Upsert`s and that whoever is at the file together with an unlocked
writer has met it (`Apart`); that what a process has read or merged has every rewrite that nothing overlapped (`Holds`), and, as
long as the process has met nobody, is what the file still says (`Undisturbed`); that whatever a loss of power may
leave contains all that the ledger tells of (`ToldIsKept`); and that nobody takes the backup from a file torn by a rewrite
that met nobody (`TornRests`). `TypeCorrect` is the type invariant, with the same hypothesis. That a recipe
stays within its bound needs more than types: a document's recipes have been edited at most once for each command that is in
it (`Sized`), and a command is never in a document that it is still to be applied to (`Coming`, `Own`), so nothing is counted twice.

`PolicyProofs`: `EverythingReported`, `FloorIsKept` and `FloorIsEnforced`, for any
guards, layers, evidence, changes and moments. `tightens` is reflexive and transitive
(`TightensReflexive`, `TightensTransitive`), so the invariant can say, for each
declaration folded so far, that the guard in place is above it or that it was reported, and
that the first is never reported. `TighteningIsStricter` takes two guards, the second
above the first and alike elsewhere: the second matches what the first matches, its
evidence satisfies the first, and so its verdict is never milder.
`FloorIsEnforced` follows, and `FloorAlwaysStands` is both. `LintTellsTheFuture` is `LintForetells`. One direction needs
no assumption: a guard that lint faults lacks something no evidence for what the file declares can give it. The other, that a guard which it
does not fault can pass, speaks of evidence that may exist, so `EvidenceAssumption` says that the worlds the model ranges
over have evidence at its best (`AtBest`) and a change for each guard; TLC evaluates it. That orphans and duplicates can go rests on
`VerdictsOn`: the verdict of a file is a matter of what the guards with a say in the change judge.

The second part of the module is about Estate (`EstateInit`, `EstateNext`, `EstateSpec`, since both have to live beside Policy):
`AgeNeverFlatters` is `LaterIsNoBetter`, `ReportsAgree` is `StatusAgrees`, `NoGapIsForgotten` is `NextCoversGaps` and
`BundlesAreFaithful` is `BundleIsFaithful`, for any hosts, context files, edits, ledgers, windows, epochs and days. Three of them are
about one moment, and need of the invariant only that what is read are context files and ledgers (`IsHost`): which proofs there
are, finitely many, what their records say, and a chain whose times do not decrease. `StateOf` says when a row has which state;
`NoBetterLater` goes through the ways in which a proof ages; `FailsIs` is the passage from the counts of the verdict to
each row, and `NothingIsLost` that sorting loses no row, so that the tree shows the rows of its filter (`TreeShows`) and a gap
comes out as a step (`GapIsNext`).

A bundle needs `EstateInv`. An export reads one thing after another, so `IsJob` says what it has read: while no edit has come,
what the host says (`quiet`), and always a slice of a ledger, which is chained because times do not decrease
(`IsSlice`, `SliceChained`). `IsBoxed` says of an archive that its manifest and signature are of what was read, that `truth` is what the host
would have said at that moment with those files (`TruthOf`), and that a damaged one is refused
(`AlteredShows`). `StatesDepend` and `LoadedIsMerged` are why a reader elsewhere and later comes to the same states. For the fleet, what
holds after each bundle (`FleetStep`) is carried over the list by the least bundle after which it would not (`FleetsInOrder`): the
prover has no induction over a list, but it has the least number principle.

`GateProofs`: `PassesAreBacked`, `DecisionsAreRecorded`, `OverridesEnd`, `NobodyGains` and `StrictPassIsCovered`, for any
policies, recipes, requests, lifetimes and bounds. `GInv` ties a run to the world as it was when it was read: each record of the
evidence is what the last result of its proof left (`Told`), and a run's snapshot is so up to `run.from` results, whatever
drills, pin checks and attestations add later; only a drill that succeeded binds a record to a recipe (`LeftBy`); a run that
has judged says what follows from what it read (`JudgedAs`); and the ledger tells of a run only once it has ended
(`Recorded`), where edits and anchors change no decision. About the decision core, `Satisfied` says when a guard's
demands are met, `FoundNoLess` that what is wrong with a change is wrong with it in company and later, and
`JudgedNoLess` that overrides, which only expire, change nothing of that. `TypeCorrect` is the type invariant. Its bound on the ledger counts what
the run under way may still append (`Due`): two entries at most come of a step, since a record that failed may be there all the same.

Of the hook, `WhatIsReadIsJudged`: whatever the reader makes of a line, each change that it read passes alone if the
hook allows the line, for any reader, lines, calls, directories, repositories and policies. An answer is the one given for what was
read (`AnswerStands`), and the step from the judgement of a line to each of its changes is `PassesAlone`: by `FoundNoLess`, what is
wrong with a change alone is wrong with it in company, so a line that passes has no change that would not.
`WhatRunsIsJudged` carries this from what was read to what runs: wherever the reader is right (`[]ReadsWhatRuns`),
`AllowedIsJudged` holds; `HookInv` adds that what was understood of a line before the answer is so when the answer is looked at.
`ReadsWhatRuns` is a hypothesis because it is about one reader, the parser; TLC checks it for that one.

`MonitorProofs`: `ArchivesStay`, `StoredOnce`, `LimitKept`, together `StoreSound`, and `NewestStays`, for any hosts,
archives, number of handlers, bounds and failures. None of them is inductive: each rests on
what a handler has established some calls ago and the others must leave alone. `IInv` says,
besides the types and that exactly the holder of `ingestMu` is past the lock, for each handler by where it
stands (`Ok`): at `limit` its host is still unknown; at `upsert` it is known or there is
room; from `upsert` to `insert` no row has its archive; at `insert` its file is on disk under an id that no row has and
that the monitor is not about to remove. `OtherStep` is the lemma that the monitor and the settings page keep all of
that, since they neither add rows nor hosts; `HandlerStep` that a handler only has to look at
itself and the tables. `NewestStays` adds that an insert takes a fresh id and
that a prune keeps the first row of each host. `AlertsTrue` is `AlertsAreTrue`: `SInv` says for each handler what of what
it has read is still so (`Says`): the lapse it saw is there until its own upsert clears it, and while nothing has failed the bundle it found newest is
newest; and for the pass that a host on its list is unmarked (`PassOk`), since only the pass marks hosts.

`DrillProofs` is about Runner and Drill; the definitions of a specification that both have are prefixed in Runner
(`RunnerInit`, `RunnerNext`, `RunnerSpec`). Of Runner: `Whole` is `NobodyWritesOn`, and `CancelWins`, for any number of helpers and probes. A kill empties the
group of processes, but those that left it go on forking, so `RunnerIInv` keeps what makes that harmless: a child is what its
parent is, so the group stays empty; an exit status is final once the leader is gone; a success was read from a
leader that is gone. Deaths and forks are lemmas that hold wherever the engine stands.

Of Drill: `EarnsVerified` is `VerifiedIsEarned`, `TellsFailure` is `FailureIsTold` and `PinsProveNothing` is
`PinProvesNothing`, for any overlapping commands, declarations, artifacts, changes and calibrations. The record is written
long after what it tells of, so `IInv` follows each process on its way (`Fits`): while its checks run, each outcome is the
judgement of the check declared at its place (`Underway`, `Judged`), on the declaration it read and the artifact it recovered;
once it is decided, the result is `Honest`; and what another process records is later than what this one did (`Told`).
`VerdictIs` is the step from the outcomes to `Earned`: a check that dates what it passed offers an age, so a candidate of the
lowest rank exists (`FreshestIs`), and a budget that no check can date fails, which is what lint foretells. Calibration may
rewrite the budgets in between; that they stay numbers needs that a percentile of some samples is one of them (`PercentileIs`).
Both existence lemmas rest on the least number principle (`LeastIs`).

`WhatIsWritten` is `WrittenFits`, for any artifact and any history of runs. That a draft verifies on an exact copy needs `Copies`:
while a process holds one, every check so far has passed. An exact copy is one only as long as the artifact is not used, and then never
again, because a use adds to its count and what a drill saw when it began has no more in it than there is now (`ChangeCopies`).
`DraftPasses` goes through the kinds of artifacts: the floor of a count is not above it (`FloorIs`), whatever the power of ten
that `RoundDownSigFigs` stops at (`PowersExist`, `MagnitudeIs`, by a least counterexample, since the prover has no induction over a
recursive function), and the keys that were found once are found again. For a calibration, `PercentileIs` counts the samples that are not above the
percentile, `WithinIs` turns that into one in twenty, `ProposedIs` adds the margins, and `FriendlyIs` shows that rounding loses none and
that the unit in which a budget is written loses nothing of it.

`AccountsProofs`: `LinkOnce` is `SignsInOnce` and `FormsActWhereShown` is `ActsWhereShown`, for any people, browsers,
limits and failures. Neither is inductive. `InHand` says what a sign-in may rely on between two of its calls: the link it
burnt is its own, no session came of it and no other request holds it. `Paired` says that a browser's cookie of the form token,
when a page holds the same, belongs to the session that showed the page. The tables only grow, and `GrowthKeepsSignIn`
is why the steps of others change nothing of it. `NoFlood` is `LimitHolds`, for any number of requests that overlap and are
held up in any way. `Asking` says what a request knows between its calls; `Separate` that each link, and each request
counted and not yet sent, has a hit of its own among those remembered, as long as that hit is recent; only addresses without
a recent hit are forgotten. So the links asked for and sent within a stretch of one window, while it lasts, map one to one into the at most
`loginLimit` hits that the limiter remembers of the address; after it none is sent in it.

`BillingProofs`: `OneTrial` is `NoSecondTrial`, for any events, repeated and in any order, any memory of them
and any restarts. `Named` says that every row, event and job names a customer and a subscription that Stripe has; `Remembered`
that what was written from an event keeps its subscription, and so does the row an operator is about to write back.
`SettlesWithStripe` is `SettledAgrees`. Its invariant `SInv` says what Stripe's events say of its subscriptions (`StripeSays`), what a job
knows from where it stands (`JobKnows`), and that as long as no event was applied after a newer one the row says what the last
applied event of its subscription did, and every event that it does not say yet is unanswered (`Follows`).

The proofs assume what the modules assume of their constants, each named there, chosen
from what the code rejects: payloads exist, no process is the free lock, a guard
whose matcher is empty or whose age is negative is rejected (`fromRawGuard`), a proof without an observation time is
rejected (`fromRawProof`), a change has an intent (`loadIntents`), a calibration needs a run (`Calibrate` replaces
`--min-runs` below one), declarations, artifacts and telemetry have the shapes their types give
them, an artifact has finitely many key files, a drill declares some recipe, time and epochs begin at one. The files, edits and
ledgers that machines begin with have shapes too (`StartAssumption`: proofs are numbered and finitely many, an edit leaves the
number of files, a ledger is chained and older than the first day), and so have the contexts that a hook finds (`CallAssumption`:
ages and times are natural numbers). That evidence may be at its best is assumed for `LintTellsTheFuture` alone. TLC
evaluates them in every run.

Only model-checked: liveness (`AppendReturns`, `Returns`, `SilenceIsReported`, `QueueDrains`), since fairness and ENABLED are
beyond the prover; and `ReadsWhatRuns`. The lexer, the parser and the search of options are
recursive operators over data, which the prover does not reason about.

## 5. What is not modelled

- *Text*: YAML and JSON decoding, diffs, the wording of reasons, reports, HTML, the strict JSON
  reader of the summary. In the shell: input over 64 KiB, `{ }` groups, classes in brackets of globs, symbolic links
  (a path is compared as written), `popd` and `cd -`.
- *Cryptography*: a signature is good or bad, a hash is what it covers, a webhook is authentic, a secret is not guessed.
- *Sizes*: lengths of lines, limits of archives.
- *Parts*: the legacy override without an expiry; the policy revision, stamped from the files as they are
  after the judgement and read by no decision; the recovery stubs of a draft; the MCP server's loop and read-only tools; several workspaces
  of the cloud in one monitor pass; the mail and webhook clients; the installation of the hook; the history of `status`.
- Discovery, protection, migration, DORA export, saves and reports read or convert and keep no state that two actors share; they stay out.

## 6. Plan

Done: every component whose state two actors share, and the algorithms that decide something. Next:

- several workspaces in Monitor, and an abstract specification in which lapse and recovery of a host alternate;
- what the lexer and the parser of Hook preserve, if they are written as recursive functions.
