----------------------------- MODULE ProofStore -----------------------------
(***************************************************************************)
(* The context file (restoregap.yml) and the programs that rewrite it.      *)
(*                                                                         *)
(* `drill`, `drill --pins-only` and `evidence ingest` go through             *)
(* internal/proofstore: lock, read, merge, validate, replace by rename.      *)
(* `accept`, `accept --clear`, `classify --apply` and `drill --calibrate     *)
(* --apply` read the file and write it back in place, without the lock.      *)
(*                                                                         *)
(* A document is what a whole, valid file says.  The file is a document or   *)
(* Torn: emptied or half written.  Every map the programs encode ends with   *)
(* its version key, so contextspec.Parse rejects each strict prefix of one,  *)
(* and a single value stands for them all.                                  *)
(***************************************************************************)
EXTENDS Naturals, FiniteSets

CONSTANTS Proc,      \* the processes that run one of the commands
          Proof,     \* the proofs the file declares, each with its drill
          Torn,      \* the content of a file that is not a document
          Nobody,    \* the holder of a free lock
          MaxOps,    \* bound: commands started
          MaxEpoch,  \* bound: installs of the machine
          Faults     \* which failures of the environment may happen

ASSUME ProofAssumption   == Proof # {}
ASSUME ProcAssumption    == Nobody \notin Proc
ASSUME BoundAssumption   == MaxOps \in Nat /\ MaxEpoch \in Nat \ {0}
ASSUME FaultsAssumption  == Faults \subseteq {"kill", "powercut", "replacefail", "dirsyncfail"}

Upserts == {"drill", "pin", "ingest"}
Edits   == {"accept", "clear", "classify", "calibrate"}
Status  == {"none", "validated", "observed", "disputed", "unreachable"}
Recipe  == 1..(MaxOps + 1)     \* versions of a drill's declared recipe
Epoch   == 1..MaxEpoch
Commit  == 1..MaxOps           \* rewrites, named by the command that makes them

\* The generated fields of a proof: its outcome, the recipe it is bound to and
\* its epoch stamp (0: the field is absent), and the owner's acceptance.  ran
\* and made are history: the recipe whose execution gave the outcome (0: none
\* did), and the epoch in which it was observed.
Record == [status : Status, bound : {0} \cup Recipe, epoch : {0} \cup Epoch,
           accepted : BOOLEAN, ran : {0} \cup Recipe, made : {0} \cup Epoch]

\* recipe: the declared drill of each proof.  seen is history: the rewrites
\* this document was made by or read from.
Doc == [proof : [Proof -> Record], recipe : [Proof -> Recipe], seen : SUBSET Commit]

VARIABLES
  file,      \* what the path holds: a document or Torn
  onDisk,    \* what it may hold after a loss of power
  backup,    \* the latest .bak file
  tornBy,    \* what made the file Torn, Untorn if it is not
  lock,      \* the holder of the flock on <path>.lock
  open,      \* the processes with a descriptor of the file now at the path
  pc, job, base,   \* per process: where it is, what it does, what it read
  epoch,     \* the epoch of this install of the machine
  started,   \* commands started
  committed, \* history: the rewrites that reached the file
  met,       \* history: the rewrites that another overlapped, one of the two unlocked
  telemetry  \* <<op, rewrite>>: the entries appended to the ledger

control == <<pc, job, base>>
vars == <<file, onDisk, backup, tornBy, lock, open, control, epoch,
          started, committed, met, telemetry>>

Whole(f) == f # Torn

Blank == [status |-> "none", bound |-> 0, epoch |-> 0, accepted |-> FALSE,
          ran |-> 0, made |-> 0]
Fresh == [proof |-> [q \in Proof |-> Blank], recipe |-> [q \in Proof |-> 1], seen |-> {}]

\* A command: its number, its kind, the outcome it has for each proof it is about, and
\* the recipes declared when it loaded the file.
Job   == [id : 0..MaxOps, op : Upserts \cup Edits, result : UNION {[S -> Status] : S \in SUBSET Proof},
          recipe : [Proof -> Recipe]]
NoJob == [id |-> 0, op |-> "classify", result |-> <<>>, recipe |-> Fresh.recipe]

\* What makes a file Torn.
Torer  == [id : 0..MaxOps, op : Edits \cup {"none", "power"}]
Untorn == [id |-> 0, op |-> "none"]
Power  == [id |-> 0, op |-> "power"]

Window  == {"locked", "merged", "synced", "renamed"}        \* in Upsert
Editing == {"loaded", "read", "backed", "truncated"}        \* in an unlocked writer

TypeOK ==
  /\ file \in Doc \cup {Torn} /\ backup \in Doc \cup {Torn}
  /\ onDisk \subseteq Doc \cup {Torn} /\ file \in onDisk
  /\ tornBy \in Torer /\ (tornBy = Untorn <=> Whole(file))
  /\ lock \in Proc \cup {Nobody} /\ open \subseteq Proc
  /\ pc \in [Proc -> {"idle", "ran", "record"} \cup Window \cup Editing]
  /\ job \in [Proc -> Job] /\ base \in [Proc -> Doc \cup {Torn}]
  /\ epoch \in Epoch /\ started \in 0..MaxOps /\ committed \subseteq Commit /\ met \subseteq Commit
  /\ telemetry \subseteq (Upserts \cup Edits) \X Commit

Init ==
  /\ file = Fresh /\ onDisk = {Fresh} /\ backup = Torn /\ tornBy = Untorn
  /\ lock = Nobody /\ open = {}
  /\ pc = [p \in Proc |-> "idle"]
  /\ job = [p \in Proc |-> NoJob] /\ base = [p \in Proc |-> Fresh]
  /\ epoch = 1 /\ started = 0 /\ committed = {} /\ met = {} /\ telemetry = {}

-----------------------------------------------------------------------------
(* What a command does to a document                                       *)

\* Mutant: a producer that binds nothing leaves the old binding there.
EvidenceKeepsBinding(r, j, q) ==
  [r EXCEPT !.status = j.result[q],
            !.bound  = IF j.op = "drill" THEN j.recipe[q] ELSE @,
            !.ran    = IF j.op = "drill" THEN j.recipe[q] ELSE 0,
            !.epoch  = IF j.op = "ingest" THEN @ ELSE epoch,
            !.made   = epoch]

\* The fields a producer owns are all replaced, those it leaves out cleared;
\* the fields it does not own are kept (mergeMapping).  Only a full drill
\* binds the proof to a recipe; an ingestion carries no epoch stamp.
Evidence(r, j, q) ==
  [r EXCEPT !.status = j.result[q],
            !.bound  = IF j.op = "drill" THEN j.recipe[q] ELSE 0,
            !.ran    = IF j.op = "drill" THEN j.recipe[q] ELSE 0,
            !.epoch  = IF j.op = "ingest" THEN @ ELSE epoch,
            !.made   = epoch]

\* accept sets accepted: and stamps the host and epoch of the proof again.
Accepted(r)  == [r EXCEPT !.accepted = TRUE, !.epoch = epoch]
Cleared(r)   == [r EXCEPT !.accepted = FALSE]

\* The document d after the job j.  classify writes only layer: and category:,
\* which nothing here depends on; the budgets that calibrate writes are part
\* of the recipe.
Rewrite(d, j) ==
  LET on == DOMAIN j.result
      New(q) == CASE j.op \in Upserts  -> Evidence(d.proof[q], j, q)
                  [] j.op = "accept"   -> Accepted(d.proof[q])
                  [] j.op = "clear"    -> Cleared(d.proof[q])
                  [] OTHER             -> d.proof[q]
  IN  [proof  |-> [q \in Proof |-> IF q \in on THEN New(q) ELSE d.proof[q]],
       recipe |-> [q \in Proof |-> IF j.op = "calibrate" /\ q \in on
                                   THEN d.recipe[q] + 1 ELSE d.recipe[q]],
       seen   |-> d.seen \cup {j.id}]

-----------------------------------------------------------------------------
(* drill, drill --pins-only, evidence ingest                               *)

Begin(p, op, result, recipe) ==
  /\ pc[p] = "idle" /\ started < MaxOps /\ started' = started + 1
  /\ job' = [job EXCEPT ![p] = [id |-> started + 1, op |-> op,
                                result |-> result, recipe |-> recipe]]
  /\ UNCHANGED <<file, onDisk, backup, tornBy, lock, open, base, epoch, committed, telemetry>>

At(p, place) == pc' = [pc EXCEPT ![p] = place]

\* The file is loaded, the declared recoveries run; the outcomes are known.
StartDrill(p) ==
  /\ Whole(file) /\ At(p, "ran") /\ UNCHANGED met
  /\ \E S \in SUBSET Proof \ {{}} : \E r \in [S -> {"validated", "disputed"}] :
       Begin(p, "drill", r, file.recipe)

\* The pin check of a proof failed; one that passes leaves the file alone.
StartPinCheck(p) ==
  /\ Whole(file) /\ At(p, "ran") /\ UNCHANGED met
  /\ \E q \in Proof : Begin(p, "pin", [x \in {q} |-> "unreachable"], file.recipe)

\* The file is not read before the locked rewrite.
StartIngest(p) ==
  /\ At(p, "ran") /\ UNCHANGED met
  /\ \E q \in Proof, s \in {"validated", "observed"} :
       Begin(p, "ingest", [x \in {q} |-> s], Fresh.recipe)

\* The command id of p comes to the file while those in places are at it.
Meets(p, id, places) ==
  LET others == {job[q].id : q \in {x \in Proc : x # p /\ pc[x] \in places}}
  IN  met' = IF others = {} THEN met ELSE met \cup others \cup {id}

\* Mutant: each process locks a file of its own.
LockOwnFile(p) ==
  /\ pc[p] = "ran"
  /\ lock' = p /\ At(p, "locked") /\ Meets(p, job[p].id, Editing)
  /\ UNCHANGED <<file, onDisk, backup, tornBy, open, job, base, epoch, started, committed, telemetry>>

Lock(p) ==
  /\ pc[p] = "ran" /\ lock = Nobody
  /\ lock' = p /\ At(p, "locked") /\ Meets(p, job[p].id, Editing)
  /\ UNCHANGED <<file, onDisk, backup, tornBy, open, job, base, epoch, started, committed, telemetry>>

Gone(p) == /\ At(p, "idle")
           /\ job' = [job EXCEPT ![p] = NoJob] /\ base' = [base EXCEPT ![p] = Fresh]

\* Upsert returns an error: the lock is released, nothing is recorded.
Abandon(p) ==
  /\ lock' = Nobody /\ Gone(p)
  /\ UNCHANGED <<file, onDisk, backup, tornBy, open, epoch, started, committed, met, telemetry>>

\* readDestination, parseDocument, mergeProofs, encodeDocument and Parse.
Merge(p) ==
  /\ pc[p] = "locked" /\ Whole(file)
  /\ base' = [base EXCEPT ![p] = Rewrite(file, job[p])]
  /\ At(p, "merged")
  /\ UNCHANGED <<file, onDisk, backup, tornBy, lock, open, job, epoch, started, committed, met, telemetry>>

RefuseTorn(p) == pc[p] = "locked" /\ ~Whole(file) /\ Abandon(p)

\* The temporary file is written and fsynced.
SyncTemp(p) ==
  /\ pc[p] = "merged" /\ At(p, "synced")
  /\ UNCHANGED <<file, onDisk, backup, tornBy, lock, open, job, base, epoch, started, committed, met, telemetry>>

\* Writing, syncing, closing or renaming it fails: it is removed.
ReplaceFails(p) == "replacefail" \in Faults /\ pc[p] \in {"merged", "synced"} /\ Abandon(p)

Rename(p) ==
  /\ pc[p] = "synced"
  /\ file' = base[p] /\ onDisk' = onDisk \cup {base[p]}
  /\ open' = {} /\ tornBy' = Untorn
  /\ committed' = committed \cup {job[p].id}
  /\ At(p, "renamed")
  /\ UNCHANGED <<backup, lock, job, base, epoch, started, met, telemetry>>

\* Mutant: the directory is not synced after the rename.
SkipSyncDirectory(p) ==
  /\ pc[p] = "renamed"
  /\ lock' = Nobody /\ At(p, "record")
  /\ UNCHANGED <<file, onDisk, backup, tornBy, open, job, base, epoch, started, committed, met, telemetry>>

\* The name is on disk, unless somebody has written into the file since.
SyncDirectory(p) ==
  /\ pc[p] = "renamed"
  /\ onDisk' = IF file = base[p] THEN {file} ELSE onDisk
  /\ lock' = Nobody /\ At(p, "record")
  /\ UNCHANGED <<file, backup, tornBy, open, job, base, epoch, started, committed, met, telemetry>>

\* The error is returned although the file has been replaced.
SyncDirectoryFails(p) == "dirsyncfail" \in Faults /\ pc[p] = "renamed" /\ Abandon(p)

\* The ledger entry, after the file has been written.  Losing it is a warning.
RecordTelemetry(p) ==
  /\ pc[p] = "record"
  /\ telemetry' \in {telemetry, telemetry \cup {<<job[p].op, job[p].id>>}}
  /\ Gone(p)
  /\ UNCHANGED <<file, onDisk, backup, tornBy, lock, open, epoch, started, committed, met>>

-----------------------------------------------------------------------------
(* accept, accept --clear, classify --apply, drill --calibrate --apply     *)

\* contextspec.Load finds the proof, suggests a layer or sizes a budget.
StartEdit(p) ==
  /\ Whole(file) /\ At(p, "loaded")
  /\ Meets(p, started + 1, Window \cup Editing)
  /\ \E op \in Edits, q \in Proof : Begin(p, op, [x \in {q} |-> "none"], file.recipe)

\* os.ReadFile, a second read of the file.
Read(p) ==
  /\ pc[p] = "loaded" /\ base' = [base EXCEPT ![p] = file]
  /\ At(p, IF job[p].op = "calibrate" THEN "backed" ELSE "read")
  /\ UNCHANGED <<file, onDisk, backup, tornBy, lock, open, job, epoch, started, committed, met, telemetry>>

\* Mutant: a backup that is there is not written again.
BackupOnce(p) ==
  /\ pc[p] = "read" /\ backup' = (IF Whole(backup) THEN backup ELSE base[p]) /\ At(p, "backed")
  /\ UNCHANGED <<file, onDisk, tornBy, lock, open, job, base, epoch, started, committed, met, telemetry>>

Backup(p) ==
  /\ pc[p] = "read" /\ backup' = base[p] /\ At(p, "backed")
  /\ UNCHANGED <<file, onDisk, tornBy, lock, open, job, base, epoch, started, committed, met, telemetry>>

\* Nothing to clear; or the text read does not decode, or lacks the proof.
NothingWritten(p) ==
  /\ pc[p] = "backed"
  /\ Whole(base[p]) => /\ job[p].op = "clear"
                       /\ \A q \in DOMAIN job[p].result : ~base[p].proof[q].accepted
  /\ Gone(p)
  /\ UNCHANGED <<file, onDisk, backup, tornBy, lock, open, epoch, started, committed, met, telemetry>>

\* os.WriteFile opens with O_TRUNC ...
Truncate(p) ==
  /\ pc[p] = "backed"
  /\ job[p].op = "clear" /\ Whole(base[p]) =>
       \E q \in DOMAIN job[p].result : base[p].proof[q].accepted
  /\ file' = Torn /\ onDisk' = onDisk \cup {Torn} /\ tornBy' = [id |-> job[p].id, op |-> job[p].op]
  /\ open' = open \cup {p} /\ At(p, "truncated")
  /\ UNCHANGED <<backup, lock, job, base, epoch, started, committed, met, telemetry>>

\* ... and then writes: into the file at the path, or into one that a rename
\* has replaced since.  Half a document, read, is written back as no document;
\* a write over another's may leave that one's longer end.
Put(p) ==
  /\ pc[p] = "truncated"
  /\ file' \in IF p \notin open THEN {file}
               ELSE IF ~Whole(base[p]) THEN {Torn}
               ELSE {Rewrite(base[p], job[p])} \cup (IF Whole(file) THEN {Torn} ELSE {})
  /\ onDisk' = onDisk \cup {file'} /\ open' = open \ {p}
  /\ tornBy' = IF Whole(file') THEN Untorn
               ELSE IF p \in open THEN [id |-> job[p].id, op |-> job[p].op] ELSE tornBy
  /\ committed' = committed \cup {job[p].id}
  /\ At(p, IF job[p].op \in {"accept", "clear"} THEN "record" ELSE "idle")
  /\ job' = IF job[p].op \in {"accept", "clear"} THEN job ELSE [job EXCEPT ![p] = NoJob]
  /\ base' = [base EXCEPT ![p] = Fresh]
  /\ UNCHANGED <<backup, lock, epoch, started, met, telemetry>>

-----------------------------------------------------------------------------
(* The environment                                                         *)

\* A process dies; the kernel closes its files and drops its flock.
Kill(p) ==
  /\ "kill" \in Faults /\ pc[p] # "idle" /\ Gone(p)
  /\ lock' = IF lock = p THEN Nobody ELSE lock
  /\ open' = open \ {p}
  /\ UNCHANGED <<file, onDisk, backup, tornBy, epoch, started, committed, met, telemetry>>

AllGone == /\ pc' = [p \in Proc |-> "idle"] /\ lock' = Nobody /\ open' = {}
           /\ job' = [p \in Proc |-> NoJob] /\ base' = [p \in Proc |-> Fresh]

\* Power is lost and comes back; the rewrites that were not on disk never were.
PowerCut ==
  /\ "powercut" \in Faults /\ AllGone
  /\ file' \in onDisk /\ onDisk' = {file'}
  /\ tornBy' = IF Whole(file') THEN Untorn ELSE Power
  /\ committed' = IF Whole(file') THEN file'.seen ELSE committed
  /\ UNCHANGED <<backup, epoch, started, met, telemetry>>

\* The machine is installed again and the file put back.
Reinstall ==
  /\ epoch < MaxEpoch /\ epoch' = epoch + 1 /\ AllGone
  /\ UNCHANGED <<file, onDisk, backup, tornBy, started, committed, met, telemetry>>

-----------------------------------------------------------------------------
Upserting(p) == \/ StartDrill(p) \/ StartPinCheck(p) \/ StartIngest(p)
                \/ Lock(p) \/ Merge(p) \/ RefuseTorn(p) \/ SyncTemp(p) \/ ReplaceFails(p)
                \/ Rename(p) \/ SyncDirectory(p) \/ SyncDirectoryFails(p)
                \/ RecordTelemetry(p)

EditingInPlace(p) == \/ StartEdit(p) \/ Read(p) \/ Backup(p) \/ NothingWritten(p)
                     \/ Truncate(p) \/ Put(p)

Next == \/ \E p \in Proc : Upserting(p) \/ EditingInPlace(p) \/ Kill(p)
        \/ PowerCut
        \/ Reinstall

Spec == Init /\ [][Next]_vars

-----------------------------------------------------------------------------
(* Properties                                                              *)

\* An update is lost only in a rewrite that an unlocked one overlapped: a
\* document in the file was made from every other rewrite that reached it,
\* whichever commands fail, die or lose power around it (proofstore.Upsert; what
\* accept, classify and calibrate put at risk is what they overlap, no more).
NoLostUpdate == Whole(file) => committed \ met \subseteq file.seen

\* docs/ARCHITECTURE.md: the lock "protects cooperating writers from partial
\* writes and lost updates".  So it does, but three commands do not cooperate.
NothingLost == Whole(file) => committed \subseteq file.seen

\* What the ledger says a drill, a pin check or an ingestion recorded is in
\* the file, whatever dies or loses power: the entry is written last.  So it is
\* too with unlocked rewrites around, of those that they do not overlap.
TelemetryBacked == \A t \in telemetry :
                     t[1] \in Upserts /\ Whole(file) => t[2] \in file.seen \cup met

\* A proof that claims to be validated for the recipe now declared was
\* produced by running exactly that recipe: no later producer inherits the
\* binding of an old drill, and no drill binds a recipe changed under it.
BoundToWhatRan ==
  Whole(file) => \A q \in Proof :
    LET r == file.proof[q]
    IN  r.status = "validated" /\ r.bound = file.recipe[q] => r.ran = file.recipe[q]

\* When a process dies in the middle of writing the file in place, the backup
\* it made first holds every rewrite that reached the file (backupAndDecode),
\* unless another rewrite overlapped that one.  calibrate makes none.
BackupCoversTorn ==
  ~Whole(file) /\ tornBy.op \notin {"calibrate", "power"} /\ tornBy.id \notin met =>
    Whole(backup) /\ committed \ met \subseteq backup.seen

\* A proof stamped with this install's epoch was observed in it ("recorded
\* before a reinstall can be told apart from this machine's own fresh
\* evidence", stampProofHost).
EpochHonest ==
  Whole(file) => \A q \in Proof :
    LET r == file.proof[q]
    IN  r.status # "none" /\ r.epoch = epoch => r.made = epoch
=============================================================================
