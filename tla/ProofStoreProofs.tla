-------------------------- MODULE ProofStoreProofs --------------------------
(***************************************************************************)
(* For any processes, proofs and failures: a proof is bound to the recipe   *)
(* that ran, everything has its type; and but for the rewrites that an      *)
(* unlocked one overlapped, no update is lost, what the ledger says of a    *)
(* drill is in the file, and a torn file has a complete backup.             *)
(***************************************************************************)
EXTENDS ProofStore, FiniteSetTheorems, TLAPS

-----------------------------------------------------------------------------
(* A binding and the run it came from are written together.                *)

Entry == [status : Status, bound : Nat, epoch : Nat, accepted : BOOLEAN, ran : Nat, made : Nat]

\* A document in which every binding names the recipe that ran.
Honest(d) ==
  /\ d.proof \in [Proof -> Entry] /\ d.recipe \in [Proof -> Nat \ {0}]
  /\ \A q \in Proof : d.proof[q].bound # 0 => d.proof[q].bound = d.proof[q].ran

Fit(j) ==
  /\ j.op \in Upserts \cup Edits /\ j.recipe \in [Proof -> Nat \ {0}]
  /\ DOMAIN j.result \subseteq Proof /\ \A q \in DOMAIN j.result : j.result[q] \in Status

HInv ==
  /\ epoch \in Nat
  /\ Whole(file) => Honest(file)
  /\ \A d \in onDisk : Whole(d) => Honest(d)
  /\ DOMAIN base = Proc /\ \A p \in Proc : Whole(base[p]) => Honest(base[p])
  /\ DOMAIN job = Proc /\ \A p \in Proc : Fit(job[p])

LEMMA FreshHonest == Honest(Fresh) /\ Fit(NoJob)
BY DEF Honest, Fresh, Blank, Entry, Status, Fit, NoJob, Upserts, Edits

\* Whatever command rewrites it, an honest document stays one.
LEMMA RewriteHonest ==
  ASSUME NEW d, Honest(d), NEW j, Fit(j), epoch \in Nat
  PROVE  Honest(Rewrite(d, j))
<1> DEFINE e == Rewrite(d, j)
<1>1. ASSUME NEW q \in Proof
      PROVE  e.proof[q] \in Entry /\ (e.proof[q].bound # 0 => e.proof[q].bound = e.proof[q].ran)
  <2>1. d.proof[q] \in Entry /\ (d.proof[q].bound # 0 => d.proof[q].bound = d.proof[q].ran)
    BY DEF Honest
  <2>2. CASE q \notin DOMAIN j.result
    BY <2>1, <2>2 DEF Rewrite
  <2>3. CASE q \in DOMAIN j.result /\ j.op \in Upserts
    <3>1. e.proof[q] = Evidence(d.proof[q], j, q)
      <4>1. j.op # "accept" /\ j.op # "clear"
        BY <2>3 DEF Upserts
      <4> QED BY <2>3, <4>1 DEF Rewrite
    <3>2. j.result[q] \in Status /\ j.recipe[q] \in Nat
      BY <2>3 DEF Fit
    <3> DEFINE r == d.proof[q]
               n == Evidence(r, j, q)
    <3>3. r \in Entry
      BY <2>1
    <3> HIDE DEF r
    <3>4. n \in Entry /\ (n.bound # 0 => n.bound = n.ran)
      BY <3>2, <3>3 DEF Evidence, Entry
    <3> HIDE DEF e, n
    <3> QED BY <3>1, <3>4 DEF r, n
  <2>4. CASE q \in DOMAIN j.result /\ j.op \in Edits
    <3>1. e.proof[q] \in {Accepted(d.proof[q]), Cleared(d.proof[q]), d.proof[q]}
      <4>1. j.op \notin Upserts
        BY <2>4 DEF Upserts, Edits
      <4> QED BY <2>4, <4>1 DEF Rewrite
    <3> DEFINE r == d.proof[q]
    <3>2. /\ Accepted(r) \in Entry /\ Accepted(r).bound = r.bound /\ Accepted(r).ran = r.ran
          /\ Cleared(r) \in Entry /\ Cleared(r).bound = r.bound /\ Cleared(r).ran = r.ran
      BY <2>1 DEF Accepted, Cleared, Entry
    <3> HIDE DEF r, e
    <3> QED BY <2>1, <3>1, <3>2 DEF r
  <2> QED BY <2>2, <2>3, <2>4 DEF Fit
<1>2. ASSUME NEW q \in Proof PROVE e.recipe[q] \in Nat \ {0}
  <2>1. d.recipe[q] \in Nat \ {0}
    BY DEF Honest
  <2>2. e.recipe[q] \in {d.recipe[q], d.recipe[q] + 1}
    BY DEF Rewrite
  <2> QED BY <2>1, <2>2
<1>3. e.proof = [q \in Proof |-> e.proof[q]] /\ e.recipe = [q \in Proof |-> e.recipe[q]]
  BY DEF Rewrite
<1> QED BY <1>1, <1>2, <1>3 DEF Honest

LEMMA InitHInv == Init => HInv
<1> SUFFICES ASSUME Init PROVE HInv
  OBVIOUS
<1>1. /\ file = Fresh /\ onDisk = {Fresh} /\ DOMAIN base = Proc /\ DOMAIN job = Proc /\ epoch \in Nat
      /\ \A p \in Proc : base[p] = Fresh /\ job[p] = NoJob
  BY DEF Init
<1> QED BY <1>1, FreshHonest DEF HInv

\* A step that writes no document, and takes over or drops what it reads.
LEMMA ReadsKeepHInv ==
  ASSUME HInv, epoch' \in Nat, Whole(file') => file' = file \/ file' \in onDisk,
         onDisk' \subseteq onDisk \cup {file, Torn},
         DOMAIN base' = Proc, DOMAIN job' = Proc,
         \A p \in Proc : base'[p] \in {base[p], file, Fresh} /\ job'[p] \in {job[p], NoJob}
  PROVE  HInv'
<1>1. Whole(file') => Honest(file')
  BY DEF HInv, Whole
<1>2. \A d \in onDisk' : Whole(d) => Honest(d)
  BY DEF HInv, Whole
<1>3. ASSUME NEW p \in Proc PROVE Whole(base'[p]) => Honest(base'[p])
  <2>1. base'[p] = base[p] \/ base'[p] = file \/ base'[p] = Fresh
    OBVIOUS
  <2> QED BY <2>1, FreshHonest DEF HInv, Whole
<1>4. \A p \in Proc : Fit(job'[p])
  BY FreshHonest DEF HInv
<1> QED BY <1>1, <1>2, <1>3, <1>4 DEF HInv

LEMMA BeginKeepsHInv ==
  ASSUME HInv, NEW p \in Proc, NEW op \in Upserts \cup Edits, NEW result,
         NEW recipe \in [Proof -> Nat \ {0}],
         DOMAIN result \subseteq Proof, \A q \in DOMAIN result : result[q] \in Status, Begin(p, op, result, recipe)
  PROVE  HInv'
<1> DEFINE j == [id |-> started + 1, op |-> op, result |-> result, recipe |-> recipe]
<1>1. Fit(j)
  BY DEF Fit
<1>2. job' = [job EXCEPT ![p] = j] /\ UNCHANGED <<file, onDisk, base, epoch>>
  BY DEF Begin
<1> HIDE DEF j
<1> QED BY <1>1, <1>2 DEF HInv

LEMMA NextHInv == ASSUME HInv, [Next]_vars PROVE HInv'
<1>1. ASSUME NEW p \in Proc, StartDrill(p) PROVE HInv'
  <2>0. PICK S \in SUBSET Proof : \E r \in [S -> {"validated", "disputed"}] : Begin(p, "drill", r, file.recipe)
    BY <1>1 DEF StartDrill
  <2>1. PICK r \in [S -> {"validated", "disputed"}] : Begin(p, "drill", r, file.recipe)
    BY <2>0
  <2>2. file.recipe \in [Proof -> Nat \ {0}]
    BY <1>1 DEF StartDrill, HInv, Honest
  <2> QED BY <2>1, <2>2, BeginKeepsHInv DEF Upserts, Status
<1>2. ASSUME NEW p \in Proc, StartPinCheck(p) PROVE HInv'
  <2>1. PICK q \in Proof : Begin(p, "pin", [x \in {q} |-> "unreachable"], file.recipe)
    BY <1>2 DEF StartPinCheck
  <2>2. file.recipe \in [Proof -> Nat \ {0}]
    BY <1>2 DEF StartPinCheck, HInv, Honest
  <2> QED BY <2>1, <2>2, BeginKeepsHInv DEF Upserts, Status
<1>3. ASSUME NEW p \in Proc, StartIngest(p) PROVE HInv'
  <2>1. PICK q \in Proof, s \in {"validated", "observed"} : Begin(p, "ingest", [x \in {q} |-> s], Fresh.recipe)
    BY <1>3 DEF StartIngest
  <2>2. Fresh.recipe \in [Proof -> Nat \ {0}]
    BY DEF Fresh
  <2> QED BY <2>1, <2>2, BeginKeepsHInv DEF Upserts, Status
<1>4. ASSUME NEW p \in Proc, StartEdit(p) PROVE HInv'
  <2>1. PICK op \in Edits, q \in Proof : Begin(p, op, [x \in {q} |-> "none"], file.recipe)
    BY <1>4 DEF StartEdit
  <2>2. file.recipe \in [Proof -> Nat \ {0}]
    BY <1>4 DEF StartEdit, HInv, Honest
  <2> QED BY <2>1, <2>2, BeginKeepsHInv DEF Status
<1>5. ASSUME NEW p \in Proc, Lock(p) \/ SyncTemp(p) \/ SyncDirectory(p) \/ Read(p) \/ Backup(p) PROVE HInv'
  BY <1>5, ReadsKeepHInv DEF Lock, SyncTemp, SyncDirectory, Read, Backup, HInv
<1>6. ASSUME NEW p \in Proc, RefuseTorn(p) \/ ReplaceFails(p) \/ SyncDirectoryFails(p) PROVE HInv'
  BY <1>6, ReadsKeepHInv DEF RefuseTorn, ReplaceFails, SyncDirectoryFails, Abandon, Gone, HInv
<1>7. ASSUME NEW p \in Proc, RecordTelemetry(p) \/ NothingWritten(p) \/ Kill(p) PROVE HInv'
  BY <1>7, ReadsKeepHInv DEF RecordTelemetry, NothingWritten, Kill, Gone, HInv
<1>8. ASSUME NEW p \in Proc, Truncate(p) PROVE HInv'
  BY <1>8, ReadsKeepHInv DEF Truncate, HInv, Whole
<1>9. ASSUME NEW p \in Proc, Merge(p) PROVE HInv'
  <2>1. Honest(Rewrite(file, job[p]))
    BY <1>9, RewriteHonest DEF Merge, HInv
  <2> QED BY <1>9, <2>1 DEF Merge, HInv
<1>10. ASSUME NEW p \in Proc, Rename(p) PROVE HInv'
  BY <1>10 DEF Rename, HInv
<1>11. ASSUME NEW p \in Proc, Put(p) PROVE HInv'
  <2>1. Whole(base[p]) => Honest(Rewrite(base[p], job[p]))
    BY RewriteHonest DEF HInv
  <2>2. Whole(file') => Honest(file')
    BY <1>11, <2>1 DEF Put, HInv, Whole
  <2>3. DOMAIN job' = Proc /\ DOMAIN base' = Proc
    BY <1>11 DEF Put, HInv
  <2>4. \A q \in Proc : base'[q] \in {base[q], Fresh}
    BY <1>11 DEF Put, HInv
  <2>5. \A q \in Proc : job'[q] \in {job[q], NoJob}
    BY <1>11 DEF Put, HInv
  <2>6. onDisk' = onDisk \cup {file'} /\ epoch' = epoch
    BY <1>11 DEF Put
  <2> QED BY <2>2, <2>3, <2>4, <2>5, <2>6, FreshHonest DEF HInv
<1>12. ASSUME PowerCut PROVE HInv'
  BY <1>12, ReadsKeepHInv DEF PowerCut, AllGone, HInv
<1>13. ASSUME Reinstall PROVE HInv'
  <2>1. epoch' \in Nat
    BY <1>13 DEF Reinstall, HInv
  <2> QED BY <1>13, <2>1, ReadsKeepHInv DEF Reinstall, AllGone, HInv
<1>14. CASE UNCHANGED vars
  BY <1>14 DEF vars, control, HInv
<1> QED BY <1>1, <1>2, <1>3, <1>4, <1>5, <1>6, <1>7, <1>8, <1>9, <1>10, <1>11, <1>12, <1>13, <1>14
        DEF Next, Upserting, EditingInPlace

\* A proof that claims to be validated for the recipe now declared was produced
\* by running that recipe, however the writers interleave, fail and overlap: no
\* later producer inherits a binding, and no drill binds what it did not run.
THEOREM BoundByRunning == Spec => []BoundToWhatRan
<1>1. HInv => BoundToWhatRan
  <2> SUFFICES ASSUME HInv, Whole(file), NEW q \in Proof, file.proof[q].bound = file.recipe[q]
               PROVE  file.proof[q].ran = file.recipe[q]
    BY DEF BoundToWhatRan
  <2> QED BY DEF HInv, Honest
<1>2. HInv /\ [Next]_vars => HInv'
  BY NextHInv
<1> QED BY <1>1, <1>2, InitHInv, PTL DEF Spec

-----------------------------------------------------------------------------
(* What an unlocked rewrite can take away: what it overlaps, and no more.   *)

\* What is torn is not a document (contextspec.Parse rejects it).
TornIsNone == \A proof, recipe, seen : Torn # [proof |-> proof, recipe |-> recipe, seen |-> seen]

Place == {"idle", "ran", "record"} \cup Window \cup Editing

\* The lock serialises Upserts; whoever is at the file together with an unlocked
\* writer has met it.
Apart ==
  /\ pc \in [Proc -> Place] /\ DOMAIN job = Proc /\ DOMAIN base = Proc
  /\ \A p \in Proc : pc[p] \in Window => lock = p
  /\ \A p, q \in Proc : p # q /\ pc[p] \in Editing /\ pc[q] \in Window \cup Editing =>
       job[p].id \in met /\ job[q].id \in met

\* The rewrites the ledger tells of, or will.
Told(c) == (\E t \in telemetry : t[1] \in Upserts /\ t[2] = c)
           \/ (\E p \in Proc : pc[p] = "record" /\ job[p].op \in Upserts /\ job[p].id = c)

\* What was overlapped by nothing is in d.
Carries(d) == Whole(d) => \A c : c \notin met /\ (c \in committed \/ Told(c)) => c \in d.seen

\* What a process that has met nobody has read of the file is what the file still says.
Undisturbed(p) ==
  /\ pc[p] = "loaded" => Whole(file)
  /\ pc[p] = "renamed" => file = base[p]
  /\ pc[p] \in {"read", "backed", "truncated"} => Whole(base[p])
  /\ pc[p] = "truncated" => ~Whole(file) /\ p \in open
  /\ pc[p] \in {"backed", "truncated"} /\ job[p].op # "calibrate" => backup = base[p]

Holds(p) ==
  /\ pc[p] \in {"merged", "synced", "read", "backed", "truncated"} => Carries(base[p])
  /\ pc[p] \in {"merged", "synced", "renamed"} => Whole(base[p]) /\ job[p].id \in base[p].seen
  /\ job[p].id \notin met => Undisturbed(p)

\* Whatever a loss of power leaves has what the ledger tells.
ToldIsKept == file \in onDisk /\ \A d \in onDisk : Whole(d) => \A c : c \notin met /\ Told(c) => c \in d.seen

\* Nobody takes the backup of a torn file from it.
TornRests ==
  ~Whole(file) /\ tornBy.op \notin {"calibrate", "power"} /\ tornBy.id \notin met =>
    \A p \in Proc : pc[p] \in Editing => pc[p] = "truncated"

SInv == Apart /\ (\A p \in Proc : Holds(p)) /\ Carries(file) /\ ToldIsKept /\ TornRests /\ BackupCoversTorn

LEMMA InitSInv == ASSUME TornIsNone PROVE Init => SInv
<1> SUFFICES ASSUME Init PROVE SInv
  OBVIOUS
<1>1. /\ file = Fresh /\ onDisk = {Fresh} /\ committed = {} /\ telemetry = {}
      /\ DOMAIN job = Proc /\ DOMAIN base = Proc /\ pc = [p \in Proc |-> "idle"]
  BY DEF Init
<1>2. Whole(file)
  BY <1>1 DEF TornIsNone, Whole, Fresh
<1>3. Apart
  BY <1>1 DEF Apart, Place, Window, Editing
<1>4. \A p \in Proc : Holds(p)
  BY <1>1 DEF Holds, Undisturbed
<1>5. \A c : ~Told(c)
  BY <1>1 DEF Told
<1>6. ToldIsKept /\ Carries(file)
  BY <1>1, <1>5 DEF ToldIsKept, Carries
<1>7. TornRests /\ BackupCoversTorn
  BY <1>2 DEF TornRests, BackupCoversTorn
<1> QED BY <1>3, <1>4, <1>6, <1>7 DEF SInv

LEMMA RewriteIsWhole ==
  ASSUME TornIsNone, NEW d, NEW j
  PROVE  Whole(Rewrite(d, j)) /\ Rewrite(d, j).seen = d.seen \cup {j.id}
BY DEF TornIsNone, Whole, Rewrite

\* Two processes are at the file only if they have met.
LEMMA Together ==
  ASSUME Apart, NEW p \in Proc, pc[p] \in Window \cup Editing, NEW q \in Proc, q # p,
         pc[q] \in Window \cup Editing
  PROVE  job[p].id \in met /\ job[q].id \in met
BY DEF Apart, Window, Editing

LEMMA MeetsAll ==
  ASSUME NEW p \in Proc, NEW id, NEW places, Meets(p, id, places)
  PROVE  met \subseteq met' /\ \A q \in Proc : q # p /\ pc[q] \in places => job[q].id \in met' /\ id \in met'
<1> DEFINE others == {job[q].id : q \in {x \in Proc : x # p /\ pc[x] \in places}}
<1>1. met' = IF others = {} THEN met ELSE met \cup others \cup {id}
  BY DEF Meets
<1>2. \A q \in Proc : q # p /\ pc[q] \in places => job[q].id \in others
  OBVIOUS
<1> HIDE DEF others
<1> QED BY <1>1, <1>2

\* A process that is not at the file holds nothing.
LEMMA Away == ASSUME NEW p \in Proc, pc'[p] \in {"idle", "ran", "locked", "record"} PROVE Holds(p)'
BY DEF Holds, Undisturbed

\* A process comes to the file, or leaves it.
LEMMA ComesApart ==
  ASSUME Apart, NEW p \in Proc, NEW x \in Place, pc' = [pc EXCEPT ![p] = x],
         DOMAIN job' = Proc, DOMAIN base' = Proc, \A q \in Proc : q # p => job'[q] = job[q],
         met \subseteq met', x \in Window => lock' = p,
         \A q \in Proc : q # p /\ pc[q] \in Window => lock' = q,
         \A q \in Proc :
           q # p /\ ((x \in Editing /\ pc[q] \in Window) \/ (x \in Window \cup Editing /\ pc[q] \in Editing))
             => job'[p].id \in met' /\ job[q].id \in met'
  PROVE  Apart'
<1>1. pc' \in [Proc -> Place] /\ pc'[p] = x /\ \A q \in Proc : q # p => pc'[q] = pc[q]
  BY DEF Apart
<1>2. ASSUME NEW q \in Proc, pc'[q] \in Window PROVE lock' = q
  BY <1>1, <1>2
<1>3. ASSUME NEW q \in Proc, NEW r \in Proc, q # r, pc'[q] \in Editing, pc'[r] \in Window \cup Editing
      PROVE  job'[q].id \in met' /\ job'[r].id \in met'
  <2>1. CASE q = p
    BY <1>1, <1>3, <2>1
  <2>2. CASE r = p
    BY <1>1, <1>3, <2>2
  <2>3. CASE q # p /\ r # p
    BY <1>1, <1>3, <2>3 DEF Apart
  <2> QED BY <2>1, <2>2, <2>3
<1> QED BY <1>1, <1>2, <1>3 DEF Apart

\* A process goes on inside the lock or inside an unlocked rewrite, or is done with the file.
LEMMA StaysApart ==
  ASSUME Apart, NEW p \in Proc, NEW x \in Place, pc' = [pc EXCEPT ![p] = x],
         DOMAIN job' = Proc, DOMAIN base' = Proc, \A q \in Proc : q # p => job'[q] = job[q], UNCHANGED met,
         \/ x \notin Window \cup Editing
         \/ UNCHANGED lock /\ job'[p] = job[p]
            /\ ((pc[p] \in Window /\ x \in Window) \/ (pc[p] \in Editing /\ x \in Editing)),
         \A q \in Proc : q # p /\ pc[q] \in Window => lock' = q
  PROVE  Apart'
<1>1. Window \cap Editing = {}
  BY DEF Window, Editing
<1>2. x \in Window => lock' = p
  BY <1>1 DEF Apart
<1>3. ASSUME NEW q \in Proc, q # p,
             (x \in Editing /\ pc[q] \in Window) \/ (x \in Window \cup Editing /\ pc[q] \in Editing)
      PROVE  job'[p].id \in met' /\ job[q].id \in met'
  <2>1. pc[p] \in Window \cup Editing /\ pc[q] \in Window \cup Editing /\ job'[p] = job[p]
    BY <1>3
  <2> QED BY <1>3, <2>1, Together
<1> QED BY <1>2, <1>3, ComesApart

\* A process moves on, or leaves, and the file, its backup and what was written stay.
LEMMA MovesOn ==
  ASSUME SInv, NEW p \in Proc, NEW x \in Place, pc' = [pc EXCEPT ![p] = x],
         UNCHANGED <<file, onDisk, backup, tornBy, committed>>, open \ {p} \subseteq open',
         met \subseteq met', \A q \in Proc : q # p => job'[q] = job[q] /\ base'[q] = base[q],
         x \in Editing => Whole(file) \/ (pc[p] \in Editing /\ pc[p] # "truncated"),
         \A c : Told(c)' => Told(c), Apart', Holds(p)'
  PROVE  SInv'
<1>1. \A q \in Proc : q # p => pc'[q] = pc[q]
  BY DEF SInv, Apart
<1>2. \A d : Carries(d) => (Whole(d) => \A c : c \notin met' /\ (c \in committed' \/ Told(c)') => c \in d.seen)
  BY DEF Carries
<1>3. ASSUME NEW q \in Proc, q # p PROVE Holds(q)'
  <2>1. pc'[q] = pc[q] /\ job'[q] = job[q] /\ base'[q] = base[q] /\ Holds(q) /\ (q \in open => q \in open')
    BY <1>1, <1>3 DEF SInv
  <2>2. Carries(base[q]) => Carries(base[q])'
    BY <1>2, <2>1 DEF Carries, Whole
  <2>3. Undisturbed(q) => Undisturbed(q)'
    BY <2>1 DEF Undisturbed, Whole
  <2>4. pc[q] \in {"merged", "synced", "read", "backed", "truncated"} => Carries(base[q])'
    BY <2>1, <2>2 DEF Holds
  <2>5. job[q].id \notin met' => Undisturbed(q)'
    BY <2>1, <2>3 DEF Holds
  <2> QED BY <2>1, <2>4, <2>5 DEF Holds, Whole
<1>4. Carries(file)'
  BY <1>2 DEF SInv, Carries, Whole
<1>5. ToldIsKept'
  BY DEF SInv, ToldIsKept, Whole
<1>6. TornRests'
  <2> SUFFICES ASSUME ~Whole(file), tornBy.op \notin {"calibrate", "power"}, tornBy.id \notin met,
                      NEW q \in Proc, pc'[q] \in Editing
               PROVE  pc'[q] = "truncated"
    BY DEF TornRests, Whole
  <2>1. \A r \in Proc : pc[r] \in Editing => pc[r] = "truncated"
    BY DEF SInv, TornRests
  <2>2. pc'[p] = x
    BY DEF SInv, Apart
  <2> QED BY <1>1, <2>1, <2>2
<1>7. BackupCoversTorn'
  BY DEF SInv, BackupCoversTorn, Whole
<1> QED BY <1>3, <1>4, <1>5, <1>6, <1>7 DEF SInv

\* Every process is gone, and the file is one of those that may be on disk.
LEMMA AllGoneKeepsSInv ==
  ASSUME SInv, AllGone, file' \in onDisk, file' \in onDisk', onDisk' \subseteq onDisk,
         UNCHANGED <<backup, telemetry, met>>,
         (Whole(file') /\ committed' = file'.seen) \/ (~Whole(file') /\ tornBy'.op = "power")
           \/ UNCHANGED <<file, tornBy, committed>>
  PROVE  SInv'
<1>1. pc' = [p \in Proc |-> "idle"] /\ DOMAIN job' = Proc /\ DOMAIN base' = Proc
  BY DEF AllGone
<1>2. Apart' /\ \A p \in Proc : Holds(p)'
  BY <1>1, Away DEF Apart, Place, Window, Editing
<1>3. \A c : Told(c)' => Told(c)
  BY <1>1 DEF Told
<1>4. ToldIsKept'
  BY <1>3 DEF SInv, ToldIsKept, Whole
<1>5. Carries(file)'
  <2>1. Whole(file') => \A c : c \notin met /\ Told(c)' => c \in file'.seen
    BY <1>3 DEF SInv, ToldIsKept
  <2>2. Whole(file') => \A c : c \notin met /\ c \in committed' => c \in file'.seen
    BY DEF SInv, Carries
  <2> QED BY <2>1, <2>2 DEF Carries, Whole
<1>6. TornRests'
  BY <1>1 DEF TornRests, Editing
<1>7. BackupCoversTorn'
  BY DEF SInv, BackupCoversTorn, Whole
<1> QED BY <1>2, <1>4, <1>5, <1>6, <1>7 DEF SInv

\* Unless a process comes to record, the ledger tells of nothing new.
LEMMA NothingNew ==
  ASSUME Apart, NEW p \in Proc, NEW x, x # "record", pc' = [pc EXCEPT ![p] = x], UNCHANGED telemetry,
         \A q \in Proc : q # p => job'[q] = job[q]
  PROVE  \A c : Told(c)' => Told(c)
<1>1. pc'[p] # "record" /\ \A q \in Proc : q # p => pc'[q] = pc[q]
  BY DEF Apart
<1> QED BY <1>1 DEF Told

\* A process leaves with nothing.
LEMMA LeavesKeepsSInv ==
  ASSUME SInv, NEW p \in Proc, Gone(p), UNCHANGED <<file, onDisk, backup, tornBy, committed, met>>,
         open \ {p} \subseteq open', \A c : Told(c)' => Told(c), \A q \in Proc : q # p /\ pc[q] \in Window => lock' = q
  PROVE  SInv'
<1>1. pc' = [pc EXCEPT ![p] = "idle"]
  BY DEF Gone, At
<1>2. /\ DOMAIN job' = Proc /\ DOMAIN base' = Proc /\ "idle" \in Place /\ "idle" \notin Window \cup Editing
      /\ \A q \in Proc : q # p => job'[q] = job[q] /\ base'[q] = base[q]
  BY DEF Gone, SInv, Apart, Place, Window, Editing
<1>3. Apart'
  BY <1>1, <1>2, StaysApart DEF SInv
<1>4. Holds(p)'
  BY <1>1, Away DEF SInv, Apart
<1> QED BY <1>1, <1>2, <1>3, <1>4, MovesOn

LEMMA BeginKeepsSInv ==
  ASSUME SInv, NEW p \in Proc, NEW x \in {"ran", "loaded"}, At(p, x), NEW op, NEW result, NEW recipe,
         Begin(p, op, result, recipe),
         \/ x = "ran" /\ UNCHANGED met
         \/ x = "loaded" /\ Whole(file) /\ Meets(p, started + 1, Window \cup Editing)
  PROVE  SInv'
<1>1. /\ pc' = [pc EXCEPT ![p] = x]
      /\ UNCHANGED <<file, onDisk, backup, tornBy, lock, open, base, committed, telemetry>>
  BY DEF At, Begin
<1>2. /\ DOMAIN job' = Proc /\ DOMAIN base' = Proc /\ x \in Place /\ x # "record" /\ x \notin Window
      /\ x = "ran" => x \notin Editing
      /\ \A q \in Proc : q # p => job'[q] = job[q] /\ base'[q] = base[q]
  BY <1>1 DEF Begin, SInv, Apart, Place, Window, Editing
<1>3. \A q \in Proc : q # p /\ pc[q] \in Window => lock' = q
  BY <1>1 DEF SInv, Apart
<1>4. job'[p].id = started + 1
  BY DEF Begin, SInv, Apart
<1>5. /\ met \subseteq met'
      /\ x = "loaded" => \A q \in Proc : q # p /\ pc[q] \in Window \cup Editing =>
                           job'[p].id \in met' /\ job[q].id \in met'
  BY <1>4, MeetsAll
<1>6. Apart'
  BY <1>1, <1>2, <1>3, <1>5, ComesApart DEF SInv
<1>7. Holds(p)'
  <2>1. pc'[p] = x
    BY <1>1 DEF SInv, Apart
  <2> QED BY <1>1, <2>1 DEF Holds, Undisturbed, Whole
<1>8. \A c : Told(c)' => Told(c)
  BY <1>1, <1>2, NothingNew DEF SInv
<1>9. x \in Editing => Whole(file)
  BY <1>2
<1> QED BY <1>1, <1>2, <1>5, <1>6, <1>7, <1>8, <1>9, MovesOn

LEMMA StartKeepsSInv ==
  ASSUME SInv, NEW p \in Proc, StartDrill(p) \/ StartPinCheck(p) \/ StartIngest(p) \/ StartEdit(p)
  PROVE  SInv'
<1>1. CASE StartDrill(p)
  <2>1. At(p, "ran") /\ UNCHANGED met /\ \E r : Begin(p, "drill", r, file.recipe)
    BY <1>1 DEF StartDrill
  <2> QED BY <2>1, BeginKeepsSInv
<1>2. CASE StartPinCheck(p)
  <2>1. At(p, "ran") /\ UNCHANGED met /\ \E r : Begin(p, "pin", r, file.recipe)
    BY <1>2 DEF StartPinCheck
  <2> QED BY <2>1, BeginKeepsSInv
<1>3. CASE StartIngest(p)
  <2>1. At(p, "ran") /\ UNCHANGED met /\ \E r : Begin(p, "ingest", r, Fresh.recipe)
    BY <1>3 DEF StartIngest
  <2> QED BY <2>1, BeginKeepsSInv
<1>4. CASE StartEdit(p)
  <2>1. /\ At(p, "loaded") /\ Whole(file) /\ Meets(p, started + 1, Window \cup Editing)
        /\ \E op, r : Begin(p, op, r, file.recipe)
    BY <1>4 DEF StartEdit
  <2> QED BY <2>1, BeginKeepsSInv
<1> QED BY <1>1, <1>2, <1>3, <1>4

LEMMA LockKeepsSInv == ASSUME SInv, NEW p \in Proc, Lock(p) PROVE SInv'
<1>1. /\ pc' = [pc EXCEPT ![p] = "locked"] /\ lock = Nobody /\ lock' = p /\ Meets(p, job[p].id, Editing)
      /\ UNCHANGED <<file, onDisk, backup, tornBy, open, job, base, committed, telemetry>>
  BY DEF Lock, At
<1>2. "locked" \in Place /\ "locked" \notin Editing
  BY DEF Place, Window, Editing
<1>3. \A q \in Proc : pc[q] \notin Window
  BY <1>1, ProcAssumption DEF SInv, Apart
<1>4. DOMAIN job' = Proc /\ DOMAIN base' = Proc
  BY <1>1 DEF SInv, Apart
<1>5. met \subseteq met' /\ \A q \in Proc : q # p /\ pc[q] \in Editing => job'[p].id \in met' /\ job[q].id \in met'
  BY <1>1, MeetsAll
<1>6. Apart'
  BY <1>1, <1>2, <1>3, <1>4, <1>5, ComesApart DEF SInv
<1>7. Holds(p)'
  BY <1>1, Away DEF SInv, Apart
<1>8. \A c : Told(c)' => Told(c)
  BY <1>1, NothingNew DEF SInv
<1> QED BY <1>1, <1>2, <1>5, <1>6, <1>7, <1>8, MovesOn

\* A process goes on inside the lock, or inside an unlocked rewrite, up to the truncation.
LEMMA InsideKeepsSInv ==
  ASSUME SInv, NEW p \in Proc, NEW x \in Window \cup Editing, pc' = [pc EXCEPT ![p] = x],
         UNCHANGED <<file, onDisk, backup, tornBy, lock, open, committed, telemetry, met, job>>,
         (pc[p] \in Window /\ x \in Window) \/ (pc[p] \in Editing /\ pc[p] # "truncated" /\ x \in Editing),
         DOMAIN base' = Proc, \A q \in Proc : q # p => base'[q] = base[q], Holds(p)'
  PROVE  SInv'
<1>1. x \in Place /\ x # "record" /\ Window \cap Editing = {}
  BY DEF Place, Window, Editing
<1>2. DOMAIN job' = Proc /\ \A q \in Proc : q # p /\ pc[q] \in Window => lock' = q
  BY DEF SInv, Apart
<1>3. Apart'
  BY <1>1, <1>2, StaysApart DEF SInv
<1>4. \A c : Told(c)' => Told(c)
  BY <1>1, NothingNew DEF SInv
<1>5. x \in Editing => pc[p] \in Editing /\ pc[p] # "truncated"
  BY <1>1
<1> QED BY <1>1, <1>3, <1>4, <1>5, MovesOn

\* Upsert goes on, up to the rename.
LEMMA MergeKeepsSInv == ASSUME TornIsNone, SInv, NEW p \in Proc, Merge(p) \/ SyncTemp(p) PROVE SInv'
<1>1. UNCHANGED <<file, onDisk, backup, tornBy, lock, open, job, committed, telemetry, met>>
  BY DEF Merge, SyncTemp
<1>2. CASE Merge(p)
  <2>1. /\ pc' = [pc EXCEPT ![p] = "merged"] /\ pc[p] = "locked" /\ Whole(file)
        /\ base' = [base EXCEPT ![p] = Rewrite(file, job[p])]
    BY <1>2 DEF Merge, At
  <2>2. base'[p].seen = file.seen \cup {job[p].id} /\ Whole(base'[p]) /\ pc'[p] = "merged"
    BY <2>1, RewriteIsWhole DEF SInv, Apart
  <2>3. \A c : Told(c)' => Told(c)
    BY <1>1, <2>1, NothingNew DEF SInv
  <2>4. Carries(base[p])'
    BY <1>1, <2>1, <2>2, <2>3 DEF SInv, Carries, Whole
  <2>5. Holds(p)'
    BY <1>1, <2>2, <2>4 DEF Holds, Undisturbed, Whole
  <2>6. DOMAIN base' = Proc /\ \A q \in Proc : q # p => base'[q] = base[q]
    BY <1>1, <2>1 DEF SInv, Apart
  <2> QED BY <1>1, <2>1, <2>5, <2>6, InsideKeepsSInv DEF Window
<1>3. CASE SyncTemp(p)
  <2>1. pc' = [pc EXCEPT ![p] = "synced"] /\ pc[p] = "merged" /\ UNCHANGED base
    BY <1>3 DEF SyncTemp, At
  <2>2. pc'[p] = "synced" /\ Holds(p)
    BY <2>1 DEF SInv, Apart
  <2>3. \A c : Told(c)' => Told(c)
    BY <1>1, <2>1, NothingNew DEF SInv
  <2>4. Carries(base[p])'
    BY <1>1, <2>1, <2>2, <2>3 DEF Holds, Carries, Whole
  <2>5. Holds(p)'
    BY <1>1, <2>1, <2>2, <2>4 DEF Holds, Undisturbed, Whole
  <2>6. DOMAIN base' = Proc
    BY <1>1, <2>1 DEF SInv, Apart
  <2> QED BY <1>1, <2>1, <2>5, <2>6, InsideKeepsSInv DEF Window
<1> QED BY <1>2, <1>3

LEMMA ReadKeepsSInv == ASSUME SInv, NEW p \in Proc, Read(p) PROVE SInv'
<1>1. UNCHANGED <<file, onDisk, backup, tornBy, lock, open, job, committed, telemetry, met>>
  BY DEF Read
<1> DEFINE x == IF job[p].op = "calibrate" THEN "backed" ELSE "read"
<1>2. /\ pc' = [pc EXCEPT ![p] = x] /\ pc[p] = "loaded" /\ base' = [base EXCEPT ![p] = file]
  BY DEF Read, At
<1>3. pc'[p] = x /\ base'[p] = file /\ (job[p].id \notin met => Whole(file))
  BY <1>2 DEF SInv, Apart, Holds, Undisturbed
<1>4. \A c : Told(c)' => Told(c)
  BY <1>1, <1>2, NothingNew DEF SInv
<1>5. Carries(base[p])'
  BY <1>1, <1>3, <1>4 DEF SInv, Carries, Whole
<1>6. Holds(p)'
  BY <1>1, <1>3, <1>5 DEF Holds, Undisturbed, Whole
<1>7. DOMAIN base' = Proc /\ \A q \in Proc : q # p => base'[q] = base[q]
  BY <1>1, <1>2 DEF SInv, Apart
<1>8. x \in Editing /\ pc[p] \in Editing /\ pc[p] # "truncated"
  BY <1>2 DEF Editing
<1> HIDE DEF x
<1> QED BY <1>1, <1>2, <1>6, <1>7, <1>8, InsideKeepsSInv

\* What a process does to the file or the backup disturbs only those it has met.
LEMMA OthersHold ==
  ASSUME SInv, NEW p \in Proc, pc[p] \in Window \cup Editing, NEW q \in Proc, q # p,
         pc'[q] = pc[q], job'[q] = job[q], base'[q] = base[q], UNCHANGED met,
         \A c : c \in committed' \/ Told(c)' => c \in committed \/ Told(c) \/ c = job[p].id
  PROVE  Holds(q)'
<1>1. CASE pc[q] \in Window \cup Editing
  <2>1. job[p].id \in met /\ job[q].id \in met /\ Holds(q)
    BY <1>1, Together DEF SInv
  <2>2. Carries(base[q]) => Carries(base[q])'
    BY <2>1 DEF Carries, Whole
  <2> QED BY <2>1, <2>2 DEF Holds, Whole
<1>2. CASE pc[q] \notin Window \cup Editing
  BY <1>2 DEF Holds, Undisturbed, Window, Editing
<1> QED BY <1>1, <1>2

LEMMA BackupKeepsSInv == ASSUME SInv, NEW p \in Proc, Backup(p) PROVE SInv'
<1>1. /\ pc' = [pc EXCEPT ![p] = "backed"] /\ pc[p] = "read" /\ backup' = base[p]
      /\ UNCHANGED <<file, onDisk, tornBy, lock, open, job, base, committed, telemetry, met>>
  BY DEF Backup, At
<1>2. pc'[p] = "backed" /\ \A q \in Proc : q # p => pc'[q] = pc[q]
  BY <1>1 DEF SInv, Apart
<1>3. "backed" \in Place /\ "backed" \in Editing /\ pc[p] \in Editing
  BY <1>1 DEF Place, Editing
<1>4. Apart'
  <2>1. DOMAIN job' = Proc /\ DOMAIN base' = Proc /\ \A q \in Proc : q # p /\ pc[q] \in Window => lock' = q
    BY <1>1 DEF SInv, Apart
  <2> QED BY <1>1, <1>3, <2>1, StaysApart DEF SInv
<1>5. \A c : Told(c)' => Told(c)
  BY <1>1, NothingNew DEF SInv
<1>6. ASSUME NEW d, Carries(d) PROVE Whole(d) => \A c : c \notin met' /\ (c \in committed' \/ Told(c)') => c \in d.seen
  BY <1>1, <1>5, <1>6 DEF Carries
<1>7. Holds(p)'
  <2>1. Holds(p) /\ Carries(base[p])
    BY <1>1 DEF SInv, Holds
  <2>2. Carries(base[p])'
    BY <1>1, <1>6, <2>1 DEF Carries, Whole
  <2> QED BY <1>1, <1>2, <2>1, <2>2 DEF Holds, Undisturbed, Whole
<1>8. \A q \in Proc : q # p => Holds(q)'
  BY <1>1, <1>2, <1>3, <1>5, OthersHold
<1>9. Carries(file)' /\ ToldIsKept'
  BY <1>1, <1>5, <1>6 DEF SInv, Carries, ToldIsKept, Whole
<1>10. TornRests' /\ BackupCoversTorn'
  <2>1. Whole(file) \/ tornBy.op \in {"calibrate", "power"} \/ tornBy.id \in met
    BY <1>1, <1>3 DEF SInv, TornRests
  <2> QED BY <1>1, <2>1 DEF TornRests, BackupCoversTorn, Whole
<1> QED BY <1>4, <1>7, <1>8, <1>9, <1>10 DEF SInv

LEMMA RenameKeepsSInv == ASSUME SInv, NEW p \in Proc, Rename(p) PROVE SInv'
<1>1. /\ pc[p] = "synced" /\ pc' = [pc EXCEPT ![p] = "renamed"] /\ file' = base[p] /\ onDisk' = onDisk \cup {base[p]}
      /\ committed' = committed \cup {job[p].id}
      /\ UNCHANGED <<backup, lock, job, base, telemetry, met>>
  BY DEF Rename, At
<1>2. Whole(base[p]) /\ job[p].id \in base[p].seen /\ Carries(base[p])
  BY <1>1 DEF SInv, Holds
<1>3. pc'[p] = "renamed" /\ \A q \in Proc : q # p => pc'[q] = pc[q]
  BY <1>1 DEF SInv, Apart
<1>4. "renamed" \in Place /\ "renamed" \in Window /\ pc[p] \in Window
  BY <1>1 DEF Place, Window
<1>5. Apart'
  <2>1. DOMAIN job' = Proc /\ DOMAIN base' = Proc /\ \A q \in Proc : q # p /\ pc[q] \in Window => lock' = q
    BY <1>1 DEF SInv, Apart
  <2> QED BY <1>1, <1>4, <2>1, StaysApart DEF SInv
<1>6. \A c : Told(c)' => Told(c)
  BY <1>1, NothingNew DEF SInv
<1>7. Holds(p)'
  BY <1>1, <1>2, <1>3 DEF Holds, Undisturbed, Whole
<1>8. \A q \in Proc : q # p => Holds(q)'
  BY <1>1, <1>3, <1>4, <1>6, OthersHold
<1>9. Carries(file)'
  BY <1>1, <1>2, <1>6 DEF Carries, Whole
<1>10. ToldIsKept'
  <2>1. \A c : c \notin met /\ Told(c) => c \in base[p].seen
    BY <1>2 DEF Carries
  <2> QED BY <1>1, <1>6, <2>1 DEF SInv, ToldIsKept, Whole
<1>11. TornRests' /\ BackupCoversTorn'
  BY <1>1, <1>2 DEF TornRests, BackupCoversTorn, Whole
<1> QED BY <1>5, <1>7, <1>8, <1>9, <1>10, <1>11 DEF SInv

\* Once the name is on disk nothing older can come back, so it may be told.
LEMMA SyncKeepsSInv == ASSUME SInv, NEW p \in Proc, SyncDirectory(p) PROVE SInv'
<1>1. /\ pc[p] = "renamed" /\ pc' = [pc EXCEPT ![p] = "record"]
      /\ onDisk' = (IF file = base[p] THEN {file} ELSE onDisk) /\ lock' = Nobody
      /\ UNCHANGED <<file, backup, tornBy, open, job, base, committed, telemetry, met>>
  BY DEF SyncDirectory, At
<1>2. /\ job[p].id \in base[p].seen /\ (job[p].id \notin met => file = base[p])
      /\ file \in onDisk /\ file \in onDisk' /\ onDisk' \subseteq onDisk
  BY <1>1 DEF SInv, Holds, Undisturbed, ToldIsKept
<1>3. pc'[p] = "record" /\ \A q \in Proc : q # p => pc'[q] = pc[q]
  BY <1>1 DEF SInv, Apart
<1>4. "record" \in Place /\ "record" \notin Window /\ "record" \notin Editing /\ pc[p] \in Window
  BY <1>1 DEF Place, Window, Editing
<1>5. Apart'
  <2>1. DOMAIN job' = Proc /\ DOMAIN base' = Proc /\ \A q \in Proc : q # p => pc[q] \notin Window
    BY <1>1, <1>4 DEF SInv, Apart
  <2> QED BY <1>1, <1>4, <2>1, StaysApart DEF SInv
<1>6. \A c : Told(c)' => Told(c) \/ c = job[p].id
  BY <1>1, <1>3 DEF Told
<1>7. \A q \in Proc : Holds(q)'
  <2>1. Holds(p)'
    BY <1>3, Away
  <2>2. ASSUME NEW q \in Proc, q # p PROVE Holds(q)'
    BY <1>1, <1>3, <1>4, <1>6, <2>2, OthersHold
  <2> QED BY <2>1, <2>2
<1>8. Carries(file)'
  BY <1>1, <1>2, <1>6 DEF SInv, Carries, Whole
<1>9. ToldIsKept'
  <2>1. CASE job[p].id \in met
    BY <1>1, <1>2, <1>6, <2>1 DEF SInv, ToldIsKept, Whole
  <2>2. CASE job[p].id \notin met
    BY <1>1, <1>2, <1>6, <2>2 DEF SInv, ToldIsKept, Whole
  <2> QED BY <2>1, <2>2
<1>10. TornRests'
  BY <1>1, <1>3, <1>4 DEF SInv, TornRests, Whole
<1>11. BackupCoversTorn'
  BY <1>1 DEF SInv, BackupCoversTorn, Whole
<1> QED BY <1>5, <1>7, <1>8, <1>9, <1>10, <1>11 DEF SInv

LEMMA TruncateKeepsSInv == ASSUME SInv, NEW p \in Proc, Truncate(p) PROVE SInv'
<1>1. /\ pc[p] = "backed" /\ pc' = [pc EXCEPT ![p] = "truncated"] /\ file' = Torn /\ onDisk' = onDisk \cup {Torn}
      /\ tornBy'.op = job[p].op /\ tornBy'.id = job[p].id /\ open' = open \cup {p}
      /\ UNCHANGED <<backup, lock, job, base, committed, telemetry, met>>
  BY DEF Truncate, At
<1>2. /\ Carries(base[p])
      /\ job[p].id \notin met => Whole(base[p]) /\ (job[p].op # "calibrate" => backup = base[p])
  BY <1>1 DEF SInv, Holds, Undisturbed
<1>3. pc'[p] = "truncated" /\ \A q \in Proc : q # p => pc'[q] = pc[q]
  BY <1>1 DEF SInv, Apart
<1>4. "truncated" \in Place /\ "truncated" \in Editing /\ pc[p] \in Editing
  BY <1>1 DEF Place, Editing
<1>5. Apart'
  <2>1. DOMAIN job' = Proc /\ DOMAIN base' = Proc /\ \A q \in Proc : q # p /\ pc[q] \in Window => lock' = q
    BY <1>1 DEF SInv, Apart
  <2> QED BY <1>1, <1>4, <2>1, StaysApart DEF SInv
<1>6. \A c : Told(c)' => Told(c)
  BY <1>1, NothingNew DEF SInv
<1>7. Holds(p)'
  <2>1. Carries(base[p])'
    BY <1>1, <1>2, <1>6 DEF Carries, Whole
  <2>2. job[p].id \notin met => Undisturbed(p)'
    BY <1>1, <1>2, <1>3 DEF Undisturbed, Whole
  <2> QED BY <1>1, <1>3, <2>1, <2>2 DEF Holds
<1>8. \A q \in Proc : q # p => Holds(q)'
  BY <1>1, <1>3, <1>4, <1>6, OthersHold
<1>9. Carries(file)' /\ ToldIsKept'
  BY <1>1, <1>6 DEF SInv, Carries, ToldIsKept, Whole
<1>10. TornRests'
  <2> SUFFICES ASSUME job[p].id \notin met, NEW q \in Proc, q # p, pc[q] \in Editing PROVE FALSE
    BY <1>1, <1>3 DEF TornRests
  <2> QED BY <1>4, Together DEF SInv
<1>11. BackupCoversTorn'
  BY <1>1, <1>2 DEF BackupCoversTorn, Carries, Whole
<1> QED BY <1>5, <1>7, <1>8, <1>9, <1>10, <1>11 DEF SInv

LEMMA PutKeepsSInv == ASSUME TornIsNone, SInv, NEW p \in Proc, Put(p) PROVE SInv'
<1> DEFINE x == IF job[p].op \in {"accept", "clear"} THEN "record" ELSE "idle"
<1>1. /\ pc[p] = "truncated" /\ pc' = [pc EXCEPT ![p] = x] /\ onDisk' = onDisk \cup {file'}
      /\ committed' = committed \cup {job[p].id} /\ UNCHANGED <<backup, lock, telemetry, met>>
  BY DEF Put, At
<1>2. /\ Carries(base[p])
      /\ job[p].id \notin met => ~Whole(file) /\ p \in open /\ Whole(base[p])
  BY <1>1 DEF SInv, Holds, Undisturbed
<1>3. /\ file' \in {file, Torn} \/ (Whole(base[p]) /\ file' = Rewrite(base[p], job[p]))
      /\ job[p].id \notin met => Whole(base[p]) /\ file' = Rewrite(base[p], job[p])
      /\ ~Whole(file') => (tornBy'.id = job[p].id /\ job[p].id \in met) \/ (file' = file /\ tornBy' = tornBy)
  <2>1. Whole(Rewrite(base[p], job[p]))
    BY RewriteIsWhole
  <2> QED BY <1>2, <2>1 DEF Put, Whole
<1>4. pc'[p] = x /\ \A q \in Proc : q # p => pc'[q] = pc[q]
  BY <1>1 DEF SInv, Apart
<1>5. /\ DOMAIN job' = Proc /\ DOMAIN base' = Proc
      /\ \A q \in Proc : q # p => job'[q] = job[q] /\ base'[q] = base[q]
      /\ x = "record" => job'[p] = job[p]
  BY DEF Put, SInv, Apart
<1>6. x \in Place /\ x \notin Window /\ x \notin Editing /\ x \in {"record", "idle"} /\ pc[p] \in Editing
  BY <1>1 DEF Place, Window, Editing
<1>7. x = "record" => job[p].op \notin Upserts
  BY DEF Upserts
<1> HIDE DEF x
<1>8. Apart'
  <2>1. \A q \in Proc : q # p /\ pc[q] \in Window => lock' = q
    BY <1>1 DEF SInv, Apart
  <2> QED BY <1>1, <1>5, <1>6, <2>1, StaysApart DEF SInv
<1>9. ASSUME NEW c, Told(c)' PROVE Told(c)
  <2>1. CASE \E t \in telemetry' : t[1] \in Upserts /\ t[2] = c
    BY <1>1, <2>1 DEF Told
  <2>2. CASE \E q \in Proc : pc'[q] = "record" /\ job'[q].op \in Upserts /\ job'[q].id = c
    <3>1. PICK q \in Proc : pc'[q] = "record" /\ job'[q].op \in Upserts /\ job'[q].id = c
      BY <2>2
    <3>2. q # p
      BY <1>4, <1>5, <1>7, <3>1
    <3> QED BY <1>4, <1>5, <3>1, <3>2 DEF Told
  <2> QED BY <1>9, <2>1, <2>2 DEF Told
<1>10. \A q \in Proc : Holds(q)'
  <2>1. Holds(p)'
    BY <1>4, <1>6, Away
  <2>2. ASSUME NEW q \in Proc, q # p PROVE Holds(q)'
    BY <1>1, <1>4, <1>5, <1>6, <1>9, <2>2, OthersHold
  <2> QED BY <2>1, <2>2
<1>11. Carries(file') /\ (Whole(file') => \A c : c \notin met /\ c \in committed' => c \in file'.seen)
  <2>1. Whole(base[p]) /\ file' = Rewrite(base[p], job[p]) => file'.seen = base[p].seen \cup {job[p].id}
    BY RewriteIsWhole
  <2>2. Whole(base[p]) /\ file' = Rewrite(base[p], job[p]) => Carries(file')
    BY <1>2, <2>1 DEF Carries
  <2>3. file' \in {file, Torn} => Carries(file')
    BY DEF SInv, Carries, Whole
  <2>4. Carries(file')
    BY <1>3, <2>2, <2>3
  <2>5. job[p].id \in met \/ job[p].id \in file'.seen
    BY <1>3, <2>1
  <2> QED BY <1>1, <2>4, <2>5 DEF Carries
<1>12. Carries(file)'
  BY <1>1, <1>9, <1>11 DEF Carries, Whole
<1>13. ToldIsKept'
  <2>1. Whole(file') => \A c : c \notin met /\ Told(c) => c \in file'.seen
    BY <1>11 DEF Carries
  <2> QED BY <1>1, <1>9, <2>1 DEF SInv, ToldIsKept, Whole
<1>14. TornRests'
  <2> SUFFICES ASSUME ~Whole(file'), tornBy'.op \notin {"calibrate", "power"}, tornBy'.id \notin met,
                      NEW q \in Proc, pc'[q] \in Editing
               PROVE  pc'[q] = "truncated"
    BY <1>1 DEF TornRests, Whole
  <2>1. q # p /\ pc'[q] = pc[q] /\ file' = file /\ tornBy' = tornBy
    BY <1>3, <1>4, <1>6
  <2> QED BY <2>1 DEF SInv, TornRests
<1>15. BackupCoversTorn'
  <2> SUFFICES ASSUME ~Whole(file'), tornBy'.op \notin {"calibrate", "power"}, tornBy'.id \notin met
               PROVE  Whole(backup) /\ committed' \ met \subseteq backup.seen
    BY <1>1 DEF BackupCoversTorn, Whole
  <2>1. file' = file /\ tornBy' = tornBy
    BY <1>3
  <2>2. job[p].id \in met
    <3>1. Whole(Rewrite(base[p], job[p]))
      BY RewriteIsWhole
    <3> QED BY <1>3, <3>1
  <2> QED BY <1>1, <2>1, <2>2 DEF SInv, BackupCoversTorn
<1> QED BY <1>8, <1>10, <1>12, <1>13, <1>14, <1>15 DEF SInv

\* Errors, the ledger entry, nothing to write, death.
LEMMA LeaveKeepsSInv ==
  ASSUME SInv, NEW p \in Proc,
         \/ RefuseTorn(p) \/ ReplaceFails(p) \/ SyncDirectoryFails(p)
         \/ RecordTelemetry(p) \/ NothingWritten(p) \/ Kill(p)
  PROVE  SInv'
<1>1. Gone(p) /\ UNCHANGED <<file, onDisk, backup, tornBy, committed, met>> /\ open \ {p} \subseteq open'
  BY DEF RefuseTorn, ReplaceFails, SyncDirectoryFails, Abandon, RecordTelemetry, NothingWritten, Kill
<1>2. pc' = [pc EXCEPT ![p] = "idle"] /\ \A q \in Proc : q # p => job'[q] = job[q]
  BY <1>1 DEF Gone, At, SInv, Apart
<1>3. CASE RefuseTorn(p) \/ ReplaceFails(p) \/ SyncDirectoryFails(p)
  <2>1. pc[p] \in Window /\ UNCHANGED telemetry
    BY <1>3 DEF RefuseTorn, ReplaceFails, SyncDirectoryFails, Abandon, Window
  <2>2. \A q \in Proc : q # p => pc[q] \notin Window
    BY <2>1 DEF SInv, Apart
  <2>3. \A c : Told(c)' => Told(c)
    BY <1>2, <2>1, NothingNew DEF SInv
  <2> QED BY <1>1, <2>2, <2>3, LeavesKeepsSInv
<1>4. CASE RecordTelemetry(p)
  <2>1. /\ pc[p] = "record" /\ UNCHANGED lock
        /\ telemetry' \in {telemetry, telemetry \cup {<<job[p].op, job[p].id>>}}
    BY <1>4 DEF RecordTelemetry
  <2>2. ASSUME NEW c, Told(c)' PROVE Told(c)
    <3>1. CASE \E t \in telemetry' : t[1] \in Upserts /\ t[2] = c
      <4>1. PICK t \in telemetry' : t[1] \in Upserts /\ t[2] = c
        BY <3>1
      <4>2. CASE t \in telemetry
        BY <4>1, <4>2 DEF Told
      <4>3. CASE t = <<job[p].op, job[p].id>>
        BY <2>1, <4>1, <4>3 DEF Told
      <4> QED BY <2>1, <4>1, <4>2, <4>3
    <3>2. CASE \E q \in Proc : pc'[q] = "record" /\ job'[q].op \in Upserts /\ job'[q].id = c
      <4>1. PICK q \in Proc : pc'[q] = "record" /\ job'[q].op \in Upserts /\ job'[q].id = c
        BY <3>2
      <4>2. q # p /\ pc[q] = "record" /\ job'[q] = job[q]
        BY <1>2, <4>1 DEF SInv, Apart
      <4> QED BY <4>1, <4>2 DEF Told
    <3> QED BY <2>2, <3>1, <3>2 DEF Told
  <2>3. \A q \in Proc : q # p /\ pc[q] \in Window => lock' = q
    BY <2>1 DEF SInv, Apart
  <2> QED BY <1>1, <2>2, <2>3, LeavesKeepsSInv
<1>5. CASE NothingWritten(p) \/ Kill(p)
  <2>1. UNCHANGED telemetry
    BY <1>5 DEF NothingWritten, Kill
  <2>2. \A q \in Proc : q # p /\ pc[q] \in Window => lock' = q
    BY <1>5 DEF NothingWritten, Kill, SInv, Apart
  <2>3. \A c : Told(c)' => Told(c)
    BY <1>2, <2>1, NothingNew DEF SInv
  <2> QED BY <1>1, <2>2, <2>3, LeavesKeepsSInv
<1> QED BY <1>3, <1>4, <1>5

LEMMA NextSInv == ASSUME TornIsNone, SInv, [Next]_vars PROVE SInv'
<1>1. ASSUME NEW p \in Proc, Upserting(p) PROVE SInv'
  BY <1>1, StartKeepsSInv, LockKeepsSInv, MergeKeepsSInv, RenameKeepsSInv, SyncKeepsSInv, LeaveKeepsSInv
     DEF Upserting
<1>2. ASSUME NEW p \in Proc, EditingInPlace(p) \/ Kill(p) PROVE SInv'
  BY <1>2, StartKeepsSInv, ReadKeepsSInv, BackupKeepsSInv, TruncateKeepsSInv, PutKeepsSInv, LeaveKeepsSInv
     DEF EditingInPlace
<1>3. CASE PowerCut
  <2>1. /\ AllGone /\ file' \in onDisk /\ onDisk' = {file'} /\ UNCHANGED <<backup, telemetry, met>>
        /\ tornBy' = IF Whole(file') THEN Untorn ELSE Power
        /\ committed' = IF Whole(file') THEN file'.seen ELSE committed
    BY <1>3 DEF PowerCut
  <2>2. Power.op = "power"
    BY DEF Power
  <2> QED BY <2>1, <2>2, AllGoneKeepsSInv
<1>4. CASE Reinstall
  <2>1. AllGone /\ UNCHANGED <<file, onDisk, backup, tornBy, committed, telemetry, met>>
    BY <1>4 DEF Reinstall
  <2>2. file \in onDisk
    BY DEF SInv, ToldIsKept
  <2> QED BY <2>1, <2>2, AllGoneKeepsSInv
<1>5. CASE UNCHANGED vars
  <2>1. UNCHANGED <<file, onDisk, backup, tornBy, lock, open, pc, job, base, committed, telemetry, met>>
    BY <1>5 DEF vars, control
  <2>2. \A c : Told(c)' <=> Told(c)
    BY <2>1 DEF Told
  <2>3. \A d : Carries(d)' <=> Carries(d)
    BY <2>1, <2>2 DEF Carries, Whole
  <2> QED BY <2>1, <2>2, <2>3
      DEF SInv, Apart, Holds, Undisturbed, Carries, ToldIsKept, TornRests, BackupCoversTorn, Whole
<1> QED BY <1>1, <1>2, <1>3, <1>4, <1>5 DEF Next

\* Locked and unlocked writers together, through any failure: a document in the file was
\* made from every rewrite that reached it, but those that an unlocked rewrite overlapped.
THEOREM NoUpdateLost ==
  ASSUME TornIsNone
  PROVE  Spec => []NoLostUpdate
<1>1. SInv => NoLostUpdate
  BY DEF SInv, Carries, NoLostUpdate
<1> QED BY <1>1, InitSInv, NextSInv, PTL DEF Spec

\* What the ledger says a drill, a pin check or an ingestion recorded is in the file, with
\* the same exception: the entry comes after the rewrite is on disk (proofstore.go).
THEOREM TelemetryIsBacked ==
  ASSUME TornIsNone
  PROVE  Spec => []TelemetryBacked
<1>1. SInv => TelemetryBacked
  <2> SUFFICES ASSUME SInv, NEW t \in telemetry, t[1] \in Upserts, Whole(file), t[2] \notin met
               PROVE  t[2] \in file.seen
    BY DEF TelemetryBacked
  <2> QED BY DEF SInv, ToldIsKept, Told
<1> QED BY <1>1, InitSInv, NextSInv, PTL DEF Spec

\* A process that dies while it writes the file in place, and has met nobody, leaves a
\* backup with every rewrite that reached the file (backupAndDecode), calibrate excepted.
THEOREM TornHasBackup ==
  ASSUME TornIsNone
  PROVE  Spec => []BackupCoversTorn
<1>1. SInv => BackupCoversTorn
  BY DEF SInv
<1> QED BY <1>1, InitSInv, NextSInv, PTL DEF Spec

-----------------------------------------------------------------------------
(* Types.  A recipe is at most one more than the commands a document has, and *)
(* stays within bounds because no command is in a document twice.           *)

\* A document tells of some of the first n commands, and was calibrated by no more.
Sized(d, n) ==
  /\ d \in [proof : [Proof -> Record], recipe : [Proof -> Recipe], seen : SUBSET (1..n)]
  /\ \A q \in Proof : d.recipe[q] <= 1 + Cardinality(d.seen)

\* Of the commands that are still coming, a document has none but ids.
Fits(d, ids, n, coming) == Whole(d) => Sized(d, n) /\ d.seen \cap coming \subseteq ids

\* The commands that have yet to reach the file.
Ahead  == {"ran", "locked", "merged", "synced", "loaded", "read", "backed", "truncated"}
Coming == {job[p].id : p \in {q \in Proc : pc[q] \in Ahead}}

\* The document that a process is about to put in place has its own command.
Own(p) == IF pc[p] \in {"merged", "synced"} THEN {job[p].id} ELSE {}

Documents ==
  /\ Fits(file, {}, started, Coming) /\ Fits(backup, {}, started, Coming)
  /\ \A d \in onDisk : Fits(d, {}, started, Coming)
  /\ DOMAIN base = Proc /\ \A p \in Proc : Fits(base[p], Own(p), started, Coming)
  /\ \A p \in Proc : pc[p] \in {"merged", "synced"} => Whole(base[p])

\* The commands under way have numbers of their own.
Commands ==
  /\ started \in 0..MaxOps /\ pc \in [Proc -> Place] /\ job \in [Proc -> Job]
  /\ \A p \in Proc : /\ job[p].id <= started /\ (pc[p] # "idle" => job[p].id # 0)
                     /\ pc[p] \in Editing => job[p].op \in Edits
  /\ \A p, q \in Proc : pc[p] # "idle" /\ pc[q] # "idle" /\ p # q => job[p].id # job[q].id

Entries == \A t \in telemetry : \E op \in Upserts \cup Edits, i \in 1..started : t = <<op, i>>

\* A torn file has been torn by something.
Cause == tornBy \in Torer /\ (tornBy = Untorn <=> Whole(file))

Held == base = [p \in Proc |-> base[p]]

Others ==
  /\ file \in onDisk /\ Cause
  /\ lock \in Proc \cup {Nobody} /\ open \subseteq Proc
  /\ epoch \in Epoch /\ committed \subseteq 1..started
  /\ Entries /\ Held

TInv == Documents /\ Commands /\ Others

\* What tore the file, and that nothing did, are told apart.
LEMMA TorerTyped ==
  /\ Untorn \in Torer /\ Power \in Torer /\ Power # Untorn
  /\ \A id \in 0..MaxOps, op \in Edits : [id |-> id, op |-> op] \in Torer /\ [id |-> id, op |-> op] # Untorn
<1>1. 0 \in 0..MaxOps
  BY BoundAssumption
<1>2. Untorn.op = "none" /\ Power.op = "power" /\ "none" \notin Edits
  BY DEF Untorn, Power, Edits
<1> QED BY <1>1, <1>2 DEF Torer, Untorn, Power

LEMMA FreshSized == ASSUME NEW n \in Nat, n <= MaxOps PROVE Sized(Fresh, n)
<1>1. Blank \in Record
  BY DEF Blank, Record, Status
<1>2. 1 \in Recipe
  BY BoundAssumption DEF Recipe
<1>3. Cardinality({}) = 0
  BY FS_EmptySet
<1> QED BY <1>1, <1>2, <1>3 DEF Fresh, Sized

LEMMA NoJobTyped == NoJob \in Job /\ NoJob.id = 0
<1>1. NoJob.recipe \in [Proof -> Recipe]
  BY BoundAssumption DEF NoJob, Fresh, Recipe
<1>2. NoJob.result \in [{} -> Status] /\ {} \in SUBSET Proof
  BY DEF NoJob
<1>3. NoJob.result \in UNION {[S -> Status] : S \in SUBSET Proof}
  BY <1>2
<1>4. /\ NoJob = [id |-> NoJob.id, op |-> NoJob.op, result |-> NoJob.result, recipe |-> NoJob.recipe]
      /\ NoJob.id = 0 /\ NoJob.op \in Edits
  BY DEF NoJob, Edits
<1>5. NoJob.id \in 0..MaxOps
  BY <1>4, BoundAssumption
<1> QED BY <1>1, <1>3, <1>4, <1>5 DEF Job

\* What a document fits it fits later.
LEMMA StillFits ==
  ASSUME NEW d, NEW ids, NEW n \in Nat, NEW c, Fits(d, ids, n, c), NEW m \in Nat, n <= m,
         NEW b, \A i \in b : i \in c \/ i > n
  PROVE  Fits(d, ids, m, b)
<1> SUFFICES ASSUME Whole(d) PROVE Sized(d, m) /\ d.seen \cap b \subseteq ids
  BY DEF Fits
<1>1. Sized(d, n) /\ d.seen \cap c \subseteq ids
  BY DEF Fits
<1>2. d.seen \in SUBSET (1..n)
  BY <1>1 DEF Sized
<1>3. d.seen \in SUBSET (1..m)
  BY <1>2
<1>4. Sized(d, m)
  BY <1>1, <1>3 DEF Sized
<1>5. d.seen \cap b \subseteq ids
  BY <1>1, <1>2
<1> QED BY <1>4, <1>5

\* A command that has arrived is one of the document's.
LEMMA ArrivedFits ==
  ASSUME NEW d, NEW i, NEW n, NEW c, Fits(d, {i}, n, c), NEW b, b \subseteq c \ {i}
  PROVE  Fits(d, {}, n, b)
BY DEF Fits

\* A command leaves a document that it was not in with one number and at most
\* one calibration more.
LEMMA RewriteFits ==
  ASSUME NEW n \in 0..MaxOps, NEW j \in Job, j.id \in 1..n, NEW c, j.id \in c, epoch \in Epoch,
         NEW d, Whole(d), Fits(d, {}, n, c)
  PROVE  Fits(Rewrite(d, j), {j.id}, n, c)
<1> DEFINE e == Rewrite(d, j)
<1>1. Sized(d, n) /\ d.seen \cap c = {}
  BY DEF Fits
<1>2. e.seen = d.seen \cup {j.id}
  BY DEF Rewrite
<1>3. Cardinality(e.seen) = Cardinality(d.seen) + 1 /\ Cardinality(d.seen) \in Nat /\ Cardinality(e.seen) <= n
  <2>1. n \in Nat /\ d.seen \subseteq 1..n /\ j.id \notin d.seen /\ e.seen \subseteq 1..n
    BY <1>1, <1>2, BoundAssumption DEF Sized
  <2>2. IsFiniteSet(1..n) /\ Cardinality(1..n) = n
    BY <2>1, FS_Interval
  <2>3. IsFiniteSet(d.seen) /\ IsFiniteSet(e.seen) /\ Cardinality(e.seen) <= Cardinality(1..n)
    BY <2>1, <2>2, FS_Subset
  <2>4. Cardinality(d.seen \cup {j.id}) = Cardinality(d.seen) + 1
    BY <2>1, <2>3, FS_AddElement
  <2>5. Cardinality(d.seen) \in Nat
    BY <2>3, FS_CardinalityType
  <2> QED BY <1>2, <2>2, <2>3, <2>4, <2>5
<1>4. ASSUME NEW q \in Proof PROVE e.proof[q] \in Record
  <2>1. d.proof[q] \in Record
    BY <1>1 DEF Sized
  <2>2. CASE q \notin DOMAIN j.result
    BY <2>1, <2>2 DEF Rewrite
  <2>3. CASE q \in DOMAIN j.result /\ j.op \in Upserts
    <3>1. e.proof[q] = Evidence(d.proof[q], j, q)
      <4>1. j.op # "accept" /\ j.op # "clear"
        BY <2>3 DEF Upserts
      <4> QED BY <2>3, <4>1 DEF Rewrite
    <3>2. j.result[q] \in Status /\ j.recipe[q] \in Recipe
      BY <2>3 DEF Job
    <3> DEFINE r == d.proof[q]
    <3>3. r \in Record
      BY <2>1
    <3> HIDE DEF r
    <3>4. Evidence(r, j, q) \in Record
      BY <3>2, <3>3 DEF Evidence, Record
    <3> HIDE DEF e
    <3> QED BY <3>1, <3>4 DEF r
  <2>4. CASE q \in DOMAIN j.result /\ j.op = "accept"
    <3>1. e.proof[q] = Accepted(d.proof[q])
      BY <2>4 DEF Rewrite, Upserts
    <3> HIDE DEF e
    <3> QED BY <2>1, <3>1 DEF Accepted, Record
  <2>5. CASE q \in DOMAIN j.result /\ j.op = "clear"
    <3>1. e.proof[q] = Cleared(d.proof[q])
      BY <2>5 DEF Rewrite, Upserts
    <3> HIDE DEF e
    <3> QED BY <2>1, <3>1 DEF Cleared, Record
  <2>6. CASE j.op \notin Upserts \cup {"accept", "clear"}
    BY <2>1, <2>6 DEF Rewrite
  <2> QED BY <2>2, <2>3, <2>4, <2>5, <2>6
<1>5. ASSUME NEW q \in Proof PROVE e.recipe[q] \in Recipe /\ e.recipe[q] <= 1 + Cardinality(e.seen)
  <2>1. d.recipe[q] \in Recipe /\ d.recipe[q] <= 1 + Cardinality(d.seen)
    BY <1>1 DEF Sized
  <2>2. e.recipe[q] \in {d.recipe[q], d.recipe[q] + 1}
    BY DEF Rewrite
  <2> HIDE DEF e
  <2> QED BY <1>3, <2>1, <2>2, BoundAssumption DEF Recipe
<1>6. e \in [proof : [Proof -> Record], recipe : [Proof -> Recipe], seen : SUBSET (1..n)]
  <2>1. e.proof \in [Proof -> Record] /\ e.recipe \in [Proof -> Recipe]
    BY <1>4, <1>5 DEF Rewrite
  <2>2. e.seen \in SUBSET (1..n)
    BY <1>1, <1>2 DEF Sized
  <2>3. e = [proof |-> e.proof, recipe |-> e.recipe, seen |-> e.seen]
    BY DEF Rewrite
  <2> HIDE DEF e
  <2> QED BY <2>1, <2>2, <2>3
<1>7. e.seen \cap c \subseteq {j.id}
  BY <1>1, <1>2
<1> HIDE DEF e
<1>8. Sized(e, n)
  BY <1>5, <1>6 DEF Sized
<1>9. Fits(e, {j.id}, n, c)
  BY <1>7, <1>8 DEF Fits
<1> QED BY <1>9 DEF e

\* A process goes on with its command, or is through with it.
LEMMA GoesOn ==
  ASSUME Commands, NEW p \in Proc, pc[p] # "idle", NEW x \in Place, pc' = [pc EXCEPT ![p] = x],
         job' = job \/ (job' = [job EXCEPT ![p] = NoJob] /\ x = "idle"), started' = started,
         x \in Editing => pc[p] \in Editing, x \in Ahead => pc[p] \in Ahead
  PROVE  /\ Commands' /\ Coming' \subseteq Coming
         /\ x \notin Ahead => Coming' \subseteq Coming \ {job[p].id}
<1>t. pc \in [Proc -> Place] /\ job \in [Proc -> Job] /\ started \in Nat
  BY BoundAssumption DEF Commands
<1>1. /\ pc'[p] = x /\ \A q \in Proc : q # p => pc'[q] = pc[q] /\ job'[q] = job[q]
      /\ x # "idle" => job'[p] = job[p]
  BY <1>t
<1>2. "idle" \notin Ahead /\ "idle" \notin Editing /\ Ahead \subseteq Place /\ Editing \subseteq Ahead
  BY DEF Ahead, Editing, Place, Window
<1>3. Commands'
  <2>1. pc' \in [Proc -> Place] /\ job' \in [Proc -> Job]
    BY <1>t, NoJobTyped
  <2>2. ASSUME NEW q \in Proc
        PROVE  /\ job'[q].id <= started /\ (pc'[q] # "idle" => job'[q].id # 0)
               /\ pc'[q] \in Editing => job'[q].op \in Edits
               /\ pc'[q] # "idle" => pc[q] # "idle" /\ job'[q] = job[q]
    <3>1. job'[p] = job[p] \/ job'[p] = NoJob
      BY <1>t
    <3>2. CASE q = p
      BY <1>t, <1>1, <1>2, <3>1, <3>2, NoJobTyped DEF Commands
    <3>3. CASE q # p
      BY <1>1, <3>3 DEF Commands
    <3> QED BY <3>2, <3>3
  <2> QED BY <2>1, <2>2 DEF Commands
<1>4. ASSUME NEW q \in Proc, pc'[q] \in Ahead
      PROVE  /\ pc[q] \in Ahead /\ job'[q].id = job[q].id /\ (q = p => x \in Ahead)
             /\ q # p => job[q].id # job[p].id
  <2>1. CASE q = p
    BY <1>1, <1>2, <1>4, <2>1
  <2>2. CASE q # p
    <3>1. pc[q] \in Ahead /\ pc[q] # "idle" /\ job'[q] = job[q]
      BY <1>1, <1>2, <1>4, <2>2
    <3> QED BY <2>2, <3>1 DEF Commands
  <2> QED BY <2>1, <2>2
<1>5. Coming' \subseteq Coming
  BY <1>4 DEF Coming
<1>6. ASSUME x \notin Ahead PROVE Coming' \subseteq Coming \ {job[p].id}
  BY <1>4, <1>6 DEF Coming
<1> QED BY <1>3, <1>5, <1>6

\* What one process does to the documents, when the commands only go on.
LEMMA DocumentsKept ==
  ASSUME TInv, NEW p \in Proc, NEW x, pc' = [pc EXCEPT ![p] = x], started' = started,
         \A q \in Proc : q # p => job'[q] = job[q] /\ base'[q] = base[q],
         DOMAIN base' = Proc, Coming' \subseteq Coming,
         Fits(file', {}, started, Coming'), file' \in onDisk', Cause',
         backup' = backup \/ Fits(backup', {}, started, Coming'),
         onDisk' \subseteq onDisk \cup {file'},
         Fits(base'[p], Own(p)', started, Coming'),
         x \in {"merged", "synced"} => Whole(base'[p]),
         Commands', lock' \in Proc \cup {Nobody}, open' \subseteq Proc, epoch' = epoch,
         committed' \subseteq 1..started, Entries', Held'
  PROVE  TInv'
<1>0. Commands /\ Documents /\ Others
  BY DEF TInv
<1>t. pc \in [Proc -> Place] /\ started \in Nat /\ \A i \in Coming' : i \in Coming \/ i > started
  <2>1. started \in Nat /\ pc \in [Proc -> Place]
    BY <1>0, BoundAssumption DEF Commands
  <2> QED BY <2>1
<1>1. pc'[p] = x /\ \A q \in Proc : q # p => pc'[q] = pc[q] /\ Own(q)' = Own(q)
  BY <1>t DEF Own
<1>2. ASSUME NEW d, NEW ids, Fits(d, ids, started, Coming) PROVE Fits(d, ids, started, Coming')
  BY <1>t, <1>2, StillFits
<1>3. Fits(file', {}, started', Coming') /\ Fits(backup', {}, started', Coming')
  BY <1>2 DEF TInv, Documents
<1>4. \A d \in onDisk' : Fits(d, {}, started', Coming')
  BY <1>2, <1>3 DEF TInv, Documents
<1>5. \A q \in Proc : Fits(base'[q], Own(q)', started', Coming')
  BY <1>1, <1>2 DEF TInv, Documents
<1>6. \A q \in Proc : pc'[q] \in {"merged", "synced"} => Whole(base'[q])
  BY <1>1 DEF TInv, Documents
<1>7. Documents'
  BY <1>3, <1>4, <1>5, <1>6 DEF Documents
<1>8. Others'
  BY DEF TInv, Others
<1> QED BY <1>7, <1>8 DEF TInv

LEMMA InitTInv == ASSUME TornIsNone PROVE Init => TInv
<1> SUFFICES ASSUME Init PROVE TInv
  OBVIOUS
<1>1. started = 0 /\ 0 \in Nat /\ 0 <= MaxOps /\ 0 \in 0..MaxOps /\ 1 \in Epoch
  <2>1. 0 \in Nat /\ 0 <= MaxOps /\ 0 \in 0..MaxOps /\ 1 \in Epoch
    BY BoundAssumption DEF Epoch
  <2> QED BY <2>1 DEF Init
<1>2. Coming = {}
  BY DEF Init, Coming, Ahead
<1>3. Fits(Fresh, {}, started, Coming)
  BY <1>1, <1>2, FreshSized DEF Fits
<1>4. Fits(Torn, {}, started, Coming)
  BY DEF Fits, Whole
<1>5. Documents
  <2>1. \A p \in Proc : Own(p) = {} /\ base[p] = Fresh /\ pc[p] = "idle"
    BY DEF Init, Own
  <2> QED BY <1>3, <1>4, <2>1 DEF Init, Documents
<1>6. Commands
  <2>1. \A p \in Proc : pc[p] = "idle" /\ job[p] = NoJob /\ pc[p] \notin Editing
    BY DEF Init, Editing
  <2>2. pc \in [Proc -> Place] /\ job \in [Proc -> Job]
    BY NoJobTyped DEF Init, Place
  <2> QED BY <1>1, <2>1, <2>2, NoJobTyped DEF Commands
<1>7. Cause
  <2>1. Fresh # Torn
    BY DEF TornIsNone, Fresh
  <2> QED BY <2>1, TorerTyped DEF Init, Cause, Whole
<1>8. Others
  <2>1. file \in onDisk /\ lock \in Proc \cup {Nobody} /\ open \subseteq Proc /\ committed \subseteq 1..started
    BY DEF Init
  <2>2. epoch \in Epoch /\ Entries
    BY <1>1 DEF Init, Entries
  <2>3. Held
    BY DEF Init, Held
  <2> QED BY <1>7, <2>1, <2>2, <2>3 DEF Others
<1> QED BY <1>5, <1>6, <1>8 DEF TInv

\* A command that begins has a number that no document has.
LEMMA BeginKeepsTInv ==
  ASSUME TInv, NEW p \in Proc, NEW op \in Upserts \cup Edits, NEW recipe \in [Proof -> Recipe],
         NEW result, NEW S \in SUBSET Proof, result \in [S -> Status], Begin(p, op, result, recipe),
         NEW x \in {"ran", "loaded"}, At(p, x), x = "loaded" => op \in Edits
  PROVE  TInv'
<1> DEFINE j == [id |-> started + 1, op |-> op, result |-> result, recipe |-> recipe]
<1>t. pc \in [Proc -> Place] /\ job \in [Proc -> Job] /\ started \in 0..MaxOps /\ started \in Nat /\ MaxOps \in Nat
  BY BoundAssumption DEF TInv, Commands
<1>1. /\ pc[p] = "idle" /\ started' = started + 1 /\ started + 1 \in 0..MaxOps
      /\ pc' = [pc EXCEPT ![p] = x] /\ job' = [job EXCEPT ![p] = j]
      /\ UNCHANGED <<file, onDisk, backup, tornBy, lock, open, base, epoch, committed, telemetry>>
  BY <1>t DEF Begin, At
<1>2. j \in Job /\ j.id = started + 1 /\ j.op = op
  <2>1. result \in UNION {[Q -> Status] : Q \in SUBSET Proof}
    OBVIOUS
  <2> QED BY <1>1, <2>1 DEF Job
<1> HIDE DEF j
<1>3. /\ pc'[p] = x /\ job'[p] = j
      /\ \A q \in Proc : q # p => pc'[q] = pc[q] /\ job'[q] = job[q]
  BY <1>t, <1>1
<1>4. \A q \in Proc : job[q].id \in Nat /\ job[q].id <= started
  BY <1>t DEF TInv, Commands, Job
<1>5. Commands'
  <2>1. pc' \in [Proc -> Place] /\ job' \in [Proc -> Job]
    BY <1>t, <1>1, <1>2 DEF Place, Editing
  <2>2. ASSUME NEW q \in Proc
        PROVE  /\ job'[q].id <= started' /\ (pc'[q] # "idle" => job'[q].id # 0)
               /\ pc'[q] \in Editing => job'[q].op \in Edits
    <3>1. CASE q = p
      BY <1>t, <1>1, <1>2, <1>3, <3>1 DEF Editing
    <3>2. CASE q # p
      BY <1>t, <1>1, <1>3, <1>4, <3>2 DEF TInv, Commands
    <3> QED BY <3>1, <3>2
  <2>3. ASSUME NEW q \in Proc, NEW r \in Proc, pc'[q] # "idle", pc'[r] # "idle", q # r
        PROVE  job'[q].id # job'[r].id
    <3>1. \A i \in Proc : i # p => job'[i].id # started + 1
      BY <1>t, <1>3, <1>4
    <3>2. CASE q = p \/ r = p
      BY <1>2, <1>3, <2>3, <3>1, <3>2
    <3>3. CASE q # p /\ r # p
      BY <1>3, <2>3, <3>3 DEF TInv, Commands
    <3> QED BY <3>2, <3>3
  <2> QED BY <1>1, <2>1, <2>2, <2>3 DEF Commands
<1>6. \A i \in Coming' : i \in Coming \/ i > started
  <2> SUFFICES ASSUME NEW q \in Proc, pc'[q] \in Ahead PROVE job'[q].id \in Coming \/ job'[q].id > started
    BY DEF Coming
  <2>1. CASE q = p
    BY <1>t, <1>2, <1>3, <2>1
  <2>2. CASE q # p
    BY <1>3, <2>2 DEF Coming
  <2> QED BY <2>1, <2>2
<1>7. ASSUME NEW d, NEW ids, Fits(d, ids, started, Coming) PROVE Fits(d, ids, started', Coming')
  <2>1. started' \in Nat /\ started <= started'
    BY <1>t, <1>1
  <2> QED BY <1>t, <1>6, <1>7, <2>1, StillFits
<1>8. Documents'
  <2>1. \A q \in Proc : Own(q)' = Own(q)
    <3> SUFFICES ASSUME NEW q \in Proc PROVE Own(q)' = Own(q)
      OBVIOUS
    <3>1. CASE q = p
      BY <1>1, <1>3, <3>1 DEF Own
    <3>2. CASE q # p
      BY <1>3, <3>2 DEF Own
    <3> QED BY <3>1, <3>2
  <2>2. \A q \in Proc : Fits(base'[q], Own(q)', started', Coming')
    BY <1>1, <1>7, <2>1 DEF TInv, Documents
  <2>3. \A q \in Proc : pc'[q] \in {"merged", "synced"} => Whole(base'[q])
    BY <1>1, <1>3 DEF TInv, Documents
  <2>4. Fits(file', {}, started', Coming') /\ Fits(backup', {}, started', Coming') /\ DOMAIN base' = Proc
    BY <1>1, <1>7 DEF TInv, Documents
  <2>5. \A d \in onDisk' : Fits(d, {}, started', Coming')
    BY <1>1, <1>7 DEF TInv, Documents
  <2> QED BY <2>2, <2>3, <2>4, <2>5 DEF Documents
<1>9. Others'
  <2>1. \A i \in 1..started : i \in 1..started'
    BY <1>t, <1>1
  <2>2. Entries'
    BY <1>1, <2>1 DEF TInv, Others, Entries
  <2>3. Cause'
    BY <1>1 DEF TInv, Others, Cause
  <2>4. committed' \subseteq 1..started'
    BY <1>1, <2>1 DEF TInv, Others
  <2>5. Held'
    BY <1>1 DEF TInv, Others, Held
  <2> QED BY <1>1, <2>2, <2>3, <2>4, <2>5 DEF TInv, Others
<1> QED BY <1>5, <1>8, <1>9 DEF TInv

\* While commands only go on, what fitted fits.
LEMMA KeptFits ==
  ASSUME TInv, Coming' \subseteq Coming
  PROVE  /\ started \in 0..MaxOps /\ started \in Nat /\ pc \in [Proc -> Place] /\ DOMAIN base = Proc
         /\ Fits(file, {}, started, Coming') /\ Fits(Fresh, {}, started, Coming')
         /\ \A p \in Proc : Fits(base[p], Own(p), started, Coming')
<1>1. started \in 0..MaxOps /\ started \in Nat /\ pc \in [Proc -> Place] /\ started <= MaxOps
  BY BoundAssumption DEF TInv, Commands
<1>2. ASSUME NEW d, NEW ids, Fits(d, ids, started, Coming) PROVE Fits(d, ids, started, Coming')
  BY <1>1, <1>2, StillFits
<1>3. Fits(Fresh, {}, started, Coming')
  <2>1. Fresh.seen = {}
    BY DEF Fresh
  <2> QED BY <1>1, <2>1, FreshSized DEF Fits
<1> QED BY <1>1, <1>2, <1>3 DEF TInv, Documents

\* A process that leaves its command takes nothing along.
LEMMA GoneKeepsTInv ==
  ASSUME TInv, NEW p \in Proc, pc[p] # "idle", Gone(p), lock' \in {lock, Nobody}, open' \subseteq open,
         telemetry' \subseteq telemetry \cup {<<job[p].op, job[p].id>>},
         UNCHANGED <<file, onDisk, backup, tornBy, epoch, started, committed>>
  PROVE  TInv'
<1>1. /\ pc' = [pc EXCEPT ![p] = "idle"] /\ job' = [job EXCEPT ![p] = NoJob]
      /\ base' = [base EXCEPT ![p] = Fresh]
  BY DEF Gone, At
<1>2. Commands' /\ Coming' \subseteq Coming
  <2>1. "idle" \in Place /\ "idle" \notin Editing /\ "idle" \notin Ahead /\ Commands
    BY DEF Place, Editing, Ahead, TInv
  <2> QED BY <1>1, <2>1, GoesOn
<1>t. /\ started \in 0..MaxOps /\ pc \in [Proc -> Place] /\ DOMAIN base = Proc /\ job \in [Proc -> Job]
      /\ Fits(file, {}, started, Coming') /\ Fits(Fresh, {}, started, Coming')
  BY <1>2, KeptFits DEF TInv, Commands
<1>3. /\ \A q \in Proc : q # p => job'[q] = job[q] /\ base'[q] = base[q]
      /\ base'[p] = Fresh /\ DOMAIN base' = Proc /\ Own(p)' = {}
  BY <1>1, <1>t DEF Own
<1>4. Entries'
  <2>1. job[p].id \in 1..started /\ job[p].op \in Upserts \cup Edits
    <3>1. job[p].id \in 0..MaxOps /\ job[p].id # 0 /\ job[p].id <= started
      BY DEF TInv, Commands, Job
    <3>2. job[p].op \in Upserts \cup Edits
      BY <1>t DEF Job
    <3> QED BY <1>t, <3>1, <3>2, BoundAssumption
  <2> QED BY <2>1 DEF TInv, Others, Entries
<1>5. /\ Cause' /\ file' \in onDisk' /\ committed' \subseteq 1..started
      /\ lock' \in Proc \cup {Nobody} /\ open' \subseteq Proc
  BY DEF TInv, Others, Cause
<1>6. Held'
  BY <1>1, <1>t DEF TInv, Others, Held
<1> QED BY <1>1, <1>2, <1>t, <1>3, <1>4, <1>5, <1>6, DocumentsKept

\* A process that goes on inside its command, and leaves the files alone.
LEMMA StepKeepsTInv ==
  ASSUME TInv, NEW p \in Proc, pc[p] # "idle", NEW x \in Place, pc' = [pc EXCEPT ![p] = x], x # "idle",
         x \in Editing => pc[p] \in Editing, x \in Ahead => pc[p] \in Ahead,
         x \in {"merged", "synced"} => pc[p] \in {"merged", "synced"},
         pc[p] \in {"merged", "synced"} => x \in {"merged", "synced"},
         base' = base, backup' = backup \/ Fits(backup', {}, started, Coming),
         lock' \in {lock, p, Nobody}, onDisk' \subseteq onDisk, file \in onDisk',
         UNCHANGED <<file, tornBy, open, job, epoch, started, committed, telemetry>>
  PROVE  TInv'
<1>1. Commands' /\ Coming' \subseteq Coming
  <2>1. Commands
    BY DEF TInv
  <2> QED BY <2>1, GoesOn
<1>2. /\ started \in 0..MaxOps /\ started \in Nat /\ pc \in [Proc -> Place] /\ DOMAIN base = Proc
      /\ Fits(file, {}, started, Coming') /\ \A q \in Proc : Fits(base[q], Own(q), started, Coming')
  BY <1>1, KeptFits
<1>3. Own(p)' = Own(p)
  BY <1>2 DEF Own
<1>4. backup' = backup \/ Fits(backup', {}, started, Coming')
  BY <1>1, <1>2, StillFits
<1>5. x \in {"merged", "synced"} => Whole(base[p])
  BY DEF TInv, Documents
<1>6. Entries' /\ Cause' /\ committed' \subseteq 1..started /\ lock' \in Proc \cup {Nobody} /\ open' \subseteq Proc
  BY DEF TInv, Others, Cause, Entries
<1>10. Held'
  BY DEF TInv, Others, Held
<1> QED BY <1>1, <1>2, <1>3, <1>4, <1>5, <1>6, <1>10, DocumentsKept

\* A process reads or merges the file.
LEMMA ReadKeepsTInv == ASSUME TInv, NEW p \in Proc, Read(p) PROVE TInv'
<1>1. PICK x \in {"read", "backed"} : pc' = [pc EXCEPT ![p] = x]
  BY DEF Read, At
<1>2. /\ pc[p] = "loaded" /\ base' = [base EXCEPT ![p] = file]
      /\ UNCHANGED <<file, onDisk, backup, tornBy, lock, open, job, epoch, started, committed, telemetry>>
  BY DEF Read
<1>3. Commands' /\ Coming' \subseteq Coming
  <2>1. x \in Place /\ pc[p] \in Editing /\ pc[p] \in Ahead /\ Commands
    BY <1>1, <1>2 DEF Place, Editing, Ahead, TInv
  <2> QED BY <1>1, <1>2, <2>1, GoesOn
<1>4. pc \in [Proc -> Place] /\ DOMAIN base = Proc /\ Fits(file, {}, started, Coming')
  BY <1>3, KeptFits
<1>5. /\ \A q \in Proc : q # p => base'[q] = base[q]
      /\ base'[p] = file /\ DOMAIN base' = Proc /\ Own(p)' = {}
  BY <1>1, <1>2, <1>4 DEF Own
<1>6. Entries' /\ Cause' /\ file' \in onDisk' /\ committed' \subseteq 1..started
      /\ lock' \in Proc \cup {Nobody} /\ open' \subseteq Proc
  BY <1>2 DEF TInv, Others, Cause, Entries
<1>7. x \notin {"merged", "synced"}
  BY <1>1
<1>10. Held'
  BY <1>2 DEF TInv, Others, Held
<1> QED BY <1>1, <1>2, <1>3, <1>4, <1>5, <1>6, <1>7, <1>10, DocumentsKept

\* What the job of a process under way makes of a document that does not have it.
LEMMA JobFits ==
  ASSUME TInv, NEW p \in Proc, pc[p] \in Ahead, NEW d, Whole(d), Fits(d, {}, started, Coming)
  PROVE  Fits(Rewrite(d, job[p]), {job[p].id}, started, Coming)
<1>1. started \in 0..MaxOps /\ job[p] \in Job /\ job[p].id <= started /\ job[p].id # 0 /\ epoch \in Epoch
  BY DEF TInv, Commands, Others, Ahead
<1>2. job[p].id \in 1..started
  BY <1>1, BoundAssumption DEF Job
<1>3. job[p].id \in Coming
  BY DEF Coming
<1> QED BY <1>1, <1>2, <1>3, RewriteFits

LEMMA MergeKeepsTInv == ASSUME TornIsNone, TInv, NEW p \in Proc, Merge(p) PROVE TInv'
<1>1. /\ pc[p] = "locked" /\ Whole(file) /\ base' = [base EXCEPT ![p] = Rewrite(file, job[p])]
      /\ pc' = [pc EXCEPT ![p] = "merged"]
      /\ UNCHANGED <<file, onDisk, backup, tornBy, lock, open, job, epoch, started, committed, telemetry>>
  BY DEF Merge, At
<1>2. Commands' /\ Coming' \subseteq Coming
  <2>1. "merged" \in Place /\ "merged" \notin Editing /\ pc[p] \in Ahead /\ Commands
    BY <1>1 DEF Place, Window, Editing, Ahead, TInv
  <2> QED BY <1>1, <2>1, GoesOn
<1>3. /\ pc \in [Proc -> Place] /\ DOMAIN base = Proc /\ started \in Nat
      /\ Fits(file, {}, started, Coming')
  BY <1>2, KeptFits
<1>4. /\ \A q \in Proc : q # p => base'[q] = base[q]
      /\ base'[p] = Rewrite(file, job[p]) /\ DOMAIN base' = Proc /\ Own(p)' = {job[p].id}
  BY <1>1, <1>3 DEF Own
<1>5. Fits(base'[p], Own(p)', started, Coming')
  <2>1. Fits(base'[p], Own(p)', started, Coming)
    BY <1>1, <1>4, JobFits DEF Ahead, TInv, Documents
  <2> QED BY <1>2, <1>3, <2>1, StillFits
<1>6. Whole(base'[p])
  BY <1>4, RewriteIsWhole
<1>7. Entries' /\ Cause' /\ file' \in onDisk' /\ committed' \subseteq 1..started
      /\ lock' \in Proc \cup {Nobody} /\ open' \subseteq Proc
  BY <1>1 DEF TInv, Others, Cause, Entries
<1>10. Held'
  BY <1>1 DEF TInv, Others, Held
<1> QED BY <1>1, <1>2, <1>3, <1>4, <1>5, <1>6, <1>7, <1>10, DocumentsKept

\* A merged document takes the place of the file: its command has arrived.
LEMMA RenameKeepsTInv == ASSUME TInv, NEW p \in Proc, Rename(p) PROVE TInv'
<1>1. /\ pc[p] = "synced" /\ file' = base[p] /\ onDisk' = onDisk \cup {base[p]}
      /\ open' = {} /\ committed' = committed \cup {job[p].id} /\ pc' = [pc EXCEPT ![p] = "renamed"]
      /\ UNCHANGED <<backup, lock, job, base, epoch, started, telemetry>>
  BY DEF Rename, At
<1>2. Commands' /\ Coming' \subseteq Coming /\ Coming' \subseteq Coming \ {job[p].id}
  <2>1. "renamed" \in Place /\ "renamed" \notin Editing /\ "renamed" \notin Ahead /\ Commands
    BY DEF Place, Window, Editing, Ahead, TInv
  <2> QED BY <1>1, <2>1, GoesOn
<1>3. pc \in [Proc -> Place] /\ DOMAIN base = Proc /\ started \in Nat
  BY <1>2, KeptFits
<1>4. Own(p)' = {} /\ Own(p) = {job[p].id}
  BY <1>1, <1>3 DEF Own
<1>5. Fits(base[p], {}, started, Coming')
  <2>1. Fits(base[p], {job[p].id}, started, Coming)
    BY <1>4 DEF TInv, Documents
  <2> QED BY <1>2, <2>1, ArrivedFits
<1>6. Cause'
  BY <1>1, TorerTyped DEF TInv, Documents, Cause, Rename
<1>7. job[p].id \in 1..started
  <2>1. job[p].id # 0 /\ job[p].id <= started /\ job[p] \in Job
    BY <1>1 DEF TInv, Commands
  <2> QED BY <1>3, <2>1, BoundAssumption DEF Job
<1>8. Entries' /\ file' \in onDisk' /\ committed' \subseteq 1..started
      /\ lock' \in Proc \cup {Nobody} /\ open' \subseteq Proc
  BY <1>1, <1>7 DEF TInv, Others, Entries
<1>10. Held'
  BY <1>1 DEF TInv, Others, Held
<1> QED BY <1>1, <1>2, <1>3, <1>4, <1>5, <1>6, <1>8, <1>10, DocumentsKept

LEMMA TruncateKeepsTInv == ASSUME TInv, NEW p \in Proc, Truncate(p) PROVE TInv'
<1>1. /\ pc[p] = "backed" /\ file' = Torn /\ onDisk' = onDisk \cup {Torn}
      /\ tornBy' = [id |-> job[p].id, op |-> job[p].op]
      /\ open' = open \cup {p} /\ pc' = [pc EXCEPT ![p] = "truncated"]
      /\ UNCHANGED <<backup, lock, job, base, epoch, started, committed, telemetry>>
  BY DEF Truncate, At
<1>2. Commands' /\ Coming' \subseteq Coming
  <2>1. "truncated" \in Place /\ pc[p] \in Editing /\ pc[p] \in Ahead /\ Commands
    BY <1>1 DEF Place, Editing, Ahead, TInv
  <2> QED BY <1>1, <2>1, GoesOn
<1>3. /\ pc \in [Proc -> Place] /\ DOMAIN base = Proc /\ started \in Nat
      /\ \A q \in Proc : Fits(base[q], Own(q), started, Coming')
  BY <1>2, KeptFits
<1>4. Own(p)' = Own(p) /\ Fits(Torn, {}, started, Coming')
  BY <1>1, <1>3 DEF Own, Fits, Whole
<1>5. Cause'
  <2>1. job[p].op \in Edits /\ job[p].id \in 0..MaxOps
    BY <1>1 DEF TInv, Commands, Editing, Job
  <2> QED BY <1>1, <2>1, TorerTyped DEF Cause, Whole
<1>6. Entries' /\ file' \in onDisk' /\ committed' \subseteq 1..started
      /\ lock' \in Proc \cup {Nobody} /\ open' \subseteq Proc
  BY <1>1 DEF TInv, Others, Entries
<1>10. Held'
  BY <1>1 DEF TInv, Others, Held
<1> QED BY <1>1, <1>2, <1>3, <1>4, <1>5, <1>6, <1>10, DocumentsKept

LEMMA PutKeepsTInv == ASSUME TornIsNone, TInv, NEW p \in Proc, Put(p) PROVE TInv'
<1>1. PICK x \in {"record", "idle"} :
        /\ pc' = [pc EXCEPT ![p] = x]
        /\ job' = job \/ (job' = [job EXCEPT ![p] = NoJob] /\ x = "idle")
  BY DEF Put, At
<1>2. /\ pc[p] = "truncated" /\ file' \in {file, Torn, Rewrite(base[p], job[p])}
      /\ file' = Rewrite(base[p], job[p]) => Whole(base[p]) \/ file' \in {file, Torn}
      /\ onDisk' = onDisk \cup {file'} /\ open' = open \ {p} /\ committed' = committed \cup {job[p].id}
      /\ base' = [base EXCEPT ![p] = Fresh] /\ UNCHANGED <<backup, lock, epoch, started, telemetry>>
  BY DEF Put
<1>3. Commands' /\ Coming' \subseteq Coming /\ Coming' \subseteq Coming \ {job[p].id}
  <2>1. x \in Place /\ x \notin Editing /\ x \notin Ahead /\ Commands
    BY <1>1 DEF Place, Editing, Ahead, TInv
  <2> QED BY <1>1, <1>2, <2>1, GoesOn
<1>4. /\ pc \in [Proc -> Place] /\ DOMAIN base = Proc /\ started \in Nat /\ job \in [Proc -> Job]
      /\ Fits(file, {}, started, Coming') /\ Fits(Fresh, {}, started, Coming')
  BY <1>3, KeptFits DEF TInv, Commands
<1>5. Fits(file', {}, started, Coming')
  <2>1. CASE file' \in {file, Torn}
    BY <1>4, <2>1 DEF Fits, Whole
  <2>2. CASE Whole(base[p]) /\ file' = Rewrite(base[p], job[p])
    <3>1. Fits(base[p], {}, started, Coming)
      BY <1>2 DEF TInv, Documents, Own
    <3>2. Fits(file', {job[p].id}, started, Coming)
      BY <1>2, <2>2, <3>1, JobFits DEF Ahead
    <3> QED BY <1>3, <3>2, ArrivedFits
  <2> QED BY <1>2, <2>1, <2>2
<1>6. /\ \A q \in Proc : q # p => job'[q] = job[q] /\ base'[q] = base[q]
      /\ base'[p] = Fresh /\ DOMAIN base' = Proc /\ Own(p)' = {} /\ x \notin {"merged", "synced"}
  BY <1>1, <1>2, <1>4 DEF Own
<1>7. Cause'
  <2>1. job[p].op \in Edits /\ job[p].id \in 0..MaxOps
    BY <1>2 DEF TInv, Commands, Editing, Job
  <2>2. tornBy' = IF Whole(file') THEN Untorn
                  ELSE IF p \in open THEN [id |-> job[p].id, op |-> job[p].op] ELSE tornBy
    BY DEF Put
  <2>3. p \notin open => file' = file
    BY DEF Put
  <2> QED BY <2>1, <2>2, <2>3, TorerTyped DEF TInv, Others, Cause
<1>8. job[p].id \in 1..started
  <2>1. job[p].id # 0 /\ job[p].id <= started /\ job[p] \in Job
    BY <1>2 DEF TInv, Commands
  <2> QED BY <1>4, <2>1, BoundAssumption DEF Job
<1>9. Entries' /\ file' \in onDisk' /\ committed' \subseteq 1..started
      /\ lock' \in Proc \cup {Nobody} /\ open' \subseteq Proc
  BY <1>2, <1>8 DEF TInv, Others, Entries
<1>10. Held'
  BY <1>2 DEF TInv, Others, Held
<1>11. /\ pc' = [pc EXCEPT ![p] = x] /\ onDisk' \subseteq onDisk \cup {file'}
       /\ UNCHANGED <<backup, epoch, started>>
  BY <1>1, <1>2
<1>12. Fits(base'[p], Own(p)', started, Coming')
  BY <1>4, <1>6
<1> QED BY <1>3, <1>5, <1>6, <1>7, <1>9, <1>10, <1>11, <1>12, DocumentsKept

\* When every process is gone no command is coming.
LEMMA AllGoneKeepsTInv ==
  ASSUME TInv, AllGone, file' \in onDisk, file' \in onDisk', onDisk' \subseteq onDisk, Cause',
         committed' \subseteq 1..started, epoch' \in Epoch, UNCHANGED <<backup, started, telemetry>>
  PROVE  TInv'
<1>1. /\ \A p \in Proc : pc'[p] = "idle" /\ job'[p] = NoJob /\ base'[p] = Fresh
      /\ pc' \in [Proc -> Place] /\ job' \in [Proc -> Job] /\ DOMAIN base' = Proc
      /\ lock' = Nobody /\ open' = {}
  BY NoJobTyped DEF AllGone, Place
<1>2. Coming' = {} /\ \A p \in Proc : Own(p)' = {}
  BY <1>1 DEF Coming, Ahead, Own
<1>3. started \in 0..MaxOps /\ started \in Nat
  BY BoundAssumption DEF TInv, Commands
<1>4. ASSUME NEW d, NEW ids, Fits(d, ids, started, Coming) PROVE Fits(d, ids, started, Coming')
  BY <1>2, <1>3, <1>4, StillFits
<1>5. Fits(Fresh, {}, started, Coming')
  BY <1>2, KeptFits
<1>6. Documents'
  BY <1>1, <1>2, <1>4, <1>5 DEF TInv, Documents
<1>7. Commands'
  BY <1>1, <1>3, NoJobTyped DEF Commands, Editing
<1>8. Others'
  <2>1. Entries' /\ Held'
    BY <1>1 DEF AllGone, TInv, Others, Entries, Held
  <2> QED BY <1>1, <2>1 DEF TInv, Others
<1> QED BY <1>6, <1>7, <1>8 DEF TInv

LEMMA NextTInv == ASSUME TornIsNone, TInv, [Next]_vars PROVE TInv'
<1>t. /\ Whole(file) => file.recipe \in [Proof -> Recipe] /\ file.seen \subseteq 1..started
      /\ Fresh.recipe \in [Proof -> Recipe] /\ epoch \in Epoch
  <2>1. Fresh.recipe \in [Proof -> Recipe]
    BY BoundAssumption DEF Fresh, Recipe
  <2> QED BY <2>1 DEF TInv, Documents, Fits, Sized, Others
<1>1. ASSUME NEW p \in Proc, StartDrill(p) PROVE TInv'
  <2>1. PICK S \in SUBSET Proof : \E r \in [S -> {"validated", "disputed"}] : Begin(p, "drill", r, file.recipe)
    BY <1>1 DEF StartDrill
  <2>0. PICK r \in [S -> {"validated", "disputed"}] : Begin(p, "drill", r, file.recipe)
    BY <2>1
  <2>2. r \in [S -> Status] /\ "drill" \in Upserts /\ file.recipe \in [Proof -> Recipe] /\ At(p, "ran")
    BY <1>t, <1>1 DEF StartDrill, Status, Upserts
  <2> QED BY <2>0, <2>2, BeginKeepsTInv
<1>2. ASSUME NEW p \in Proc, StartPinCheck(p) PROVE TInv'
  <2>1. PICK q \in Proof : Begin(p, "pin", [x \in {q} |-> "unreachable"], file.recipe)
    BY <1>2 DEF StartPinCheck
  <2>2. [x \in {q} |-> "unreachable"] \in [{q} -> Status] /\ "pin" \in Upserts
        /\ file.recipe \in [Proof -> Recipe] /\ At(p, "ran") /\ {q} \in SUBSET Proof
    BY <1>t, <1>2 DEF StartPinCheck, Status, Upserts
  <2> QED BY <2>1, <2>2, BeginKeepsTInv
<1>3. ASSUME NEW p \in Proc, StartIngest(p) PROVE TInv'
  <2>1. PICK q \in Proof, s \in {"validated", "observed"} : Begin(p, "ingest", [x \in {q} |-> s], Fresh.recipe)
    BY <1>3 DEF StartIngest
  <2>2. [x \in {q} |-> s] \in [{q} -> Status] /\ "ingest" \in Upserts /\ At(p, "ran") /\ {q} \in SUBSET Proof
    BY <1>3 DEF StartIngest, Status, Upserts
  <2> QED BY <1>t, <2>1, <2>2, BeginKeepsTInv
<1>4. ASSUME NEW p \in Proc, StartEdit(p) PROVE TInv'
  <2>1. PICK op \in Edits, q \in Proof : Begin(p, op, [x \in {q} |-> "none"], file.recipe)
    BY <1>4 DEF StartEdit
  <2>2. [x \in {q} |-> "none"] \in [{q} -> Status] /\ file.recipe \in [Proof -> Recipe]
        /\ At(p, "loaded") /\ {q} \in SUBSET Proof
    BY <1>t, <1>4 DEF StartEdit, Status
  <2> QED BY <2>1, <2>2, BeginKeepsTInv
<1>5. ASSUME NEW p \in Proc, Lock(p) \/ SyncTemp(p) \/ SyncDirectory(p) \/ Backup(p) PROVE TInv'
  <2>1. PICK x \in {"locked", "synced", "record", "backed"} :
          /\ pc' = [pc EXCEPT ![p] = x] /\ pc[p] # "idle"
          /\ x = "locked" => pc[p] = "ran"
          /\ x = "synced" => pc[p] = "merged"
          /\ x = "record" => pc[p] = "renamed"
          /\ x = "backed" => pc[p] = "read"
    BY <1>5 DEF Lock, SyncTemp, SyncDirectory, Backup, At
  <2>2. /\ x \in Place /\ x # "idle" /\ (x \in Editing => pc[p] \in Editing) /\ (x \in Ahead => pc[p] \in Ahead)
        /\ x \in {"merged", "synced"} => pc[p] \in {"merged", "synced"}
        /\ pc[p] \in {"merged", "synced"} => x \in {"merged", "synced"}
    BY <2>1 DEF Place, Window, Editing, Ahead
  <2>3. /\ base' = base /\ lock' \in {lock, p, Nobody} /\ onDisk' \subseteq onDisk /\ file \in onDisk'
        /\ UNCHANGED <<file, tornBy, open, job, epoch, started, committed, telemetry>>
    BY <1>5 DEF Lock, SyncTemp, SyncDirectory, Backup, TInv, Others
  <2>4. backup' = backup \/ Fits(backup', {}, started, Coming)
    <3>1. CASE Backup(p)
      <4>1. pc[p] = "read" /\ backup' = base[p]
        BY <3>1 DEF Backup
      <4> QED BY <4>1 DEF TInv, Documents, Own
    <3> QED BY <1>5, <3>1 DEF Lock, SyncTemp, SyncDirectory
  <2> QED BY <2>1, <2>2, <2>3, <2>4, StepKeepsTInv
<1>6. ASSUME NEW p \in Proc, Abandon(p), pc[p] # "idle" PROVE TInv'
  BY <1>6, GoneKeepsTInv DEF Abandon
<1>7. ASSUME NEW p \in Proc, RefuseTorn(p) \/ ReplaceFails(p) \/ SyncDirectoryFails(p) PROVE TInv'
  BY <1>6, <1>7 DEF RefuseTorn, ReplaceFails, SyncDirectoryFails
<1>8. ASSUME NEW p \in Proc, RecordTelemetry(p) \/ NothingWritten(p) \/ Kill(p) PROVE TInv'
  <2>1. /\ pc[p] # "idle" /\ Gone(p) /\ lock' \in {lock, Nobody} /\ open' \subseteq open
        /\ UNCHANGED <<file, onDisk, backup, tornBy, epoch, started, committed>>
    BY <1>8 DEF RecordTelemetry, NothingWritten, Kill
  <2>2. telemetry' \subseteq telemetry \cup {<<job[p].op, job[p].id>>}
    BY <1>8 DEF RecordTelemetry, NothingWritten, Kill
  <2> QED BY <2>1, <2>2, GoneKeepsTInv
<1>9. ASSUME NEW p \in Proc, Merge(p) \/ Rename(p) \/ Read(p) \/ Truncate(p) \/ Put(p) PROVE TInv'
  BY <1>9, MergeKeepsTInv, RenameKeepsTInv, ReadKeepsTInv, TruncateKeepsTInv, PutKeepsTInv
<1>10. CASE PowerCut
  <2>1. /\ AllGone /\ file' \in onDisk /\ onDisk' = {file'} /\ epoch' = epoch
        /\ UNCHANGED <<backup, started, telemetry>>
    BY <1>10 DEF PowerCut
  <2>2. Cause'
    BY <1>10, TorerTyped DEF PowerCut, Cause
  <2>3. committed' \subseteq 1..started
    <3>1. Whole(file') => file'.seen \subseteq 1..started
      BY <2>1 DEF TInv, Documents, Fits, Sized
    <3> QED BY <1>10, <3>1 DEF PowerCut, TInv, Others
  <2> QED BY <1>t, <2>1, <2>2, <2>3, AllGoneKeepsTInv
<1>11. CASE Reinstall
  <2>1. epoch' \in Epoch
    BY <1>t, <1>11, BoundAssumption DEF Reinstall, Epoch
  <2>2. Cause' /\ AllGone /\ file' \in onDisk /\ file' \in onDisk' /\ onDisk' \subseteq onDisk
        /\ committed' \subseteq 1..started /\ UNCHANGED <<backup, started, telemetry>>
    BY <1>11 DEF Reinstall, TInv, Others, Cause
  <2> QED BY <2>1, <2>2, AllGoneKeepsTInv
<1>12. CASE UNCHANGED vars
  <2>1. UNCHANGED <<file, onDisk, backup, tornBy, lock, open, pc, job, base, epoch, started, committed, telemetry>>
    BY <1>12 DEF vars, control
  <2>2. Coming' = Coming /\ \A p \in Proc : Own(p)' = Own(p)
    BY <2>1 DEF Coming, Own
  <2>3. Documents'
    BY <2>1, <2>2 DEF TInv, Documents
  <2>4. Commands'
    BY <2>1 DEF TInv, Commands
  <2>5. Others'
    BY <2>1 DEF TInv, Others, Cause, Entries, Held
  <2> QED BY <2>3, <2>4, <2>5 DEF TInv
<1> QED BY <1>1, <1>2, <1>3, <1>4, <1>5, <1>7, <1>8, <1>9, <1>10, <1>11, <1>12
    DEF Next, Upserting, EditingInPlace

\* The rewrites that have met are commands that have begun.
LEMMA MetTyped == ASSUME TInv, met \subseteq Commit, [Next]_vars PROVE met' \subseteq Commit
<1>1. \A q \in Proc : pc[q] # "idle" => job[q].id \in Commit
  BY BoundAssumption DEF TInv, Commands, Job, Commit
<1>2. ASSUME NEW p \in Proc, NEW id \in Commit, NEW places, "idle" \notin places, Meets(p, id, places)
      PROVE  met' \subseteq Commit
  BY <1>1, <1>2 DEF Meets
<1>3. ASSUME NEW p \in Proc, Lock(p) PROVE met' \subseteq Commit
  <2>1. pc[p] = "ran" /\ Meets(p, job[p].id, Editing)
    BY <1>3 DEF Lock
  <2> QED BY <1>1, <1>2, <2>1 DEF Editing
<1>4. ASSUME NEW p \in Proc, StartEdit(p) PROVE met' \subseteq Commit
  <2>1. started < MaxOps /\ Meets(p, started + 1, Window \cup Editing)
    BY <1>4 DEF StartEdit, Begin
  <2>2. started + 1 \in Commit
    BY <2>1, BoundAssumption DEF TInv, Commands, Commit
  <2> QED BY <1>2, <2>1, <2>2 DEF Window, Editing
<1>5. CASE UNCHANGED met
  BY <1>5
<1> QED BY <1>3, <1>4, <1>5
    DEF Next, Upserting, EditingInPlace, StartDrill, StartPinCheck, StartIngest, Merge, RefuseTorn, Abandon, SyncTemp,
        ReplaceFails, Rename, SyncDirectory, SyncDirectoryFails, RecordTelemetry, Read, Backup, NothingWritten,
        Truncate, Put, Kill, PowerCut, Reinstall, vars

\* The type invariant, for any processes, proofs, bounds and failures, whether or not
\* rewrites overlap: recipes stay within bounds because a command, which writes the
\* file once, is never in the document that it is made from.
THEOREM TypeCorrect ==
  ASSUME TornIsNone
  PROVE  Spec => []TypeOK
<1>1. TInv /\ met \subseteq Commit => TypeOK
  <2> SUFFICES ASSUME TInv, met \subseteq Commit PROVE TypeOK
    OBVIOUS
  <2>1. started \in 0..MaxOps /\ \A i \in 1..started : i \in Commit
    BY BoundAssumption DEF TInv, Commands, Commit
  <2>2. ASSUME NEW d, NEW ids, Fits(d, ids, started, Coming) PROVE d \in Doc \cup {Torn}
    <3>1. Whole(d) => Sized(d, started)
      BY <2>2 DEF Fits
    <3>2. \A seen \in SUBSET (1..started) : seen \in SUBSET Commit
      BY <2>1
    <3>3. Sized(d, started) => d \in Doc
      BY <3>2 DEF Sized, Doc
    <3> QED BY <3>1, <3>3 DEF Whole
  <2>3. /\ file \in Doc \cup {Torn} /\ backup \in Doc \cup {Torn} /\ onDisk \subseteq Doc \cup {Torn}
        /\ \A p \in Proc : base[p] \in Doc \cup {Torn}
    BY <2>2 DEF TInv, Documents
  <2>4. base \in [Proc -> Doc \cup {Torn}]
    BY <2>3 DEF TInv, Others, Held
  <2>5. telemetry \subseteq (Upserts \cup Edits) \X Commit /\ committed \subseteq Commit
    BY <2>1 DEF TInv, Others, Entries
  <2> QED BY <2>3, <2>4, <2>5 DEF TInv, Commands, Others, Cause, TypeOK, Place
<1>2. Init => met \subseteq Commit
  BY DEF Init
<1>3. TInv /\ met \subseteq Commit /\ [Next]_vars => (TInv /\ met \subseteq Commit)'
  BY NextTInv, MetTyped
<1> QED BY <1>1, <1>2, <1>3, InitTInv, PTL DEF Spec
=============================================================================
