------------------------------- MODULE Ledger -------------------------------
(***************************************************************************)
(* internal/ledger: the hash-chained JSONL file that every preflight, drill,*)
(* override and acknowledgement appends to, from any number of processes on *)
(* one machine.  The module models the ledger file and its lock file, the   *)
(* steps of Append (ledger.go) and of Anchor (anchor.go) as they interleave, *)
(* the failures each step can meet, process death and loss of power, and    *)
(* VerifyEntries (verify.go) as an operator on the file.                    *)
(*                                                                         *)
(* The file is the sequence of its lines.  The SHA-256 of an entry is        *)
(* modelled by the content it covers: two digests are equal exactly when    *)
(* the entries they were computed from are.  An id is written once, so its  *)
(* prev never changes and <<id, payload>> determines the hashed content.     *)
(***************************************************************************)
EXTENDS Naturals, FiniteSets, Sequences

CONSTANTS Proc,      \* the processes that call the package
          Body,      \* the payloads of ordinary entries
          Genesis,   \* GenesisHash, the prev of the first entry
          Nobody,    \* the holder of a free lock
          MaxOps,    \* bound: calls of Append, direct or from Anchor
          MaxEdits,  \* bound: times the content of a written entry changes
          Faults     \* which failures of the environment may happen

\* A process dies; power is lost; write(), fsync() or the sync of the directory
\* fails; a write cut short ends exactly before its newline.
AllFaults == {"kill", "powercut", "writefail", "fsyncfail", "syncdirfail", "unended"}

ASSUME ProcAssumption   == Nobody \notin Proc
ASSUME BodyAssumption   == Body # {}
ASSUME BoundAssumption  == MaxOps \in Nat /\ MaxEdits \in Nat
ASSUME FaultsAssumption == Faults \subseteq AllFaults

Id == 1..MaxOps

\* What a chain_anchor entry says: the entry it vouches for, the hash stored
\* in that entry, and the hash of the content found there.
Vouch   == [entry : Id, stored : Id \X Body, recomputed : Id \X Body]
Payload == Body \cup Vouch
Digest  == {Genesis} \cup (Id \X Payload)

\* A line as a reader finds it: whole; complete but without its newline;
\* cut short inside the entry; or two entries run together.
Form == {"whole", "unended", "torn", "joined"}
Line == {l \in [id : Id, payload : Payload, prev : Digest, hash : Id \X Payload, form : Form] :
            l.payload \in Body => l.hash \in Id \X Body}

VARIABLES
  file,    \* the lines of the ledger file, in order
  exists,  \* does the path name a file?
  synced,  \* how many lines an fsync has put on disk
  named,   \* has the directory entry of the file been put on disk?
  lock,    \* the process that holds the flock on <path>.lock, or Nobody
  pc,      \* where each process is inside Append
  req,     \* the entry (id, payload) each process is appending
  fresh,   \* isFreshLedger, as each process computed it
  tail,    \* prev, as each process read it
  acked,   \* ids whose Append returned success
  ops,     \* calls of Append so far (the source of ids)
  edits    \* content changes so far

vars  == <<file, exists, synced, named, lock, pc, req, fresh, tail, acked, ops, edits>>
disk  == <<file, exists, synced, named>>
local == <<req, fresh, tail>>

Critical == {"open", "write", "fsync", "return"}

-----------------------------------------------------------------------------
(* Reading and verifying a file                                            *)

HashOf(e) == <<e.id, e.payload>>

LineParses(e) == e.form \in {"whole", "unended"}

\* ReadAll and lastHashLocked both reject a file with a line that is not one
\* JSON object.
Parses(f) == \A n \in DOMAIN f : LineParses(f[n])

LastHash(f) == IF f = <<>> THEN Genesis ELSE f[Len(f)].hash

PrevHash(f, n) == IF n = 1 THEN Genesis ELSE f[n-1].hash

IsAnchor(e) == e.payload \notin Body

Intact(e) == e.hash = HashOf(e)

\* The positions of the anchors written for an entry id.
AnchorsOf(f, id) == {n \in DOMAIN f : IsAnchor(f[n]) /\ f[n].payload.entry = id}

\* The anchor that governs: the last one in file order.
Governs(f, id, a) == a \in AnchorsOf(f, id) /\ \A b \in AnchorsOf(f, id) : b <= a

Vouched(f, n) == \E a \in AnchorsOf(f, f[n].id) :
                    /\ Governs(f, f[n].id, a)
                    /\ f[a].payload.stored = f[n].hash
                    /\ a > n

\* VerifyEntries(f).OK
Verifies(f) == \A n \in DOMAIN f : /\ f[n].prev = PrevHash(f, n)
                                   /\ Intact(f[n]) \/ Vouched(f, n)

-----------------------------------------------------------------------------
(* Writing lines                                                           *)

NewLine(p) == [id |-> req[p].id, payload |-> req[p].payload, prev |-> tail[p],
               hash |-> <<req[p].id, req[p].payload>>, form |-> "whole"]

\* O_APPEND puts the bytes after whatever is there: onto the last line, when
\* that line has no newline yet.
Joins(f) == f # <<>> /\ f[Len(f)].form = "unended"

WithLine(f, l) == IF Joins(f) THEN [f EXCEPT ![Len(f)].form = "joined"]
                              ELSE Append(f, l)

\* The lines a partly written line may leave behind.
Cuts(l) == {[l EXCEPT !.form = x] : x \in {"torn"} \cup
              (IF l.form = "torn" THEN {} ELSE {"unended"} \cap Faults)}

\* Lines whose every byte an fsync has covered, after l is written.
SyncedUnder(f) == IF Joins(f) /\ synced = Len(f) THEN synced - 1 ELSE synced

-----------------------------------------------------------------------------
TypeOK ==
  /\ file \in Seq(Line)
  /\ exists \in BOOLEAN /\ named \in BOOLEAN
  /\ synced \in Nat
  /\ lock \in Proc \cup {Nobody}
  /\ pc \in [Proc -> {"idle", "lock"} \cup Critical]
  /\ req \in [Proc -> [id : 0..MaxOps, payload : Payload]]
  /\ fresh \in [Proc -> BOOLEAN]
  /\ tail \in [Proc -> Digest]
  /\ acked \subseteq Id
  /\ ops \in 0..MaxOps
  /\ edits \in 0..MaxEdits

NoReq == [id |-> 0, payload |-> CHOOSE b \in Body : TRUE]

Init ==
  /\ file = <<>> /\ exists = FALSE /\ synced = 0 /\ named = FALSE
  /\ lock = Nobody
  /\ pc = [p \in Proc |-> "idle"]
  /\ req = [p \in Proc |-> NoReq]
  /\ fresh = [p \in Proc |-> FALSE]
  /\ tail = [p \in Proc |-> Genesis]
  /\ acked = {} /\ ops = 0 /\ edits = 0

\* The call of Append: the file is looked for before any lock is taken.
Call(p, payload) ==
  /\ pc[p] = "idle" /\ ops < MaxOps
  /\ ops' = ops + 1
  /\ req' = [req EXCEPT ![p] = [id |-> ops + 1, payload |-> payload]]
  /\ fresh' = [fresh EXCEPT ![p] = ~exists]
  /\ pc' = [pc EXCEPT ![p] = "lock"]
  /\ UNCHANGED <<disk, lock, tail, acked, edits>>

CallAppend(p) == \E b \in Body : Call(p, b)

\* Mutant: the anchor records the recomputed hash as the stored one.
CallAnchorRecomputed(p) ==
  /\ exists /\ Parses(file)
  /\ \E n \in DOMAIN file :
        /\ file[n].payload \in Body
        /\ AnchorsOf(file, file[n].id) = {}
        /\ ~Intact(file[n])
        /\ Call(p, [entry |-> file[n].id, stored |-> HashOf(file[n]),
                    recomputed |-> HashOf(file[n])])

\* Anchor reads the ledger without the lock, refuses unless the entry exists,
\* has no anchor and does not verify, and then calls Append.
CallAnchor(p) ==
  /\ exists /\ Parses(file)
  /\ \E n \in DOMAIN file :
        /\ file[n].payload \in Body
        /\ AnchorsOf(file, file[n].id) = {}
        /\ ~Intact(file[n])
        /\ Call(p, [entry |-> file[n].id, stored |-> file[n].hash,
                    recomputed |-> HashOf(file[n])])

\* Mutant: the lock file is locked shared.
AcquireShared(p) ==
  /\ pc[p] = "lock"
  /\ lock' = p
  /\ pc' = [pc EXCEPT ![p] = "open"]
  /\ UNCHANGED <<disk, local, acked, ops, edits>>

Acquire(p) ==
  /\ pc[p] = "lock" /\ lock = Nobody
  /\ lock' = p
  /\ pc' = [pc EXCEPT ![p] = "open"]
  /\ UNCHANGED <<disk, local, acked, ops, edits>>

\* The call is over and its variables are gone.
Gone(p) == /\ pc' = [pc EXCEPT ![p] = "idle"]
           /\ req' = [req EXCEPT ![p] = NoReq]
           /\ fresh' = [fresh EXCEPT ![p] = FALSE]
           /\ tail' = [tail EXCEPT ![p] = Genesis]

\* Every return of Append runs its deferred unlock.
Leave(p) == lock' = Nobody /\ Gone(p)

\* Mutant: lastHashLocked skips the lines it cannot decode.
OpenAndSkipCorrupt(p) ==
  /\ pc[p] = "open"
  /\ exists' = TRUE
  /\ tail' = [tail EXCEPT ![p] = LastHash(file)]
  /\ pc' = [pc EXCEPT ![p] = "write"]
  /\ UNCHANGED <<file, synced, named, lock, req, fresh, acked, ops, edits>>

\* Mutant: the file is opened with O_TRUNC.
OpenTruncating(p) ==
  /\ pc[p] = "open" /\ Parses(file)
  /\ exists' = TRUE /\ file' = <<>>
  /\ tail' = [tail EXCEPT ![p] = LastHash(file)]
  /\ pc' = [pc EXCEPT ![p] = "write"]
  /\ UNCHANGED <<synced, named, lock, req, fresh, acked, ops, edits>>

\* O_CREATE, then lastHashLocked.
OpenAndReadTail(p) ==
  /\ pc[p] = "open" /\ Parses(file)
  /\ exists' = TRUE
  /\ tail' = [tail EXCEPT ![p] = LastHash(file)]
  /\ pc' = [pc EXCEPT ![p] = "write"]
  /\ UNCHANGED <<file, synced, named, lock, req, fresh, acked, ops, edits>>

\* Mutant: the error return comes before the deferred unlock is in place.
RefuseKeepingLock(p) ==
  /\ pc[p] = "open" /\ ~Parses(file)
  /\ Gone(p) /\ UNCHANGED lock
  /\ UNCHANGED <<disk, acked, ops, edits>>

\* "corrupt entry, cannot append".
RefuseCorrupt(p) ==
  /\ pc[p] = "open" /\ ~Parses(file)
  /\ Leave(p)
  /\ UNCHANGED <<disk, acked, ops, edits>>

Write(p) ==
  /\ pc[p] = "write"
  /\ file' = WithLine(file, NewLine(p))
  /\ synced' = SyncedUnder(file)
  /\ pc' = [pc EXCEPT ![p] = "fsync"]
  /\ UNCHANGED <<exists, named, lock, local, acked, ops, edits>>

\* write() fails, having written nothing or part of the line.
WriteFails(p) ==
  /\ pc[p] = "write" /\ "writefail" \in Faults
  /\ \/ file' = file /\ synced' = synced
     \/ \E l \in Cuts(NewLine(p)) : file' = WithLine(file, l)
                                    /\ synced' = SyncedUnder(file)
  /\ Leave(p)
  /\ UNCHANGED <<exists, named, acked, ops, edits>>

\* Mutant: no fsync before Append returns.
SkipFsync(p) ==
  /\ pc[p] = "fsync"
  /\ pc' = [pc EXCEPT ![p] = "return"]
  /\ UNCHANGED <<disk, lock, local, acked, ops, edits>>

Fsync(p) ==
  /\ pc[p] = "fsync"
  /\ synced' = Len(file)
  /\ pc' = [pc EXCEPT ![p] = "return"]
  /\ UNCHANGED <<file, exists, named, lock, local, acked, ops, edits>>

\* The error is returned; the line stays in the file.
FsyncFails(p) ==
  /\ pc[p] = "fsync" /\ "fsyncfail" \in Faults
  /\ Leave(p)
  /\ UNCHANGED <<disk, acked, ops, edits>>

\* The directory is synced by a process that found no file when it was
\* called; its failure is ignored.
Return(p) ==
  /\ pc[p] = "return"
  /\ \/ named' = (named \/ fresh[p])
     \/ "syncdirfail" \in Faults /\ fresh[p] /\ named' = named
  /\ acked' = acked \cup {req[p].id}
  /\ Leave(p)
  /\ UNCHANGED <<file, exists, synced, ops, edits>>

-----------------------------------------------------------------------------
(* The environment                                                         *)

\* A process dies; the kernel drops its flock.
Kill(p) ==
  /\ "kill" \in Faults /\ pc[p] # "idle"
  /\ Gone(p)
  /\ lock' = IF lock = p THEN Nobody ELSE lock
  /\ UNCHANGED <<disk, acked, ops, edits>>

\* Power is lost and comes back: every process is gone, what was synced is
\* there, and of the rest some prefix, its last line possibly cut.  A file
\* whose directory entry was never synced may be gone altogether.
Survivors == {SubSeq(file, 1, n) : n \in synced..Len(file)}
             \cup UNION {{Append(SubSeq(file, 1, n - 1), l) : l \in Cuts(file[n])} :
                           n \in (synced+1)..Len(file)}

PowerCut ==
  /\ "powercut" \in Faults /\ exists
  /\ \/ file' \in Survivors /\ UNCHANGED exists
     \/ ~named /\ file' = <<>> /\ exists' = FALSE
  /\ synced' = Len(file') /\ named' = exists'
  /\ pc' = [p \in Proc |-> "idle"] /\ lock' = Nobody
  /\ req' = [p \in Proc |-> NoReq]
  /\ fresh' = [p \in Proc |-> FALSE] /\ tail' = [p \in Proc |-> Genesis]
  /\ UNCHANGED <<acked, ops, edits>>

\* The content of a written entry changes in place, its stored hash does not:
\* a line edited by hand or rewritten by another version of the program.
Edit ==
  /\ edits < MaxEdits /\ edits' = edits + 1
  /\ \E n \in DOMAIN file, b \in Body :
        /\ LineParses(file[n]) /\ file[n].payload \in Body \ {b}
        /\ file' = [file EXCEPT ![n].payload = b]
  /\ UNCHANGED <<exists, synced, named, lock, pc, local, acked, ops>>

-----------------------------------------------------------------------------
\* A call of Append moves on; nothing else makes a process move.
Advance(p) == \/ Acquire(p) \/ OpenAndReadTail(p) \/ RefuseCorrupt(p)
              \/ Write(p) \/ WriteFails(p) \/ Fsync(p) \/ FsyncFails(p)
              \/ Return(p)

Next == \/ \E p \in Proc : CallAppend(p) \/ CallAnchor(p) \/ Advance(p) \/ Kill(p)
        \/ PowerCut
        \/ Edit

Spec == Init /\ [][Next]_vars

\* A process that is inside Append is scheduled, and the kernel grants a free
\* flock to one of the processes that wait for it.
FairSpec == Spec /\ \A p \in Proc : WF_vars(Advance(p))

-----------------------------------------------------------------------------
(* Properties                                                              *)

\* However the appends interleave, fail or die, every readable entry names
\* the entry before it: the chain never forks and never skips
\* (the concurrency contract of Append).
ChainLinked == \A n \in DOMAIN file :
                  LineParses(file[n]) => file[n].prev = PrevHash(file, n)

\* Nothing is appended behind a line that cannot be read: Append refuses a
\* corrupt ledger instead of chaining onto it (lastHashLocked).
CorruptionIsFinal == [][~Parses(file) => Len(file') <= Len(file)]_vars

\* Verify accepts a readable ledger exactly when every entry whose content
\* no longer matches its hash has been anchored: what Anchor decided on a
\* snapshot it read without the lock is what Verify needs, wherever the
\* anchor landed.
AnchorsSuffice ==
  Parses(file) =>
    (Verifies(file) <=> \A n \in DOMAIN file :
                          Intact(file[n]) \/ AnchorsOf(file, file[n].id) # {})

\* An entry whose Append returned success can be read back from what is on
\* disk, in a file whose name is on disk: no loss of power takes it away
\* ("a verdict that isn't actually on disk did not happen", Append).
OnDisk == IF named THEN {file[n].id : n \in {m \in 1..synced : LineParses(file[m])}}
                   ELSE {}
AckedSurvives == acked \subseteq OnDisk

\* Whoever holds the lock reads a tail that is already on disk: no entry is
\* chained onto one that a crash may erase.
TailIsDurable == \A p \in Proc : pc[p] = "write" => synced = Len(file)

\* No loss of power takes away what was acknowledged, nor the entry that the
\* next one is chained onto.
Durable == AckedSurvives /\ TailIsDurable

\* Every call of Append returns: no error path and no death keeps the lock.
AppendReturns == \A p \in Proc : pc[p] # "idle" ~> pc[p] = "idle"

\* Appends that interleave implement one audit trail that grows at its end
\* and loses no acknowledged entry.  Where no write ends just before its newline,
\* only the last line may be unreadable.
Trail == [n \in {m \in DOMAIN file : LineParses(file[m])} |-> file[n].id]

Abstract == INSTANCE AuditLog WITH log <- Trail
Implements == Abstract!Spec
=============================================================================
