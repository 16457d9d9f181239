------------------------------- MODULE Estate -------------------------------
(***************************************************************************)
(* Machines over time: what `restoregap status` and `next` say on each of   *)
(* them at any moment, the bundles they export while their files, ledgers    *)
(* and installs change, what happens to a bundle on its way, and the fleet   *)
(* that another machine merges from the bundles it has (internal/status,     *)
(* internal/bundle).                                                        *)
(***************************************************************************)
EXTENDS Bundle

CONSTANTS Hosts,
          Starts,     \* [days, hosts]: days at which something happens, and for
                      \* each host its [files, edits, led, exports]
          Windows,    \* the values of --since, 0 for everything
          MaxEpoch,   \* bound: installs of a host
          MaxAppends  \* bound: ledger entries of a host

VARIABLES now,    \* the day
          ahead,  \* the days still to come
          host,   \* [files, edits, exports, led, epoch] of each host
          job,    \* the export that a host is running
          box     \* the archives that were written

estateVars == <<now, ahead, host, job, box>>

\* Which files there are is configured: what they say changes.
IsContextFile(f) ==
  /\ f \in [guards : {f.guards}, order : {f.order}, proofs : {f.proofs}, drills : {f.drills}, scope : {f.scope}]
  /\ DOMAIN f.proofs \cup DOMAIN f.drills \subseteq Nat
  /\ IsFiniteSet(DOMAIN f.proofs) /\ IsFiniteSet(DOMAIN f.drills)
  /\ \A q \in DOMAIN f.proofs : IsProof(f.proofs[q])

AreContextFiles(fs) == fs # <<>> /\ fs \in Seq({f \in ToSet(fs) : IsContextFile(f)})

IsLedger(led) ==
  /\ led \in Seq([hash : Nat \ {GenesisHash}, prev : Nat, at : Nat, sound : BOOLEAN, vouches : {Absent} \cup Nat])
  /\ led # <<>> => led[1].prev = GenesisHash /\ Chained(led)
  /\ \A i, j \in DOMAIN led : i <= j => led[i].at <= led[j].at

ASSUME StartAssumption ==
  \A start \in Starts :
    /\ start.days \subseteq Nat /\ start.days # {}
    /\ \A h \in Hosts : LET s == start.hosts[h] IN
         /\ AreContextFiles(s.files)
         /\ s.edits \in Seq({fs \in ToSet(s.edits) : AreContextFiles(fs) /\ Len(fs) = Len(s.files)})
         /\ IsLedger(s.led) /\ \A i \in DOMAIN s.led : s.led[i].at <= Min(start.days)
ASSUME WindowAssumption == Windows \subseteq Nat

Idle == [at |-> "idle"]

EstateInit ==
  /\ \E start \in Starts :
       /\ now = Min(start.days)
       /\ ahead = start.days \ {now}
       /\ host = [h \in Hosts |-> [files |-> start.hosts[h].files, edits |-> start.hosts[h].edits,
                                   led |-> start.hosts[h].led, exports |-> start.hosts[h].exports,
                                   epoch |-> 1]]
  /\ job = [h \in Hosts |-> Idle]
  /\ box = {}

Tick == /\ ahead # {}
        /\ now' = Min(ahead)
        /\ ahead' = ahead \ {now'}
        /\ UNCHANGED <<host, job, box>>

-----------------------------------------------------------------------------
(* A host                                                                  *)

\* Whoever edits the files does so while anything else goes on.
Edit(h) ==
  /\ host[h].edits # <<>>
  /\ host' = [host EXCEPT ![h].files = Head(host[h].edits), ![h].edits = Tail(@)]
  /\ job' = [job EXCEPT ![h] = IF @.at = "idle" THEN @ ELSE [@ EXCEPT !.quiet = FALSE]]
  /\ UNCHANGED <<now, ahead, box>>

Reinstall(h) == /\ host[h].epoch < MaxEpoch /\ host[h].exports > 0
                /\ host' = [host EXCEPT ![h].epoch = @ + 1]
                /\ UNCHANGED <<now, ahead, job, box>>

Extended(led) ==
  Append(led, [hash |-> Len(led) + 1, at |-> now, sound |-> TRUE, vouches |-> Absent,
               prev |-> TailHash(led)])

AppendEntry(h) == /\ Len(host[h].led) < MaxAppends /\ host[h].exports > 0
                  /\ host' = [host EXCEPT ![h].led = Extended(@)]
                  /\ UNCHANGED <<now, ahead, job, box>>

Report(h) == LET c == PolicyMerge(host[h].files) IN IF Loads(c) THEN ScopeRows(c, now, host[h].epoch) ELSE {}

States(rows) == {<<p.proof, p.state>> : p \in rows}

-----------------------------------------------------------------------------
(* bundle export, read by read                                             *)

\* loadContextFiles merges the files and then reads them for their digests.
Begin(h) == LET c == PolicyMerge(host[h].files)
            IN  /\ job[h].at = "idle" /\ host[h].exports > 0 /\ Loads(c)
                /\ job' = [job EXCEPT ![h] = [at |-> "digest", quiet |-> TRUE, c |-> c]]
                /\ host' = [host EXCEPT ![h].exports = @ - 1]
                /\ UNCHANGED <<now, ahead, box>>

Digest(h) == /\ job[h].at = "digest"
             /\ job' = [job EXCEPT ![h] = [at |-> "slice", quiet |-> @.quiet, c |-> @.c,
                                           files |-> host[h].files]]
             /\ UNCHANGED <<now, ahead, host, box>>

Slice(h) == /\ job[h].at = "slice"
            /\ \E since \in Windows :
                 job' = [job EXCEPT ![h] = [at |-> "sign", quiet |-> @.quiet, c |-> @.c, files |-> @.files,
                                            slice |-> LedgerSlice(host[h].led, since, now)]]
            /\ UNCHANGED <<now, ahead, host, box>>

\* The epoch and the time go into the manifest, which is signed. truth is
\* what the host says of itself at that moment.
Sign(h) ==
  /\ job[h].at = "sign"
  /\ LET m == Manifest(h, host[h].epoch, now, job[h].c, Blank, job[h].files, job[h].slice)
     IN  job' = [job EXCEPT ![h] = [at |-> "write", quiet |-> @.quiet, slice |-> @.slice, manifest |-> m,
                                    truth |-> States(Report(h))]]
  /\ UNCHANGED <<now, ahead, host, box>>

Boxed(h, archive) ==
  box' = box \cup {[label |-> <<h, Cardinality(box)>>, archive |-> archive, quiet |-> job[h].quiet,
                    truth |-> job[h].truth, damaged |-> FALSE]}

Write(h) ==
  /\ job[h].at = "write"
  /\ Boxed(h, Archive(job[h].manifest, h, host[h].files, job[h].slice))
  /\ job' = [job EXCEPT ![h] = Idle]
  /\ UNCHANGED <<now, ahead, host>>

\* The process dies, or the disk is full, halfway through the archive.
CutShort(h) ==
  /\ job[h].at = "write"
  /\ Boxed(h, [Archive(job[h].manifest, h, <<>>, <<>>) EXCEPT !.whole = FALSE])
  /\ job' = [job EXCEPT ![h] = Idle]
  /\ UNCHANGED <<now, ahead, host>>

-----------------------------------------------------------------------------
(* The way, and the merge                                                  *)

\* A file or an entry is gone, a file lost its proofs, the date is another,
\* or the end is missing.
Altered(a) ==
  {[a EXCEPT !.members = RemoveAt(@, i)] : i \in DOMAIN a.members}
  \cup {[a EXCEPT !.members[i].proofs = <<>>] : i \in DOMAIN a.members}
  \cup {[a EXCEPT !.slice = RemoveAt(@, i)] : i \in DOMAIN a.slice}
  \cup {[a EXCEPT !.manifest.at = @ + 1]}
  \cup {[a EXCEPT !.whole = FALSE]}

\* Bound: once, to an archive that verifies, when nothing more is exported;
\* until then it lies still.
Damage == /\ \A h \in Hosts : host[h].exports = 0 /\ job[h] = Idle
          /\ \E b \in box : \E a \in Altered(b.archive) \ {b.archive} :
               /\ Verify(b.archive, Absent) = "ok"
               /\ \A other \in box : ~other.damaged
               /\ box' = (box \ {b}) \cup {[b EXCEPT !.archive = a, !.damaged = TRUE]}
          /\ UNCHANGED <<now, ahead, host, job>>

\* Any of the archives may be merged, in any order. It changes nothing.
Merges == {items \in UNION {[1..n -> box] : n \in 1..Cardinality(box)} : Mergeable(items)}

HostStep(h) == \/ Edit(h) \/ Reinstall(h) \/ AppendEntry(h)
               \/ Begin(h) \/ Digest(h) \/ Slice(h) \/ Sign(h) \/ Write(h) \/ CutShort(h)

EstateNext == Tick \/ Damage \/ \E h \in Hosts : HostStep(h)

EstateSpec == EstateInit /\ [][EstateNext]_estateVars

-----------------------------------------------------------------------------
(* Properties                                                              *)

\* The verdict and the signed summary agree with the tree: `status` passes
\* only while no proof is shown as failed, worn out or without anybody's
\* decision; the summary calls a recovery passed, or an attestation
\* observed, only while its row shows no failure; and the summary of a
\* ledger with an entry verifies, with its host's key alone.  (A lapsed
\* acceptance may hide behind a fresh observation: see the README.)
StatusAgrees ==
  \A h \in Hosts :
    LET c    == PolicyMerge(host[h].files)
        rows == {p \in Report(h) : p.proof \in DOMAIN c.proofs}
    IN  Loads(c) =>
          /\ Verdict1(c, now, host[h].epoch, TRUE, FALSE, [ok |-> TRUE, daysLeft |-> {}]) = "pass"
               => \A p \in rows : ~IsGap(p.state) \/ p.state = "lapsed"
          /\ \A p \in rows : SummaryProof(c, p.proof, now).outcome \in {"pass", "observed"}
               => p.state \notin Attention \/ p.state = "lapsed"
          /\ LET doc == Summary(host[h].files, host[h].led, now, Blank, h)
             IN  host[h].led # <<>> =>
                   /\ VerifySummary(doc, h)
                   /\ \A other \in Hosts \ {h} : ~VerifySummary(doc, other)

\* A filter of the tree, and the rows that a tree has.
Gaps == [layers |-> {}, states |-> {"attention", "unreviewed"}, envs |-> {}, systems |-> {}, tags |-> {}]

Shown(tree) == UNION {UNION {ToSet(tree[g][k]) : k \in DOMAIN tree[g]} : g \in DOMAIN tree}

\* Every gap that the tree shows, asked for what needs attention or nobody
\* has decided on, is a step of `next`, unless its owner has accepted it or
\* it was proved on an earlier install.
NextCoversGaps ==
  \A h \in Hosts :
    LET rows  == Report(h)
        steps == ToSet(NextSteps(rows))
    IN  /\ Shown(Tree(rows, Gaps, "layer")) = Shown(Tree(rows, Gaps, "system"))
        /\ \A p \in rows : IsGap(p.state) => p \in Shown(Tree(rows, Gaps, "layer"))
        /\ \A p \in Shown(Tree(rows, Gaps, "layer")) :
             p \in steps \/ p.row.accepted \/ (p.row.previous /\ p.row.level # 1)

\* Time alone never makes a proof look better: the state that the tree will
\* show on any later day is as bad as the one it shows now, or worse.
LaterIsNoBetter ==
  \A h \in Hosts :
    LET c == PolicyMerge(host[h].files)
    IN  Loads(c) =>
          \A d \in ahead : \A q \in Inventory(c) :
            StateRank(Classify(c, q, d, host[h].epoch).state)
              <= StateRank(Classify(c, q, now, host[h].epoch).state)

\* A bundle tells what its host said of itself when it was signed, however
\* late it is read, if nobody edited the files meanwhile; and it verifies.
BundleShowsTheHost ==
  \A b \in box : b.quiet /\ ~b.damaged /\ b.archive.whole =>
    /\ Verify(b.archive, b.archive.manifest.host) = "ok"
    /\ Loads(LoadVerified(b.archive)) =>
         {<<row.key[1], row.state>> : row \in FleetRows(b.label, b.archive, now)} = b.truth

\* What was cut short, lost a part or was changed on its way is refused by
\* `bundle verify`, and so is a file that changed while it was exported.
DamageShows ==
  \A b \in box :
    b.damaged \/ ~b.archive.whole \/ b.archive.members # b.archive.manifest.files
      => Verify(b.archive, Absent) # "ok"

\* In a merged fleet each row comes from a newest of the bundles that have
\* it, whatever the order they were named in, and every other bundle that
\* had it is named as dropped.
NewestWins ==
  \A items \in Merges :
    LET fleet    == MergeVerified(items, now)
        had(key) == {i \in DOMAIN items :
                       \E row \in FleetRows(items[i].label, items[i].archive, now) : row.key = key}
    IN  \A row \in fleet.rows : \A i \in had(row.key) :
          /\ items[i].archive.manifest.at <= row.at
          /\ items[i].label = row.source
             \/ \E conflict \in fleet.conflicts :
                  conflict.key = row.key /\ conflict.dropped = items[i].label
\* A bundle that verifies is whole and tells what its host said, and of
\* several the newest is shown.
BundleIsFaithful == BundleShowsTheHost /\ DamageShows /\ NewestWins

=============================================================================
