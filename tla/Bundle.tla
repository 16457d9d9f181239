------------------------------- MODULE Bundle -------------------------------
(***************************************************************************)
(* Portable evidence (internal/bundle, internal/status/fleet.go): signed     *)
(* archives of a machine's context files and ledger, their verification and  *)
(* their merge into a view of the fleet, and the signed summary that leaves   *)
(* the contents out.                                                         *)
(*                                                                         *)
(* A context file is a record with the guards, their order, the proofs, the   *)
(* drills and the default scope it declares.  A digest is what it was         *)
(* computed from.  An entry of the ledger has its hash, prev, the day it was   *)
(* written, whether it still hashes to its hash, and the hash of the entry it  *)
(* vouches for (Absent when it is no anchor); a hash is a number from 1 on.   *)
(***************************************************************************)
EXTENDS Status, Layers

CONSTANTS Secret   \* proof ids whose evidence lies in a secret store

-----------------------------------------------------------------------------
(* Reading the files                                                       *)

Refused == [refused |-> TRUE]
Loads(c) == "refused" \notin DOMAIN c

\* LoadLayers: a file among several hands its scope to what it declares.
Baked(f) ==
  [f EXCEPT !.scope  = NoScope,
            !.guards = [x \in DOMAIN f.guards |->
                          [f.guards[x] EXCEPT !.scope = MergeScope(f.scope, @)]],
            !.proofs = [q \in DOMAIN f.proofs |->
                          [f.proofs[q] EXCEPT !.scope = MergeScope(f.scope, @)]]]

Layered(fs) == IF Len(fs) = 1 THEN fs ELSE [i \in DOMAIN fs |-> Baked(fs[i])]

\* mergeByID: an id that two files declare is an error.
Twice(fs, field) ==
  \E i, j \in DOMAIN fs : i # j /\ DOMAIN fs[i][field] \cap DOMAIN fs[j][field] # {}

\* Only the ids that no two files declare are looked up.
Joined(fs, field) ==
  [q \in UNION {DOMAIN fs[i][field] : i \in DOMAIN fs} |->
     fs[CHOOSE i \in DOMAIN fs : q \in DOMAIN fs[i][field]][field][q]]

Context(fs, guards, order) ==
  [guards |-> guards, order |-> order, scope |-> fs[1].scope, facts |-> <<>>, coverage |-> {},
   proofs |-> Joined(fs, "proofs"), drills |-> Joined(fs, "drills")]

\* contextspec.LoadAll: every id once.
LoadAll(files) ==
  LET fs == Layered(files)
  IN  IF \E field \in {"guards", "proofs", "drills"} : Twice(fs, field) THEN Refused
      ELSE Context(fs, Joined(fs, "guards"), FlattenSeq([i \in DOMAIN fs |-> fs[i].order]))

MergedGuards(fs) ==
  LET Fold(acc, i) == FoldLeft(LAMBDA a, x : MergeGuard(a, i, x, fs[i].guards[x]), acc, fs[i].order)
  IN  FoldLeft(Fold, Nothing, [i \in DOMAIN fs |-> i]).guards

MergedOrder(fs) ==
  FoldLeft(LAMBDA acc, f : acc \o SelectSeq(f.order, LAMBDA x : ~Contains(acc, x)), <<>>, fs)

\* policy.Merge: a guard may come again, to be tightened.
PolicyMerge(files) ==
  LET fs == Layered(files)
  IN  IF Twice(fs, "proofs") \/ Twice(fs, "drills") THEN Refused
      ELSE Context(fs, MergedGuards(fs), MergedOrder(fs))

-----------------------------------------------------------------------------
(* The archive                                                             *)

GenesisHash == 0

TailHash(led) == IF led = <<>> THEN GenesisHash ELSE led[Len(led)].hash

\* buildLedgerSlice: what was written in the window; 0 is all of it.
LedgerSlice(led, since, now) ==
  LET kept == InOrder({i \in DOMAIN led : since = 0 \/ led[i].at >= now - since}, <)
  IN  [n \in DOMAIN kept |-> led[kept[n]]]

\* scopedProofs narrows the counts and the evidence, never the files.
ScopedProofs(c, env) ==
  {q \in DOMAIN c.proofs : env = Blank \/ EffectiveProofScope(c, q).environment = env}

Manifest(host, epoch, at, c, env, files, slice) ==
  [host |-> host, epoch |-> epoch, at |-> at, files |-> files, slice |-> slice,
   count |-> Len(slice), guards |-> Cardinality(DOMAIN c.guards),
   evidence |-> ScopedProofs(c, env) \ Secret, excluded |-> Cardinality(ScopedProofs(c, env) \cap Secret)]

\* writeTarGz reads the files once more.
Archive(manifest, key, files, slice) ==
  [whole |-> TRUE, manifest |-> manifest, signed |-> [key |-> key, over |-> manifest],
   members |-> files, slice |-> slice]

\* VerifyEntriesFrom the first entry's own predecessor: an entry whose hash
\* no longer fits needs a later anchor in the slice.
Chained(slice) ==
  \A i \in DOMAIN slice :
    /\ i > 1 => slice[i].prev = slice[i - 1].hash
    /\ slice[i].sound \/ \E j \in i..Len(slice) : slice[j].vouches = slice[i].hash

\* Mutant: the files are there, whatever they hold.
VerifyPresence(a, expected) ==
  IF ~a.whole THEN "unreadable"
  ELSE IF expected # Absent /\ a.signed.key # expected THEN "signer"
  ELSE IF a.signed.over # a.manifest THEN "signature"
  ELSE IF Len(a.members) < Len(a.manifest.files) THEN "missing file"
  ELSE IF a.slice # a.manifest.slice THEN "ledger digest"
  ELSE IF ~Chained(a.slice) THEN "ledger chain"
  ELSE "ok"

\* verifyArchive names the first check that fails. No key is expected by
\* the merge.
Verify(a, expected) ==
  IF ~a.whole THEN "unreadable"
  ELSE IF expected # Absent /\ a.signed.key # expected THEN "signer"
  ELSE IF a.signed.over # a.manifest THEN "signature"
  ELSE IF Len(a.members) < Len(a.manifest.files) THEN "missing file"
  ELSE IF (\E i \in DOMAIN a.manifest.files : a.members[i] # a.manifest.files[i]) THEN "file digest"
  ELSE IF a.slice # a.manifest.slice THEN "ledger digest"
  ELSE IF ~Chained(a.slice) THEN "ledger chain"
  ELSE IF Len(a.slice) # a.manifest.count THEN "count"
  ELSE "ok"

\* loadVerified stages the files and reads them with LoadAll.
LoadVerified(a) == IF Verify(a, Absent) = "ok" THEN LoadAll(a.members) ELSE Refused

-----------------------------------------------------------------------------
(* The fleet                                                               *)

\* fleetRowsForBundle: judged as of the moment the snapshot was taken.
FleetRows(label, a, today) ==
  LET c == LoadVerified(a)
      m == a.manifest
  IN  {[key |-> <<p.proof, p.scope.environment, p.scope.system,
                  IF p.scope.host = Blank THEN m.host ELSE p.scope.host>>,
        state |-> p.state, layer |-> p.layer, source |-> label, at |-> m.at,
        epoch |-> IF p.proof \in DOMAIN c.proofs /\ c.proofs[p.proof].epoch # 0
                  THEN c.proofs[p.proof].epoch ELSE m.epoch] :
         p \in ScopeRows(c, m.at, m.epoch)}

\* Of two rows with one key, the earlier merged first.
Later(c)   == c[2].at > c[1].at
Kept(c)    == IF Later(c) THEN c[2] ELSE c[1]
Dropped(c) == IF Later(c) THEN c[1] ELSE c[2]

\* mergeFleetRow, for the rows of one bundle, which have different keys: the
\* later one wins, the earlier one is named.
MergeFleetRows(fleet, rows) ==
  LET clashes == {c \in fleet.rows \X rows : c[1].key = c[2].key}
  IN  [rows |-> (fleet.rows \ {c[1] : c \in clashes}) \cup (rows \ {c[2] : c \in clashes})
                  \cup {Kept(c) : c \in clashes},
       conflicts |-> fleet.conflicts
                       \cup {[key |-> c[1].key, kept |-> Kept(c).source, dropped |-> Dropped(c).source] :
                               c \in clashes}]

NoFleet == [rows |-> {}, conflicts |-> {}]

\* MergeBundles: one archive that does not verify, or does not load, and
\* nothing is merged.
Mergeable(items) == \A i \in DOMAIN items : Loads(LoadVerified(items[i].archive))

MergeVerified(items, today) ==
  LET fleet[n \in 0..Len(items)] ==
        IF n = 0 THEN NoFleet
        ELSE MergeFleetRows(fleet[n - 1], FleetRows(items[n].label, items[n].archive, today))
  IN  fleet[Len(items)]

-----------------------------------------------------------------------------
(* The summary                                                             *)

Assurance(r) ==
  LET bound == r.digest # Absent \/ r.deps # Absent
  IN  CASE r.signature = "bad"   -> "invalid_signature"
        [] ~bound /\ r.signature # "bad" ->
             IF r.signature = "good" THEN "unbound_signed_v2"
             ELSE IF r.signature = "legacy" THEN "unbound_signed_legacy" ELSE "unbound_legacy"
        [] OTHER -> IF r.digest = Absent \/ r.deps = Absent THEN "binding_incomplete"
                    ELSE IF r.signature = "good" THEN "bound_signed_v2" ELSE "bound_unsigned"

\* makeSummaryProof
SummaryProof(c, q, asOf) ==
  LET r     == c.proofs[q]
      s     == Standing(c, q, asOf)
  IN  [proof |-> q, assurance |-> Assurance(r), verified |-> r.verified /\ s = "present",
       method |-> IF r.verified THEN "drill" ELSE "attestation",
       outcome |-> CASE s = "present"      -> IF r.verified THEN "pass" ELSE "observed"
                     [] s = "stale"        -> IF r.expires # 0 /\ asOf > r.expires THEN "expired" ELSE "stale"
                     [] s = "contradicted" -> "disputed"
                     [] s = "unreachable"  -> "unreachable"
                     [] s = "missing"      -> "unknown"]

\* readSummaryLedger: the whole ledger must verify. The tail of an empty one
\* is GenesisHash, which is three digits short of a digest.
SummaryLedger(led) ==
  [ok |-> led # <<>> => led[1].prev = GenesisHash /\ Chained(led),
   count |-> Len(led), tail |-> TailHash(led),
   anchored |-> Cardinality({i \in DOMAIN led : ~led[i].sound})]

ValidDigest(d) == d # GenesisHash

\* validateSummaryPayload
ValidSummary(s) ==
  /\ ValidDigest(s.ledger.tail) /\ s.ledger.anchored <= s.ledger.count
  /\ (s.scope = "all") = (s.selectors = {})
  /\ \A p \in s.proofs : (p.outcome = "pass") = p.verified

\* ExportSummary, for a signing key and a ledger that are there.
Summary(files, led, asOf, env, key) ==
  LET c == PolicyMerge(files)
      s == [proofs |-> {SummaryProof(c, q, asOf) : q \in ScopedProofs(c, env)},
            asOf |-> asOf, ledger |-> SummaryLedger(led),
            scope |-> IF env = Blank THEN "all" ELSE "filtered", selectors |-> {env} \ {Blank}]
  IN  IF Loads(c) /\ SummaryLedger(led).ok /\ ValidSummary(s)
      THEN [s |-> s, signed |-> [key |-> key, over |-> s]] ELSE Refused

\* VerifySummary insists on a key that the reader knows already.
VerifySummary(doc, expected) ==
  /\ Loads(doc) /\ ValidSummary(doc.s)
  /\ doc.signed.key = expected /\ doc.signed.over = doc.s

-----------------------------------------------------------------------------
(* The push                                                                *)

\* pushEndpoint: https, or plain http to this machine or when asked for.
Endpoint(to, insecure) ==
  /\ to.host # Blank /\ ~to.credentials /\ ~to.query
  /\ to.scheme = "https" \/ (to.scheme = "http" /\ (insecure \/ to.host = "loopback"))

\* reportPush: 0 when the service has the archive, 1 when it refuses it.
PushExit(answer) ==
  CASE answer \in {200, 201}                -> 0
    [] answer \in {401, 402, 409, 413, 422} -> 1
    [] OTHER                                -> 2
=============================================================================
