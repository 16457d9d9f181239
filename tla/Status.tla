------------------------------- MODULE Status -------------------------------
(***************************************************************************)
(* What `restoregap status`, `next` and the dashboards tell an owner about  *)
(* one machine (internal/status): the standing of every proof, the recovery *)
(* level, the headline and the verdict, the taxonomy tree and the list of    *)
(* next steps.  Nothing here keeps state: each report is a function of the   *)
(* context, the epoch of the install and the clock, which counts days.       *)
(*                                                                         *)
(* The context of Rules has, for these reports, also                        *)
(*   order    the guard ids in the order of the files,                      *)
(*   scope    the default scope of a single file,                           *)
(* a guard its layer, category and scope, and a proof                       *)
(*   observed, expires, accepted   days, 0 when there is none,              *)
(*   checks   the types of the checks that passed, Absent when unmeasured,  *)
(*   epoch    0 when it was written before stamps existed,                  *)
(*   layer, category, keyword, scope   Blank when there is none; keyword is    *)
(*            the layer that its id, artifact or evidence file suggests.    *)
(* Proof ids are numbers: their place in the alphabet.                      *)
(***************************************************************************)
EXTENDS Rules, SequencesExt

Blank == ""

\* A record of a proof, as far as it is read here.
IsProof(r) ==
  r \in [status : {Blank, "stale", "disputed", "unreachable"}, signature : {"none", "good", "legacy", "bad"},
         verified : BOOLEAN, observed : Nat, expires : Nat, accepted : Nat, checks : {r.checks},
         epoch : Nat, digest : {r.digest}, deps : {r.deps}, layer : {r.layer}, category : {r.category},
         keyword : {r.keyword}, scope : {r.scope}]

Position(seq, x) == IF \E i \in DOMAIN seq : seq[i] = x
                    THEN CHOOSE i \in DOMAIN seq : seq[i] = x ELSE Len(seq) + 1

\* Keys are compared field by field.
Before(s, t) == \E i \in DOMAIN s : s[i] < t[i] /\ \A j \in 1..(i - 1) : s[j] = t[j]

\* sort.Slice, by an order that tells any two apart.
InOrder(S, Less(_, _)) ==
  [n \in 1..Cardinality(S) |-> CHOOSE x \in S : Cardinality({y \in S : Less(y, x)}) = n - 1]

-----------------------------------------------------------------------------
(* Where a proof belongs                                                   *)

LayerOrder == <<"recovery-kit", "identity-secrets", "system-os", "infra-network",
                "backups-offsite", "git-code", "data-apps", "agents-context",
                "cross-cutting", "unfiled">>

LayerRank(layer) == IF layer = Blank THEN Len(LayerOrder) ELSE Position(LayerOrder, layer)

\* Every unknown name ranks behind these.
EnvironmentOrder == <<"prod", "staging", "dev", "lab", Blank>>
EnvironmentRank(env) == Position(EnvironmentOrder, env)

NoScope == [environment |-> Blank, system |-> Blank, host |-> Blank, tags |-> {}]

MergeScope(base, over) ==
  [f \in DOMAIN base |->
     IF (IF f = "tags" THEN over.tags = {} ELSE over[f] = Blank) THEN base[f] ELSE over[f]]

RequiringGuards(c, q) == SelectSeq(c.order, LAMBDA x : q \in c.guards[x].proofs)

\* The earliest layer wins, and among equals the first in the files.
BestRequiring(c, xs) ==
  xs[CHOOSE i \in DOMAIN xs :
       \A j \in DOMAIN xs :
         Before(<<LayerRank(c.guards[xs[i]].layer), i>>, <<LayerRank(c.guards[xs[j]].layer), j>>)
         \/ i = j]

EffectiveProofScope(c, q) ==
  LET xs == RequiringGuards(c, q)
  IN  MergeScope(IF xs = <<>> THEN c.scope
                 ELSE MergeScope(c.scope, c.guards[BestRequiring(c, xs)].scope),
                 c.proofs[q].scope)

\* The proof's own layer, a keyword, the guards that require it; a guard that
\* cuts across layers files nothing.
EffectiveProofLayer(c, q) ==
  LET r  == c.proofs[q]
      xs == SelectSeq(RequiringGuards(c, q), LAMBDA x : c.guards[x].layer # "cross-cutting")
      by == IF xs = <<>> THEN "unfiled" ELSE c.guards[BestRequiring(c, xs)].layer
  IN  IF r.layer # Blank THEN r.layer
      ELSE IF r.keyword # Blank THEN r.keyword
      ELSE IF by = Blank THEN "unfiled" ELSE by

LayerConflict(c, q) ==
  /\ c.proofs[q].layer = Blank /\ c.proofs[q].keyword = Blank
  /\ \E i, j \in DOMAIN RequiringGuards(c, q) :
       LET L == [k \in DOMAIN RequiringGuards(c, q) |-> c.guards[RequiringGuards(c, q)[k]].layer]
       IN  "cross-cutting" \notin {L[i], L[j]} /\ L[i] # L[j]

EffectiveCategory(c, q) ==
  LET xs == SelectSeq(RequiringGuards(c, q), LAMBDA x : c.guards[x].layer # "cross-cutting")
  IN  IF c.proofs[q].category # Blank \/ xs = <<>> THEN c.proofs[q].category
      ELSE c.guards[BestRequiring(c, xs)].category

-----------------------------------------------------------------------------
(* What a proof is worth                                                   *)

LevelName == <<"declared", "restores", "data-valid", "serves">>

LevelFromChecks(passed) ==
  IF "serve" \in passed THEN 4
  ELSE IF passed \cap {"sqlite", "git", "key_fingerprint"} # {} THEN 3
  ELSE IF passed \cap {"byte_identical", "file_tree", "command"} # {} THEN 2
  ELSE 1

\* A verified proof without measurements is from before typed checks.
LevelOf(r, now) ==
  IF EvaluateProof(r, now) # "present" \/ ~r.verified THEN 1
  ELSE IF r.checks = Absent THEN 2 ELSE LevelFromChecks(r.checks)

Plain == [requireVerified |-> FALSE, maxAge |-> 0, requireBound |-> FALSE]
Standing(c, q, now) == CheckProofWithBinding(Plain, q, c, now)

\* An edited recipe takes the level away.
ContextualLevelOf(c, q, now) ==
  IF Standing(c, q, now) = "present" THEN LevelOf(c.proofs[q], now) ELSE 1

PreviousEpoch(r, epoch) == r.epoch # 0 /\ epoch # 0 /\ r.epoch # epoch

\* Mutant: an acceptance is active from its date on.
AcceptanceBackwards(r, now) == r.accepted # 0 /\ now >= r.accepted

AcceptanceActive(r, now) == r.accepted # 0 /\ now < r.accepted

\* max(48 hours, a seventh of its life)
WithinFreshnessWindow(r, now) ==
  now - r.observed <= 2 \/ 7 * (now - r.observed) <= r.expires - r.observed

IsObservedProof(c, q, now) ==
  LET r == c.proofs[q]
  IN  /\ Standing(c, q, now) = "present"
      /\ r.observed # 0 /\ r.expires # 0 /\ now < r.expires
      /\ WithinFreshnessWindow(r, now)

\* The last third of its life, at most a week; a week when the life is unknown.
ExpiringSoon(r, now) ==
  LET left == r.expires - now
  IN  left < 7 /\ (r.observed # 0 /\ r.expires > r.observed => 3 * left < r.expires - r.observed)

ProofExpiryState(r, now) ==
  LET e == EvaluateProof(r, now)
  IN  CASE e \in {"unreachable", "contradicted"}  -> e
        [] e = "stale"                            -> IF r.status = "stale" THEN "stale" ELSE "expired"
        [] e = "present" /\ r.expires = 0         -> "present"
        [] e = "present" /\ r.expires # 0         ->
             IF ExpiringSoon(r, now) THEN "expiring"
             ELSE IF r.observed # 0 /\ WithinFreshnessWindow(r, now) THEN "observed"
             ELSE "unreviewed"

\* getProofs: what the record says of itself, then the binding, then the
\* epoch; a drill that failed is told as it is.
ProofState(c, q, now, epoch) ==
  LET r == c.proofs[q]
  IN  IF r.status \in {"stale", "disputed", "unreachable"} THEN r.status
      ELSE IF PreviousEpoch(r, epoch) THEN "unreviewed"
      ELSE IF Standing(c, q, now) = "contradicted" THEN "contradicted"
      ELSE ProofExpiryState(r, now)

ExpiringCount(c, now) ==
  Cardinality({q \in DOMAIN c.proofs : /\ Standing(c, q, now) # "contradicted"
                                       /\ ProofExpiryState(c.proofs[q], now) = "expiring"})

-----------------------------------------------------------------------------
(* The headline and the verdict                                            *)

\* Mutant: evidence of an earlier install counts as any other.
CountsAnyEpoch(c, q, now, epoch) ==
  LET r == c.proofs[q]
  IN  IF Standing(c, q, now) # "present" THEN "unreviewed"
      ELSE IF LevelOf(r, now) # 1 THEN "restored"
      ELSE IF AcceptanceActive(r, now) THEN "accepted"
      ELSE IF IsObservedProof(c, q, now) THEN "observed" ELSE "unreviewed"

\* partitionCounts: the count that a proof goes into.
CountsAs(c, q, now, epoch) ==
  LET r == c.proofs[q]
  IN  IF PreviousEpoch(r, epoch) \/ Standing(c, q, now) # "present" THEN "unreviewed"
      ELSE IF LevelOf(r, now) # 1 THEN "restored"
      ELSE IF AcceptanceActive(r, now) THEN "accepted"
      ELSE IF IsObservedProof(c, q, now) THEN "observed" ELSE "unreviewed"

\* What the ledger adds: its chain, and the days that each override has left.
NeedsEyes(daysLeft) == daysLeft <= 7

\* Gather. A ledger that is not there is [ok |-> TRUE, daysLeft |-> {}].
Verdict1(c, now, epoch, declared, loosened, led) ==
  IF ~led.ok THEN "block"
  ELSE IF \/ ~declared \/ loosened
          \/ \E d \in led.daysLeft : NeedsEyes(d)
          \/ \E q \in DOMAIN c.proofs :
               \/ CountsAs(c, q, now, epoch) = "unreviewed"
               \/ ProofState(c, q, now, epoch)
                    \in {"expired", "contradicted", "unreachable", "stale", "disputed"}
       THEN "warn" ELSE "pass"

\* The soonest expiry still ahead.
NextExpiry(c, now) ==
  LET ahead == {q \in DOMAIN c.proofs : c.proofs[q].expires > now}
  IN  IF ahead = {} THEN 0 ELSE Min({c.proofs[q].expires : q \in ahead})

-----------------------------------------------------------------------------
(* The rows                                                                *)

NoProofRow(q) == [proof |-> q, drilled |-> TRUE, level |-> 1, previous |-> FALSE, accepted |-> FALSE,
                  lapsed |-> FALSE, observed |-> FALSE, measured |-> FALSE]

\* inventoryRow and applyProofStatus. Measurements are shown only while
\* nothing speaks against the proof.
InventoryRow(c, q, now, epoch) ==
  IF q \notin DOMAIN c.proofs THEN NoProofRow(q)
  ELSE LET r     == c.proofs[q]
           level == ContextualLevelOf(c, q, now)
           prev  == PreviousEpoch(r, epoch)
           lapse == r.accepted # 0 /\ ~AcceptanceActive(r, now)
       IN  [proof |-> q, drilled |-> q \in DOMAIN c.drills, level |-> level, previous |-> prev,
            accepted |-> AcceptanceActive(r, now), lapsed |-> lapse,
            observed |-> IsObservedProof(c, q, now),
            measured |-> /\ Standing(c, q, now) = "present" /\ r.verified /\ ~prev /\ ~lapse
                         /\ ~(AcceptanceActive(r, now) /\ level = 1)
                         /\ r.checks # Absent]

Attention == {"disputed", "expired", "unreachable", "lapsed"}

StateRank(s) == CASE s \in {"disputed", "expired", "unreachable"} -> 0
                  [] s = "lapsed" -> 1 [] s = "unreviewed" -> 2
                  [] s = "observed" -> 3 [] s = "accepted" -> 4 [] s = "restored" -> 5

\* classifyProofState: the state of a row and its rank among the next steps.
ClassifyProofState(row, ps) ==
  CASE ps \in {"disputed", "unreachable"}                 -> <<ps, 0>>
    [] ps \in {"expired", "stale"}                        -> <<"expired", 0>>
    [] ps \notin {"disputed", "unreachable", "expired", "stale"} ->
         IF row.previous THEN <<"unreviewed", 3>>
         ELSE IF row.level # 1 THEN <<"restored", 5>>
         ELSE IF row.lapsed THEN <<"lapsed", 1>>
         ELSE IF row.accepted THEN <<"accepted", 4>>
         ELSE IF row.observed THEN <<"observed", 4>>
         ELSE <<"unreviewed", IF row.drilled THEN 3 ELSE 2>>

\* Classify. A drill that never left a proof has no layer and no scope.
Classify(c, q, now, epoch) ==
  LET known == q \in DOMAIN c.proofs
      row   == InventoryRow(c, q, now, epoch)
      state == ClassifyProofState(row, IF known THEN ProofState(c, q, now, epoch) ELSE Blank)
  IN  [row |-> row, proof |-> q, state |-> state[1], rank |-> state[2],
       layer    |-> IF known THEN EffectiveProofLayer(c, q) ELSE "unfiled",
       category |-> IF known THEN EffectiveCategory(c, q) ELSE Blank,
       scope    |-> IF known THEN EffectiveProofScope(c, q) ELSE NoScope]

Inventory(c) == DOMAIN c.proofs \cup DOMAIN c.drills

\* BuildScopeRows, behind `status --format json`, the tree and the dashboards.
ScopeRows(c, now, epoch) == {Classify(c, q, now, epoch) : q \in Inventory(c)}

\* An axis without values filters nothing.
Matches(f, p) ==
  /\ f.layers = {} \/ p.layer \in f.layers
  /\ \/ f.states = {} \/ p.state \in f.states
     \/ "attention" \in f.states /\ p.state \in Attention
  /\ f.envs = {} \/ p.scope.environment \in f.envs
  /\ f.systems = {} \/ p.scope.system \in f.systems
  /\ f.tags = {} \/ p.scope.tags \cap f.tags # {}

\* One category of the tree: by environment, problems first, then the id.
TreeRows(rows) ==
  LET Key(p) == <<EnvironmentRank(p.scope.environment), StateRank(p.state), p.proof>>
  IN  InOrder(rows, LAMBDA p, t : Before(Key(p), Key(t)))

\* The group of a row in the tree by layer or by system.
Group(p, axis) == IF axis = "layer" THEN p.layer ELSE p.scope.system

\* buildGroupedTree
Tree(rows, f, axis) ==
  LET kept == {p \in rows : Matches(f, p)}
  IN  [g \in {Group(p, axis) : p \in kept} |->
         [k \in {p.category : p \in {u \in kept : Group(u, axis) = g}} |->
            TreeRows({p \in kept : Group(p, axis) = g /\ p.category = k})]]

\* filterBucket and rollupTouch: one column for all that needs attention.
Bucket(s) == IF s \in Attention THEN "attention" ELSE s

IsGap(s) == Bucket(s) \in {"attention", "unreviewed"}

\* renderScopeRollupText: only when there is more than one of something.
Rollup(rows) ==
  LET envs == {p.scope.environment : p \in rows}
  IN  IF Cardinality(envs) <= 1 /\ Cardinality({p.scope.system : p \in rows}) <= 1 THEN {}
      ELSE {<<e, b, Cardinality({p \in rows : p.scope.environment = e /\ Bucket(p.state) = b})>> :
              e \in envs, b \in {Bucket(p.state) : p \in rows}}

-----------------------------------------------------------------------------
(* The next steps                                                          *)

\* Mutant: an acceptance that has lapsed still excuses.
IsNextStepLenient(p) == p.row.level = 1 /\ ~p.row.accepted /\ p.state \notin {"observed", "lapsed"}

\* NextSteps: what is not green, not accepted and not freshly observed.
IsNextStep(p) == p.row.level = 1 /\ ~p.row.accepted /\ p.state # "observed"

NextSteps(rows) ==
  LET Key(p) == <<EnvironmentRank(p.scope.environment), LayerRank(p.layer), p.rank, p.proof>>
  IN  InOrder({p \in rows : IsNextStep(p)}, LAMBDA p, t : Before(Key(p), Key(t)))

\* nextStepCommandFor: drill what can be drilled, accept what cannot.
NextCommand(p, sourceKnown) ==
  IF ~p.row.drilled THEN "accept" ELSE IF sourceKnown THEN "drill" ELSE "drill propose"
=============================================================================
