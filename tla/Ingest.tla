------------------------------- MODULE Ingest -------------------------------
(***************************************************************************)
(* How the server takes in pushed bundles: the handler of                    *)
(* internal/cloud/server/ingest.go over the tables and the archive files of   *)
(* internal/cloud/store, for one workspace.                                 *)
(*                                                                         *)
(* The database has one connection, so a call of the store is one step; what   *)
(* runs between two of them (other requests, the monitor, the settings page,  *)
(* a crash) is free to.  Times are kept as ages, so that the clock needs no    *)
(* bound.                                                                   *)
(***************************************************************************)
EXTENDS Naturals, Sequences, FiniteSets

CONSTANTS
  Hosts, Keys, Proofs,
  Archives,   \* what may be pushed: id -> [host, key, gen, good, bad]
  Cadences,   \* what the owner may choose for a host: watched (TRUE) or not
  Requests,   \* the handlers that may run at once
  MaxHosts,   \* the plan's limit (0: none)
  MaxAlerts,  \* maxRegressionAlerts
  Grace,      \* 1.5 times the cadence, in ticks
  GiveUp,     \* deliveryGiveUp, in ticks
  Fallible,   \* the calls that may fail; "crash" for the whole server
  MaxFaults,  \* bound: failures
  MaxIds,     \* bound: archives on disk
  MaxQueue,   \* bound: alerts queued when a push is admitted
  MaxWait,    \* bound: ticks one request may last
  MaxPass,    \* bound: ticks one pass of the monitor may last
  None

ASSUME ArchiveAssumption ==
         \A a \in DOMAIN Archives :
           /\ Archives[a].host \in Hosts /\ Archives[a].key \in Keys /\ Archives[a].gen \in Nat
           /\ Archives[a].good \cup Archives[a].bad \subseteq Proofs
           /\ Archives[a].good \cap Archives[a].bad = {} /\ IsFiniteSet(Archives[a].bad)
ASSUME IngestAssumption ==
         /\ {MaxHosts, MaxAlerts, Grace, GiveUp, MaxFaults, MaxIds, MaxQueue, MaxWait, MaxPass} \subseteq Nat
         /\ IsFiniteSet(Hosts) /\ Cadences \subseteq BOOLEAN
         /\ None \notin Hosts \cup Keys \cup DOMAIN Archives \cup Requests

VARIABLES
  hosts,   \* the table of hosts: pinned key, time since LastSeenAt, cadence set?, LapsedAt set?
  rows,    \* the table of bundles: id -> archive
  files,   \* the ids whose archive is on disk
  queue,   \* the alerts not yet delivered, oldest first
  req,     \* the running handlers
  mutex,   \* ingestMu
  faults

db   == <<hosts, rows, files, queue>>

Ids   == 1..MaxIds
Known == {h \in Hosts : hosts[h].key # None}
Held  == {i \in Ids : rows[i] # None}
Of(h) == {i \in Held : Archives[rows[i]].host = h}
Gen(i) == Archives[rows[i]].gen

\* bundleOrder, first row.  Rows of one generation are ordered by arrival and
\* by a random id: any of them may be the first.
Newest(S) == {i \in S : \A j \in S : Gen(j) <= Gen(i)}

\* newID: random, so any id that no row and no file has will do.
Fresh == Ids \ (Held \cup files)
NewId == CHOOSE i \in Fresh : TRUE

Alert(h, kind, a) == [host |-> h, kind |-> kind, arc |-> a, age |-> 0]
CreateAlert(h, kind, a) == queue' = Append(queue, Alert(h, kind, a))

\* A call that may fail does, and the budget of failures pays for it.
Fails(call) == call \in Fallible /\ faults < MaxFaults /\ faults' = faults + 1
Works == UNCHANGED faults

Idle == [pc |-> "idle", arc |-> None, age |-> 0, known |-> FALSE, lapsed |-> FALSE, cleared |-> FALSE,
         newest |-> TRUE, prev |-> 0, was |-> {}, id |-> 0, due |-> 0]

Arc(r) == Archives[req[r].arc]
H(r)   == Arc(r).host

IngestInit ==
  /\ hosts = [h \in Hosts |-> [key |-> None, silence |-> 0, cadence |-> FALSE, lapsed |-> FALSE]]
  /\ rows = [i \in Ids |-> None] /\ files = {} /\ queue = <<>>
  /\ req = [r \in Requests |-> Idle] /\ mutex = None /\ faults = 0

-----------------------------------------------------------------------------
(* The handler. *)

AnswerLocked(r) == req' = [req EXCEPT ![r] = Idle] /\ UNCHANGED mutex   \* mutant: no Unlock
Goto(r, pc) == req' = [req EXCEPT ![r].pc = pc]
Answer(r)   == req' = [req EXCEPT ![r] = Idle] /\ mutex' = None

\* A verified archive; now is read before the lock is taken.
Receive(r, a) ==
  /\ req[r].pc = "idle"
  /\ Len(queue) <= MaxQueue
  /\ Cardinality(Fresh) > Cardinality({q \in Requests : req[q].pc # "idle"})
  /\ req' = [req EXCEPT ![r] = [Idle EXCEPT !.pc = "wait", !.arc = a]]
  /\ UNCHANGED <<db, mutex, faults>>

Unlocked(r) == req[r].pc = "wait"   \* mutant: no ingestMu
\* The lock, and the host's row: the key of a known host is compared with it.
Enter(r) == req[r].pc = "wait" /\ mutex = None
Lookup(r) ==
  /\ Enter(r)
  /\ \/ H(r) \notin Known /\ Goto(r, "limit") /\ mutex' = r
     \/ H(r) \in Known /\ hosts[H(r)].key # Arc(r).key /\ Answer(r)
     \/ /\ H(r) \in Known /\ hosts[H(r)].key = Arc(r).key /\ mutex' = r
        /\ req' = [req EXCEPT ![r] = [@ EXCEPT !.pc = "replay", !.known = TRUE,
                                               !.lapsed = hosts[H(r)].lapsed]]
  /\ UNCHANGED <<db, faults>>

ReplayedLast(r) ==   \* mutant: only the newest bundle is compared
  \E i \in Newest(Of(H(r))) : rows[i] = req[r].arc
\* The same archive again is answered with the bundle that is already held.
Replayed(r) == \E i \in Of(H(r)) : rows[i] = req[r].arc
Replay(r) ==
  /\ req[r].pc = "replay"
  /\ \/ Replayed(r) /\ Answer(r)
     \/ ~Replayed(r) /\ Goto(r, "upsert") /\ UNCHANGED mutex
  /\ UNCHANGED <<db, faults>>

Full == MaxHosts > 0 /\ Cardinality(Known) >= MaxHosts
Limit(r) ==
  /\ req[r].pc = "limit"
  /\ \/ Full /\ Answer(r)
     \/ ~Full /\ Goto(r, "upsert") /\ UNCHANGED mutex
  /\ UNCHANGED <<db, faults>>

\* UpsertHostOnBundle: the row is read again, in the transaction.  A new host
\* has no cadence; a known one that the key still fits was seen when the
\* request began, and is no longer lapsed.
Sighted(row, r) ==
  IF row.key = None
    THEN [key |-> Arc(r).key, silence |-> req[r].age, cadence |-> FALSE, lapsed |-> FALSE]
    ELSE [row EXCEPT !.silence = IF @ < req[r].age THEN @ ELSE req[r].age, !.lapsed = FALSE]
Pinned(r) == hosts[H(r)].key \in {None, Arc(r).key}
Upsert(r) ==
  /\ req[r].pc = "upsert"
  /\ \/ ~Pinned(r) /\ Answer(r) /\ UNCHANGED hosts
     \/ /\ Pinned(r)
        /\ hosts' = [hosts EXCEPT ![H(r)] = Sighted(@, r)]
        /\ req' = [req EXCEPT ![r] = [@ EXCEPT !.pc = IF req[r].known THEN "latest" ELSE "write",
                                               !.cleared = hosts[H(r)].lapsed]]
        /\ UNCHANGED mutex
  /\ UNCHANGED <<rows, files, queue, faults>>

\* A call of the database fails before or in the upsert: 500, nothing changed.
Fail(r) ==
  /\ Enter(r) \/ req[r].pc \in {"replay", "limit", "upsert"}
  /\ Fails("db") /\ Answer(r)
  /\ UNCHANGED db

NeverLate(r) == FALSE   \* mutant: every bundle counts as the newest
\* ListBundles(1): is this the newest generation?  An error counts as yes.
Late(r) == \E i \in Of(H(r)) : Arc(r).gen < Gen(i)
Latest(r) ==
  /\ req[r].pc = "latest"
  /\ \/ req' = [req EXCEPT ![r] = [@ EXCEPT !.pc = "previous", !.newest = ~Late(r)]] /\ Works
     \/ Goto(r, "previous") /\ Fails("latest")
  /\ UNCHANGED <<db, mutex>>

\* PreviousBundle: strictly older than this one.
Older(r) == {i \in Of(H(r)) : Gen(i) < Arc(r).gen}
Previous(r) ==
  /\ req[r].pc = "previous"
  /\ \/ /\ req[r].newest /\ Older(r) # {} /\ Works
        /\ \E i \in Newest(Older(r)) : req' = [req EXCEPT ![r] = [@ EXCEPT !.pc = "proofs", !.prev = i]]
     \/ (~req[r].newest \/ Older(r) = {}) /\ Works /\ Goto(r, "write")
     \/ Fails("previous") /\ Goto(r, "write")
  /\ UNCHANGED <<db, mutex>>

\* ProofsForBundle: no rows if the bundle has been pruned since.
ReadProofs(r) ==
  /\ req[r].pc = "proofs"
  /\ LET i == req[r].prev IN
     \/ /\ req' = [req EXCEPT ![r] = [@ EXCEPT !.pc = "write", !.prev = 0,
                                               !.was = IF i \in Held THEN Archives[rows[i]].good ELSE {}]]
        /\ Works
     \/ /\ req' = [req EXCEPT ![r] = [@ EXCEPT !.pc = "write", !.prev = 0]]
        /\ Fails("previous")
  /\ UNCHANGED <<db, mutex>>

\* SaveBundle: the file (temporary, synced, renamed), then the row.
WriteFile(r) ==
  /\ req[r].pc = "write" /\ Fresh # {}
  /\ \/ /\ files' = files \cup {NewId} /\ Works
        /\ req' = [req EXCEPT ![r] = [@ EXCEPT !.pc = "insert", !.id = NewId]] /\ UNCHANGED mutex
     \/ Fails("save") /\ Answer(r) /\ UNCHANGED files
  /\ UNCHANGED <<hosts, rows, queue>>

\* The alerts of a bundle: one if the host had lapsed, then one for each of the
\* first MaxAlerts proofs that were healthy and are not, and one for the others.
Regressed(r) == req[r].was \cap Arc(r).bad
AlertsDue(n) == IF n > MaxAlerts THEN MaxAlerts + 1 ELSE n
Owed(r, due) ==
  IF due = 0 THEN Answer(r)
             ELSE /\ req' = [req EXCEPT ![r] = [@ EXCEPT !.pc = "regressed", !.was = {}, !.id = 0,
                                                         !.lapsed = FALSE, !.due = due]]
                  /\ UNCHANGED mutex

Insert(r) ==
  /\ req[r].pc = "insert"
  /\ \/ /\ rows' = [rows EXCEPT ![req[r].id] = req[r].arc] /\ Works
        /\ \/ ~(req[r].known /\ req[r].newest) /\ Answer(r)
           \/ /\ req[r].known /\ req[r].newest /\ req[r].lapsed
              /\ Goto(r, "recovered") /\ UNCHANGED mutex
           \/ /\ req[r].known /\ req[r].newest /\ ~req[r].lapsed
              /\ Owed(r, AlertsDue(Cardinality(Regressed(r))))
        /\ UNCHANGED files
     \/ /\ Fails("save") /\ Answer(r)
        /\ files' = files \ {req[r].id} /\ UNCHANGED rows
  /\ UNCHANGED <<hosts, queue>>

\* raise: an alert that cannot be stored is dropped.
Raise(h, kind, a) ==
  \/ CreateAlert(h, kind, a) /\ Works
  \/ UNCHANGED queue /\ Fails("raise")

RaiseRecovered(r) ==
  /\ req[r].pc = "recovered"
  /\ Raise(H(r), "recovered", req[r].arc)
  /\ Owed(r, AlertsDue(Cardinality(Regressed(r))))
  /\ UNCHANGED <<hosts, rows, files>>

RaiseRegression(r) ==
  /\ req[r].pc = "regressed"
  /\ Raise(H(r), "regressed", req[r].arc)
  /\ Owed(r, req[r].due - 1)
  /\ UNCHANGED <<hosts, rows, files>>

Handle(r) ==
  \/ Lookup(r) \/ Replay(r) \/ Limit(r) \/ Upsert(r) \/ Fail(r)
  \/ Latest(r) \/ Previous(r) \/ ReadProofs(r) \/ WriteFile(r) \/ Insert(r)
  \/ RaiseRecovered(r) \/ RaiseRegression(r)

-----------------------------------------------------------------------------
(* The settings page of a host: its key and its cadence. *)

SetHostPublicKey(h, key) ==
  /\ h \in Known /\ hosts' = [hosts EXCEPT ![h].key = key]
  /\ UNCHANGED <<rows, files, queue, req, mutex, faults>>

SetHostExpectedEvery(h, on) ==
  /\ h \in Known /\ hosts' = [hosts EXCEPT ![h].cadence = on]
  /\ UNCHANGED <<rows, files, queue, req, mutex, faults>>
=============================================================================
