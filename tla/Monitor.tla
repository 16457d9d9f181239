------------------------------ MODULE Monitor -------------------------------
(***************************************************************************)
(* RunMonitor of internal/cloud/server/monitor.go, beside the handlers of     *)
(* Ingest: pass after pass it marks the silent hosts, delivers the queued      *)
(* alerts and removes the bundles that are too old.  A pass takes no lock, and *)
(* what it has listed may be stale when it comes to use it.                   *)
(***************************************************************************)
EXTENDS Ingest, SequencesExt

VARIABLES
  mon,     \* the pass that runs
  doomed,  \* the pruned bundles whose files it has still to remove
  horizon  \* the generations below it are past the retention window

vars == <<db, req, mutex, faults, mon, doomed, horizon>>

Kinds  == {"lapsed", "recovered", "regressed"}

Rest == [pc |-> "rest", quiet |-> {}, host |-> None, at |-> 1, left |-> 0, failed |-> FALSE, age |-> 0]

Init == IngestInit /\ mon = Rest /\ doomed = {} /\ horizon = 0

TypeOK ==
  /\ hosts \in [Hosts -> [key : Keys \cup {None}, silence : 0..Grace + 1,
                          cadence : BOOLEAN, lapsed : BOOLEAN]]
  /\ rows \in [Ids -> DOMAIN Archives \cup {None}] /\ files \subseteq Ids
  /\ \A i \in DOMAIN queue : queue[i] \in [host : Known, kind : Kinds, age : 0..GiveUp + MaxPass,
                                           arc : DOMAIN Archives \cup {None}]
  /\ mutex \in Requests \cup {None} /\ faults \in 0..MaxFaults
  /\ \A r \in Requests : req[r].pc \notin {"idle", "wait"} <=> mutex = r
  /\ mon.pc \in {"rest", "lapses", "raise", "deliver", "mark", "unlink"}
  /\ mon.pc \in {"deliver", "mark"} => mon.at + mon.left <= Len(queue) + 1
  /\ doomed \subseteq Ids /\ (mon.pc = "unlink" <=> doomed # {})
  /\ horizon \in Nat

-----------------------------------------------------------------------------
(* A pass. *)

\* detectLapses: the hosts as they are listed now, if the list can be read.
Silent(h) == hosts[h].silence > Grace
QuietStill(h) == h \in Known /\ hosts[h].cadence /\ Silent(h)   \* mutant: LapsedAt ignored
Quiet(h)  == h \in Known /\ hosts[h].cadence /\ ~hosts[h].lapsed /\ Silent(h)
StartPass ==
  /\ mon.pc = "rest"
  /\ \/ mon' = [Rest EXCEPT !.pc = "lapses", !.quiet = {h \in Hosts : Quiet(h)}] /\ Works
     \/ mon' = [Rest EXCEPT !.pc = "lapses"] /\ Fails("list")
  /\ UNCHANGED <<db, doomed>>

MarkHostLapsed(h) ==
  /\ mon.pc = "lapses" /\ h \in mon.quiet
  /\ \/ /\ hosts' = [hosts EXCEPT ![h].lapsed = TRUE] /\ Works
        /\ mon' = [mon EXCEPT !.pc = "raise", !.host = h, !.quiet = @ \ {h}]
     \/ /\ Fails("mark") /\ UNCHANGED hosts
        /\ mon' = [mon EXCEPT !.quiet = @ \ {h}]
  /\ UNCHANGED <<rows, files, queue, doomed>>

RaiseIfUnmarked ==   \* mutant: skips a host that is already marked, and this one is
  /\ mon.pc = "raise"
  /\ IF hosts[mon.host].lapsed THEN UNCHANGED <<queue, faults>> ELSE Raise(mon.host, "lapsed", None)
  /\ mon' = [mon EXCEPT !.pc = "lapses", !.host = None]
  /\ UNCHANGED <<hosts, rows, files, doomed>>
RaiseLapsed ==
  /\ mon.pc = "raise"
  /\ Raise(mon.host, "lapsed", None)
  /\ mon' = [mon EXCEPT !.pc = "lapses", !.host = None]
  /\ UNCHANGED <<hosts, rows, files, doomed>>

\* deliverAlerts: the alerts queued now, oldest first.  at: where the next of
\* them is in the queue; left: how many of them are not dealt with.
UndeliveredAlerts ==
  /\ mon.pc = "lapses" /\ mon.quiet = {}
  /\ \/ mon' = [mon EXCEPT !.pc = "deliver", !.left = Len(queue)] /\ Works
     \/ mon' = [mon EXCEPT !.pc = "deliver"] /\ Fails("list")
  /\ UNCHANGED <<db, doomed>>

Processed == queue' = RemoveAt(queue, mon.at)
Proceed(stays, failed) ==
  mon' = [mon EXCEPT !.pc = "deliver", !.at = IF stays THEN @ + 1 ELSE @, !.left = @ - 1,
                     !.failed = failed]

NeverExpire == Proceed(TRUE, TRUE) /\ Works /\ UNCHANGED queue   \* mutant: no deliveryGiveUp
\* The send failed, now or earlier in the pass: given up if it was too old when
\* the pass began.
ExpireIfOld ==
  LET old == queue[mon.at].age >= GiveUp + mon.age IN
  \/ old /\ Processed /\ Proceed(FALSE, TRUE) /\ Works
  \/ old /\ Fails("mark") /\ Proceed(TRUE, TRUE) /\ UNCHANGED queue
  \/ ~old /\ Proceed(TRUE, TRUE) /\ Works /\ UNCHANGED queue

\* Whether an endpoint answers is not the server's choice.  After one that
\* does not, the rest of the pass only gives up what is too old.
Send ==
  /\ mon.pc = "deliver" /\ mon.left > 0
  /\ \/ ~mon.failed /\ mon' = [mon EXCEPT !.pc = "mark"] /\ UNCHANGED <<queue, faults>>
     \/ ExpireIfOld
  /\ UNCHANGED <<hosts, rows, files, doomed>>

MarkAlertDelivered ==
  /\ mon.pc = "mark"
  /\ \/ Processed /\ Proceed(FALSE, FALSE) /\ Works
     \/ Fails("mark") /\ Proceed(TRUE, FALSE) /\ UNCHANGED queue
  /\ UNCHANGED <<hosts, rows, files, doomed>>

\* PruneBundles: the rows in one transaction, all but the newest of each host
\* (K), then their files.
NoFirst(K) == K = {}   \* mutant: no rn > 1
FirstOfEach(K) == \A h \in Hosts : Of(h) # {} => \E i \in Newest(Of(h)) : K \cap Of(h) = {i}
Removing(D) == doomed' = D /\ mon' = IF D = {} THEN Rest ELSE [Rest EXCEPT !.pc = "unlink", !.age = mon.age]
Expired(K) == {i \in Held \ K : Gen(i) < horizon}
PruneFilesFirst ==   \* mutant: the files are removed before the commit
  /\ mon.pc = "deliver" /\ mon.left = 0
  /\ \E K \in SUBSET Held :
       /\ FirstOfEach(K) /\ files' = files \ Expired(K)
       /\ \/ rows' = [i \in Ids |-> IF i \in Expired(K) THEN None ELSE rows[i]] /\ Works
          \/ Fails("prune") /\ UNCHANGED rows
  /\ Removing({})
  /\ UNCHANGED <<hosts, queue>>
PruneBundles ==
  /\ mon.pc = "deliver" /\ mon.left = 0
  /\ \/ \E K \in SUBSET Held :
          /\ FirstOfEach(K) /\ Works
          /\ rows' = [i \in Ids |-> IF i \in Expired(K) THEN None ELSE rows[i]]
          /\ Removing(Expired(K))
     \/ Fails("prune") /\ Removing({}) /\ UNCHANGED rows
  /\ UNCHANGED <<hosts, files, queue>>

\* The first file that cannot be removed ends the pass.
Unlink ==
  /\ mon.pc = "unlink"
  /\ \/ \E i \in doomed :
          /\ files' = files \ {i} /\ Works
          /\ Removing(doomed \ {i})
     \/ Fails("prune") /\ Removing({}) /\ UNCHANGED files
  /\ UNCHANGED <<hosts, rows, queue>>

Pass ==
  /\ \/ StartPass \/ (\E h \in Hosts : MarkHostLapsed(h)) \/ RaiseLapsed \/ UndeliveredAlerts
     \/ Send \/ MarkAlertDelivered \/ PruneBundles \/ Unlink
  /\ UNCHANGED <<req, mutex, horizon>>

-----------------------------------------------------------------------------
(* Time, and the end of the process. *)

Aged(n, top) == IF n < top THEN n + 1 ELSE top
Tick ==
  /\ \A r \in Requests : req[r].pc # "idle" => req[r].age < MaxWait
  /\ mon.pc # "rest" => mon.age < MaxPass
  /\ hosts' = [h \in Hosts |-> IF h \in Known THEN [hosts[h] EXCEPT !.silence = Aged(@, Grace + 1)]
                                              ELSE hosts[h]]
  /\ queue' = [i \in DOMAIN queue |-> [queue[i] EXCEPT !.age = Aged(@, GiveUp + MaxPass)]]
  /\ req' = [r \in Requests |-> IF req[r].pc = "idle" THEN Idle ELSE [req[r] EXCEPT !.age = @ + 1]]
  /\ mon' = IF mon.pc = "rest" THEN Rest ELSE [mon EXCEPT !.age = @ + 1]
  /\ UNCHANGED <<rows, files, mutex, faults, doomed, horizon>>

\* A generation leaves the retention window.
AgeOut ==
  /\ \E a \in DOMAIN Archives : Archives[a].gen > horizon
  /\ horizon' = horizon + 1
  /\ UNCHANGED <<db, req, mutex, faults, mon, doomed>>

\* The process is killed and started again: the database and the files stay.
Crash ==
  /\ Fails("crash")
  /\ req' = [r \in Requests |-> Idle] /\ mutex' = None /\ mon' = Rest /\ doomed' = {}
  /\ UNCHANGED <<db, horizon>>

Push(r) == \E a \in DOMAIN Archives : Receive(r, a)
Settings == \E h \in Hosts : \/ \E k \in Keys : SetHostPublicKey(h, k)
                             \/ \E on \in Cadences : SetHostExpectedEvery(h, on)

Next ==
  \/ (\E r \in Requests : Push(r) \/ Handle(r)) /\ UNCHANGED <<mon, doomed, horizon>>
  \/ Settings /\ UNCHANGED <<mon, doomed, horizon>>
  \/ Pass
  \/ Tick \/ AgeOut \/ Crash

\* The monitor's loop and the handlers go on, and between the passes, and the
\* requests, time goes by; nobody has to push, and no endpoint has to answer.
Fairness ==
  /\ WF_vars(Pass) /\ SF_vars(Tick)
  /\ WF_vars((\E r \in Requests : Handle(r)) /\ UNCHANGED <<mon, doomed, horizon>>)
Spec == Init /\ [][Next]_vars /\ Fairness

-----------------------------------------------------------------------------
(* Properties. *)

\* A row never points at an archive that is not on disk, whatever step of a
\* save or of a prune the process dies in: the file is written before the row
\* and removed after it.
ArchiveOnDisk == Held \subseteq files

\* The limit of the plan holds, also between two first pushes at once.
HostLimitHolds == MaxHosts > 0 => Cardinality(Known) <= MaxHosts

\* A retried or doubled push is stored once, also when both copies are handled
\* at the same time.
OneRowPerArchive == \A i, j \in Held : rows[i] = rows[j] => i = j

\* Retention never takes the newest evidence of a host, also against pushes
\* that arrive meanwhile: the newest generation held never goes back.
NewestIsKept ==
  [][\A h \in Hosts : \A i \in Of(h) : \E j \in Of(h)' : Gen(j)' >= Gen(i)]_vars

\* A recovery or a regression is announced only of what is the host's newest
\* bundle at that moment, though newness was judged several calls earlier; a
\* call that failed is the exception, since Latest takes an error for "newest".
Announced == queue'[Len(queue')]
NoAlertFromThePast ==
  [][Len(queue') > Len(queue) /\ faults = 0 /\ Announced.kind # "lapsed"
       => \A i \in Of(Announced.host) : Gen(i) <= Archives[Announced.arc].gen]_vars

\* A recovery answers a lapse of its own: what the handler read before its
\* upsert is what that upsert cleared, so no lapse is answered twice.
RecoveryIsFirst ==
  \A r \in Requests : req[r].pc = "recovered" /\ req[r].lapsed => req[r].cleared

\* A host that is marked lapsed is not marked, and reported, once more before a
\* bundle has come in between, though the list it was on may be stale.
LapseReportedOnce ==
  [][mon'.pc = "raise" /\ mon.pc # "raise" => ~hosts[mon'.host].lapsed]_vars

\* With no failure left to come, a host with a cadence that falls silent is
\* reported, or is heard of again, or is no longer watched.
SilenceIsReported ==
  \A h \in Hosts :
    (Quiet(h) /\ faults = MaxFaults) ~>
      \/ \E i \in DOMAIN queue : queue[i].host = h /\ queue[i].kind = "lapsed"
      \/ ~Silent(h) \/ ~hosts[h].cadence

\* Once the pushes stop, every alert is delivered or given up: a dead endpoint
\* cannot keep the queue from emptying.
QueueDrains ==
  <>[](\A r \in Requests : req[r].pc = "idle") => <>[](queue = <<>>)
\* What is stored is whole: rows have their archives, an archive has one row,
\* and the hosts stay within the plan.
StoreIsSound == ArchiveOnDisk /\ OneRowPerArchive /\ HostLimitHolds

\* What is announced is so: no recovery or regression from the past, no
\* recovery of a lapse that another handler answered, no lapse told twice.
AlertsAreTrue == NoAlertFromThePast /\ []RecoveryIsFirst /\ LapseReportedOnce

=============================================================================
