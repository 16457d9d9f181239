--------------------------- MODULE MonitorProofs ----------------------------
(***************************************************************************)
(* For any hosts, archives, number of handlers and bounds, and any failures:  *)
(* a stored bundle has its archive on disk and is stored once, the plan's      *)
(* limit holds, and retention never takes the newest evidence of a host.      *)
(***************************************************************************)
EXTENDS Monitor, FiniteSetTheorems, SequenceTheorems, TLAPS

Away == {"idle", "wait"}   \* where a handler does not hold ingestMu
Pc      == Away \cup {"limit", "replay", "upsert", "latest", "previous", "proofs", "write", "insert",
                     "recovered", "regressed"}
Handler == [pc : Pc, arc : DOMAIN Archives \cup {None}, age : Nat, known : BOOLEAN,
            lapsed : BOOLEAN, cleared : BOOLEAN, newest : BOOLEAN, prev : Nat,
            was : SUBSET Proofs, id : Nat, due : Int]
HostRow == [key : Keys \cup {None}, silence : Nat, cadence : BOOLEAN, lapsed : BOOLEAN]

Typed ==
  /\ hosts \in [Hosts -> HostRow] /\ rows \in [Ids -> DOMAIN Archives \cup {None}]
  /\ files \subseteq Ids /\ doomed \subseteq Ids
  /\ req \in [Requests -> Handler] /\ mutex \in Requests \cup {None}

\* What a step of another actor must not undo between two calls of a handler
\* that stands where q does.
HostOf(q) == Archives[q.arc].host
Ok(q) ==
  /\ q.pc # "idle" => q.arc \in DOMAIN Archives
  /\ q.pc = "limit" => HostOf(q) \notin Known
  /\ q.pc = "upsert" => HostOf(q) \in Known \/ ~Full
  /\ q.pc \in {"replay", "latest", "previous", "proofs", "write", "insert"} => HostOf(q) \in Known
  /\ q.pc \in {"upsert", "latest", "previous", "proofs", "write", "insert"} =>
       \A i \in Held : rows[i] # q.arc
  /\ q.pc = "insert" => q.id \in files \ (Held \cup doomed)

Exclusive == \A r \in Requests : req[r].pc \notin Away <=> mutex = r

\* A bundle whose row is gone keeps its file until the pass removes it, so no
\* new bundle gets its id meanwhile.
Tables ==
  /\ ArchiveOnDisk /\ OneRowPerArchive /\ HostLimitHolds
  /\ doomed \subseteq files \ Held
  /\ \A i \in Held : Archives[rows[i]].host \in Known

IInv == Typed /\ Exclusive /\ Tables /\ \A r \in Requests : Ok(req[r])

-----------------------------------------------------------------------------
(* The start. *)

LEMMA IdleOk == Idle \in Handler /\ Ok(Idle) /\ Idle.pc = "idle"
<1>1. Idle \in Handler
  BY DEF Idle, Handler, Pc, Away
<1>2. Idle.pc = "idle"
  BY DEF Idle
<1> QED BY <1>1, <1>2 DEF Ok

LEMMA InitIInv == Init => IInv
<1> SUFFICES ASSUME Init PROVE IInv
  OBVIOUS
<1> USE DEF Init, IngestInit
<1>1. Held = {} /\ Known = {}
  BY DEF Held, Known
<1>2. Typed
  BY IdleOk DEF Typed, HostRow
<1>3. Exclusive
  BY IdleOk, IngestAssumption DEF Exclusive, Away
<1>4. Tables
  BY <1>1, FS_EmptySet, IngestAssumption DEF Tables, ArchiveOnDisk, OneRowPerArchive, HostLimitHolds
<1>5. \A r \in Requests : Ok(req[r])
  BY IdleOk
<1> QED BY <1>2, <1>3, <1>4, <1>5 DEF IInv

-----------------------------------------------------------------------------
(* The steps of a handler. *)

\* A handler that does not hold the lock depends on no table.
LEMMA AwayOk == ASSUME NEW q \in Handler, q.pc \in Away, q.pc # "idle" => q.arc \in DOMAIN Archives
                PROVE  Ok(q)
BY DEF Away, Ok

\* A step of handler r, which has the lock or finds it free, to x: only the
\* tables and x have to be looked at.
LEMMA HandlerStep ==
  ASSUME IInv, NEW r \in Requests, NEW x \in Handler, mutex \in {r, None},
         req' = [req EXCEPT ![r] = x],
         \/ x.pc \in Away /\ mutex' = None
         \/ x.pc \notin Away /\ mutex' = r,
         hosts' \in [Hosts -> HostRow], rows' \in [Ids -> DOMAIN Archives \cup {None}],
         files' \subseteq Ids, doomed' \subseteq Ids,
         Tables', Ok(x)'
  PROVE  IInv'
<1>1. Typed'
  BY DEF IInv, Typed
<1>2. \A q \in Requests : q # r => req'[q] = req[q] /\ req[q].pc \in Away
  BY IngestAssumption DEF IInv, Typed, Exclusive
<1>3. req'[r] = x
  BY DEF IInv, Typed
<1>4. Exclusive'
  BY <1>2, <1>3, IngestAssumption DEF Exclusive, Away
<1>5. ASSUME NEW q \in Requests, q # r  PROVE Ok(req[q])'
  BY <1>2, <1>5 DEF IInv, Ok, Away
<1>6. \A q \in Requests : Ok(req[q])'
  <2>1. Ok(req[r])'
    BY <1>3 DEF Ok, HostOf
  <2> QED BY <1>5, <2>1
<1> QED BY <1>1, <1>4, <1>6 DEF IInv

\* The same with tables that stay as they are.
LEMMA LocalStep ==
  ASSUME IInv, NEW r \in Requests, NEW x \in Handler, mutex \in {r, None},
         req' = [req EXCEPT ![r] = x], UNCHANGED <<hosts, rows, files, doomed>>,
         \/ x.pc \in Away /\ mutex' = None
         \/ x.pc \notin Away /\ mutex' = r,
         Ok(x)
  PROVE  IInv'
<1>1. Held' = Held /\ Known' = Known /\ Full' = Full
  BY DEF Held, Known, Full
<1>2. Tables' /\ Ok(x)'
  BY <1>1 DEF IInv, Tables, ArchiveOnDisk, OneRowPerArchive, HostLimitHolds, Ok, HostOf
<1> QED BY <1>2, HandlerStep DEF IInv, Typed

\* The handler answers, having changed no table.
LEMMA AnswerStep ==
  ASSUME IInv, NEW r \in Requests, mutex \in {r, None}, Answer(r),
         UNCHANGED <<hosts, rows, files, doomed>>
  PROVE  IInv'
BY IdleOk, LocalStep DEF Answer, Away

LEMMA ReceiveIInv ==
  ASSUME IInv, NEW r \in Requests, NEW a \in DOMAIN Archives, Receive(r, a), UNCHANGED doomed
  PROVE  IInv'
<1> DEFINE x == [Idle EXCEPT !.pc = "wait", !.arc = a]
<1>1. x \in Handler /\ x.pc = "wait" /\ x.arc = a
  BY IdleOk DEF Idle, Handler, Pc, Away
<1>2. /\ req[r].pc = "idle" /\ req' = [req EXCEPT ![r] = x]
      /\ UNCHANGED <<hosts, rows, files, doomed, mutex>>
  BY DEF Receive, db
<1> HIDE DEF x
<1>3. Held' = Held /\ Known' = Known /\ Full' = Full
  BY <1>2 DEF Held, Known, Full
<1>4. Typed' /\ Tables'
  BY <1>1, <1>2, <1>3 DEF IInv, Typed, Tables, ArchiveOnDisk, OneRowPerArchive, HostLimitHolds
<1>5. \A q \in Requests : req'[q] = IF q = r THEN x ELSE req[q]
  BY <1>2 DEF IInv, Typed
<1>6. Exclusive'
  BY <1>1, <1>2, <1>5 DEF IInv, Exclusive, Away
<1>7. ASSUME NEW q \in Requests  PROVE Ok(req[q])'
  <2>1. CASE q = r
    <3>1. Ok(x)
      BY <1>1, AwayOk DEF Away
    <3> QED BY <1>2, <1>3, <1>5, <2>1, <3>1 DEF Ok, HostOf
  <2>2. CASE q # r
    BY <1>2, <1>3, <1>5, <2>2 DEF IInv, Ok, HostOf
  <2> QED BY <2>1, <2>2
<1> QED BY <1>4, <1>6, <1>7 DEF IInv

LEMMA LookupIInv ==
  ASSUME IInv, NEW r \in Requests, Lookup(r), UNCHANGED doomed
  PROVE  IInv'
<1>1. /\ req[r] \in Handler /\ req[r].pc = "wait" /\ mutex = None
      /\ req[r].arc \in DOMAIN Archives /\ UNCHANGED <<hosts, rows, files, doomed>>
  BY DEF IInv, Typed, Ok, Lookup, Enter, db
<1>2. H(r) \in Hosts
  BY <1>1, ArchiveAssumption DEF H, Arc
<1>3. CASE Answer(r)
  BY <1>1, <1>3, AnswerStep
<1>4. CASE H(r) \notin Known /\ Goto(r, "limit") /\ mutex' = r
  <2> DEFINE x == [req[r] EXCEPT !.pc = "limit"]
  <2>1. x \in Handler /\ x.pc = "limit" /\ x.arc = req[r].arc
    BY <1>1 DEF Handler, Pc, Away
  <2>2. req' = [req EXCEPT ![r] = x]
    BY <1>4 DEF Goto
  <2> HIDE DEF x
  <2>3. Ok(x)
    BY <1>1, <1>4, <2>1 DEF Ok, HostOf, H, Arc
  <2> QED BY <1>1, <1>4, <2>1, <2>2, <2>3, LocalStep DEF Away
<1>5. CASE /\ H(r) \in Known /\ mutex' = r
           /\ req' = [req EXCEPT ![r] = [@ EXCEPT !.pc = "replay", !.known = TRUE,
                                                  !.lapsed = hosts[H(r)].lapsed]]
  <2> DEFINE x == [req[r] EXCEPT !.pc = "replay", !.known = TRUE, !.lapsed = hosts[H(r)].lapsed]
  <2>1. hosts[H(r)].lapsed \in BOOLEAN
    BY <1>2 DEF IInv, Typed, HostRow
  <2>2. x \in Handler /\ x.pc = "replay" /\ x.arc = req[r].arc
    BY <1>1, <2>1 DEF Handler, Pc, Away
  <2>3. req' = [req EXCEPT ![r] = x]
    BY <1>5
  <2> HIDE DEF x
  <2>4. Ok(x)
    BY <1>1, <1>5, <2>2 DEF Ok, HostOf, H, Arc
  <2> QED BY <1>1, <1>5, <2>2, <2>3, <2>4, LocalStep DEF Away
<1> QED BY <1>3, <1>4, <1>5 DEF Lookup

\* A handler inside goes on to pc, and changes what Ok does not look at.
LEMMA GoOnStep ==
  ASSUME IInv, NEW r \in Requests, NEW x \in Handler, req[r].pc \notin Away,
         req' = [req EXCEPT ![r] = x], UNCHANGED <<hosts, rows, files, doomed, mutex>>,
         x.pc \notin Away, x.arc = req[r].arc, Ok(x)
  PROVE  IInv'
<1>1. mutex = r
  BY DEF IInv, Exclusive
<1> QED BY <1>1, LocalStep

LEMMA ReplayIInv ==
  ASSUME IInv, NEW r \in Requests, Replay(r), UNCHANGED doomed
  PROVE  IInv'
<1>1. /\ req[r] \in Handler /\ req[r].pc = "replay" /\ mutex = r /\ req[r].arc \in DOMAIN Archives
      /\ H(r) \in Known /\ UNCHANGED <<hosts, rows, files, doomed>>
  BY DEF IInv, Typed, Ok, Exclusive, Away, Replay, db, HostOf, H, Arc
<1>2. CASE Answer(r)
  BY <1>1, <1>2, AnswerStep
<1>3. CASE ~Replayed(r) /\ Goto(r, "upsert") /\ UNCHANGED mutex
  <2> DEFINE x == [req[r] EXCEPT !.pc = "upsert"]
  <2>1. x \in Handler /\ x.pc = "upsert" /\ x.arc = req[r].arc
    BY <1>1 DEF Handler, Pc, Away
  <2>2. req' = [req EXCEPT ![r] = x]
    BY <1>3 DEF Goto
  <2> HIDE DEF x
  <2>3. \A i \in Held : rows[i] # req[r].arc
    BY <1>3 DEF Replayed, Of, H, Arc
  <2>4. Ok(x)
    BY <1>1, <2>1, <2>3 DEF Ok, HostOf, H, Arc
  <2> QED BY <1>1, <1>3, <2>1, <2>2, <2>4, GoOnStep DEF Away
<1> QED BY <1>2, <1>3 DEF Replay

LEMMA LimitIInv ==
  ASSUME IInv, NEW r \in Requests, Limit(r), UNCHANGED doomed
  PROVE  IInv'
<1>1. /\ req[r] \in Handler /\ req[r].pc = "limit" /\ mutex = r /\ req[r].arc \in DOMAIN Archives
      /\ H(r) \notin Known /\ UNCHANGED <<hosts, rows, files, doomed>>
  BY DEF IInv, Typed, Ok, Exclusive, Away, Limit, db, HostOf, H, Arc
<1>2. CASE Answer(r)
  BY <1>1, <1>2, AnswerStep
<1>3. CASE ~Full /\ Goto(r, "upsert") /\ UNCHANGED mutex
  <2> DEFINE x == [req[r] EXCEPT !.pc = "upsert"]
  <2>1. x \in Handler /\ x.pc = "upsert" /\ x.arc = req[r].arc
    BY <1>1 DEF Handler, Pc, Away
  <2>2. req' = [req EXCEPT ![r] = x]
    BY <1>3 DEF Goto
  <2> HIDE DEF x
  <2>3. \A i \in Held : rows[i] # req[r].arc
    BY <1>1 DEF IInv, Tables, H, Arc
  <2>4. Ok(x)
    BY <1>3, <2>1, <1>1, <2>3 DEF Ok, HostOf
  <2> QED BY <1>1, <1>3, <2>1, <2>2, <2>4, GoOnStep DEF Away
<1> QED BY <1>2, <1>3 DEF Limit

LEMMA FailIInv ==
  ASSUME IInv, NEW r \in Requests, Fail(r), UNCHANGED doomed
  PROVE  IInv'
<1>1. mutex \in {r, None} /\ UNCHANGED <<hosts, rows, files, doomed>> /\ Answer(r)
  BY DEF IInv, Exclusive, Away, Fail, Enter, db
<1> QED BY <1>1, AnswerStep

LEMMA LatestIInv ==
  ASSUME IInv, NEW r \in Requests, Latest(r), UNCHANGED doomed
  PROVE  IInv'
<1>1. /\ req[r] \in Handler /\ req[r].pc = "latest" /\ UNCHANGED <<hosts, rows, files, doomed, mutex>>
  BY DEF IInv, Typed, Latest, db
<1>2. PICK b \in BOOLEAN : req' = [req EXCEPT ![r] = [@ EXCEPT !.pc = "previous", !.newest = b]]
  <2>1. CASE Goto(r, "previous")
    <3>1. req[r].newest \in BOOLEAN
      BY <1>1 DEF Handler
    <3>2. [req[r] EXCEPT !.pc = "previous"] = [req[r] EXCEPT !.pc = "previous", !.newest = req[r].newest]
      BY <1>1 DEF Handler
    <3> QED BY <2>1, <3>1, <3>2 DEF Goto
  <2> QED BY <2>1 DEF Latest
<1> DEFINE x == [req[r] EXCEPT !.pc = "previous", !.newest = b]
<1>3. x \in Handler /\ x.pc = "previous" /\ x.arc = req[r].arc
  BY <1>1 DEF Handler, Pc, Away
<1>4. req' = [req EXCEPT ![r] = x]
  BY <1>2
<1> HIDE DEF x
<1>5. Ok(x)
  BY <1>1, <1>3 DEF IInv, Ok, HostOf
<1> QED BY <1>1, <1>3, <1>4, <1>5, GoOnStep DEF Away

LEMMA PreviousIInv ==
  ASSUME IInv, NEW r \in Requests, Previous(r), UNCHANGED doomed
  PROVE  IInv'
<1>1. /\ req[r] \in Handler /\ req[r].pc = "previous" /\ UNCHANGED <<hosts, rows, files, doomed, mutex>>
  BY DEF IInv, Typed, Previous, db
<1>2. PICK p \in {"proofs", "write"}, i \in Nat :
        req' = [req EXCEPT ![r] = [@ EXCEPT !.pc = p, !.prev = i]]
  <2>1. CASE Goto(r, "write")
    <3>1. req[r].prev \in Nat
      BY <1>1 DEF Handler
    <3>2. [req[r] EXCEPT !.pc = "write"] = [req[r] EXCEPT !.pc = "write", !.prev = req[r].prev]
      BY <1>1 DEF Handler
    <3> QED BY <2>1, <3>1, <3>2 DEF Goto
  <2>2. \A i \in Newest(Older(r)) : i \in Nat
    BY IngestAssumption DEF Newest, Older, Of, Held, Ids
  <2> QED BY <2>1, <2>2 DEF Previous
<1> DEFINE x == [req[r] EXCEPT !.pc = p, !.prev = i]
<1>3. x \in Handler /\ x.pc = p /\ x.arc = req[r].arc
  BY <1>1 DEF Handler, Pc, Away
<1>4. req' = [req EXCEPT ![r] = x]
  BY <1>2
<1> HIDE DEF x
<1>5. Ok(x)
  BY <1>1, <1>3 DEF IInv, Ok, HostOf
<1> QED BY <1>1, <1>3, <1>4, <1>5, GoOnStep DEF Away

LEMMA ReadProofsIInv ==
  ASSUME IInv, NEW r \in Requests, ReadProofs(r), UNCHANGED doomed
  PROVE  IInv'
<1>1. /\ req[r] \in Handler /\ req[r].pc = "proofs" /\ UNCHANGED <<hosts, rows, files, doomed, mutex>>
  BY DEF IInv, Typed, ReadProofs, db
<1>2. PICK w \in SUBSET Proofs :
        req' = [req EXCEPT ![r] = [@ EXCEPT !.pc = "write", !.prev = 0, !.was = w]]
  <2> DEFINE j == req[r].prev
             w == IF j \in Held THEN Archives[rows[j]].good ELSE {}
  <2>1. w \in SUBSET Proofs
    BY ArchiveAssumption DEF Held, IInv, Typed
  <2>2. CASE req' = [req EXCEPT ![r] = [@ EXCEPT !.pc = "write", !.prev = 0, !.was = w]]
    BY <2>1, <2>2
  <2>3. CASE req' = [req EXCEPT ![r] = [@ EXCEPT !.pc = "write", !.prev = 0]]
    <3>1. req[r].was \in SUBSET Proofs
      BY <1>1 DEF Handler
    <3>2. [req[r] EXCEPT !.pc = "write", !.prev = 0] =
          [req[r] EXCEPT !.pc = "write", !.prev = 0, !.was = req[r].was]
      BY <1>1 DEF Handler
    <3> QED BY <2>3, <3>1, <3>2
  <2> QED BY <2>2, <2>3 DEF ReadProofs
<1> DEFINE x == [req[r] EXCEPT !.pc = "write", !.prev = 0, !.was = w]
<1>3. x \in Handler /\ x.pc = "write" /\ x.arc = req[r].arc
  BY <1>1 DEF Handler, Pc, Away
<1>4. req' = [req EXCEPT ![r] = x]
  BY <1>2
<1> HIDE DEF x
<1>5. Ok(x)
  BY <1>1, <1>3 DEF IInv, Ok, HostOf
<1> QED BY <1>1, <1>3, <1>4, <1>5, GoOnStep DEF Away

\* A row is added for a host only by a handler that found room for it.
LEMMA UpsertIInv ==
  ASSUME IInv, NEW r \in Requests, Upsert(r), UNCHANGED doomed
  PROVE  IInv'
<1>1. /\ req[r] \in Handler /\ req[r].pc = "upsert" /\ mutex = r /\ req[r].arc \in DOMAIN Archives
      /\ H(r) \in Known \/ ~Full
      /\ \A i \in Held : rows[i] # req[r].arc
      /\ UNCHANGED <<rows, files, doomed>>
  BY DEF IInv, Typed, Ok, Exclusive, Away, Upsert, HostOf, H, Arc
<1>2. H(r) \in Hosts /\ Arc(r).key \in Keys /\ Arc(r).key # None /\ H(r) = HostOf(req[r])
  BY <1>1, ArchiveAssumption, IngestAssumption DEF H, Arc, HostOf
<1>3. CASE Answer(r) /\ UNCHANGED hosts
  BY <1>1, <1>3, AnswerStep
<1>4. CASE /\ Pinned(r)
           /\ hosts' = [hosts EXCEPT ![H(r)] = Sighted(@, r)]
           /\ req' = [req EXCEPT ![r] = [@ EXCEPT !.pc = IF req[r].known THEN "latest" ELSE "write",
                                                  !.cleared = hosts[H(r)].lapsed]]
           /\ UNCHANGED mutex
  <2>1. hosts[H(r)] \in HostRow
    BY <1>2 DEF IInv, Typed
  <2>2. PICK x \in Handler : /\ x = [req[r] EXCEPT !.pc = IF req[r].known THEN "latest" ELSE "write",
                                                   !.cleared = hosts[H(r)].lapsed]
                            /\ x.pc \in {"latest", "write"} /\ x.arc = req[r].arc
    <3> DEFINE y == [req[r] EXCEPT !.pc = IF req[r].known THEN "latest" ELSE "write",
                                   !.cleared = hosts[H(r)].lapsed]
    <3>1. y \in Handler /\ y.pc \in {"latest", "write"} /\ y.arc = req[r].arc
      BY <1>1, <2>1 DEF Handler, Pc, Away, HostRow
    <3> QED BY <3>1, Zenon
  <2>3. req' = [req EXCEPT ![r] = x]
    BY <1>4, <2>2
  <2>4. Sighted(hosts[H(r)], r) \in HostRow /\ Sighted(hosts[H(r)], r).key = Arc(r).key
    BY <1>1, <1>2, <1>4, <2>1 DEF Sighted, HostRow, Handler, Pinned
  <2>5. hosts' \in [Hosts -> HostRow]
    BY <1>4, <2>4 DEF IInv, Typed
  <2>6. Known' = Known \cup {H(r)}
    BY <1>2, <1>4, <2>4 DEF Known, IInv, Typed
  <2>7. Held' = Held
    BY <1>1 DEF Held
  <2>8. HostLimitHolds'
    <3>1. IsFiniteSet(Known)
      BY IngestAssumption, FS_Subset DEF Known
    <3>2. Cardinality(Known) \in Nat
      BY <3>1, FS_CardinalityType
    <3>3. Cardinality(Known') = IF H(r) \in Known THEN Cardinality(Known) ELSE Cardinality(Known) + 1
      BY <2>6, <3>1, FS_AddElement
    <3> QED BY <1>1, <3>2, <3>3, IngestAssumption DEF IInv, Tables, HostLimitHolds, Full
  <2>9. Tables'
    BY <1>1, <2>6, <2>7, <2>8 DEF IInv, Tables, ArchiveOnDisk, OneRowPerArchive
  <2>10. Ok(x)'
    BY <1>1, <1>2, <2>2, <2>6, <2>7 DEF Ok, HostOf
  <2>11. x.pc \notin Away /\ mutex' = r /\ mutex \in {r, None}
    BY <1>1, <1>4, <2>2 DEF Away
  <2>12. rows' \in [Ids -> DOMAIN Archives \cup {None}] /\ files' \subseteq Ids /\ doomed' \subseteq Ids
    BY <1>1 DEF IInv, Typed
  <2> QED BY <2>2, <2>3, <2>5, <2>9, <2>10, <2>11, <2>12, HandlerStep
<1> QED BY <1>3, <1>4 DEF Upsert

\* The new file has an id of its own.
LEMMA WriteFileIInv ==
  ASSUME IInv, NEW r \in Requests, WriteFile(r), UNCHANGED doomed
  PROVE  IInv'
<1>1. /\ req[r] \in Handler /\ req[r].pc = "write" /\ mutex = r /\ req[r].arc \in DOMAIN Archives
      /\ HostOf(req[r]) \in Known /\ \A i \in Held : rows[i] # req[r].arc
      /\ UNCHANGED <<hosts, rows, doomed>>
  BY DEF IInv, Typed, Ok, Exclusive, Away, WriteFile
<1>2. CASE Answer(r) /\ UNCHANGED files
  BY <1>1, <1>2, AnswerStep
<1>3. CASE /\ files' = files \cup {NewId}
           /\ req' = [req EXCEPT ![r] = [@ EXCEPT !.pc = "insert", !.id = NewId]] /\ UNCHANGED mutex
  <2>1. NewId \in Fresh
    BY DEF WriteFile, NewId
  <2>2. NewId \in Ids /\ NewId \in Nat /\ NewId \notin Held \cup files
    BY <2>1, IngestAssumption DEF Fresh, Ids
  <2>3. PICK x \in Handler : /\ x = [req[r] EXCEPT !.pc = "insert", !.id = NewId]
                            /\ x.pc = "insert" /\ x.arc = req[r].arc /\ x.id = NewId
    <3> DEFINE y == [req[r] EXCEPT !.pc = "insert", !.id = NewId]
    <3>1. y \in Handler /\ y.pc = "insert" /\ y.arc = req[r].arc /\ y.id = NewId
      BY <1>1, <2>2 DEF Handler, Pc, Away
    <3> QED BY <3>1, Zenon
  <2>4. req' = [req EXCEPT ![r] = x]
    BY <1>3, <2>3
  <2>5. Held' = Held /\ Known' = Known
    BY <1>1 DEF Held, Known
  <2>6. Tables'
    BY <1>1, <1>3, <2>5 DEF IInv, Tables, ArchiveOnDisk, OneRowPerArchive, HostLimitHolds
  <2>7. Ok(x)'
    BY <1>1, <1>3, <2>2, <2>3, <2>5 DEF IInv, Tables, Ok, HostOf
  <2>8. x.pc \notin Away /\ mutex' = r /\ mutex \in {r, None}
    BY <1>1, <1>3, <2>3 DEF Away
  <2>9. /\ hosts' \in [Hosts -> HostRow] /\ rows' \in [Ids -> DOMAIN Archives \cup {None}]
        /\ files' \subseteq Ids /\ doomed' \subseteq Ids
    BY <1>1, <1>3, <2>2 DEF IInv, Typed
  <2> QED BY <2>3, <2>4, <2>6, <2>7, <2>8, <2>9, HandlerStep
<1> QED BY <1>2, <1>3 DEF WriteFile

LEMMA AlertsDueTyped ==
  ASSUME NEW r \in Requests, req[r].arc \in DOMAIN Archives
  PROVE  AlertsDue(Cardinality(Regressed(r))) \in Int
<1>1. IsFiniteSet(Arc(r).bad)
  BY ArchiveAssumption DEF Arc
<1>2. Cardinality(Regressed(r)) \in Nat
  BY <1>1, FS_Subset, FS_CardinalityType DEF Regressed
<1> QED BY <1>2, IngestAssumption DEF AlertsDue

\* Raising alerts concerns no table but the queue.
LEMMA OwedStep ==
  ASSUME IInv, NEW r \in Requests, NEW due \in Int, mutex = r, req[r] \in Handler,
         req[r].arc \in DOMAIN Archives, Owed(r, due),
         hosts' \in [Hosts -> HostRow], rows' \in [Ids -> DOMAIN Archives \cup {None}],
         files' \subseteq Ids, doomed' \subseteq Ids, Tables'
  PROVE  IInv'
<1>1. CASE Answer(r)
  <2>1. Ok(Idle)' /\ Idle \in Handler /\ Idle.pc \in Away
    BY IdleOk DEF Ok, Away
  <2> QED BY <1>1, <2>1, HandlerStep DEF Answer
<1>2. CASE /\ req' = [req EXCEPT ![r] = [@ EXCEPT !.pc = "regressed", !.was = {}, !.id = 0,
                                                  !.lapsed = FALSE, !.due = due]]
           /\ UNCHANGED mutex
  <2>1. PICK x \in Handler : /\ x = [req[r] EXCEPT !.pc = "regressed", !.was = {}, !.id = 0,
                                                   !.lapsed = FALSE, !.due = due]
                            /\ x.pc = "regressed" /\ x.arc = req[r].arc
    <3> DEFINE y == [req[r] EXCEPT !.pc = "regressed", !.was = {}, !.id = 0, !.lapsed = FALSE, !.due = due]
    <3>1. y \in Handler /\ y.pc = "regressed" /\ y.arc = req[r].arc
      BY DEF Handler, Pc, Away
    <3> QED BY <3>1, Zenon
  <2>2. req' = [req EXCEPT ![r] = x]
    BY <1>2, <2>1
  <2>3. Ok(x)'
    BY <2>1 DEF Ok
  <2>4. x.pc \notin Away /\ mutex' = r
    BY <1>2, <2>1 DEF Away
  <2> QED BY <2>1, <2>2, <2>3, <2>4, HandlerStep
<1> QED BY <1>1, <1>2 DEF Owed

\* The row comes after its file, and is the only one of its archive.
LEMMA InsertIInv ==
  ASSUME IInv, NEW r \in Requests, Insert(r), UNCHANGED doomed
  PROVE  IInv'
<1> DEFINE id == req[r].id
<1>1. /\ req[r] \in Handler /\ req[r].pc = "insert" /\ mutex = r /\ req[r].arc \in DOMAIN Archives
      /\ HostOf(req[r]) \in Known /\ \A i \in Held : rows[i] # req[r].arc
      /\ id \in files \ (Held \cup doomed) /\ id \in Ids
      /\ UNCHANGED <<hosts, doomed>>
  BY DEF IInv, Typed, Ok, Exclusive, Away, Insert
<1>2. Known' = Known
  BY <1>1 DEF Known
<1>3. CASE rows' = [rows EXCEPT ![id] = req[r].arc] /\ UNCHANGED files
  <2>1. req[r].arc # None
    BY <1>1, IngestAssumption
  <2>2. /\ rows' \in [Ids -> DOMAIN Archives \cup {None}] /\ rows'[id] = req[r].arc
        /\ \A i \in Ids \ {id} : rows'[i] = rows[i]
    BY <1>1, <1>3 DEF IInv, Typed
  <2>3. Held' = Held \cup {id}
    BY <1>1, <2>1, <2>2 DEF Held
  <2>4. \A i \in Held : i \in Ids /\ i # id
    BY <1>1 DEF Held
  <2>5. Tables'
    <3>1. ArchiveOnDisk'
      BY <1>1, <1>3, <2>3 DEF IInv, Tables, ArchiveOnDisk
    <3>2. OneRowPerArchive'
      BY <1>1, <2>2, <2>3, <2>4 DEF IInv, Tables, OneRowPerArchive
    <3>3. HostLimitHolds'
      BY <1>2 DEF IInv, Tables, HostLimitHolds
    <3>4. doomed' \subseteq files' \ Held'
      BY <1>1, <1>3, <2>3 DEF IInv, Tables
    <3>5. \A i \in Held' : Archives[rows'[i]].host \in Known'
      BY <1>1, <1>2, <2>2, <2>3, <2>4 DEF IInv, Tables, HostOf
    <3> QED BY <3>1, <3>2, <3>3, <3>4, <3>5 DEF Tables
  <2>6. hosts' \in [Hosts -> HostRow] /\ files' \subseteq Ids /\ doomed' \subseteq Ids
    BY <1>1, <1>3 DEF IInv, Typed
  <2>7. CASE Answer(r)
    <3>1. Ok(Idle)' /\ Idle \in Handler /\ Idle.pc \in Away
      BY IdleOk DEF Ok, Away
    <3> QED BY <1>1, <2>2, <2>5, <2>6, <2>7, <3>1, HandlerStep DEF Answer
  <2>8. CASE Goto(r, "recovered") /\ UNCHANGED mutex
    <3>1. PICK x \in Handler : /\ x = [req[r] EXCEPT !.pc = "recovered"]
                              /\ x.pc = "recovered" /\ x.arc = req[r].arc
      <4> DEFINE y == [req[r] EXCEPT !.pc = "recovered"]
      <4>1. y \in Handler /\ y.pc = "recovered" /\ y.arc = req[r].arc
        BY <1>1 DEF Handler, Pc, Away
      <4> QED BY <4>1, Zenon
    <3>2. req' = [req EXCEPT ![r] = x]
      BY <2>8, <3>1 DEF Goto
    <3>3. Ok(x)'
      BY <1>1, <3>1 DEF Ok
    <3>4. x.pc \notin Away /\ mutex' = r /\ mutex \in {r, None}
      BY <1>1, <2>8, <3>1 DEF Away
    <3> QED BY <2>2, <2>5, <2>6, <3>1, <3>2, <3>3, <3>4, HandlerStep
  <2>9. CASE Owed(r, AlertsDue(Cardinality(Regressed(r))))
    BY <1>1, <2>2, <2>5, <2>6, <2>9, AlertsDueTyped, OwedStep
  <2> QED BY <1>1, <1>3, <2>1, <2>2, <2>7, <2>8, <2>9 DEF Insert, Answer
<1>4. CASE Answer(r) /\ files' = files \ {id} /\ UNCHANGED rows
  <2>1. Held' = Held
    BY <1>4 DEF Held
  <2>2. Tables'
    BY <1>1, <1>2, <1>4, <2>1 DEF IInv, Tables, ArchiveOnDisk, OneRowPerArchive, HostLimitHolds
  <2>3. Ok(Idle)' /\ Idle \in Handler /\ Idle.pc \in Away
    BY IdleOk DEF Ok, Away
  <2>4. /\ hosts' \in [Hosts -> HostRow] /\ rows' \in [Ids -> DOMAIN Archives \cup {None}]
        /\ files' \subseteq Ids /\ doomed' \subseteq Ids
    BY <1>1, <1>4 DEF IInv, Typed
  <2> QED BY <1>1, <1>4, <2>2, <2>3, <2>4, HandlerStep DEF Answer
<1> QED BY <1>3, <1>4 DEF Insert

LEMMA RaiseIInv ==
  ASSUME IInv, NEW r \in Requests, RaiseRecovered(r) \/ RaiseRegression(r), UNCHANGED doomed
  PROVE  IInv'
<1>1. /\ req[r] \in Handler /\ mutex = r /\ req[r].arc \in DOMAIN Archives
      /\ UNCHANGED <<hosts, rows, files, doomed>>
  BY DEF IInv, Typed, Ok, Exclusive, Away, RaiseRecovered, RaiseRegression
<1>2. Held' = Held /\ Known' = Known
  BY <1>1 DEF Held, Known
<1>3. Tables'
  BY <1>1, <1>2 DEF IInv, Tables, ArchiveOnDisk, OneRowPerArchive, HostLimitHolds
<1>4. /\ hosts' \in [Hosts -> HostRow] /\ rows' \in [Ids -> DOMAIN Archives \cup {None}]
      /\ files' \subseteq Ids /\ doomed' \subseteq Ids
  BY <1>1 DEF IInv, Typed
<1>5. PICK due \in Int : Owed(r, due)
  <2>1. req[r].due - 1 \in Int
    BY <1>1 DEF Handler
  <2> QED BY <1>1, <2>1, AlertsDueTyped DEF RaiseRecovered, RaiseRegression
<1> QED BY <1>1, <1>3, <1>4, <1>5, OwedStep

LEMMA HandleIInv ==
  ASSUME IInv, NEW r \in Requests, Handle(r), UNCHANGED doomed
  PROVE  IInv'
BY LookupIInv, ReplayIInv, LimitIInv, UpsertIInv, FailIInv, LatestIInv, PreviousIInv, ReadProofsIInv,
   WriteFileIInv, InsertIInv, RaiseIInv DEF Handle

-----------------------------------------------------------------------------
(* The steps of the others. *)

\* What leaves the handlers where they are and no host known or forgotten, and
\* never adds a row, keeps what a handler relies on.
LEMMA OtherStep ==
  ASSUME IInv, hosts' \in [Hosts -> HostRow], Known' = Known, UNCHANGED <<req, mutex>>,
         rows' \in [Ids -> DOMAIN Archives \cup {None}], files' \subseteq Ids, doomed' \subseteq files',
         \A i \in Held' : i \in Held /\ rows'[i] = rows[i] /\ i \in files' \ doomed',
         \A i \in files : i \notin Held \cup doomed => i \in files' \ doomed'
  PROVE  IInv'
<1>1. Full' = Full
  BY DEF Full
<1>2. Typed' /\ Exclusive'
  BY DEF IInv, Typed, Exclusive
<1>3. Tables'
  <2>1. ArchiveOnDisk' /\ doomed' \subseteq files' \ Held'
    BY DEF ArchiveOnDisk
  <2>2. OneRowPerArchive' /\ HostLimitHolds'
    BY DEF IInv, Tables, OneRowPerArchive, HostLimitHolds
  <2>3. \A i \in Held' : Archives[rows'[i]].host \in Known'
    BY DEF IInv, Tables
  <2> QED BY <2>1, <2>2, <2>3 DEF Tables
<1>4. ASSUME NEW r \in Requests  PROVE Ok(req[r])'
  <2>1. Ok(req[r])
    BY DEF IInv
  <2>2. req[r].pc = "insert" => req[r].id \in files' \ (Held' \cup doomed')
    BY <2>1 DEF Ok
  <2> QED BY <1>1, <2>1, <2>2 DEF Ok, HostOf
<1> QED BY <1>2, <1>3, <1>4 DEF IInv

LEMMA StillStep ==
  ASSUME IInv, hosts' \in [Hosts -> HostRow], Known' = Known,
         UNCHANGED <<req, mutex, rows, files, doomed>>
  PROVE  IInv'
<1>1. Held' = Held
  BY DEF Held
<1> QED BY <1>1, OtherStep DEF IInv, Typed, Tables, ArchiveOnDisk

LEMMA SettingsIInv ==
  ASSUME IInv, Settings, UNCHANGED doomed
  PROVE  IInv'
<1>1. PICK h \in Known : \/ \E k \in Keys : hosts' = [hosts EXCEPT ![h].key = k]
                         \/ \E on \in Cadences : hosts' = [hosts EXCEPT ![h].cadence = on]
  BY DEF Settings, SetHostPublicKey, SetHostExpectedEvery
<1>2. UNCHANGED <<req, mutex, rows, files, doomed>>
  BY DEF Settings, SetHostPublicKey, SetHostExpectedEvery
<1>3. hosts' \in [Hosts -> HostRow] /\ Known' = Known
  <2>1. ASSUME NEW k \in Keys, hosts' = [hosts EXCEPT ![h].key = k]
        PROVE  hosts' \in [Hosts -> HostRow] /\ Known' = Known
    BY <2>1, IngestAssumption DEF IInv, Typed, HostRow, Known
  <2>2. ASSUME NEW on \in Cadences, hosts' = [hosts EXCEPT ![h].cadence = on]
        PROVE  hosts' \in [Hosts -> HostRow] /\ Known' = Known
    BY <2>2, IngestAssumption DEF IInv, Typed, HostRow, Known
  <2> QED BY <1>1, <2>1, <2>2
<1> QED BY <1>2, <1>3, StillStep

\* The rows that go had a newer one of their host beside them; their files stay
\* until Unlink takes them.
LEMMA PruneIInv ==
  ASSUME IInv, PruneBundles, UNCHANGED <<req, mutex>>
  PROVE  IInv'
<1>1. UNCHANGED <<hosts, files>> /\ Known' = Known /\ hosts' \in [Hosts -> HostRow]
  BY DEF PruneBundles, Known, IInv, Typed
<1>2. CASE Removing({}) /\ UNCHANGED rows
  <2>1. doomed' = {} /\ Held' = Held
    BY <1>2 DEF Removing, Held
  <2> QED BY <1>1, <1>2, <2>1, OtherStep DEF IInv, Typed, Tables, ArchiveOnDisk
<1>3. ASSUME NEW K \in SUBSET Held, Removing(Expired(K)),
             rows' = [i \in Ids |-> IF i \in Expired(K) THEN None ELSE rows[i]]
      PROVE  IInv'
  <2>1. doomed' = Expired(K) /\ Expired(K) \subseteq Held /\ Expired(K) \subseteq files
    BY <1>3 DEF Removing, Expired, IInv, Tables, ArchiveOnDisk
  <2>2. rows' \in [Ids -> DOMAIN Archives \cup {None}]
    BY <1>3 DEF IInv, Typed
  <2>3. \A i \in Held' : i \in Held \ Expired(K) /\ rows'[i] = rows[i]
    BY <1>3 DEF Held
  <2> QED BY <1>1, <2>1, <2>2, <2>3, OtherStep DEF IInv, Typed, Tables, ArchiveOnDisk
<1> QED BY <1>2, <1>3 DEF PruneBundles

LEMMA UnlinkIInv ==
  ASSUME IInv, Unlink, UNCHANGED <<req, mutex>>
  PROVE  IInv'
<1>1. UNCHANGED <<hosts, rows>> /\ Known' = Known /\ Held' = Held /\ hosts' \in [Hosts -> HostRow]
  BY DEF Unlink, Known, Held, IInv, Typed
<1>2. CASE Removing({}) /\ UNCHANGED files
  <2>1. doomed' = {}
    BY <1>2 DEF Removing
  <2> QED BY <1>1, <1>2, <2>1, OtherStep DEF IInv, Typed, Tables, ArchiveOnDisk
<1>3. ASSUME NEW i \in doomed, files' = files \ {i}, Removing(doomed \ {i})  PROVE IInv'
  <2>1. doomed' = doomed \ {i}
    BY <1>3 DEF Removing
  <2> QED BY <1>1, <1>3, <2>1, OtherStep DEF IInv, Typed, Tables, ArchiveOnDisk
<1> QED BY <1>2, <1>3 DEF Unlink

LEMMA PassIInv ==
  ASSUME IInv, Pass
  PROVE  IInv'
<1>1. UNCHANGED <<req, mutex>>
  BY DEF Pass
<1>2. ASSUME NEW h \in Hosts, MarkHostLapsed(h)  PROVE IInv'
  <2>1. UNCHANGED <<rows, files, doomed>>
    BY <1>2 DEF MarkHostLapsed
  <2>2. hosts' \in [Hosts -> HostRow] /\ Known' = Known
    <3>1. CASE hosts' = [hosts EXCEPT ![h].lapsed = TRUE]
      BY <3>1 DEF IInv, Typed, HostRow, Known
    <3>2. CASE UNCHANGED hosts
      BY <3>2 DEF IInv, Typed, Known
    <3> QED BY <1>2, <3>1, <3>2 DEF MarkHostLapsed
  <2> QED BY <1>1, <2>1, <2>2, StillStep
<1>3. CASE StartPass \/ RaiseLapsed \/ UndeliveredAlerts \/ Send \/ MarkAlertDelivered
  <2>1. UNCHANGED <<hosts, rows, files, doomed>>
    BY <1>3 DEF StartPass, RaiseLapsed, UndeliveredAlerts, Send, MarkAlertDelivered, db
  <2>2. hosts' \in [Hosts -> HostRow] /\ Known' = Known
    BY <2>1 DEF IInv, Typed, Known
  <2> QED BY <1>1, <2>1, <2>2, StillStep
<1> QED BY <1>1, <1>2, <1>3, PruneIInv, UnlinkIInv DEF Pass

LEMMA TickIInv ==
  ASSUME IInv, Tick
  PROVE  IInv'
<1>1. UNCHANGED <<rows, files, mutex, doomed>>
  BY DEF Tick
<1>2. hosts' \in [Hosts -> HostRow] /\ Known' = Known
  <2>1. \A h \in Hosts : hosts[h].silence \in Nat /\ Aged(hosts[h].silence, Grace + 1) \in Nat
    BY IngestAssumption DEF Aged, IInv, Typed, HostRow
  <2>2. \A h \in Hosts : hosts'[h] \in HostRow /\ hosts'[h].key = hosts[h].key
    BY <2>1 DEF Tick, IInv, Typed, HostRow
  <2> QED BY <2>2 DEF Tick, Known
<1>3. \A r \in Requests : /\ req'[r] \in Handler /\ req'[r].pc = req[r].pc
                          /\ req[r].pc # "idle" => req'[r].arc = req[r].arc /\ req'[r].id = req[r].id
  <2> SUFFICES ASSUME NEW r \in Requests
               PROVE  /\ req'[r] \in Handler /\ req'[r].pc = req[r].pc
                      /\ req[r].pc # "idle" => req'[r].arc = req[r].arc /\ req'[r].id = req[r].id
    OBVIOUS
  <2>1. req[r] \in Handler
    BY DEF IInv, Typed
  <2>2. CASE req[r].pc = "idle"
    BY <2>2, IdleOk DEF Tick
  <2>3. CASE req[r].pc # "idle"
    <3>1. req'[r] = [req[r] EXCEPT !.age = req[r].age + 1]
      BY <2>3 DEF Tick
    <3> QED BY <2>1, <2>3, <3>1 DEF Handler
  <2> QED BY <2>2, <2>3
<1>4. Held' = Held /\ Full' = Full
  BY <1>1, <1>2 DEF Held, Full
<1>5. req' \in [Requests -> Handler]
  BY <1>3, IdleOk DEF Tick
<1>6. Typed' /\ Exclusive'
  BY <1>1, <1>2, <1>3, <1>5, IdleOk DEF IInv, Typed, Exclusive
<1>7. Tables'
  BY <1>1, <1>2, <1>4 DEF IInv, Tables, ArchiveOnDisk, OneRowPerArchive, HostLimitHolds
<1>8. ASSUME NEW r \in Requests  PROVE Ok(req[r])'
  <2>1. Ok(req[r]) /\ (req[r].pc = "idle" => req'[r].pc = "idle")
    BY <1>3, IdleOk DEF IInv
  <2>2. CASE req[r].pc = "idle"
    BY <2>1, <2>2 DEF Ok
  <2>3. CASE req[r].pc # "idle"
    <3>1. req'[r].pc = req[r].pc /\ req'[r].id = req[r].id /\ req'[r].arc = req[r].arc
      BY <1>3, <2>3
    <3> QED BY <1>1, <1>2, <1>4, <2>1, <3>1 DEF Ok, HostOf
  <2> QED BY <2>2, <2>3
<1> QED BY <1>6, <1>7, <1>8 DEF IInv

LEMMA CrashIInv ==
  ASSUME IInv, Crash
  PROVE  IInv'
<1>1. /\ UNCHANGED <<hosts, rows, files>> /\ doomed' = {} /\ mutex' = None
      /\ req' = [r \in Requests |-> Idle]
  BY DEF Crash, db
<1>2. Held' = Held /\ Known' = Known
  BY <1>1 DEF Held, Known
<1>3. Typed' /\ Exclusive'
  BY <1>1, IdleOk, IngestAssumption DEF IInv, Typed, Exclusive, Away
<1>4. Tables'
  BY <1>1, <1>2 DEF IInv, Tables, ArchiveOnDisk, OneRowPerArchive, HostLimitHolds
<1>5. \A r \in Requests : req'[r] = Idle /\ Ok(req[r])'
  BY <1>1, IdleOk DEF Ok
<1> QED BY <1>3, <1>4, <1>5 DEF IInv

LEMMA NextIInv == IInv /\ [Next]_vars => IInv'
<1> SUFFICES ASSUME IInv, [Next]_vars PROVE IInv'
  OBVIOUS
<1>1. ASSUME NEW r \in Requests, Push(r) \/ Handle(r), UNCHANGED doomed  PROVE IInv'
  BY <1>1, ReceiveIInv, HandleIInv DEF Push
<1>2. CASE AgeOut \/ UNCHANGED vars
  <2>1. UNCHANGED <<hosts, rows, files, req, mutex, doomed>>
    BY <1>2 DEF AgeOut, vars, db
  <2>2. hosts' \in [Hosts -> HostRow] /\ Known' = Known
    BY <2>1 DEF IInv, Typed, Known
  <2> QED BY <2>1, <2>2, StillStep
<1> QED BY <1>1, <1>2, SettingsIInv, PassIInv, TickIInv, CrashIInv DEF Next

-----------------------------------------------------------------------------
(* Retention. *)

Kept == \A h \in Hosts : \A i \in Of(h) : \E j \in Of(h)' : Gen(j)' >= Gen(i)

\* Rows that stay as they are go nowhere.
LEMMA StayingKept ==
  ASSUME IInv, \A i \in Held : i \in Held' /\ rows'[i] = rows[i]
  PROVE  Kept
<1> SUFFICES ASSUME NEW h \in Hosts, NEW i \in Of(h)  PROVE \E j \in Of(h)' : Gen(j)' >= Gen(i)
  BY DEF Kept
<1>1. i \in Of(h)' /\ Gen(i)' = Gen(i)
  BY DEF Of, Gen
<1>2. Gen(i) \in Nat
  BY ArchiveAssumption DEF Of, Held, Gen, IInv, Typed
<1>3. Gen(i)' >= Gen(i)
  BY <1>1, <1>2
<1> QED BY <1>1, <1>3

\* A row is inserted under an id that no row has.
LEMMA InsertKept ==
  ASSUME IInv, NEW r \in Requests, Insert(r)
  PROVE  Kept
<1>1. req[r].id \notin Held
  BY DEF IInv, Ok, Insert
<1>2. rows' = [rows EXCEPT ![req[r].id] = req[r].arc] \/ UNCHANGED rows
  BY DEF Insert
<1>3. \A i \in Held : i \in Held' /\ rows'[i] = rows[i]
  BY <1>1, <1>2 DEF Held, IInv, Typed
<1> QED BY <1>3, StayingKept

\* The first of each host is kept, and no generation of the host is newer.
LEMMA PruneKept ==
  ASSUME IInv, PruneBundles
  PROVE  Kept
<1>1. CASE UNCHANGED rows
  BY <1>1, StayingKept DEF Held
<1>2. ASSUME NEW K \in SUBSET Held, FirstOfEach(K),
             rows' = [i \in Ids |-> IF i \in Expired(K) THEN None ELSE rows[i]]
      PROVE  Kept
  <2> SUFFICES ASSUME NEW h \in Hosts, NEW i \in Of(h)  PROVE \E j \in Of(h)' : Gen(j)' >= Gen(i)
    BY DEF Kept
  <2>1. PICK k \in Newest(Of(h)) : K \cap Of(h) = {k}
    BY <1>2 DEF FirstOfEach
  <2>2. k \in Of(h) /\ k \in Ids /\ k \notin Expired(K) /\ Gen(i) <= Gen(k)
    BY <2>1 DEF Newest, Of, Held, Expired
  <2>3. rows'[k] = rows[k]
    BY <1>2, <2>2
  <2>4. k \in Of(h)' /\ Gen(k)' = Gen(k)
    BY <2>2, <2>3 DEF Of, Held, Gen
  <2>5. Gen(i) \in Nat /\ Gen(k) \in Nat
    BY <2>2, ArchiveAssumption DEF Of, Held, Gen, IInv, Typed
  <2>6. Gen(k)' >= Gen(i)
    BY <2>2, <2>4, <2>5
  <2> QED BY <2>4, <2>6
<1> QED BY <1>1, <1>2 DEF PruneBundles

LEMMA NextKept == IInv /\ [Next]_vars => [Kept]_vars
<1> SUFFICES ASSUME IInv, Next PROVE Kept
  OBVIOUS
<1>1. ASSUME UNCHANGED rows PROVE Kept
  BY <1>1, StayingKept DEF Held
<1>2. ASSUME NEW r \in Requests, Handle(r) PROVE Kept
  BY <1>1, <1>2, InsertKept
     DEF Handle, Lookup, Replay, Limit, Upsert, Fail, Latest, Previous, ReadProofs, WriteFile,
         RaiseRecovered, RaiseRegression, db
<1>3. CASE Pass
  BY <1>1, <1>3, PruneKept
     DEF Pass, StartPass, MarkHostLapsed, RaiseLapsed, UndeliveredAlerts, Send, MarkAlertDelivered,
         Unlink, db
<1>4. CASE (\E r \in Requests : Push(r)) \/ Settings \/ Tick \/ AgeOut \/ Crash
  BY <1>1, <1>4 DEF Push, Receive, Settings, SetHostPublicKey, SetHostExpectedEvery, Tick, AgeOut, Crash, db
<1> QED BY <1>2, <1>3, <1>4 DEF Next

-----------------------------------------------------------------------------
\* What the handlers and the monitor rely on of each other holds in every state.
THEOREM Invariance == Spec => []IInv
BY InitIInv, NextIInv, PTL DEF Spec

\* At no step of a save or a prune, in no interleaving and after no crash does
\* a row point at an archive that is not on disk.
THEOREM ArchivesStay == Spec => []ArchiveOnDisk
<1>1. IInv => ArchiveOnDisk
  BY DEF IInv, Tables
<1> QED BY Invariance, <1>1, PTL

\* However many handlers run, a pushed archive is stored once.
THEOREM StoredOnce == Spec => []OneRowPerArchive
<1>1. IInv => OneRowPerArchive
  BY DEF IInv, Tables
<1> QED BY Invariance, <1>1, PTL

\* However many first pushes run, the plan's limit of hosts holds.
THEOREM LimitKept == Spec => []HostLimitHolds
<1>1. IInv => HostLimitHolds
  BY DEF IInv, Tables
<1> QED BY Invariance, <1>1, PTL

\* Whatever is pushed while the monitor prunes, the newest generation that is
\* held of a host never goes back.
THEOREM NewestStays == Spec => NewestIsKept
<1>1. Spec => [][Kept]_vars
  BY Invariance, NextKept, PTL DEF Spec
<1> QED BY <1>1 DEF Kept, NewestIsKept
\* What is stored is whole, for any number of handlers, failures and crashes.
THEOREM StoreSound == Spec => []StoreIsSound
BY ArchivesStay, StoredOnce, LimitKept, PTL DEF StoreIsSound


-----------------------------------------------------------------------------
(* What is announced.                                                      *)

Queued  == [host : Hosts, kind : Kinds, arc : DOMAIN Archives \cup {None}, age : Nat]
PassRow == [pc : {"rest", "lapses", "raise", "deliver", "mark", "unlink"}, quiet : SUBSET Hosts,
            host : Hosts \cup {None}, at : Nat \ {0}, left : Nat, failed : BOOLEAN, age : Nat]

\* The pass: what is left to deliver is in the queue, and nobody marks the hosts
\* it has listed as quiet before it does.
PassOk ==
  /\ queue \in Seq(Queued) /\ mon \in PassRow /\ faults \in Nat
  /\ mon.pc = "raise" => mon.host \in Hosts
  /\ mon.pc \in {"rest", "lapses", "raise"} => mon.at = 1 /\ mon.left = 0
  /\ mon.pc \in {"deliver", "mark"} => mon.at + mon.left <= Len(queue) + 1
  /\ mon.pc = "mark" => mon.left > 0
  /\ \A h \in mon.quiet : ~hosts[h].lapsed

\* Nothing held of its host is newer than what a handler has in hand.
IsNewest(q) == \A i \in Of(HostOf(q)) : Gen(i) <= Archives[q.arc].gen

\* What a handler has read, and what of it is still so.
Says(q) ==
  /\ q.pc \in {"wait", "limit"} => ~q.lapsed /\ ~q.known
  /\ q.pc = "replay" => q.known
  /\ q.pc \in {"replay", "upsert"} /\ q.lapsed => hosts[HostOf(q)].lapsed
  /\ q.pc \in {"latest", "previous", "proofs", "write", "insert", "recovered"} /\ q.lapsed => q.cleared
  /\ faults = 0 /\ q.known /\ q.newest /\ q.pc \in {"previous", "proofs", "write", "insert"} => IsNewest(q)
  /\ faults = 0 /\ q.pc \in {"recovered", "regressed"} => IsNewest(q)

SInv == PassOk /\ \A r \in Requests : Says(req[r])

\* Steps that add no row, end no lapse and undo no failure leave it so.
LEMMA SaysStill ==
  ASSUME NEW q, Says(q), q.arc \in DOMAIN Archives,
         \A h \in Hosts : hosts[h].lapsed => hosts'[h].lapsed,
         \A i \in Held' : i \in Held /\ rows'[i] = rows[i],
         faults' = 0 => faults = 0
  PROVE  Says(q)'
<1>1. HostOf(q) \in Hosts
  BY ArchiveAssumption DEF HostOf
<1>2. IsNewest(q) => IsNewest(q)'
  BY DEF IsNewest, Of, Gen, HostOf
<1> QED BY <1>1, <1>2 DEF Says, HostOf

\* A handler that has no bundle in hand says nothing.
LEMMA IdleSays == Says(Idle) /\ Says(Idle)'
BY DEF Says, Idle

\* Only the handler inside ingestMu may have read anything.
LEMMA OthersAway ==
  ASSUME IInv, NEW r \in Requests, mutex \in {r, None}, NEW q \in Requests, q # r
  PROVE  req[q].pc \in Away
BY IngestAssumption DEF IInv, Exclusive, Typed

\* What is in a handler's record, and where its bundle belongs.
LEMMA RecordOf ==
  ASSUME IInv, NEW r \in Requests
  PROVE  /\ req[r] \in Handler
         /\ req[r].pc # "idle" => /\ req[r].arc \in DOMAIN Archives /\ Arc(r) = Archives[req[r].arc]
                                  /\ H(r) = HostOf(req[r]) /\ H(r) \in Hosts
         /\ req[r].pc \notin Away => mutex = r
BY ArchiveAssumption DEF IInv, Typed, Ok, Exclusive, HostOf, H, Arc

\* Generations are numbers.
LEMMA GensAre ==
  ASSUME IInv, NEW i \in Held  PROVE Gen(i) \in Nat /\ rows[i] \in DOMAIN Archives
BY ArchiveAssumption DEF Held, Gen, IInv, Typed

\* What a call of a handler does to the alerts, the lapses and the failures.
LEMMA HandleFrame ==
  ASSUME IInv, NEW r \in Requests, Handle(r), faults \in Nat
  PROVE  /\ faults' \in {faults, faults + 1}
         /\ queue' = queue \/ /\ req[r].pc \in {"recovered", "regressed"}
                              /\ CreateAlert(H(r), req[r].pc, req[r].arc)
         /\ \A h \in Hosts : hosts'[h].lapsed => hosts[h].lapsed
         /\ mutex \in {r, None} /\ \A q \in Requests : q # r => req'[q] = req[q]
         /\ req[r].pc # "idle"
<1>1. req \in [Requests -> Handler] /\ hosts \in [Hosts -> HostRow]
  BY DEF IInv, Typed
<1>2. CASE Upsert(r)
  <2>1. req[r].pc = "upsert" /\ mutex = r /\ H(r) \in Hosts
    BY <1>2, RecordOf DEF Upsert, Away
  <2>2. ASSUME hosts' = [hosts EXCEPT ![H(r)] = Sighted(@, r)]
        PROVE  \A h \in Hosts : hosts'[h].lapsed => hosts[h].lapsed
    <3>1. hosts[H(r)] \in HostRow
      BY <1>1, <2>1
    <3>2. Sighted(hosts[H(r)], r).lapsed = FALSE
      BY <3>1 DEF Sighted, HostRow
    <3> QED BY <1>1, <2>1, <2>2, <3>2
  <2>3. \A q \in Requests : q # r => req'[q] = req[q]
    BY <1>1, <1>2 DEF Upsert, Answer
  <2> QED BY <1>2, <2>1, <2>2, <2>3 DEF Upsert
<1>3. CASE Lookup(r)
  BY <1>1, <1>3 DEF Lookup, Enter, Answer, Goto, db
<1>4. CASE Replay(r) \/ Limit(r)
  BY <1>1, <1>4, RecordOf DEF Replay, Limit, Answer, Goto, db, Away
<1>5. CASE Fail(r)
  BY <1>1, <1>5, RecordOf DEF Fail, Fails, Enter, Answer, db, Away
<1>6. CASE Latest(r) \/ Previous(r) \/ ReadProofs(r)
  BY <1>1, <1>6, RecordOf DEF Latest, Previous, ReadProofs, Fails, Works, Goto, db, Away
<1>7. CASE WriteFile(r)
  BY <1>1, <1>7, RecordOf DEF WriteFile, Fails, Works, Answer, Away
<1>8. CASE Insert(r)
  BY <1>1, <1>8, RecordOf DEF Insert, Owed, Fails, Works, Answer, Goto, Away
<1>9. CASE RaiseRecovered(r)
  BY <1>1, <1>9, RecordOf DEF RaiseRecovered, Raise, Owed, Fails, Works, Answer, Away
<1>10. CASE RaiseRegression(r)
  BY <1>1, <1>10, RecordOf DEF RaiseRegression, Raise, Owed, Fails, Works, Answer, Away
<1> QED BY <1>2, <1>3, <1>4, <1>5, <1>6, <1>7, <1>8, <1>9, <1>10 DEF Handle

-----------------------------------------------------------------------------
(* What a handler says after a call of its own.                            *)

LEMMA BeginSays ==
  ASSUME IInv, SInv, NEW r \in Requests, Lookup(r) \/ Replay(r) \/ Limit(r) \/ Fail(r)
  PROVE  Says(req[r])'
<1>1. req[r] \in Handler /\ Says(req[r]) /\ req[r].pc # "idle" /\ req \in [Requests -> Handler]
  BY RecordOf DEF SInv, IInv, Typed, Lookup, Replay, Limit, Fail, Enter
<1>2. CASE Answer(r)
  BY <1>1, <1>2, IdleSays DEF Answer, Says
<1>3. CASE Lookup(r) /\ Goto(r, "limit")
  <2>1. /\ req'[r].pc = "limit" /\ req'[r].lapsed = req[r].lapsed /\ req'[r].known = req[r].known
        /\ req[r].pc = "wait"
    BY <1>1, <1>3 DEF Goto, Handler, Lookup, Enter
  <2> QED BY <1>1, <2>1 DEF Says
<1>4. CASE Lookup(r) /\ req' = [req EXCEPT ![r] = [@ EXCEPT !.pc = "replay", !.known = TRUE,
                                                            !.lapsed = hosts[H(r)].lapsed]]
  <2>1. /\ req'[r].pc = "replay" /\ req'[r].lapsed = hosts[H(r)].lapsed /\ req'[r].known
        /\ req'[r].arc = req[r].arc
    BY <1>1, <1>4 DEF Handler
  <2>2. HostOf(req'[r]) = H(r) /\ UNCHANGED hosts
    BY <1>4, <2>1 DEF HostOf, H, Arc, Lookup, db
  <2> QED BY <2>1, <2>2 DEF Says, HostOf
<1>5. CASE (Replay(r) \/ Limit(r)) /\ Goto(r, "upsert")
  <2>1. /\ req'[r].pc = "upsert" /\ req'[r].lapsed = req[r].lapsed /\ req'[r].arc = req[r].arc
        /\ req[r].pc \in {"replay", "limit"} /\ UNCHANGED hosts
    BY <1>1, <1>5 DEF Goto, Handler, Replay, Limit, db
  <2> QED BY <1>1, <2>1 DEF Says, HostOf
<1> QED BY <1>2, <1>3, <1>4, <1>5 DEF Lookup, Replay, Limit, Fail

\* The upsert clears the lapse that was read, or one that has come since.
LEMMA UpsertSays ==
  ASSUME IInv, SInv, NEW r \in Requests, Upsert(r)
  PROVE  Says(req[r])'
<1>1. /\ req[r] \in Handler /\ Says(req[r]) /\ req[r].pc = "upsert" /\ req \in [Requests -> Handler]
      /\ H(r) = HostOf(req[r])
  BY RecordOf DEF SInv, IInv, Typed, Upsert
<1>2. CASE Answer(r)
  BY <1>1, <1>2, IdleSays DEF Answer, Says
<1>3. CASE req' = [req EXCEPT ![r] = [@ EXCEPT !.pc = IF req[r].known THEN "latest" ELSE "write",
                                               !.cleared = hosts[H(r)].lapsed]]
  <2>1. /\ req'[r].pc = (IF req[r].known THEN "latest" ELSE "write")
        /\ req'[r].lapsed = req[r].lapsed /\ req'[r].known = req[r].known
        /\ req'[r].cleared = hosts[H(r)].lapsed
    BY <1>1, <1>3 DEF Handler
  <2>2. req'[r].lapsed => req'[r].cleared
    BY <1>1, <2>1 DEF Says
  <2>3. req'[r].pc \in {"latest", "write"} /\ (req'[r].pc = "write" => ~req'[r].known)
    BY <1>1, <2>1 DEF Handler
  <2> QED BY <2>2, <2>3 DEF Says
<1> QED BY <1>2, <1>3 DEF Upsert

\* A bundle that is the newest while the handler holds ingestMu stays so: no
\* other adds a row.
LEMMA CompareSays ==
  ASSUME IInv, SInv, NEW r \in Requests, Latest(r) \/ Previous(r) \/ ReadProofs(r) \/ WriteFile(r)
  PROVE  Says(req[r])'
<1>1. /\ req[r] \in Handler /\ Says(req[r]) /\ req \in [Requests -> Handler] /\ faults \in Nat
      /\ req[r].pc \in {"latest", "previous", "proofs", "write"}
      /\ H(r) = HostOf(req[r]) /\ H(r) \in Hosts /\ req[r].arc \in DOMAIN Archives
      /\ Arc(r) = Archives[req[r].arc]
  BY RecordOf DEF SInv, IInv, Typed, PassOk, Latest, Previous, ReadProofs, WriteFile
<1>2. UNCHANGED rows
  BY DEF Latest, Previous, ReadProofs, WriteFile, db
<1>3. CASE Answer(r)
  BY <1>1, <1>3, IdleSays DEF Answer, Says
<1>4. CASE ~Answer(r)
  <2>1. /\ req'[r].arc = req[r].arc /\ req'[r].lapsed = req[r].lapsed /\ req'[r].known = req[r].known
        /\ req'[r].cleared = req[r].cleared
        /\ req'[r].pc \in {"previous", "proofs", "write", "insert"}
        /\ faults' = 0 => faults = 0
        /\ req[r].pc # "latest" => req'[r].newest = req[r].newest
        /\ req[r].pc = "latest" /\ faults' = 0 /\ req'[r].newest => ~Late(r)
    <3>1. CASE Latest(r)
      <4>1. req[r].pc = "latest"
        BY <3>1 DEF Latest
      <4>2. CASE req' = [req EXCEPT ![r] = [@ EXCEPT !.pc = "previous", !.newest = ~Late(r)]] /\ Works
        BY <1>1, <4>1, <4>2 DEF Works, Handler
      <4>3. CASE Goto(r, "previous") /\ Fails("latest")
        BY <1>1, <4>1, <4>3 DEF Goto, Fails, Handler
      <4> QED BY <3>1, <4>2, <4>3 DEF Latest
    <3>2. CASE Previous(r)
      <4>1. req[r].pc = "previous"
        BY <3>2 DEF Previous
      <4>2. ASSUME NEW i, req' = [req EXCEPT ![r] = [@ EXCEPT !.pc = "proofs", !.prev = i]], Works
            PROVE  req'[r] = [req[r] EXCEPT !.pc = "proofs", !.prev = i] /\ faults' = faults
        BY <1>1, <4>2 DEF Works
      <4>3. ASSUME Goto(r, "write"), Works \/ Fails("previous")
            PROVE  req'[r] = [req[r] EXCEPT !.pc = "write"] /\ (faults' = 0 => faults = 0)
        BY <1>1, <4>3 DEF Goto, Works, Fails
      <4>4. \/ \E i : req'[r] = [req[r] EXCEPT !.pc = "proofs", !.prev = i]
            \/ req'[r] = [req[r] EXCEPT !.pc = "write"]
        BY <3>2, <4>2, <4>3 DEF Previous
      <4>5. faults' = 0 => faults = 0
        BY <3>2, <4>2, <4>3 DEF Previous
      <4> QED BY <1>1, <4>1, <4>4, <4>5 DEF Handler
    <3>3. CASE ReadProofs(r)
      <4>1. req[r].pc = "proofs"
        BY <3>3 DEF ReadProofs
      <4>2. \/ \E w : req'[r] = [req[r] EXCEPT !.pc = "write", !.prev = 0, !.was = w]
            \/ req'[r] = [req[r] EXCEPT !.pc = "write", !.prev = 0]
        BY <1>1, <3>3 DEF ReadProofs
      <4>3. faults' = 0 => faults = 0
        BY <1>1, <3>3 DEF ReadProofs, Works, Fails
      <4> QED BY <1>1, <4>1, <4>2, <4>3 DEF Handler
    <3>4. CASE WriteFile(r)
      <4>1. req[r].pc = "write" /\ req' = [req EXCEPT ![r] = [@ EXCEPT !.pc = "insert", !.id = NewId]]
            /\ faults' = faults
        BY <1>4, <3>4 DEF WriteFile, Works
      <4> HIDE DEF NewId
      <4>2. req'[r] = [req[r] EXCEPT !.pc = "insert", !.id = NewId]
        BY <1>1, <4>1
      <4> QED BY <1>1, <4>1, <4>2 DEF Handler
    <3> QED BY <3>1, <3>2, <3>3, <3>4
  <2>2. req'[r].lapsed => req'[r].cleared
    BY <1>1, <2>1 DEF Says
  <2>3. ASSUME faults' = 0, req'[r].known, req'[r].newest  PROVE IsNewest(req[r])
    <3>1. CASE req[r].pc = "latest"
      <4>1. ~Late(r)
        BY <2>1, <2>3, <3>1
      <4>2. \A i \in Of(H(r)) : ~(Arc(r).gen < Gen(i)) /\ Gen(i) \in Nat
        BY <4>1, GensAre DEF Late, Of
      <4>3. Arc(r).gen \in Nat
        BY <1>1, ArchiveAssumption
      <4> QED BY <1>1, <4>2, <4>3 DEF IsNewest
    <3>2. CASE req[r].pc # "latest"
      <4>1. req'[r].newest = req[r].newest /\ faults = 0
        BY <2>1, <2>3, <3>2
      <4> QED BY <1>1, <2>1, <2>3, <3>2, <4>1 DEF Says
    <3> QED BY <3>1, <3>2
  <2>4. IsNewest(req[r]) => IsNewest(req[r])'
    BY <1>2, <2>1 DEF IsNewest, Of, Held, Gen, HostOf
  <2> QED BY <2>1, <2>2, <2>3, <2>4 DEF Says
<1> QED BY <1>3, <1>4

\* What an alert that is owed makes of the handler.
LEMMA OwedGives ==
  ASSUME NEW r \in Requests, req \in [Requests -> Handler], NEW due, Owed(r, due), ~Answer(r)
  PROVE  req'[r].pc = "regressed" /\ req'[r].arc = req[r].arc
<1>1. req' = [req EXCEPT ![r] = [@ EXCEPT !.pc = "regressed", !.was = {}, !.id = 0,
                                          !.lapsed = FALSE, !.due = due]]
  BY DEF Owed
<1>2. req[r] \in Handler
  OBVIOUS
<1> QED BY <1>1, <1>2 DEF Handler

\* Nor does its own row make it less new.
LEMMA InsertSays ==
  ASSUME IInv, SInv, NEW r \in Requests, Insert(r)
  PROVE  Says(req[r])'
<1> DEFINE id == req[r].id
<1>1. /\ req[r] \in Handler /\ Says(req[r]) /\ req \in [Requests -> Handler] /\ faults \in Nat
      /\ req[r].pc = "insert" /\ Ok(req[r])
      /\ H(r) = HostOf(req[r]) /\ H(r) \in Hosts /\ req[r].arc \in DOMAIN Archives
      /\ Arc(r) = Archives[req[r].arc] /\ Arc(r).gen \in Nat
  BY RecordOf, ArchiveAssumption DEF SInv, IInv, Typed, PassOk, Insert
<1>2. CASE Answer(r)
  BY <1>1, <1>2, IdleSays DEF Answer, Says
<1>3. CASE ~Answer(r)
  <2>1. /\ rows' = [rows EXCEPT ![id] = req[r].arc] /\ Works /\ req[r].known /\ req[r].newest
        /\ \/ req[r].lapsed /\ Goto(r, "recovered")
           \/ ~req[r].lapsed /\ Owed(r, AlertsDue(Cardinality(Regressed(r))))
    BY <1>3 DEF Insert
  <2>2. /\ req'[r].pc \in {"recovered", "regressed"} /\ req'[r].arc = req[r].arc
        /\ req'[r].pc = "recovered" => req'[r].lapsed = req[r].lapsed /\ req'[r].cleared = req[r].cleared
    <3>1. CASE Goto(r, "recovered")
      BY <1>1, <3>1 DEF Goto, Handler
    <3>2. CASE Owed(r, AlertsDue(Cardinality(Regressed(r))))
      BY <1>1, <1>3, <3>2, OwedGives
    <3> QED BY <2>1, <3>1, <3>2
  <2>3. faults' = 0 => IsNewest(req[r])
    BY <1>1, <2>1 DEF Says, Works
  <2>4. id \in Ids /\ id \notin Held
    BY <1>1 DEF Ok, IInv, Typed
  <2>5. rows'[id] = req[r].arc /\ \A i \in Held : i \in Ids /\ i # id /\ rows'[i] = rows[i]
    BY <2>1, <2>4 DEF Held, IInv, Typed
  <2>6. \A i \in Held' : i \in Held \cup {id}
    BY <2>1, <2>4 DEF Held, IInv, Typed
  <2>7. IsNewest(req[r]) => IsNewest(req[r])'
    <3> SUFFICES ASSUME IsNewest(req[r]), NEW i \in Of(H(r))'
                 PROVE  Archives[rows'[i]].gen <= Archives[req[r].arc].gen
      BY <1>1, <2>2 DEF IsNewest, HostOf, Gen, Of, H, Arc
    <3>1. CASE i = id
      BY <1>1, <2>5, <3>1
    <3>2. CASE i # id
      <4>1. i \in Of(H(r)) /\ rows'[i] = rows[i]
        BY <1>1, <2>2, <2>5, <2>6, <3>2 DEF Of, H, Arc
      <4> QED BY <1>1, <4>1 DEF IsNewest, Gen
    <3> QED BY <3>1, <3>2
  <2> QED BY <1>1, <2>2, <2>3, <2>7 DEF Says
<1> QED BY <1>2, <1>3

LEMMA RaiseSays ==
  ASSUME IInv, SInv, NEW r \in Requests, RaiseRecovered(r) \/ RaiseRegression(r)
  PROVE  Says(req[r])'
<1>1. /\ req[r] \in Handler /\ Says(req[r]) /\ req \in [Requests -> Handler] /\ faults \in Nat
      /\ req[r].pc \in {"recovered", "regressed"} /\ UNCHANGED rows
  BY RecordOf DEF SInv, IInv, Typed, PassOk, RaiseRecovered, RaiseRegression
<1>2. CASE Answer(r)
  BY <1>1, <1>2, IdleSays DEF Answer, Says
<1>3. CASE ~Answer(r)
  <2>1. req'[r].pc = "regressed" /\ req'[r].arc = req[r].arc
    BY <1>1, <1>3, OwedGives DEF RaiseRecovered, RaiseRegression
  <2>2. faults' = 0 => faults = 0
    BY <1>1 DEF RaiseRecovered, RaiseRegression, Raise, Fails, Works
  <2>3. IsNewest(req[r]) => IsNewest(req[r])'
    BY <1>1, <2>1 DEF IsNewest, Of, Held, Gen, HostOf
  <2> QED BY <1>1, <2>1, <2>2, <2>3 DEF Says
<1> QED BY <1>2, <1>3

-----------------------------------------------------------------------------
(* The pass.                                                               *)

\* Handlers only lengthen the queue, and end lapses.
LEMMA PassStays ==
  ASSUME PassOk, UNCHANGED mon, queue' \in Seq(Queued), Len(queue') >= Len(queue), faults' \in Nat,
         \A h \in Hosts : hosts'[h].lapsed => hosts[h].lapsed
  PROVE  PassOk'
<1>1. Len(queue) \in Nat /\ Len(queue') \in Nat /\ mon.at \in Nat /\ mon.left \in Nat
  BY LenProperties DEF PassOk, PassRow
<1>2. mon.quiet \subseteq Hosts
  BY DEF PassOk, PassRow
<1>3. mon.pc \in {"deliver", "mark"} => mon.at + mon.left <= Len(queue') + 1
  BY <1>1 DEF PassOk
<1> QED BY <1>2, <1>3 DEF PassOk

\* An alert that is raised is queued behind the others.
LEMMA Queues ==
  ASSUME queue \in Seq(Queued), NEW h \in Hosts, NEW kind \in Kinds, NEW a \in DOMAIN Archives \cup {None},
         CreateAlert(h, kind, a)
  PROVE  /\ queue' \in Seq(Queued) /\ Len(queue') = Len(queue) + 1
         /\ queue'[Len(queue')] = Alert(h, kind, a)
<1>1. Alert(h, kind, a) \in Queued
  BY DEF Alert, Queued
<1> QED BY <1>1, AppendProperties, LenProperties DEF CreateAlert

\* An alert that is dealt with leaves the others.
LEMMA Leaves ==
  ASSUME queue \in Seq(Queued), mon.at \in 1..Len(queue), Processed
  PROVE  queue' \in Seq(Queued) /\ Len(queue') = Len(queue) - 1
<1> DEFINE i == mon.at
           n == Len(queue)
           p == SubSeq(queue, 1, i - 1)
           q == SubSeq(queue, i + 1, n)
<1>1. n \in Nat /\ i \in Nat /\ 1 <= i /\ i <= n
  BY LenProperties
<1>2. p \in Seq(Queued) /\ Len(p) = i - 1
  BY <1>1, SubSeqProperties
<1>3. q \in Seq(Queued) /\ Len(q) = n - i
  BY <1>1, SubSeqProperties
<1>4. queue' = p \o q
  BY DEF Processed, RemoveAt
<1> HIDE DEF p, q, i, n
<1>5. p \o q \in Seq(Queued) /\ Len(p \o q) = Len(p) + Len(q)
  BY <1>2, <1>3, ConcatProperties
<1> QED BY <1>1, <1>2, <1>3, <1>4, <1>5 DEF n

\* A handler's call leaves the pass in order.
LEMMA HandlePass ==
  ASSUME IInv, SInv, NEW r \in Requests, Handle(r), UNCHANGED mon
  PROVE  PassOk'
<1>1. faults \in Nat /\ queue \in Seq(Queued) /\ Len(queue) \in Nat
  BY LenProperties DEF SInv, PassOk
<1>2. /\ faults' \in {faults, faults + 1} /\ \A h \in Hosts : hosts'[h].lapsed => hosts[h].lapsed
      /\ queue' = queue \/ /\ req[r].pc \in {"recovered", "regressed"}
                           /\ CreateAlert(H(r), req[r].pc, req[r].arc)
      /\ req[r].pc # "idle"
  BY <1>1, HandleFrame
<1>3. H(r) \in Hosts /\ req[r].arc \in DOMAIN Archives
  BY <1>2, RecordOf
<1>4. queue' \in Seq(Queued) /\ Len(queue') >= Len(queue)
  <2>1. CASE queue' = queue
    BY <1>1, <2>1
  <2>2. CASE /\ req[r].pc \in {"recovered", "regressed"}
             /\ CreateAlert(H(r), req[r].pc, req[r].arc)
    <3>1. req[r].pc \in Kinds
      BY <2>2 DEF Kinds
    <3> QED BY <1>1, <1>3, <2>2, <3>1, Queues
  <2> QED BY <1>2, <2>1, <2>2
<1> QED BY <1>1, <1>2, <1>4, PassStays DEF SInv

\* A pass ends, or begins to unlink.
LEMMA EndedOk ==
  ASSUME PassOk, NEW D, Removing(D), queue' = queue, faults' \in Nat
  PROVE  PassOk'
<1>1. /\ Rest \in PassRow /\ Rest.pc = "rest" /\ Rest.quiet = {}
      /\ Rest.at = 1 /\ Rest.left = 0
  BY DEF Rest, PassRow
<1>2. mon.age \in Nat
  BY DEF PassOk, PassRow
<1> DEFINE x == [Rest EXCEPT !.pc = "unlink", !.age = mon.age]
<1>3. x \in PassRow /\ x.pc = "unlink" /\ x.quiet = {}
  BY <1>1, <1>2 DEF PassRow
<1>4. mon' = Rest \/ mon' = x
  BY DEF Removing
<1> HIDE DEF x
<1> QED BY <1>1, <1>3, <1>4 DEF PassOk

\* One alert is dealt with: it has left the queue, or is passed over.
LEMMA ProceedOk ==
  ASSUME PassOk, mon.pc \in {"deliver", "mark"}, mon.left > 0, UNCHANGED hosts, faults' \in Nat,
         NEW stays \in BOOLEAN, NEW failed \in BOOLEAN, Proceed(stays, failed),
         IF stays THEN queue' = queue ELSE Processed
  PROVE  PassOk' /\ Len(queue') <= Len(queue)
<1>1. /\ queue \in Seq(Queued) /\ Len(queue) \in Nat /\ mon \in PassRow
      /\ mon.at \in Nat /\ 1 <= mon.at /\ mon.left \in Nat
  BY LenProperties DEF PassOk, PassRow
<1>2. mon.at + mon.left <= Len(queue) + 1 /\ mon.at \in 1..Len(queue)
  BY <1>1 DEF PassOk
<1>3. queue' \in Seq(Queued) /\ Len(queue') = IF stays THEN Len(queue) ELSE Len(queue) - 1
  BY <1>1, <1>2, Leaves
<1> DEFINE at   == IF stays THEN mon.at + 1 ELSE mon.at
           left == mon.left - 1
<1>6. at \in Nat \ {0} /\ left \in Nat
  BY <1>1
<1>7. mon' = [mon EXCEPT !.pc = "deliver", !.at = at, !.left = left, !.failed = failed]
  BY DEF Proceed
<1> HIDE DEF at, left
<1>8. /\ mon'.pc = "deliver" /\ mon'.quiet = mon.quiet /\ mon'.left = left /\ mon'.at = at
      /\ mon' \in PassRow
  BY <1>1, <1>6, <1>7 DEF PassRow
<1>4. /\ mon'.pc = "deliver" /\ mon'.quiet = mon.quiet /\ mon'.left = mon.left - 1
      /\ mon'.at = IF stays THEN mon.at + 1 ELSE mon.at
      /\ mon' \in PassRow
  BY <1>8 DEF at, left
<1>5. mon'.at + mon'.left <= Len(queue') + 1 /\ Len(queue') <= Len(queue)
  BY <1>1, <1>2, <1>3, <1>4
<1> QED BY <1>3, <1>4, <1>5 DEF PassOk

\* Every call of the pass.
LEMMA PassKeeps ==
  ASSUME IInv, PassOk, Pass
  PROVE  PassOk'
<1>1. /\ faults \in Nat /\ queue \in Seq(Queued) /\ Len(queue) \in Nat /\ mon \in PassRow
      /\ mon.at \in Nat /\ 1 <= mon.at /\ mon.left \in Nat
  BY LenProperties DEF PassOk, PassRow
<1>2. CASE StartPass
  <2> DEFINE Q == {h \in Hosts : Quiet(h)}
  <2>1. \A h \in Q : ~hosts[h].lapsed
    BY DEF Quiet
  <2>2. /\ faults' \in Nat /\ UNCHANGED <<hosts, queue>>
        /\ \/ mon' = [Rest EXCEPT !.pc = "lapses", !.quiet = Q]
           \/ mon' = [Rest EXCEPT !.pc = "lapses"]
    BY <1>1, <1>2 DEF StartPass, Fails, Works, db
  <2> HIDE DEF Q
  <2>3. Q \subseteq Hosts
    BY DEF Q
  <2>5. Rest \in PassRow /\ Rest.quiet = {} /\ Rest.at = 1 /\ Rest.left = 0
    BY DEF Rest, PassRow
  <2>4. /\ mon' \in PassRow /\ mon'.pc = "lapses" /\ (mon'.quiet = Q \/ mon'.quiet = {})
        /\ mon'.at = 1 /\ mon'.left = 0
    BY <2>2, <2>3, <2>5 DEF PassRow
  <2> QED BY <1>1, <2>1, <2>2, <2>4 DEF PassOk
<1>3. ASSUME NEW h \in Hosts, MarkHostLapsed(h)  PROVE PassOk'
  <2>1. faults' \in Nat /\ UNCHANGED queue /\ h \in mon.quiet /\ mon.pc = "lapses"
    BY <1>1, <1>3 DEF MarkHostLapsed, Fails, Works
  <2>2. CASE /\ hosts' = [hosts EXCEPT ![h].lapsed = TRUE]
             /\ mon' = [mon EXCEPT !.pc = "raise", !.host = h, !.quiet = @ \ {h}]
    <3>1. mon' \in PassRow /\ mon'.pc = "raise" /\ mon'.host = h /\ mon'.quiet = mon.quiet \ {h}
      BY <1>1, <2>2 DEF PassRow
    <3>2. \A g \in mon.quiet \ {h} : hosts'[g] = hosts[g]
      BY <1>1, <2>2 DEF IInv, Typed, PassRow
    <3>3. mon'.at = 1 /\ mon'.left = 0
      BY <1>1, <2>1, <2>2 DEF PassOk, PassRow
    <3>4. \A g \in mon'.quiet : ~hosts'[g].lapsed
      BY <3>1, <3>2 DEF PassOk
    <3> QED BY <1>1, <2>1, <3>1, <3>3, <3>4 DEF PassOk
  <2>3. CASE UNCHANGED hosts /\ mon' = [mon EXCEPT !.quiet = @ \ {h}]
    <3>1. mon' \in PassRow /\ mon'.pc = "lapses" /\ mon'.quiet = mon.quiet \ {h}
      BY <1>1, <2>1, <2>3 DEF PassRow
    <3> QED BY <1>1, <2>1, <2>3, <3>1 DEF PassOk
  <2> QED BY <1>3, <2>2, <2>3 DEF MarkHostLapsed
<1>4. CASE RaiseLapsed
  <2>1. faults' \in Nat /\ UNCHANGED hosts /\ mon.pc = "raise" /\ mon.host \in Hosts
        /\ mon' = [mon EXCEPT !.pc = "lapses", !.host = None]
    BY <1>1, <1>4 DEF RaiseLapsed, Raise, Fails, Works, PassOk
  <2>2. mon' \in PassRow /\ mon'.pc = "lapses" /\ mon'.quiet = mon.quiet
    BY <1>1, <2>1 DEF PassRow
  <2>3. queue' \in Seq(Queued)
    BY <1>1, <1>4, <2>1, Queues DEF RaiseLapsed, Raise, Kinds
  <2> QED BY <2>1, <2>2, <2>3 DEF PassOk
<1>5. CASE UndeliveredAlerts
  <2>1. faults' \in Nat /\ UNCHANGED <<hosts, queue>> /\ mon.quiet = {} /\ mon.pc = "lapses"
        /\ \/ mon' = [mon EXCEPT !.pc = "deliver", !.left = Len(queue)]
           \/ mon' = [mon EXCEPT !.pc = "deliver"]
    BY <1>1, <1>5 DEF UndeliveredAlerts, Fails, Works, db
  <2>2. mon.at = 1 /\ mon.left = 0
    BY <2>1 DEF PassOk
  <2>3. /\ mon' \in PassRow /\ mon'.pc = "deliver" /\ mon'.quiet = {} /\ mon'.at = 1
        /\ mon'.left \in {0, Len(queue)}
    BY <1>1, <2>1, <2>2 DEF PassRow
  <2> QED BY <1>1, <2>1, <2>3 DEF PassOk
<1>6. CASE Send
  <2>1. /\ mon.pc = "deliver" /\ mon.left > 0 /\ UNCHANGED hosts
        /\ (~mon.failed /\ mon' = [mon EXCEPT !.pc = "mark"] /\ UNCHANGED <<queue, faults>>) \/ ExpireIfOld
    BY <1>6 DEF Send
  <2>2. CASE mon' = [mon EXCEPT !.pc = "mark"] /\ UNCHANGED <<queue, faults>>
    <3>1. mon' \in PassRow /\ mon'.pc = "mark" /\ mon'.quiet = mon.quiet /\ mon'.at = mon.at /\ mon'.left = mon.left
      BY <1>1, <2>2 DEF PassRow
    <3> QED BY <2>1, <2>2, <3>1 DEF PassOk
  <2>3. CASE ExpireIfOld
    <3>1. \/ Processed /\ Proceed(FALSE, TRUE)
          \/ queue' = queue /\ Proceed(TRUE, TRUE)
      BY <2>3, Zenon DEF ExpireIfOld
    <3>2. Works \/ Fails("mark")
      BY <2>3, Zenon DEF ExpireIfOld
    <3>3. faults' \in Nat
      BY <1>1, <3>2 DEF Fails, Works
    <3> QED BY <2>1, <3>1, <3>3, ProceedOk
  <2> QED BY <2>1, <2>2, <2>3
<1>7. CASE MarkAlertDelivered
  <2>1. /\ mon.pc = "mark" /\ UNCHANGED hosts
        /\ \/ Processed /\ Proceed(FALSE, FALSE)
           \/ queue' = queue /\ Proceed(TRUE, FALSE)
    BY <1>7, Zenon DEF MarkAlertDelivered
  <2>2. mon.left > 0
    BY <2>1 DEF PassOk
  <2>3. Works \/ Fails("mark")
    BY <1>7, Zenon DEF MarkAlertDelivered
  <2>4. faults' \in Nat
    BY <1>1, <2>3 DEF Fails, Works
  <2> QED BY <2>1, <2>2, <2>4, ProceedOk
<1>8. CASE PruneBundles \/ Unlink
  <2>1. UNCHANGED queue /\ (Works \/ Fails("prune"))
    BY <1>8 DEF PruneBundles, Unlink
  <2>3. faults' \in Nat
    BY <1>1, <2>1 DEF Fails, Works
  <2>2. \E D : Removing(D)
    BY <1>8 DEF PruneBundles, Unlink
  <2> QED BY <2>1, <2>2, <2>3, EndedOk
<1> QED BY <1>2, <1>3, <1>4, <1>5, <1>6, <1>7, <1>8 DEF Pass

\* Time leaves the pass where it is, and the queue as long as it is.
LEMMA TickKeeps ==
  ASSUME IInv, PassOk, Tick
  PROVE  PassOk' /\ Len(queue') = Len(queue)
<1>1. /\ queue \in Seq(Queued) /\ Len(queue) \in Nat /\ DOMAIN queue = 1..Len(queue) /\ mon \in PassRow
  BY LenProperties DEF PassOk
<1>2. ASSUME NEW i \in 1..Len(queue)
      PROVE  [queue[i] EXCEPT !.age = Aged(@, GiveUp + MaxPass)] \in Queued
  <2>1. queue[i] \in Queued
    BY <1>1, ElementOfSeq
  <2>2. Aged(queue[i].age, GiveUp + MaxPass) \in Nat
    <3>1. queue[i].age \in Nat
      BY <2>1 DEF Queued
    <3>2. GiveUp + MaxPass \in Nat
      BY IngestAssumption
    <3> QED BY <3>1, <3>2 DEF Aged
  <2> QED BY <2>1, <2>2 DEF Queued
<1>3. queue' = [i \in 1..Len(queue) |-> [queue[i] EXCEPT !.age = Aged(@, GiveUp + MaxPass)]]
  BY <1>1 DEF Tick
<1>4. queue' \in Seq(Queued) /\ Len(queue') = Len(queue)
  BY <1>1, <1>2, <1>3
<1>5. /\ mon' \in PassRow /\ mon'.pc = mon.pc /\ (mon'.quiet = mon.quiet \/ mon'.quiet = {})
      /\ mon.pc # "rest" => mon'.host = mon.host /\ mon'.at = mon.at /\ mon'.left = mon.left
      /\ mon.pc = "rest" => mon'.at = 1 /\ mon'.left = 0
  <2>1. CASE mon.pc = "rest"
    BY <2>1 DEF Tick, Rest, PassRow
  <2>2. CASE mon.pc # "rest"
    <3>1. mon' = [mon EXCEPT !.age = mon.age + 1]
      BY <2>2 DEF Tick
    <3> QED BY <1>1, <2>2, <3>1 DEF PassRow
  <2> QED BY <2>1, <2>2
<1>6. \A h \in Hosts : hosts'[h].lapsed = hosts[h].lapsed
  BY DEF Tick, IInv, Typed, HostRow
<1>7. faults' = faults /\ mon.quiet \subseteq Hosts
  BY <1>1 DEF Tick, PassRow
<1> QED BY <1>4, <1>5, <1>6, <1>7 DEF PassOk

-----------------------------------------------------------------------------
(* All steps.                                                              *)

LEMMA InitSInv == Init => SInv
<1> SUFFICES ASSUME Init PROVE SInv
  OBVIOUS
<1>1. Rest \in PassRow /\ Rest.pc = "rest" /\ Rest.quiet = {} /\ Rest.at = 1 /\ Rest.left = 0
  BY DEF Rest, PassRow
<1>2. PassOk
  BY <1>1, EmptySeq DEF Init, IngestInit, PassOk
<1>3. \A r \in Requests : req[r] = Idle
  BY DEF Init, IngestInit
<1> QED BY <1>2, <1>3, IdleSays DEF SInv

\* A handler's call.
LEMMA HandleSInv ==
  ASSUME IInv, SInv, NEW r \in Requests, Handle(r), UNCHANGED mon
  PROVE  SInv'
<1>1. Says(req[r])'
  BY BeginSays, UpsertSays, CompareSays, InsertSays, RaiseSays DEF Handle
<1>2. mutex \in {r, None} /\ \A q \in Requests : q # r => req'[q] = req[q]
  BY HandleFrame DEF SInv, PassOk
<1>3. ASSUME NEW q \in Requests, q # r  PROVE Says(req[q])'
  <2>1. req[q].pc \in Away /\ Says(req[q]) /\ req'[q] = req[q]
    BY <1>2, <1>3, OthersAway DEF SInv
  <2> QED BY <2>1 DEF Away, Says
<1> QED BY <1>1, <1>3, HandlePass DEF SInv

\* What everybody else does, with handlers that are where they were or gone.
LEMMA OthersSInv ==
  ASSUME IInv, SInv, PassOk',
         \A r \in Requests : req'[r] = req[r] \/ req'[r] = Idle,
         \A h \in Hosts : hosts[h].lapsed => hosts'[h].lapsed,
         \A i \in Held' : i \in Held /\ rows'[i] = rows[i],
         faults' = 0 => faults = 0
  PROVE  SInv'
<1> SUFFICES ASSUME NEW r \in Requests  PROVE Says(req[r])'
  BY DEF SInv
<1>1. CASE req'[r] = Idle
  BY <1>1, IdleSays DEF Says
<1>2. CASE req'[r] = req[r] /\ req[r].pc = "idle"
  BY <1>2 DEF Says
<1>3. CASE req'[r] = req[r] /\ req[r].pc # "idle"
  <2>1. Says(req[r]) /\ req[r].arc \in DOMAIN Archives
    BY <1>3, RecordOf DEF SInv
  <2> DEFINE q == req[r]
  <2>2. PICK x : x = req[r]
    OBVIOUS
  <2>3. Says(x)'
    BY <2>1, <2>2, SaysStill
  <2> QED BY <1>3, <2>2, <2>3 DEF Says, IsNewest, HostOf
<1> QED BY <1>1, <1>2, <1>3

LEMMA ReceiveSInv ==
  ASSUME IInv, SInv, NEW r \in Requests, NEW a \in DOMAIN Archives, Receive(r, a), UNCHANGED mon
  PROVE  SInv'
<1> DEFINE x == [Idle EXCEPT !.pc = "wait", !.arc = a]
<1>1. /\ req' = [req EXCEPT ![r] = x] /\ UNCHANGED <<hosts, rows, files, queue, mutex, faults>>
      /\ req \in [Requests -> Handler]
  BY DEF Receive, db, IInv, Typed
<1>2. x.pc = "wait" /\ ~x.lapsed /\ ~x.known
  BY DEF Idle
<1> HIDE DEF x
<1>3. PassOk'
  BY <1>1 DEF SInv, PassOk
<1>4. ASSUME NEW q \in Requests  PROVE Says(req[q])'
  <2>1. CASE q = r
    BY <1>1, <1>2, <2>1 DEF Says
  <2>2. CASE q # r
    BY <1>1, <2>2 DEF SInv, Says, IsNewest, HostOf, Of, Held, Gen
  <2> QED BY <2>1, <2>2
<1> QED BY <1>3, <1>4 DEF SInv

LEMMA TickSInv == ASSUME IInv, SInv, Tick  PROVE SInv'
<1>1. PassOk'
  BY TickKeeps DEF SInv
<1>2. UNCHANGED <<rows, faults>> /\ \A h \in Hosts : hosts'[h].lapsed = hosts[h].lapsed
  BY DEF Tick, IInv, Typed, HostRow
<1>3. ASSUME NEW r \in Requests  PROVE Says(req[r])'
  <2>1. CASE req[r].pc = "idle"
    BY <2>1, IdleSays DEF Tick, Says
  <2>2. CASE req[r].pc # "idle"
    <3>1. req'[r] = [req[r] EXCEPT !.age = req[r].age + 1]
      BY <2>2 DEF Tick
    <3>2. /\ req'[r].pc = req[r].pc /\ req'[r].arc = req[r].arc /\ req'[r].known = req[r].known
          /\ req'[r].lapsed = req[r].lapsed /\ req'[r].cleared = req[r].cleared
          /\ req'[r].newest = req[r].newest
      BY <3>1, RecordOf DEF Handler
    <3>3. HostOf(req'[r]) = HostOf(req[r]) /\ HostOf(req[r]) \in Hosts
      BY <2>2, <3>2, RecordOf DEF HostOf
    <3>4. IsNewest(req[r])' <=> IsNewest(req[r])
      BY <1>2, <3>2 DEF IsNewest, Of, Held, Gen, HostOf
    <3> QED BY <1>2, <3>2, <3>3, <3>4 DEF SInv, Says
  <2> QED BY <2>1, <2>2
<1> QED BY <1>1, <1>3 DEF SInv

LEMMA PassSInv == ASSUME IInv, SInv, Pass  PROVE SInv'
<1>1. PassOk' /\ faults \in Nat /\ UNCHANGED req
  BY PassKeeps DEF SInv, PassOk, Pass
<1>2. faults' = 0 => faults = 0
  <2>1. Works \/ \E call : Fails(call)
    BY DEF Pass, StartPass, MarkHostLapsed, RaiseLapsed, Raise, UndeliveredAlerts, Send, ExpireIfOld,
           MarkAlertDelivered, PruneBundles, Unlink, Works
  <2> QED BY <1>1, <2>1 DEF Fails, Works
<1>3. \A h \in Hosts : hosts[h].lapsed => hosts'[h].lapsed
  <2>1. hosts' = hosts \/ \E h \in Hosts : hosts' = [hosts EXCEPT ![h].lapsed = TRUE]
    BY DEF Pass, StartPass, MarkHostLapsed, RaiseLapsed, UndeliveredAlerts, Send,
           MarkAlertDelivered, PruneBundles, Unlink, db
  <2> QED BY <2>1 DEF IInv, Typed, HostRow
<1>4. \A i \in Held' : i \in Held /\ rows'[i] = rows[i]
  <2>1. rows' = rows \/ \E K \in SUBSET Held : rows' = [i \in Ids |-> IF i \in Expired(K) THEN None ELSE rows[i]]
    BY DEF Pass, StartPass, MarkHostLapsed, RaiseLapsed, UndeliveredAlerts, Send,
           MarkAlertDelivered, PruneBundles, Unlink, db
  <2> QED BY <2>1 DEF Held
<1> QED BY <1>1, <1>2, <1>3, <1>4, OthersSInv

LEMMA NextSInv == IInv /\ SInv /\ [Next]_vars => SInv'
<1> SUFFICES ASSUME IInv, SInv, [Next]_vars PROVE SInv'
  OBVIOUS
<1>1. CASE Settings /\ UNCHANGED mon
  <2>1. UNCHANGED <<rows, queue, req, faults>>
    BY <1>1 DEF Settings, SetHostPublicKey, SetHostExpectedEvery
  <2>2. \A h \in Hosts : hosts'[h].lapsed = hosts[h].lapsed
    <3>1. PICK h \in Known : \/ \E k \in Keys : hosts' = [hosts EXCEPT ![h].key = k]
                             \/ \E on \in Cadences : hosts' = [hosts EXCEPT ![h].cadence = on]
      BY <1>1 DEF Settings, SetHostPublicKey, SetHostExpectedEvery
    <3> QED BY <3>1 DEF IInv, Typed, HostRow
  <2>3. PassOk'
    <3>1. mon.quiet \subseteq Hosts
      BY DEF SInv, PassOk, PassRow
    <3> QED BY <1>1, <2>1, <2>2, <3>1 DEF SInv, PassOk
  <2> QED BY <2>1, <2>2, <2>3, OthersSInv DEF Held
<1>2. CASE AgeOut \/ UNCHANGED vars
  <2>1. UNCHANGED <<hosts, rows, queue, req, faults, mon>>
    BY <1>2 DEF AgeOut, vars, db
  <2>2. PassOk'
    BY <2>1 DEF SInv, PassOk
  <2> QED BY <2>1, <2>2, OthersSInv DEF Held
<1>3. CASE Crash
  <2>1. UNCHANGED <<hosts, rows, queue>> /\ mon' = Rest /\ faults' = faults + 1
        /\ req' = [r \in Requests |-> Idle]
    BY <1>3 DEF Crash, Fails, db
  <2>2. Rest \in PassRow /\ Rest.pc = "rest" /\ Rest.quiet = {} /\ Rest.at = 1 /\ Rest.left = 0
    BY DEF Rest, PassRow
  <2>3. PassOk' /\ faults' # 0
    BY <2>1, <2>2 DEF SInv, PassOk
  <2> QED BY <2>1, <2>3, OthersSInv DEF Held
<1>4. ASSUME NEW r \in Requests, Push(r) \/ Handle(r), UNCHANGED mon  PROVE SInv'
  BY <1>4, ReceiveSInv, HandleSInv DEF Push
<1> QED BY <1>1, <1>2, <1>3, <1>4, TickSInv, PassSInv DEF Next

-----------------------------------------------------------------------------
(* What it gives.                                                          *)

\* Only a handler announces a recovery or a regression, and only of the newest.
LEMMA NextAnnounces ==
  ASSUME IInv, SInv, Next, Len(queue') > Len(queue), faults = 0, Announced.kind # "lapsed"
  PROVE  \A i \in Of(Announced.host) : Gen(i) <= Archives[Announced.arc].gen
<1>1. queue \in Seq(Queued) /\ Len(queue) \in Nat
  BY LenProperties DEF SInv, PassOk
<1>2. CASE queue' = queue
  BY <1>1, <1>2
<1>3. ASSUME NEW r \in Requests, Handle(r)
      PROVE  \A i \in Of(Announced.host) : Gen(i) <= Archives[Announced.arc].gen
  <2>1. /\ req[r].pc \in {"recovered", "regressed"} /\ CreateAlert(H(r), req[r].pc, req[r].arc)
        /\ req[r].pc # "idle"
    BY <1>2, <1>3, HandleFrame DEF SInv, PassOk
  <2>2. H(r) \in Hosts /\ req[r].arc \in DOMAIN Archives /\ req[r].pc \in Kinds /\ H(r) = HostOf(req[r])
    BY <2>1, RecordOf DEF Kinds
  <2>3. Announced = Alert(H(r), req[r].pc, req[r].arc)
    BY <1>1, <2>1, <2>2, Queues DEF Announced
  <2>4. Announced.host = HostOf(req[r]) /\ Announced.arc = req[r].arc
    BY <2>2, <2>3 DEF Alert
  <2>5. IsNewest(req[r])
    BY <2>1 DEF SInv, Says
  <2> QED BY <2>4, <2>5 DEF IsNewest
<1>4. CASE RaiseLapsed
  <2>1. queue' = queue \/ CreateAlert(mon.host, "lapsed", None)
    BY <1>4 DEF RaiseLapsed, Raise
  <2>2. mon.host \in Hosts
    BY <1>4 DEF RaiseLapsed, SInv, PassOk
  <2>3. Announced.kind = "lapsed"
    <3>1. CASE CreateAlert(mon.host, "lapsed", None)
      <4>1. queue'[Len(queue')] = Alert(mon.host, "lapsed", None)
        BY <1>1, <2>2, <3>1, Queues DEF Kinds
      <4> QED BY <4>1 DEF Announced, Alert
    <3> QED BY <1>1, <2>1, <3>1
  <2> QED BY <2>3
<1>5. CASE Send \/ MarkAlertDelivered
  <2>1. queue' = queue \/ Processed
    BY <1>5, Zenon DEF Send, MarkAlertDelivered, ExpireIfOld
  <2>2. mon.pc \in {"deliver", "mark"} /\ mon.left > 0
    BY <1>5 DEF Send, MarkAlertDelivered, SInv, PassOk
  <2>3. mon.at \in 1..Len(queue)
    <3>1. mon.at \in Nat /\ 1 <= mon.at /\ mon.left \in Nat
      BY DEF SInv, PassOk, PassRow
    <3> QED BY <1>1, <2>2, <3>1 DEF SInv, PassOk
  <2> QED BY <1>1, <2>1, <2>3, Leaves
<1>6. CASE Tick
  BY <1>1, <1>6, TickKeeps DEF SInv
<1>7. CASE Pass
  BY <1>2, <1>4, <1>5, <1>7 DEF Pass, StartPass, MarkHostLapsed, UndeliveredAlerts, PruneBundles, Unlink, db
<1>8. CASE (\E r \in Requests : Push(r)) \/ Settings \/ AgeOut \/ Crash
  BY <1>2, <1>8 DEF Push, Receive, Settings, SetHostPublicKey, SetHostExpectedEvery, AgeOut, Crash, db
<1> QED BY <1>3, <1>6, <1>7, <1>8 DEF Next

\* A host is marked from a list that it is on only while it is not marked.
LEMMA NextMarks ==
  ASSUME SInv, Next, mon'.pc = "raise", mon.pc # "raise"
  PROVE  ~hosts[mon'.host].lapsed
<1>1. mon \in PassRow
  BY DEF SInv, PassOk
<1>2. ASSUME NEW h \in Hosts, MarkHostLapsed(h)  PROVE ~hosts[mon'.host].lapsed
  <2>1. mon' = [mon EXCEPT !.pc = "raise", !.host = h, !.quiet = @ \ {h}] /\ h \in mon.quiet
    <3>1. CASE mon' = [mon EXCEPT !.quiet = @ \ {h}]
      BY <1>1, <3>1 DEF PassRow
    <3> QED BY <1>2, <3>1 DEF MarkHostLapsed
  <2>2. mon'.host = h
    BY <1>1, <2>1 DEF PassRow
  <2> QED BY <2>1, <2>2 DEF SInv, PassOk
<1>3. CASE StartPass \/ RaiseLapsed
  <2>1. mon'.pc = "lapses"
    BY <1>1, <1>3 DEF StartPass, RaiseLapsed, Rest, PassRow
  <2> QED BY <2>1
<1>4. CASE UndeliveredAlerts \/ Send \/ MarkAlertDelivered
  <2>1. mon'.pc \in {"deliver", "mark"}
    BY <1>1, <1>4 DEF UndeliveredAlerts, Send, MarkAlertDelivered, ExpireIfOld, Proceed, PassRow
  <2> QED BY <2>1
<1>5. CASE PruneBundles \/ Unlink
  <2>1. \E D : Removing(D)
    BY <1>5 DEF PruneBundles, Unlink
  <2>2. mon'.pc \in {"rest", "unlink"}
    BY <2>1 DEF Removing, Rest
  <2> QED BY <2>2
<1>6. CASE Tick
  <2>1. CASE mon' = Rest
    BY <2>1 DEF Rest
  <2>2. CASE mon' = [mon EXCEPT !.age = mon.age + 1]
    BY <1>1, <2>2 DEF PassRow
  <2> QED BY <1>6, <2>1, <2>2 DEF Tick
<1>7. CASE Crash
  BY <1>7 DEF Crash, Rest
<1>8. CASE UNCHANGED mon
  BY <1>8
<1>9. CASE Pass
  BY <1>2, <1>3, <1>4, <1>5, <1>9 DEF Pass
<1> QED BY <1>6, <1>7, <1>8, <1>9 DEF Next, AgeOut

\* For any hosts, archives, handlers and bounds: a recovery or a regression is
\* announced only of the newest bundle of its host while nothing has failed, a
\* recovery only of a lapse that its own upsert cleared, and a lapse only once
\* before a bundle comes in (ingest.go, monitor.go), though each was read some calls earlier.
THEOREM AlertsTrue == Spec => AlertsAreTrue
<1>1. Spec => []SInv
  <2>1. IInv /\ SInv /\ [Next]_vars => SInv'
    BY NextSInv
  <2> QED BY InitSInv, <2>1, Invariance, PTL DEF Spec
<1>2. SInv => RecoveryIsFirst
  BY DEF SInv, Says, RecoveryIsFirst
<1>3. IInv /\ SInv /\ [Next]_vars =>
        [Len(queue') > Len(queue) /\ faults = 0 /\ Announced.kind # "lapsed"
           => \A i \in Of(Announced.host) : Gen(i) <= Archives[Announced.arc].gen]_vars
  BY NextAnnounces
<1>4. SInv /\ [Next]_vars =>
        [mon'.pc = "raise" /\ mon.pc # "raise" => ~hosts[mon'.host].lapsed]_vars
  BY NextMarks
<1>5. Spec => NoAlertFromThePast
  BY <1>1, <1>3, Invariance, PTL DEF Spec, NoAlertFromThePast
<1>6. Spec => LapseReportedOnce
  BY <1>1, <1>4, PTL DEF Spec, LapseReportedOnce
<1> QED BY <1>1, <1>2, <1>5, <1>6, PTL DEF AlertsAreTrue

=============================================================================
