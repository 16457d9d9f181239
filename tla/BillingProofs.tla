--------------------------- MODULE BillingProofs ----------------------------
(***************************************************************************)
(* For any prices, plans, memory and instances: the row of a workspace stays *)
(* of its kind, no workspace that had a subscription gets another trial, and   *)
(* the row settles on what Stripe says, whatever is canceled, forgotten,       *)
(* repeated or cut short in between.                                          *)
(***************************************************************************)
EXTENDS Billing, SequenceTheorems, TLAPS

Kinds     == {"checkout", "updated", "deleted"}
Plans     == {"team", "solo", "unlimited"} \cup {PlanOf[p] : p \in DOMAIN PlanOf}
Row       == [plan : Plans, status : Statuses, customer : Nat, sub : Nat]
CheckoutRow == [price : Prices, customer : Nat, trial : BOOLEAN, done : BOOLEAN]
SubRow    == [customer : Nat, status : StripeStatuses, price : Prices]
EventRow  == [kind : Kinds, sub : Nat, customer : Nat, status : StripeStatuses, price : Prices,
              answered : BOOLEAN]
JobPc     == {"idle", "fetch", "write", "answer"}
Job       == [pc : JobPc, event : Nat, row : Row \cup {NoJob.row},
              status : StripeStatuses \cup {""}, price : Prices \cup {""}, from : Nat]
Past      == [told : Seq(Nat), recent : Seq(Nat), late : BOOLEAN, overlap : BOOLEAN,
              subscribed : BOOLEAN, trials : Nat]

Typed ==
  /\ size \in Sizes /\ ws \in Row
  /\ checkouts \in Seq(CheckoutRow) /\ subs \in Seq(SubRow) /\ events \in Seq(EventRow)
  /\ seen \in Seq(Nat) /\ Len(seen) <= EventMemory
  /\ job \in Job /\ replan \in [pc : {"idle", "write"}, row : Row] /\ past \in Past

\* A row names a customer and a subscription that Stripe has, and is unlimited in
\* both columns or in neither.
RowOk(row) ==
  /\ row \in Row /\ row.sub \in 0 .. Len(subs) /\ row.customer \in 0 .. Len(checkouts)
  /\ (row.plan = "unlimited") <=> (row.status = "unlimited")

\* So do the event being handled and the rows that were read to be written back.
Named ==
  /\ \A c \in DOMAIN checkouts : checkouts[c].customer \in 0 .. Len(checkouts)
  /\ \A s \in DOMAIN subs : subs[s].customer \in 0 .. Len(checkouts)
  /\ \A e \in DOMAIN events : events[e].sub \in DOMAIN subs /\ events[e].customer \in 0 .. Len(checkouts)
  /\ RowOk(ws) /\ RowOk(replan.row)
  /\ job.pc # "idle" => job.event \in DOMAIN events /\ RowOk(job.row)

\* Unless a re-plan overlapped, a row that was written from an event keeps its
\* subscription, and the operator's row has the one the workspace has.
Remembered ==
  ~past.overlap =>
    /\ past.subscribed => ws.sub # 0
    /\ replan.pc = "write" => replan.row.sub = ws.sub
    /\ past.trials = 0

IInv == Typed /\ Named /\ Remembered

-----------------------------------------------------------------------------
(* Sequences.                                                              *)

LEMMA Appended ==
  ASSUME NEW S, NEW q \in Seq(S), NEW e \in S
  PROVE  /\ Len(q) \in Nat /\ DOMAIN q = 1 .. Len(q)
         /\ Append(q, e) \in Seq(S) /\ Len(Append(q, e)) = Len(q) + 1
         /\ DOMAIN Append(q, e) = 1 .. Len(q) + 1
         /\ Append(q, e)[Len(q) + 1] = e
         /\ \A i \in DOMAIN q : Append(q, e)[i] = q[i]
BY LenProperties, AppendProperties

LEMMA Joined ==
  ASSUME NEW S, NEW q \in Seq(S), NEW r \in Seq(S), Len(r) = 2
  PROVE  /\ q \o r \in Seq(S) /\ Len(q \o r) = Len(q) + 2
         /\ \A i \in 1 .. Len(q) + 2 : (q \o r)[i] = IF i <= Len(q) THEN q[i] ELSE r[i - Len(q)]
<1>1. Len(q \o r) = Len(q) + Len(r)
  BY ConcatProperties
<1>2. \A i \in 1 .. Len(q) + Len(r) : (q \o r)[i] = IF i <= Len(q) THEN q[i] ELSE r[i - Len(q)]
  BY ConcatProperties
<1>3. q \o r \in Seq(S)
  BY ConcatProperties
<1> QED BY <1>1, <1>2, <1>3

LEMMA Updated ==
  ASSUME NEW S, NEW q \in Seq(S), NEW i \in DOMAIN q, NEW e \in S
  PROVE  /\ [q EXCEPT ![i] = e] \in Seq(S) /\ DOMAIN [q EXCEPT ![i] = e] = DOMAIN q
         /\ Len([q EXCEPT ![i] = e]) = Len(q)
         /\ \A j \in DOMAIN q : [q EXCEPT ![i] = e][j] = IF j = i THEN e ELSE q[j]
BY LenProperties, ExceptSeq

LEMMA Element == ASSUME NEW S, NEW q \in Seq(S), NEW i \in DOMAIN q PROVE q[i] \in S
BY LenProperties, ElementOfSeq

LEMMA Lengths ==
  ASSUME Typed
  PROVE  /\ Len(checkouts) \in Nat /\ DOMAIN checkouts = 1 .. Len(checkouts)
         /\ Len(subs) \in Nat /\ DOMAIN subs = 1 .. Len(subs)
         /\ Len(events) \in Nat /\ DOMAIN events = 1 .. Len(events)
BY LenProperties DEF Typed

\* The memory of events keeps its bound.
LEMMA Remembers ==
  ASSUME NEW q \in Seq(Nat), Len(q) <= EventMemory, NEW e \in Nat
  PROVE  Newest(Append(q, e)) \in Seq(Nat) /\ Len(Newest(Append(q, e))) <= EventMemory
<1> DEFINE r == Append(q, e)
<1>1. r \in Seq(Nat) /\ r # << >> /\ Len(r) = Len(q) + 1 /\ Len(q) \in Nat /\ EventMemory \in Nat
  BY AppendProperties, LenProperties, BillingAssumption
<1> HIDE DEF r
<1>2. Tail(r) \in Seq(Nat) /\ Len(Tail(r)) = Len(r) - 1
  BY <1>1, HeadTailProperties
<1>3. Newest(r) \in Seq(Nat) /\ Len(Newest(r)) <= EventMemory
  BY <1>1, <1>2 DEF Newest
<1> QED BY <1>3 DEF r

LEMMA Forgets ==
  ASSUME NEW q \in Seq(Nat), NEW e \in Nat
  PROVE  Newest(Append(q, e)) \in Seq(Nat)
<1>1. Append(q, e) \in Seq(Nat) /\ Append(q, e) # << >>
  BY AppendProperties
<1> QED BY <1>1, HeadTailProperties DEF Newest

LEMMA NoJobIsJob == NoJob \in Job /\ NoJob.pc = "idle"
<1> DEFINE row == NoJob.row
<1>1. NoJob = [pc |-> "idle", event |-> 0, row |-> row, status |-> "", price |-> "", from |-> 0]
  BY DEF NoJob
<1>2. row \in Row \cup {NoJob.row}
  OBVIOUS
<1> HIDE DEF row
<1>3. [pc |-> "idle", event |-> 0, row |-> row, status |-> "", price |-> "", from |-> 0] \in Job
  BY <1>2 DEF Job, JobPc
<1> QED BY <1>1, <1>3

-----------------------------------------------------------------------------
(* The start.                                                              *)

LEMMA InitIInv == Init => IInv
<1> SUFFICES ASSUME Init PROVE IInv
  OBVIOUS
<1> USE DEF Init
<1>1. ws \in Row /\ ws.sub = 0 /\ ws.customer = 0 /\ ((ws.plan = "unlimited") <=> (ws.status = "unlimited"))
  BY DEF Row, Plans, Statuses
<1>2. /\ checkouts = << >> /\ subs = << >> /\ events = << >>
      /\ Len(checkouts) = 0 /\ Len(subs) = 0 /\ DOMAIN checkouts = {} /\ DOMAIN subs = {} /\ DOMAIN events = {}
  OBVIOUS
<1>3. job \in Job /\ job.pc = "idle"
  BY NoJobIsJob
<1>4. replan = [pc |-> "idle", row |-> ws]
  OBVIOUS
<1>5. past \in Past /\ past.trials = 0 /\ past.subscribed = FALSE
  <2>1. << >> \in Seq(Nat)
    OBVIOUS
  <2> QED BY <2>1 DEF Past
<1>6. seen \in Seq(Nat) /\ Len(seen) <= EventMemory
  BY BillingAssumption
<1>7. checkouts \in Seq(CheckoutRow) /\ subs \in Seq(SubRow) /\ events \in Seq(EventRow)
  BY <1>2
<1>8. Typed
  BY <1>1, <1>3, <1>4, <1>5, <1>6, <1>7 DEF Typed
<1>9. Named
  BY <1>1, <1>2, <1>3, <1>4 DEF Named, RowOk
<1>10. Remembered
  BY <1>4, <1>5 DEF Remembered
<1> QED BY <1>8, <1>9, <1>10 DEF IInv

-----------------------------------------------------------------------------
(* The browser and Stripe.                                                 *)

\* Stripe's side only grows, and the rows that were written or read stay true of it.
LEMMA StripeKeepsIInv ==
  ASSUME IInv, UNCHANGED <<size, ws, seen, job, replan>>, past' \in Past,
         past'.overlap = past.overlap, past'.subscribed = past.subscribed,
         past.overlap \/ past'.trials = past.trials,
         checkouts' \in Seq(CheckoutRow), Len(checkouts) <= Len(checkouts'),
         subs' \in Seq(SubRow), Len(subs) <= Len(subs'),
         events' \in Seq(EventRow), Len(events) <= Len(events'),
         \A c \in DOMAIN checkouts' : checkouts'[c].customer \in 0 .. Len(checkouts'),
         \A s \in DOMAIN subs' : subs'[s].customer \in 0 .. Len(checkouts'),
         \A e \in DOMAIN events' :
           events'[e].sub \in DOMAIN subs' /\ events'[e].customer \in 0 .. Len(checkouts')
  PROVE  IInv'
<1> USE DEF IInv
<1>1. Typed'
  BY DEF Typed
<1>2. /\ Len(checkouts) \in Nat /\ Len(subs) \in Nat /\ Len(events) \in Nat
      /\ Len(checkouts') \in Nat /\ Len(subs') \in Nat /\ Len(events') \in Nat
      /\ DOMAIN events = 1 .. Len(events) /\ DOMAIN events' = 1 .. Len(events')
  BY <1>1, Lengths, LenProperties DEF Typed
<1>3. ASSUME NEW row, RowOk(row)
      PROVE  /\ row \in Row /\ row.sub \in 0 .. Len(subs') /\ row.customer \in 0 .. Len(checkouts')
             /\ (row.plan = "unlimited") <=> (row.status = "unlimited")
  BY <1>2, <1>3 DEF RowOk
<1>4. RowOk(ws)' /\ RowOk(replan.row)' /\ (job.pc # "idle" => RowOk(job.row)')
  <2>1. RowOk(ws) /\ RowOk(replan.row) /\ (job.pc # "idle" => RowOk(job.row))
    BY DEF Named
  <2>2. ws' = ws /\ replan' = replan /\ job' = job
    OBVIOUS
  <2>3. RowOk(ws)'
    BY <1>3, <2>1, <2>2 DEF RowOk
  <2>4. RowOk(replan.row)'
    BY <1>3, <2>1, <2>2 DEF RowOk
  <2>5. job.pc # "idle" => RowOk(job.row)'
    BY <1>3, <2>1, <2>2 DEF RowOk
  <2> QED BY <2>3, <2>4, <2>5
<1>5. Named'
  BY <1>2, <1>4 DEF Named
<1>6. Remembered'
  BY DEF Remembered
<1> QED BY <1>1, <1>5, <1>6

LEMMA CheckoutKeepsIInv == ASSUME IInv, NEW p, Checkout(p) PROVE IInv'
<1> USE DEF IInv
<1> DEFINE row == [price |-> p, customer |-> ws.customer, trial |-> ws.sub = 0, done |-> FALSE]
<1>1. p \in Prices
  BY BillingAssumption DEF Checkout
<1>2. row \in CheckoutRow /\ row.customer = ws.customer
  BY <1>1 DEF CheckoutRow, Typed, Row
<1>3. checkouts' = Append(checkouts, row) /\ UNCHANGED <<size, ws, subs, events, seen, job, replan>>
  BY DEF Checkout
<1> HIDE DEF row
<1>4. /\ checkouts' \in Seq(CheckoutRow) /\ Len(checkouts') = Len(checkouts) + 1 /\ Len(checkouts) \in Nat
      /\ DOMAIN checkouts = 1 .. Len(checkouts) /\ DOMAIN checkouts' = 1 .. Len(checkouts) + 1
      /\ checkouts'[Len(checkouts) + 1] = row /\ \A c \in DOMAIN checkouts : checkouts'[c] = checkouts[c]
  BY <1>2, <1>3, Appended DEF Typed
<1>5. /\ past' \in Past /\ past'.overlap = past.overlap /\ past'.subscribed = past.subscribed
      /\ past.overlap \/ past'.trials = past.trials
  <2>1. past \in Past
    BY DEF Typed
  <2>2. ws.sub = 0 /\ past.subscribed => past.overlap
    BY DEF Remembered
  <2> DEFINE n == IF ws.sub = 0 /\ past.subscribed THEN past.trials + 1 ELSE past.trials
  <2>3. past' = [past EXCEPT !.trials = n]
    BY DEF Checkout
  <2>4. n \in Nat /\ (past.overlap \/ n = past.trials)
    BY <2>1, <2>2 DEF Past
  <2> HIDE DEF n
  <2> QED BY <2>1, <2>3, <2>4 DEF Past
<1>6. \A c \in DOMAIN checkouts' : checkouts'[c].customer \in 0 .. Len(checkouts')
  BY <1>2, <1>4 DEF Named, RowOk
<1>7. /\ subs' \in Seq(SubRow) /\ events' \in Seq(EventRow)
      /\ Len(subs) <= Len(subs') /\ Len(events) <= Len(events') /\ Len(checkouts) <= Len(checkouts')
  BY <1>3, <1>4, Lengths DEF Typed
<1>8. /\ \A s \in DOMAIN subs' : subs'[s].customer \in 0 .. Len(checkouts')
      /\ \A e \in DOMAIN events' :
           events'[e].sub \in DOMAIN subs' /\ events'[e].customer \in 0 .. Len(checkouts')
  BY <1>3, <1>4 DEF Named
<1> HIDE DEF IInv
<1> QED BY <1>3, <1>4, <1>5, <1>6, <1>7, <1>8, StripeKeepsIInv

\* An event names its subscription and says what that is like.
LEMMA EventMade ==
  ASSUME NEW k \in Kinds, NEW n \in Nat, NEW sub \in SubRow
  PROVE  /\ Event(k, n, sub) \in EventRow /\ Event(k, n, sub).sub = n
         /\ Event(k, n, sub).customer = sub.customer
BY DEF Event, EventRow, SubRow

LEMMA CompleteKeepsIInv == ASSUME IInv, NEW c \in DOMAIN checkouts, Complete(c) PROVE IInv'
<1> USE DEF IInv
<1> DEFINE sub == [customer |-> IF checkouts[c].customer = 0 THEN c ELSE checkouts[c].customer,
                   status |-> IF checkouts[c].trial THEN "trialing" ELSE "active", price |-> checkouts[c].price]
           done == [checkouts[c] EXCEPT !.done = TRUE]
           new == Len(subs) + 1
           told == <<Event("checkout", new, sub), Event("updated", new, sub)>>
<1>1. /\ Len(checkouts) \in Nat /\ DOMAIN checkouts = 1 .. Len(checkouts) /\ Len(subs) \in Nat
      /\ DOMAIN subs = 1 .. Len(subs) /\ Len(events) \in Nat /\ DOMAIN events = 1 .. Len(events)
  BY Lengths
<1>2. checkouts[c] \in CheckoutRow /\ checkouts[c].customer \in 0 .. Len(checkouts)
  BY Element DEF Typed, Named
<1>3. done \in CheckoutRow /\ done.customer = checkouts[c].customer
  BY <1>2 DEF CheckoutRow
<1>4. sub \in SubRow /\ sub.customer \in 0 .. Len(checkouts)
  <2>1. sub.customer \in 0 .. Len(checkouts) /\ sub.customer \in Nat
    BY <1>1, <1>2
  <2>2. sub.status \in StripeStatuses
    BY DEF StripeStatuses
  <2>3. sub.price \in Prices
    BY <1>2 DEF CheckoutRow
  <2> QED BY <2>1, <2>2, <2>3 DEF SubRow
<1>5. \A k \in {"checkout", "updated"} :
        /\ Event(k, new, sub) \in EventRow /\ Event(k, new, sub).sub = new
        /\ Event(k, new, sub).customer \in 0 .. Len(checkouts)
  BY <1>1, <1>4, EventMade DEF Kinds
<1>6. /\ checkouts' = [checkouts EXCEPT ![c] = done] /\ subs' = Append(subs, sub)
      /\ events' = events \o told /\ UNCHANGED <<size, ws, seen, job, replan>>
  BY DEF Complete, Typed
<1>7. told \in Seq(EventRow) /\ Len(told) = 2
  BY <1>5
<1>8. \A e \in 1 .. 2 : told[e].sub = new /\ told[e].customer \in 0 .. Len(checkouts)
  BY <1>5
<1>9. /\ past' \in Past /\ past'.overlap = past.overlap /\ past'.subscribed = past.subscribed
      /\ past'.trials = past.trials
  <2>1. past \in Past /\ past.told \in Seq(Nat)
    BY DEF Typed, Past
  <2>2. Append(past.told, 0) \in Seq(Nat)
    BY <2>1, AppendProperties
  <2>3. past' = [past EXCEPT !.told = Append(past.told, 0)]
    BY DEF Complete
  <2> QED BY <2>1, <2>2, <2>3 DEF Past
<1> HIDE DEF sub, done, told
<1>10. /\ checkouts' \in Seq(CheckoutRow) /\ Len(checkouts') = Len(checkouts)
       /\ DOMAIN checkouts' = DOMAIN checkouts
       /\ \A d \in DOMAIN checkouts : checkouts'[d].customer = checkouts[d].customer
  <2>1. checkouts \in Seq(CheckoutRow)
    BY DEF Typed
  <2>2. /\ checkouts' \in Seq(CheckoutRow) /\ Len(checkouts') = Len(checkouts)
        /\ DOMAIN checkouts' = DOMAIN checkouts
        /\ \A d \in DOMAIN checkouts : checkouts'[d] = IF d = c THEN done ELSE checkouts[d]
    BY <1>3, <1>6, <2>1, Updated
  <2> QED BY <1>3, <2>2
<1>11. /\ subs' \in Seq(SubRow) /\ Len(subs') = new /\ DOMAIN subs' = 1 .. new /\ subs'[new] = sub
       /\ \A t \in DOMAIN subs : subs'[t] = subs[t]
  BY <1>4, <1>6, Appended DEF Typed
<1>12. /\ events' \in Seq(EventRow) /\ Len(events') = Len(events) + 2
       /\ \A e \in DOMAIN events : events'[e] = events[e]
       /\ \A e \in 1 .. 2 : events'[Len(events) + e] = told[e]
       /\ DOMAIN events' = 1 .. Len(events) + 2
  <2>1. events \in Seq(EventRow)
    BY DEF Typed
  <2>5. events' = events \o told /\ told \in Seq(EventRow) /\ Len(told) = 2
    BY <1>6, <1>7
  <2>2. events' \in Seq(EventRow) /\ Len(events') = Len(events) + 2
    BY <2>1, <2>5, Joined
  <2>3. \A e \in 1 .. Len(events) + 2 : events'[e] = IF e <= Len(events) THEN events[e] ELSE told[e - Len(events)]
    BY <2>1, <2>5, Joined
  <2>4. DOMAIN events' = 1 .. Len(events) + 2
    BY <2>2, LenProperties
  <2> QED BY <1>1, <2>2, <2>3, <2>4
<1>13. \A d \in DOMAIN checkouts' : checkouts'[d].customer \in 0 .. Len(checkouts')
  BY <1>10 DEF Named
<1>14. ASSUME NEW t \in DOMAIN subs' PROVE subs'[t].customer \in 0 .. Len(checkouts')
  <2>1. CASE t \in DOMAIN subs
    BY <1>10, <1>11, <2>1 DEF Named
  <2>2. CASE t = new
    BY <1>4, <1>10, <1>11, <2>2
  <2> QED BY <1>1, <1>11, <2>1, <2>2
<1>15. ASSUME NEW e \in DOMAIN events'
       PROVE  events'[e].sub \in DOMAIN subs' /\ events'[e].customer \in 0 .. Len(checkouts')
  <2>1. CASE e \in DOMAIN events
    BY <1>1, <1>10, <1>11, <1>12, <2>1 DEF Named
  <2>2. CASE e \notin DOMAIN events
    <3>1. PICK k \in 1 .. 2 : e = Len(events) + k
      BY <1>1, <1>12, <2>2
    <3>2. events'[e] = told[k]
      BY <1>12, <3>1
    <3>3. told[k].sub = new /\ told[k].customer \in 0 .. Len(checkouts)
      BY <1>8
    <3>4. new \in DOMAIN subs' /\ Len(checkouts') = Len(checkouts)
      BY <1>1, <1>10, <1>11
    <3> QED BY <3>2, <3>3, <3>4
  <2> QED BY <2>1, <2>2
<1> QED BY <1>1, <1>6, <1>9, <1>10, <1>11, <1>12, <1>13, <1>14, <1>15, StripeKeepsIInv

LEMMA MoveKeepsIInv ==
  ASSUME IInv, NEW t \in DOMAIN subs, NEW status \in StripeStatuses, NEW p \in Prices, Move(t, status, p)
  PROVE  IInv'
<1> USE DEF IInv
<1> DEFINE sub == [subs[t] EXCEPT !.status = status, !.price = p]
           event == Event(IF status = "canceled" THEN "deleted" ELSE "updated", t, sub)
<1>1. /\ Len(subs) \in Nat /\ DOMAIN subs = 1 .. Len(subs)
      /\ Len(events) \in Nat /\ DOMAIN events = 1 .. Len(events)
  BY Lengths
<1>2. subs[t] \in SubRow /\ subs[t].customer \in 0 .. Len(checkouts)
  BY Element DEF Typed, Named
<1>3. sub \in SubRow /\ sub.customer = subs[t].customer
  BY <1>2 DEF SubRow
<1>4. event \in EventRow /\ event.sub = t /\ event.customer = subs[t].customer
  <2> DEFINE kind == IF status = "canceled" THEN "deleted" ELSE "updated"
  <2>1. kind \in Kinds /\ event = Event(kind, t, sub)
    BY DEF Kinds
  <2> HIDE DEF kind, event, sub
  <2> QED BY <1>1, <1>3, <2>1, EventMade
<1>5. /\ subs' = [subs EXCEPT ![t] = sub] /\ events' = Append(events, event)
      /\ UNCHANGED <<size, ws, checkouts, seen, job, replan, past>>
  BY DEF Move
<1> HIDE DEF sub, event
<1>6. /\ subs' \in Seq(SubRow) /\ Len(subs') = Len(subs) /\ DOMAIN subs' = DOMAIN subs
      /\ \A u \in DOMAIN subs : subs'[u] = IF u = t THEN sub ELSE subs[u]
  BY <1>3, <1>5, Updated DEF Typed
<1>7. /\ events' \in Seq(EventRow) /\ Len(events') = Len(events) + 1
      /\ DOMAIN events' = 1 .. Len(events) + 1 /\ events'[Len(events) + 1] = event
      /\ \A e \in DOMAIN events : events'[e] = events[e]
  BY <1>4, <1>5, Appended DEF Typed
<1>8. \A u \in DOMAIN subs' : subs'[u].customer \in 0 .. Len(checkouts)
  BY <1>2, <1>3, <1>6 DEF Named
<1>9. ASSUME NEW e \in DOMAIN events'
      PROVE  events'[e].sub \in DOMAIN subs' /\ events'[e].customer \in 0 .. Len(checkouts)
  <2>1. CASE e \in DOMAIN events
    BY <1>6, <1>7, <2>1 DEF Named
  <2>2. CASE e = Len(events) + 1
    BY <1>2, <1>4, <1>6, <1>7, <2>2
  <2> QED BY <1>1, <1>7, <2>1, <2>2
<1> QED BY <1>1, <1>5, <1>6, <1>7, <1>8, <1>9, Lengths, StripeKeepsIInv DEF Typed, Named

-----------------------------------------------------------------------------
(* The webhook.                                                            *)

\* The handler moves on: it remembers an event it answered, drops its job or
\* takes one up, and leaves the row as it is.
LEMMA HandlerKeepsIInv ==
  ASSUME IInv, UNCHANGED <<size, ws, checkouts, subs, replan>>,
         events' \in Seq(EventRow), DOMAIN events' = DOMAIN events,
         \A e \in DOMAIN events : events'[e].sub = events[e].sub /\ events'[e].customer = events[e].customer,
         seen' \in Seq(Nat), Len(seen') <= EventMemory,
         job' \in Job, job'.pc # "idle" => job'.event \in DOMAIN events /\ RowOk(job'.row),
         past' \in Past, past'.overlap = past.overlap, past'.subscribed = past.subscribed,
         past'.trials = past.trials
  PROVE  IInv'
<1> USE DEF IInv
<1>1. Typed'
  BY DEF Typed
<1>2. RowOk(ws)' /\ RowOk(replan.row)'
  BY DEF Named, RowOk
<1>3. job'.pc # "idle" => RowOk(job.row)'
  BY DEF RowOk
<1>4. Named'
  BY <1>2, <1>3 DEF Named
<1>5. Remembered'
  BY DEF Remembered
<1> QED BY <1>1, <1>4, <1>5

LEMMA AnsweredKeepsIInv ==
  ASSUME IInv, NEW e \in DOMAIN events, Answered(e), UNCHANGED <<size, ws, checkouts, subs, replan>>
  PROVE  IInv'
<1> DEFINE row == [events[e] EXCEPT !.answered = TRUE]
           kept == Newest(Append(past.recent, e))
<1>1. e \in Nat /\ events[e] \in EventRow /\ events \in Seq(EventRow)
  BY Lengths, Element DEF IInv, Typed
<1>2. row \in EventRow /\ row.sub = events[e].sub /\ row.customer = events[e].customer
  BY <1>1 DEF EventRow
<1>3. events' = [events EXCEPT ![e] = row] /\ job' = NoJob /\ seen' = Newest(Append(seen, e))
  BY DEF Answered, RememberEvent
<1>4. past \in Past /\ past.recent \in Seq(Nat) /\ past' = [past EXCEPT !.recent = kept]
  BY DEF IInv, Typed, Past, Answered
<1>5. kept \in Seq(Nat)
  BY <1>1, <1>4, Forgets
<1> HIDE DEF row, kept
<1>6. /\ past' \in Past /\ past'.overlap = past.overlap /\ past'.subscribed = past.subscribed
      /\ past'.trials = past.trials
  BY <1>4, <1>5 DEF Past
<1>7. /\ events' \in Seq(EventRow) /\ DOMAIN events' = DOMAIN events
      /\ \A d \in DOMAIN events : events'[d] = IF d = e THEN row ELSE events[d]
  BY <1>1, <1>2, <1>3, Updated
<1>8. \A d \in DOMAIN events : events'[d].sub = events[d].sub /\ events'[d].customer = events[d].customer
  BY <1>2, <1>7
<1>9. seen' \in Seq(Nat) /\ Len(seen') <= EventMemory
  BY <1>1, <1>3, Remembers DEF IInv, Typed
<1> QED BY <1>3, <1>6, <1>7, <1>8, <1>9, NoJobIsJob, HandlerKeepsIInv

LEMMA ReceiveKeepsIInv == ASSUME IInv, NEW e \in DOMAIN events, Receive(e) PROVE IInv'
<1> DEFINE ev == events[e]
<1>1. UNCHANGED <<size, ws, checkouts, subs, replan>>
  BY DEF Receive
<1>2. ev \in EventRow /\ e \in Nat /\ ws \in Row /\ RowOk(ws) /\ NoJob \in Job
  BY Lengths, Element, NoJobIsJob DEF IInv, Typed, Named
<1>3. CASE Answered(e)
  BY <1>1, <1>3, AnsweredKeepsIInv
<1>4. CASE /\ UNCHANGED <<events, seen, past>>
           /\ job' \in Job /\ job'.pc # "idle" /\ job'.event = e /\ job'.row = ws
  BY <1>1, <1>2, <1>4, HandlerKeepsIInv DEF IInv, Typed
<1>5. ASSUME job' = [pc |-> "write", event |-> e, row |-> ws, status |-> ev.status, price |-> ev.price,
                      from |-> e]
      PROVE  job' \in Job /\ job'.pc # "idle" /\ job'.event = e /\ job'.row = ws
  BY <1>2, <1>5 DEF Job, JobPc, EventRow
<1>6. ASSUME job' = [NoJob EXCEPT !.pc = "fetch", !.event = e, !.row = ws]
      PROVE  job' \in Job /\ job'.pc # "idle" /\ job'.event = e /\ job'.row = ws
  BY <1>2, <1>6 DEF Job, JobPc
<1> QED BY <1>3, <1>4, <1>5, <1>6 DEF Receive

LEMMA FetchKeepsIInv == ASSUME IInv, Fetch PROVE IInv'
<1> DEFINE s == events[job.event].sub
<1>1. /\ job \in Job /\ job.pc = "fetch" /\ job.event \in DOMAIN events /\ RowOk(job.row)
      /\ s \in DOMAIN subs /\ subs[s] \in SubRow /\ past \in Past
  BY Element DEF IInv, Typed, Named, Fetch
<1>2. job' = [job EXCEPT !.pc = "write", !.status = subs[s].status, !.price = subs[s].price,
                        !.from = Len(events)]
  BY DEF Fetch, Fetched
<1>3. Len(events) \in Nat
  BY Lengths DEF IInv
<1>4. job' \in Job /\ job'.event = job.event /\ job'.row = job.row
  BY <1>1, <1>2, <1>3 DEF Job, JobPc, SubRow
<1>5. UNCHANGED <<size, ws, checkouts, subs, events, seen, replan, past>>
  BY DEF Fetch, stripe
<1> QED BY <1>1, <1>4, <1>5, HandlerKeepsIInv DEF IInv, Typed

LEMMA DropKeepsIInv == ASSUME IInv, WebhookFails \/ Restart PROVE IInv'
<1>1. UNCHANGED <<size, ws, checkouts, subs, events, replan>> /\ job' = NoJob
  BY DEF WebhookFails, Restart, stripe
<1>2. seen' \in Seq(Nat) /\ Len(seen') <= EventMemory
  <2>1. << >> \in Seq(Nat) /\ Len(<< >>) = 0
    OBVIOUS
  <2>2. seen \in Seq(Nat) /\ Len(seen) <= EventMemory /\ EventMemory \in Nat
    BY BillingAssumption DEF IInv, Typed
  <2>3. seen' = seen \/ seen' = << >>
    BY DEF WebhookFails, Restart
  <2>4. CASE seen' = << >>
    BY <2>1, <2>2, <2>4
  <2> QED BY <2>2, <2>3, <2>4
<1>3. /\ past' \in Past /\ past'.overlap = past.overlap /\ past'.subscribed = past.subscribed
      /\ past'.trials = past.trials
  <2>1. past \in Past /\ << >> \in Seq(Nat) /\ (past' = past \/ past' = [past EXCEPT !.recent = << >>])
    BY DEF IInv, Typed, WebhookFails, Restart
  <2>2. CASE past' = past
    BY <2>1, <2>2
  <2>3. CASE past' = [past EXCEPT !.recent = << >>]
    BY <2>1, <2>3 DEF Past
  <2> QED BY <2>1, <2>2, <2>3
<1> QED BY <1>1, <1>2, <1>3, NoJobIsJob, HandlerKeepsIInv DEF IInv, Typed

-----------------------------------------------------------------------------
(* The row is written.                                                     *)

\* A row that is written names what Stripe has.
LEMMA RowKeepsIInv ==
  ASSUME IInv, UNCHANGED <<size, checkouts, subs, events, seen>>, RowOk(ws'), RowOk(replan'.row),
         replan' \in [pc : {"idle", "write"}, row : Row],
         job' \in Job, job'.event = job.event, job'.row = job.row, job'.pc # "idle" => job.pc # "idle",
         past' \in Past, past'.trials = past.trials, past.overlap => past'.overlap,
         ~past'.overlap => /\ past'.subscribed => ws'.sub # 0
                           /\ replan'.pc = "write" => replan'.row.sub = ws'.sub
  PROVE  IInv'
<1>1. Typed'
  BY DEF IInv, Typed, RowOk
<1>2. RowOk(ws)' /\ RowOk(replan.row)'
  BY DEF RowOk
<1>3. job'.pc # "idle" => job'.event \in DOMAIN events /\ RowOk(job.row)'
  BY DEF IInv, Named, RowOk
<1>4. Named'
  BY <1>2, <1>3 DEF IInv, Named
<1>5. Remembered'
  BY DEF IInv, Remembered
<1> QED BY <1>1, <1>4, <1>5 DEF IInv

\* What Stripe says is never the grant of an operator.
LEMMA StatusFollows == ASSUME NEW s PROVE StatusFromStripe(s) \in Statuses \ {"unlimited"}
BY DEF StatusFromStripe, Statuses

LEMMA AppliedIsOk ==
  ASSUME IInv, job.pc = "write"
  PROVE  RowOk(Applied) /\ Applied.sub # 0
<1> DEFINE ev == events[job.event]
           plan == IF job.price \in DOMAIN PlanOf THEN PlanOf[job.price] ELSE job.row.plan
           shown == IF plan = "unlimited" THEN "team" ELSE plan
           status == IF ev.kind = "deleted" THEN "canceled" ELSE StatusFromStripe(job.status)
           customer == IF ev.kind = "checkout" THEN ev.customer ELSE job.row.customer
<1>1. /\ job.event \in DOMAIN events /\ RowOk(job.row) /\ ev.sub \in DOMAIN subs
      /\ ev.customer \in 0 .. Len(checkouts)
  BY DEF IInv, Named
<1>2. shown \in Plans /\ shown # "unlimited"
  BY <1>1 DEF Plans, RowOk, Row
<1>3. status \in Statuses /\ status # "unlimited"
  BY StatusFollows DEF Statuses
<1>4. customer \in 0 .. Len(checkouts) /\ customer \in Nat
  BY <1>1, Lengths DEF RowOk, Row, IInv
<1>5. ev.sub \in 1 .. Len(subs) /\ ev.sub \in Nat /\ Len(subs) \in Nat
  BY <1>1, Lengths DEF IInv
<1>6. Applied = [plan |-> shown, status |-> status, customer |-> customer, sub |-> ev.sub]
  BY DEF Applied, KeepIds
<1> HIDE DEF shown, status, customer, ev
<1> QED BY <1>2, <1>3, <1>4, <1>5, <1>6 DEF RowOk, Row

LEMMA WriteKeepsIInv == ASSUME IInv, Write PROVE IInv'
<1> DEFINE told == Told
           late == past.late \/ OutOfOrder
           overlap == past.overlap \/ replan.pc # "idle"
<1>1. /\ job.pc = "write" /\ ws' = Applied /\ job' = [job EXCEPT !.pc = "answer"] /\ job \in Job
      /\ job.event \in DOMAIN events /\ UNCHANGED <<size, checkouts, subs, events, seen, replan>>
      /\ past' = [past EXCEPT !.told = told, !.late = late, !.overlap = overlap, !.subscribed = TRUE]
  BY DEF Write, IInv, Typed, Named, stripe
<1>2. past \in Past /\ past.told \in Seq(Nat) /\ job.from \in Nat
  BY <1>1 DEF IInv, Typed, Past, Job
<1>3. told \in Seq(Nat)
  <2> DEFINE s == events[job.event].sub
  <2>1. CASE told = past.told
    BY <1>2, <2>1
  <2>2. CASE told = [past.told EXCEPT ![s] = job.from]
    <3> HIDE DEF s, told
    <3>1. CASE s \in DOMAIN past.told
      BY <1>2, <2>2, <3>1, Updated
    <3>2. CASE s \notin DOMAIN past.told
      <4>1. told = past.told
        BY <1>2, <2>2, <3>2, LenProperties
      <4> QED BY <1>2, <4>1
    <3> QED BY <3>1, <3>2
  <2> QED BY <2>1, <2>2 DEF Told
<1>4. late \in BOOLEAN /\ overlap \in BOOLEAN /\ (past.overlap => overlap) /\ (~overlap => replan.pc = "idle")
  BY <1>2 DEF Past
<1> HIDE DEF told, late, overlap
<1>5. /\ past' \in Past /\ past'.trials = past.trials /\ past'.overlap = overlap
  BY <1>1, <1>2, <1>3, <1>4 DEF Past
<1>6. /\ job' \in Job /\ job'.event = job.event /\ job'.row = job.row
  BY <1>1 DEF Job, JobPc
<1>7. RowOk(ws') /\ ws'.sub # 0
  BY <1>1, AppliedIsOk
<1> QED BY <1>1, <1>4, <1>5, <1>6, <1>7, RowKeepsIInv DEF IInv, Named, Typed

LEMMA AnswerKeepsIInv == ASSUME IInv, Answer PROVE IInv'
<1>1. job.event \in DOMAIN events
  BY DEF Answer, IInv, Named
<1> QED BY <1>1, AnsweredKeepsIInv DEF Answer

LEMMA ReadRowKeepsIInv == ASSUME IInv, ReadRow PROVE IInv'
<1> DEFINE overlap == past.overlap \/ job.pc # "idle"
<1>1. /\ replan' = [pc |-> "write", row |-> ws] /\ past' = [past EXCEPT !.overlap = overlap]
      /\ UNCHANGED <<size, ws, checkouts, subs, events, seen, job>>
  BY DEF ReadRow, stripe
<1>2. past \in Past /\ job \in Job /\ RowOk(ws) /\ ws \in Row
  BY DEF IInv, Typed, Named
<1>3. overlap \in BOOLEAN /\ (past.overlap => overlap)
  BY <1>2 DEF Past
<1> HIDE DEF overlap
<1>4. /\ past' \in Past /\ past'.trials = past.trials /\ past'.overlap = overlap
      /\ past'.subscribed = past.subscribed
  BY <1>1, <1>2, <1>3 DEF Past
<1>5. past.overlap \/ (past.subscribed => ws.sub # 0)
  BY DEF IInv, Remembered
<1> QED BY <1>1, <1>2, <1>3, <1>4, <1>5, RowKeepsIInv

LEMMA SetPlanKeepsIInv ==
  ASSUME IInv, NEW plan \in {"unlimited", "solo"}, SetPlan(plan)
  PROVE  IInv'
<1> DEFINE row == Replanned(replan.row, plan)
           overlap == past.overlap \/ job.pc # "idle" \/ ws'.plan # ws.plan \/ ws'.status # ws.status
<1>1. /\ replan.pc = "write" /\ ws' = row /\ replan' = [pc |-> "idle", row |-> ws']
      /\ past' = [past EXCEPT !.overlap = overlap]
      /\ UNCHANGED <<size, checkouts, subs, events, seen, job>>
  BY DEF SetPlan, stripe
<1>2. past \in Past /\ job \in Job /\ RowOk(replan.row) /\ replan.row \in Row
  BY DEF IInv, Typed, Named
<1>3. overlap \in BOOLEAN /\ (past.overlap => overlap)
  BY <1>2 DEF Past
<1>4. RowOk(row) /\ row.sub = replan.row.sub /\ row \in Row
  BY <1>2 DEF RowOk, Row, Replanned, Plans, Statuses
<1> HIDE DEF overlap, row
<1>5. /\ past' \in Past /\ past'.trials = past.trials /\ past'.overlap = overlap
      /\ past'.subscribed = past.subscribed
  BY <1>1, <1>2, <1>3 DEF Past
<1>6. past.overlap \/ ((past.subscribed => ws.sub # 0) /\ replan.row.sub = ws.sub)
  BY <1>1 DEF IInv, Remembered
<1> QED BY <1>1, <1>2, <1>3, <1>4, <1>5, <1>6, RowKeepsIInv

-----------------------------------------------------------------------------
(* Every step.                                                             *)

LEMMA StutterKeepsIInv == ASSUME IInv, UNCHANGED vars PROVE IInv'
<1>1. UNCHANGED <<size, ws, checkouts, subs, events, seen, job, replan, past>>
  BY DEF vars, stripe
<1> QED BY <1>1 DEF IInv, Typed, Named, Remembered, RowOk

LEMMA NextIInv == IInv /\ [Next]_vars => IInv'
<1> SUFFICES ASSUME IInv, Next PROVE IInv'
  BY StutterKeepsIInv
<1>1. size.prices \subseteq Prices /\ size.moves \subseteq StripeStatuses
  BY BillingAssumption DEF IInv, Typed
<1>2. CASE \E p \in size.prices : Checkout(p)
  BY <1>2, CheckoutKeepsIInv
<1>3. CASE \E c \in DOMAIN checkouts : Complete(c)
  BY <1>3, CompleteKeepsIInv
<1>4. CASE \E s \in DOMAIN subs, status \in size.moves, p \in size.prices : Move(s, status, p)
  BY <1>1, <1>4, MoveKeepsIInv
<1>5. CASE \E e \in DOMAIN events : Receive(e)
  BY <1>5, ReceiveKeepsIInv
<1>6. CASE Fetch \/ Write \/ Answer \/ WebhookFails \/ Restart
  BY <1>6, FetchKeepsIInv, WriteKeepsIInv, AnswerKeepsIInv, DropKeepsIInv
<1>7. CASE ReadRow \/ \E plan \in {"unlimited", "solo"} : SetPlan(plan)
  BY <1>7, ReadRowKeepsIInv, SetPlanKeepsIInv
<1> QED BY <1>2, <1>3, <1>4, <1>5, <1>6, <1>7 DEF Next

LEMMA Inductive == Spec => []IInv
BY InitIInv, NextIInv, PTL DEF Spec

\* The row stays of its kind, unlimited in both columns or in neither, and names a
\* customer and a subscription that Stripe has, however the webhook and the operator
\* interleave.
THEOREM TypeCorrect == Spec => []TypeOK
<1>1. IInv => TypeOK
  BY DEF IInv, Typed, Named, RowOk, Row, Job, JobPc, TypeOK
<1> QED BY <1>1, Inductive, PTL

\* Once a subscription was applied no later checkout carries another trial, unless
\* the operator's stale row dropped the ids (billing.go:134-136).
THEOREM OneTrial == Spec => []NoSecondTrial
<1>1. IInv => NoSecondTrial
  BY DEF IInv, Remembered, NoSecondTrial
<1> QED BY <1>1, Inductive, PTL

-----------------------------------------------------------------------------
(* The row and what Stripe says.                                           *)

\* The newest word about subscription s among the first n of some events is event e.
Newly(evs, s, n, e) ==
  /\ e \in DOMAIN evs /\ e <= n /\ evs[e].sub = s
  /\ \A d \in DOMAIN evs : d <= n /\ evs[d].sub = s => d <= e

\* Stripe's side: an event is about a customer's subscription and says what it was
\* like, the last of them what it is like, and the first that it was bought.
Worded(ev) ==
  /\ ev.customer = subs[ev.sub].customer /\ ev.customer # 0
  /\ ev.kind = "deleted" => ev.status = "canceled"
Heard(s) ==
  /\ \E e \in DOMAIN events : events[e].kind = "checkout" /\ events[e].sub = s
  /\ \E e \in DOMAIN events : /\ Newly(events, s, Len(events), e) /\ events[e].status = subs[s].status
                              /\ events[e].price = subs[s].price
StripeSays == (\A e \in DOMAIN events : Worded(events[e])) /\ \A s \in DOMAIN subs : Heard(s)

\* A row has the customer of its subscription, or neither.
Paired(row) == IF row.sub = 0 THEN row.customer = 0 ELSE row.customer = subs[row.sub].customer

\* The server's side: what a job may write is about its event's subscription, and is
\* the newest word that was known when it was taken up.
JobSays ==
  /\ job.event <= job.from /\ job.from <= Len(events)
  /\ \E e \in DOMAIN events : /\ Newly(events, events[job.event].sub, job.from, e)
                              /\ events[e].status = job.status /\ events[e].price = job.price
JobFits ==
  LET ev == events[job.event] IN
  IF ev.kind = "checkout"
  THEN past.told[ev.sub] <= job.from /\ \A e \in DOMAIN events : events[e].answered => e <= job.from
  ELSE job.from = job.event /\ job.row.sub = ev.sub /\ job.row.customer = ev.customer
JobKnows ==
  /\ job.pc # "idle" => Paired(job.row)
  /\ job.pc \in {"fetch", "write"} => job.event \notin ToSet(seen)
  /\ job.pc = "fetch" => events[job.event].kind = "checkout"
  /\ job.pc = "write" => JobSays /\ JobFits

Histories ==
  /\ past.recent = seen /\ Len(past.told) = Len(subs)
  /\ \A s \in DOMAIN subs : past.told[s] <= Len(events)

\* The row says of its subscription what the newest event that it was written from says.
RowSays ==
  ws.sub # 0 => \E e \in DOMAIN events :
    /\ Newly(events, ws.sub, past.told[ws.sub], e) /\ ws.status = StatusFromStripe(events[e].status)
    /\ events[e].price \in DOMAIN PlanOf => ws.plan = PlanOf[events[e].price]

\* An answered checkout has been applied, and so has whatever was answered about the
\* row's subscription.
Done(e) ==
  /\ events[e].kind = "checkout" => events[e].sub <= ws.sub
  /\ events[e].sub = ws.sub => e <= past.told[ws.sub]

InStep ==
  /\ replan.pc = "write" => replan.row = ws
  /\ job.pc \in {"fetch", "write"} => job.row = ws
  /\ job.pc = "answer" => events[job.event].sub = ws.sub /\ job.event <= past.told[ws.sub]
  /\ \A e \in DOMAIN events : events[e].answered => Done(e)
  /\ RowSays

\* So it is where nothing was applied late and no re-plan overlapped.
Follows == ~past.late /\ ~past.overlap => InStep

SInv == StripeSays /\ Paired(ws) /\ Paired(replan.row) /\ JobKnows /\ Histories /\ Follows

LEMMA SInvAgrees == ASSUME IInv, SInv PROVE SettledAgrees
<1> SUFFICES ASSUME Quiet, ~past.late, ~past.overlap, subs # << >>
             PROVE  /\ ws.sub = Len(subs) /\ ws.status = StatusFromStripe(subs[ws.sub].status)
                    /\ subs[ws.sub].price \in DOMAIN PlanOf => ws.plan = PlanOf[subs[ws.sub].price]
  BY DEF SettledAgrees
<1> DEFINE n == Len(subs)
<1>1. n \in Nat /\ n # 0 /\ n \in DOMAIN subs /\ DOMAIN subs = 1 .. n /\ ws.sub \in 0 .. n
  <2>1. subs \in Seq(SubRow) /\ Len(subs) \in Nat /\ DOMAIN subs = 1 .. Len(subs) /\ RowOk(ws)
    BY Lengths DEF IInv, Typed, Named
  <2>2. Len(subs) # 0
    BY <2>1, EmptySeq
  <2> QED BY <2>1, <2>2 DEF RowOk
<1>2. InStep /\ StripeSays
  BY DEF SInv, Follows
<1>3. PICK e \in DOMAIN events : events[e].kind = "checkout" /\ events[e].sub = n
  BY <1>1, <1>2 DEF StripeSays, Heard
<1>4. ws.sub = n
  BY <1>1, <1>2, <1>3 DEF Quiet, InStep, Done
<1>5. PICK d \in DOMAIN events : /\ Newly(events, n, Len(events), d) /\ events[d].status = subs[n].status
                                 /\ events[d].price = subs[n].price
  BY <1>1, <1>2 DEF StripeSays, Heard
<1>6. PICK f \in DOMAIN events :
        /\ Newly(events, n, past.told[n], f) /\ ws.status = StatusFromStripe(events[f].status)
        /\ events[f].price \in DOMAIN PlanOf => ws.plan = PlanOf[events[f].price]
  BY <1>1, <1>2, <1>4 DEF InStep, RowSays
<1>7. Len(events) \in Nat /\ DOMAIN events = 1 .. Len(events)
  BY Lengths DEF IInv
<1>8. d <= past.told[n] /\ f <= Len(events)
  BY <1>2, <1>4, <1>5, <1>7 DEF Newly, Quiet, InStep, Done
<1>9. d = f
  BY <1>5, <1>6, <1>7, <1>8 DEF Newly
<1> HIDE DEF n
<1> QED BY <1>4, <1>5, <1>6, <1>9 DEF n

LEMMA InitSInv == Init => SInv
<1> SUFFICES ASSUME Init PROVE SInv
  OBVIOUS
<1>1. /\ subs = << >> /\ events = << >> /\ DOMAIN subs = {} /\ DOMAIN events = {} /\ ws.sub = 0 /\ ws.customer = 0
      /\ replan.row = ws /\ replan.pc = "idle" /\ past.recent = seen /\ past.told = << >>
  BY DEF Init
<1>2. job.pc = "idle"
  BY DEF Init, NoJob
<1> QED BY <1>1, <1>2
        DEF SInv, StripeSays, Paired, JobKnows, Histories, Follows, InStep, RowSays

\* Steps that change nothing of this.
LEMMA StillSInv ==
  ASSUME SInv, UNCHANGED <<ws, subs, events, seen, job, replan>>, past'.told = past.told,
         past'.recent = past.recent, past'.late = past.late, past'.overlap = past.overlap
  PROVE  SInv'
<1>1. StripeSays' /\ Paired(ws)' /\ Paired(replan.row)'
  BY DEF SInv, StripeSays, Worded, Heard, Paired
<1>2. JobKnows'
  BY DEF SInv, JobKnows, JobSays, JobFits, Paired
<1>3. Histories'
  BY DEF SInv, Histories
<1>4. Follows'
  BY DEF SInv, Follows, InStep, RowSays, Done
<1> QED BY <1>1, <1>2, <1>3, <1>4 DEF SInv

-----------------------------------------------------------------------------
(* Stripe moves on.                                                        *)

\* More is said, and what was said stands: what was newest among the first n is.
LEMMA StillNewly ==
  ASSUME NEW evs \in Seq(EventRow), NEW more \in Seq(EventRow), Len(evs) <= Len(more),
         \A e \in DOMAIN evs : more[e] = evs[e], NEW s, NEW n \in Nat, n <= Len(evs), NEW e, Newly(evs, s, n, e)
  PROVE  Newly(more, s, n, e)
<1>1. /\ Len(evs) \in Nat /\ Len(more) \in Nat /\ DOMAIN evs = 1 .. Len(evs) /\ DOMAIN more = 1 .. Len(more)
  BY LenProperties
<1>2. e \in DOMAIN more /\ e <= n /\ more[e].sub = s
  BY <1>1 DEF Newly
<1>3. ASSUME NEW d \in DOMAIN more, d <= n, more[d].sub = s PROVE d <= e
  <2>1. d \in DOMAIN evs
    BY <1>1, <1>3
  <2> QED BY <1>3, <2>1 DEF Newly
<1> QED BY <1>2, <1>3 DEF Newly

StripeMoves ==
  /\ subs' \in Seq(SubRow) /\ Len(subs) <= Len(subs')
  /\ \A s \in DOMAIN subs : subs'[s].customer = subs[s].customer
  /\ events' \in Seq(EventRow) /\ Len(events) <= Len(events')
  /\ \A e \in DOMAIN events : events'[e] = events[e]
  /\ \A e \in DOMAIN events' : e \notin DOMAIN events => ~events'[e].answered
  /\ UNCHANGED <<ws, seen, job, replan>>
  /\ past'.recent = past.recent /\ past'.late = past.late /\ past'.overlap = past.overlap
  /\ past'.told \in Seq(Nat) /\ Len(past'.told) = Len(subs')
  /\ \A s \in DOMAIN subs : past'.told[s] = past.told[s]
  /\ \A s \in DOMAIN subs' : s \notin DOMAIN subs => past'.told[s] = 0

LEMMA StripeKeepsSInv == ASSUME IInv, SInv, StripeMoves, StripeSays' PROVE SInv'
<1>1. /\ Len(subs) \in Nat /\ DOMAIN subs = 1 .. Len(subs) /\ Len(events) \in Nat /\ DOMAIN events = 1 .. Len(events)
      /\ events \in Seq(EventRow)
  BY Lengths DEF IInv, Typed
<1>2. /\ Len(subs') \in Nat /\ DOMAIN subs' = 1 .. Len(subs')
      /\ Len(events') \in Nat /\ DOMAIN events' = 1 .. Len(events')
  BY LenProperties DEF StripeMoves
<1>3. DOMAIN subs \subseteq DOMAIN subs' /\ DOMAIN events \subseteq DOMAIN events'
  BY <1>1, <1>2 DEF StripeMoves
<1>4. past.told \in Seq(Nat) /\ Len(past.told) = Len(subs) /\ \A s \in DOMAIN subs : past.told[s] \in Nat
  <2>1. past.told \in Seq(Nat) /\ Len(past.told) = Len(subs)
    BY DEF IInv, Typed, Past, SInv, Histories
  <2> QED BY <1>1, <2>1, LenProperties, Element
<1>5. ASSUME NEW row \in Row, row.sub \in 0 .. Len(subs), Paired(row)
      PROVE  IF row.sub = 0 THEN row.customer = 0 ELSE row.customer = subs'[row.sub].customer
  <2>1. row.sub # 0 => row.sub \in DOMAIN subs
    BY <1>1, <1>5
  <2> QED BY <1>5, <2>1 DEF Paired, StripeMoves
<1>6. /\ ws \in Row /\ ws.sub \in 0 .. Len(subs) /\ replan.row \in Row /\ replan.row.sub \in 0 .. Len(subs)
      /\ job.pc # "idle" => /\ job.event \in DOMAIN events /\ events[job.event].sub \in DOMAIN subs
                            /\ job.row \in Row /\ job.row.sub \in 0 .. Len(subs)
  BY DEF IInv, Named, RowOk
<1>7. Paired(ws)' /\ Paired(replan.row)' /\ (job.pc # "idle" => Paired(job.row)')
  <2>1. Paired(ws)'
    BY <1>5, <1>6 DEF Paired, SInv, StripeMoves
  <2>2. Paired(replan.row)'
    BY <1>5, <1>6 DEF Paired, SInv, StripeMoves
  <2>3. job.pc # "idle" => Paired(job.row)'
    BY <1>5, <1>6 DEF Paired, SInv, JobKnows, StripeMoves
  <2> QED BY <2>1, <2>2, <2>3
<1>8. JobKnows'
  <2>1. job' = job /\ seen' = seen /\ JobKnows
    BY DEF StripeMoves, SInv
  <2>2. ASSUME job.pc # "idle" PROVE events'[job.event] = events[job.event]
    BY <1>6, <2>2 DEF StripeMoves
  <2>3. ASSUME job.pc = "write" PROVE JobSays' /\ JobFits'
    <3>1. JobSays /\ JobFits /\ events'[job.event] = events[job.event] /\ job.from \in Nat
      BY <2>1, <2>2, <2>3 DEF JobKnows, IInv, Typed, Job
    <3>2. PICK e \in DOMAIN events : /\ Newly(events, events[job.event].sub, job.from, e)
                                     /\ events[e].status = job.status /\ events[e].price = job.price
      BY <3>1 DEF JobSays
    <3>3. Newly(events', events[job.event].sub, job.from, e) /\ events'[e] = events[e] /\ e \in DOMAIN events'
      BY <1>1, <1>3, <3>1, <3>2, StillNewly DEF StripeMoves, JobSays
    <3>4. JobSays'
      <4>1. job.event <= job.from /\ job.from <= Len(events')
        BY <1>1, <1>2, <3>1 DEF JobSays, StripeMoves
      <4>2. /\ Newly(events', events'[job.event].sub, job.from, e)
            /\ events'[e].status = job.status /\ events'[e].price = job.price
        BY <3>1, <3>2, <3>3
      <4> QED BY <2>1, <3>3, <4>1, <4>2 DEF JobSays
    <3>5. JobFits'
      BY <1>6, <2>1, <2>3, <3>1 DEF JobFits, StripeMoves
    <3> QED BY <3>4, <3>5
  <2> QED BY <1>7, <2>1, <2>2, <2>3 DEF JobKnows
<1>9. Histories'
  <2>1. ASSUME NEW s \in DOMAIN subs' PROVE past'.told[s] <= Len(events')
    <3>1. CASE s \in DOMAIN subs
      <4>1. past'.told[s] = past.told[s] /\ past.told[s] <= Len(events) /\ past.told[s] \in Nat
        BY <1>4, <3>1 DEF StripeMoves, SInv, Histories
      <4> QED BY <1>1, <1>2, <4>1 DEF StripeMoves
    <3>2. CASE s \notin DOMAIN subs
      BY <1>2, <3>2 DEF StripeMoves
    <3> QED BY <3>1, <3>2
  <2> QED BY <2>1 DEF Histories, SInv, StripeMoves
<1>10. Follows'
  <2> SUFFICES ASSUME ~past.late, ~past.overlap PROVE InStep'
    BY DEF Follows, StripeMoves
  <2>1. InStep /\ UNCHANGED <<ws, job, replan>>
    BY DEF SInv, Follows, StripeMoves
  <2>2. ws.sub # 0 => ws.sub \in DOMAIN subs /\ past'.told[ws.sub] = past.told[ws.sub] /\ past.told[ws.sub] \in Nat
                      /\ past.told[ws.sub] <= Len(events)
    <3>1. ws.sub # 0 => ws.sub \in DOMAIN subs
      BY <1>1, <1>6
    <3>2. \A s \in DOMAIN subs : past'.told[s] = past.told[s] /\ past.told[s] \in Nat /\ past.told[s] <= Len(events)
      BY <1>4 DEF StripeMoves, SInv, Histories
    <3> QED BY <3>1, <3>2
  <2>3. job.pc = "answer" => events'[job.event].sub = ws.sub /\ job.event <= past'.told[ws.sub]
    <3> SUFFICES ASSUME job.pc = "answer" PROVE events'[job.event].sub = ws.sub /\ job.event <= past'.told[ws.sub]
      OBVIOUS
    <3>1. job.event \in DOMAIN events /\ events[job.event].sub \in DOMAIN subs
      BY <1>6
    <3>2. events[job.event].sub = ws.sub /\ job.event <= past.told[ws.sub]
      BY <2>1 DEF InStep
    <3> QED BY <1>1, <2>2, <3>1, <3>2 DEF StripeMoves
  <2>4. ASSUME NEW e \in DOMAIN events', events'[e].answered PROVE Done(e)'
    <3>1. e \in DOMAIN events /\ events'[e] = events[e]
      BY <2>4 DEF StripeMoves
    <3>2. Done(e) /\ events[e].sub \in DOMAIN subs
      BY <2>1, <2>4, <3>1 DEF InStep, IInv, Named
    <3>3. events[e].sub = ws.sub => ws.sub # 0
      BY <1>1, <3>2
    <3> QED BY <2>1, <2>2, <3>1, <3>2, <3>3 DEF Done
  <2>5. RowSays'
    <3> SUFFICES ASSUME ws.sub # 0
                 PROVE  \E e \in DOMAIN events' :
                          /\ Newly(events', ws.sub, past'.told[ws.sub], e)
                          /\ ws.status = StatusFromStripe(events'[e].status)
                          /\ events'[e].price \in DOMAIN PlanOf => ws.plan = PlanOf[events'[e].price]
      BY <2>1 DEF RowSays
    <3>1. PICK e \in DOMAIN events :
            /\ Newly(events, ws.sub, past.told[ws.sub], e) /\ ws.status = StatusFromStripe(events[e].status)
            /\ events[e].price \in DOMAIN PlanOf => ws.plan = PlanOf[events[e].price]
      BY <2>1 DEF InStep, RowSays
    <3>2. Newly(events', ws.sub, past.told[ws.sub], e) /\ events'[e] = events[e] /\ e \in DOMAIN events'
      BY <1>1, <1>3, <2>2, <3>1, StillNewly DEF StripeMoves
    <3> QED BY <2>2, <3>1, <3>2
  <2> QED BY <2>1, <2>3, <2>4, <2>5 DEF InStep
<1> QED BY <1>7, <1>8, <1>9, <1>10 DEF SInv

LEMMA CompleteKeepsSInv == ASSUME IInv, SInv, NEW c \in DOMAIN checkouts, Complete(c) PROVE SInv'
<1> DEFINE sub == [customer |-> IF checkouts[c].customer = 0 THEN c ELSE checkouts[c].customer,
                   status |-> IF checkouts[c].trial THEN "trialing" ELSE "active", price |-> checkouts[c].price]
           first == Event("checkout", Len(subs) + 1, sub)
           second == Event("updated", Len(subs) + 1, sub)
<1>1. PICK new \in Nat : new = Len(subs) + 1
  BY Lengths DEF IInv
<1>2. PICK k \in Nat : k = Len(events)
  BY Lengths DEF IInv
<1>3. /\ DOMAIN subs = 1 .. Len(subs) /\ Len(subs) \in Nat /\ DOMAIN events = 1 .. k
      /\ DOMAIN checkouts = 1 .. Len(checkouts) /\ Len(checkouts) \in Nat
      /\ subs \in Seq(SubRow) /\ events \in Seq(EventRow) /\ past \in Past /\ past.told \in Seq(Nat)
  BY <1>2, Lengths DEF IInv, Typed, Past
<1>4. sub \in SubRow /\ sub.customer # 0
  <2>1. checkouts[c] \in CheckoutRow /\ c # 0 /\ c \in Nat
    BY <1>3, Element DEF IInv, Typed
  <2>2. sub.customer \in Nat /\ sub.customer # 0
    BY <2>1 DEF CheckoutRow
  <2>3. sub.status \in StripeStatuses /\ sub.price \in Prices
    BY <2>1 DEF StripeStatuses, CheckoutRow
  <2> QED BY <2>2, <2>3 DEF SubRow
<1>5. /\ first \in EventRow /\ first.kind = "checkout" /\ first.sub = new /\ first.customer = sub.customer
      /\ second \in EventRow /\ second.kind = "updated" /\ second.sub = new /\ second.customer = sub.customer
      /\ second.status = sub.status /\ second.price = sub.price /\ ~first.answered /\ ~second.answered
  <2> HIDE DEF sub
  <2>1. first \in EventRow /\ second \in EventRow
    BY <1>1, <1>4, EventMade DEF Kinds
  <2> QED BY <1>1, <2>1 DEF Event
<1>6. /\ subs' = Append(subs, sub) /\ events' = events \o <<first, second>>
      /\ past' = [past EXCEPT !.told = Append(past.told, 0)] /\ UNCHANGED <<ws, seen, job, replan>>
  BY DEF Complete
<1> HIDE DEF sub, first, second
<1>7. /\ subs' \in Seq(SubRow) /\ Len(subs') = new /\ DOMAIN subs' = 1 .. new /\ subs'[new] = sub
      /\ \A s \in DOMAIN subs : subs'[s] = subs[s]
  BY <1>1, <1>3, <1>4, <1>6, Appended
<1>8. /\ events' \in Seq(EventRow) /\ Len(events') = k + 2 /\ DOMAIN events' = 1 .. k + 2
      /\ events'[k + 1] = first /\ events'[k + 2] = second /\ \A e \in 1 .. k : events'[e] = events[e]
  <2> DEFINE more == <<first, second>>
  <2>1. more \in Seq(EventRow) /\ Len(more) = 2 /\ more[1] = first /\ more[2] = second
    BY <1>5
  <2> HIDE DEF more
  <2>2. events' = events \o more
    BY <1>6 DEF more
  <2>3. events' \in Seq(EventRow) /\ Len(events') = k + 2
        /\ \A e \in 1 .. k + 2 : events'[e] = IF e <= k THEN events[e] ELSE more[e - k]
    BY <1>2, <1>3, <2>1, <2>2, Joined
  <2>4. DOMAIN events' = 1 .. k + 2
    BY <2>3, LenProperties
  <2> QED BY <2>1, <2>3, <2>4
<1>9. /\ past'.told \in Seq(Nat) /\ Len(past'.told) = new /\ past'.told[new] = 0
      /\ \A s \in DOMAIN subs : past'.told[s] = past.told[s]
      /\ past'.recent = past.recent /\ past'.late = past.late /\ past'.overlap = past.overlap
  <2> DEFINE longer == Append(past.told, 0)
  <2>1. Len(past.told) = Len(subs)
    BY DEF SInv, Histories
  <2>2. longer \in Seq(Nat) /\ Len(longer) = new /\ longer[new] = 0 /\ \A s \in DOMAIN subs : longer[s] = past.told[s]
    BY <1>1, <1>3, <2>1, Appended
  <2> HIDE DEF longer
  <2>3. past' = [past EXCEPT !.told = longer]
    BY <1>6 DEF longer
  <2> QED BY <1>3, <2>2, <2>3 DEF Past
<1>10. StripeMoves
  <2>1. \A e \in DOMAIN events' : e \notin DOMAIN events => e = k + 1 \/ e = k + 2
    BY <1>3, <1>8
  <2>2. \A e \in DOMAIN events' : e \notin DOMAIN events => ~events'[e].answered
    BY <1>5, <1>8, <2>1
  <2>3. \A s \in DOMAIN subs' : s \notin DOMAIN subs => s = new
    BY <1>1, <1>3, <1>7
  <2>4. Len(subs) <= Len(subs') /\ Len(events) <= Len(events') /\ \A e \in DOMAIN events : events'[e] = events[e]
    BY <1>1, <1>2, <1>3, <1>7, <1>8
  <2>5. \A s \in DOMAIN subs' : s \notin DOMAIN subs => past'.told[s] = 0
    BY <1>9, <2>3
  <2>6. \A s \in DOMAIN subs : subs'[s].customer = subs[s].customer
    BY <1>7
  <2> QED BY <1>6, <1>7, <1>8, <1>9, <2>2, <2>4, <2>5, <2>6 DEF StripeMoves
<1>11. ASSUME NEW e \in DOMAIN events' PROVE Worded(events[e])'
  <2>1. CASE e \in 1 .. k
    <3>1. Worded(events[e]) /\ events[e].sub \in DOMAIN subs /\ events'[e] = events[e]
      BY <1>3, <1>8, <2>1 DEF SInv, StripeSays, IInv, Named
    <3> QED BY <1>7, <3>1 DEF Worded
  <2>2. CASE e = k + 1
    BY <1>4, <1>5, <1>7, <1>8, <2>2 DEF Worded
  <2>3. CASE e = k + 2
    BY <1>4, <1>5, <1>7, <1>8, <2>3 DEF Worded
  <2> QED BY <1>8, <2>1, <2>2, <2>3
<1>12. ASSUME NEW s \in DOMAIN subs' PROVE Heard(s)'
  <2>1. CASE s \in DOMAIN subs
    <3>1. Heard(s) /\ s # new
      BY <1>1, <1>3, <2>1 DEF SInv, StripeSays
    <3>2. PICK b \in DOMAIN events : events[b].kind = "checkout" /\ events[b].sub = s
      BY <3>1 DEF Heard
    <3>3. PICK e \in DOMAIN events : /\ Newly(events, s, k, e) /\ events[e].status = subs[s].status
                                     /\ events[e].price = subs[s].price
      BY <1>2, <3>1 DEF Heard
    <3>4. Newly(events', s, k + 2, e)
      <4>1. e \in DOMAIN events' /\ e <= k + 2 /\ events'[e].sub = s
        BY <1>3, <1>8, <3>3 DEF Newly
      <4>2. ASSUME NEW d \in DOMAIN events', events'[d].sub = s PROVE d <= e
        <5>1. d \in 1 .. k /\ events'[d] = events[d]
          BY <1>5, <1>8, <3>1, <4>2
        <5> QED BY <1>3, <3>3, <4>2, <5>1 DEF Newly
      <4> QED BY <4>1, <4>2 DEF Newly
    <3>5. e \in DOMAIN events' /\ events'[e] = events[e] /\ subs'[s] = subs[s] /\ Newly(events', s, Len(events'), e)
      BY <1>3, <1>7, <1>8, <2>1, <3>4
    <3>6. b \in DOMAIN events' /\ events'[b].kind = "checkout" /\ events'[b].sub = s
      BY <1>3, <1>8, <3>2
    <3> QED BY <3>3, <3>5, <3>6 DEF Heard
  <2>2. CASE s = new
    <3>1. Newly(events', new, k + 2, k + 2)
      BY <1>5, <1>8 DEF Newly
    <3>2. k + 1 \in DOMAIN events' /\ k + 2 \in DOMAIN events'
      BY <1>8
    <3> QED BY <1>5, <1>7, <1>8, <2>2, <3>1, <3>2 DEF Heard
  <2> QED BY <1>1, <1>3, <1>7, <2>1, <2>2
<1> QED BY <1>10, <1>11, <1>12, StripeKeepsSInv DEF StripeSays

LEMMA MoveKeepsSInv ==
  ASSUME IInv, SInv, NEW t \in DOMAIN subs, NEW status \in StripeStatuses, NEW p \in Prices, Move(t, status, p)
  PROVE  SInv'
<1> DEFINE sub == [subs[t] EXCEPT !.status = status, !.price = p]
           event == Event(IF status = "canceled" THEN "deleted" ELSE "updated", t, sub)
<1>2. PICK k \in Nat : k = Len(events)
  BY Lengths DEF IInv
<1>3. /\ DOMAIN subs = 1 .. Len(subs) /\ Len(subs) \in Nat /\ DOMAIN events = 1 .. k /\ t \in Nat
      /\ subs \in Seq(SubRow) /\ events \in Seq(EventRow) /\ past \in Past /\ past.told \in Seq(Nat)
  BY <1>2, Lengths DEF IInv, Typed, Past
<1>4. subs[t] \in SubRow /\ subs[t].customer # 0
  <2>1. PICK e \in DOMAIN events : events[e].sub = t
    BY DEF SInv, StripeSays, Heard
  <2>2. Worded(events[e])
    BY <2>1 DEF SInv, StripeSays
  <2> QED BY <1>3, <2>1, <2>2, Element DEF Worded
<1>5. sub \in SubRow /\ sub.customer = subs[t].customer /\ sub.status = status /\ sub.price = p
  BY <1>4 DEF SubRow
<1>6. /\ event \in EventRow /\ event.sub = t /\ event.customer = subs[t].customer /\ ~event.answered
      /\ event.status = status /\ event.price = p /\ (event.kind = "deleted" => status = "canceled")
  <2> DEFINE kind == IF status = "canceled" THEN "deleted" ELSE "updated"
  <2>1. kind \in Kinds /\ event = Event(kind, t, sub) /\ (kind = "deleted" => status = "canceled")
    BY DEF Kinds
  <2> HIDE DEF kind, event, sub
  <2>2. event \in EventRow /\ event.sub = t /\ event.customer = subs[t].customer
    BY <1>3, <1>5, <2>1, EventMade
  <2> QED BY <1>5, <2>1, <2>2 DEF Event
<1>7. /\ subs' = [subs EXCEPT ![t] = sub] /\ events' = Append(events, event)
      /\ UNCHANGED <<ws, seen, job, replan, past>>
  BY DEF Move
<1> HIDE DEF sub, event
<1>8. /\ subs' \in Seq(SubRow) /\ Len(subs') = Len(subs) /\ DOMAIN subs' = DOMAIN subs
      /\ \A u \in DOMAIN subs : subs'[u] = IF u = t THEN sub ELSE subs[u]
  BY <1>3, <1>5, <1>7, Updated
<1>9. /\ events' \in Seq(EventRow) /\ Len(events') = k + 1 /\ DOMAIN events' = 1 .. k + 1
      /\ events'[k + 1] = event /\ \A e \in 1 .. k : events'[e] = events[e]
  BY <1>2, <1>3, <1>6, <1>7, Appended
<1>10. StripeMoves
  <2>1. \A s \in DOMAIN subs : subs'[s].customer = subs[s].customer
    BY <1>5, <1>8
  <2>2. \A e \in DOMAIN events' : e \notin DOMAIN events => ~events'[e].answered
    BY <1>3, <1>6, <1>9
  <2>3. Len(past.told) = Len(subs)
    BY DEF SInv, Histories
  <2> QED BY <1>2, <1>3, <1>7, <1>8, <1>9, <2>1, <2>2, <2>3 DEF StripeMoves
<1>11. ASSUME NEW e \in DOMAIN events' PROVE Worded(events[e])'
  <2>1. CASE e \in 1 .. k
    <3>1. Worded(events[e]) /\ events[e].sub \in DOMAIN subs /\ events'[e] = events[e]
      BY <1>3, <1>9, <2>1 DEF SInv, StripeSays, IInv, Named
    <3> QED BY <1>5, <1>8, <3>1 DEF Worded
  <2>2. CASE e = k + 1
    BY <1>4, <1>5, <1>6, <1>8, <1>9, <2>2 DEF Worded
  <2> QED BY <1>9, <2>1, <2>2
<1>12. ASSUME NEW s \in DOMAIN subs' PROVE Heard(s)'
  <2>0. s \in DOMAIN subs /\ Heard(s)
    BY <1>8 DEF SInv, StripeSays
  <2>1. PICK b \in DOMAIN events : events[b].kind = "checkout" /\ events[b].sub = s
    BY <2>0 DEF Heard
  <2>2. b \in DOMAIN events' /\ events'[b].kind = "checkout" /\ events'[b].sub = s
    BY <1>3, <1>9, <2>1
  <2>3. CASE s = t
    <3>1. Newly(events', t, k + 1, k + 1)
      BY <1>6, <1>9 DEF Newly
    <3> QED BY <1>5, <1>6, <1>8, <1>9, <2>2, <2>3, <3>1 DEF Heard
  <2>4. CASE s # t
    <3>1. PICK e \in DOMAIN events : /\ Newly(events, s, k, e) /\ events[e].status = subs[s].status
                                     /\ events[e].price = subs[s].price
      BY <1>2, <2>0 DEF Heard
    <3>2. Newly(events', s, k + 1, e)
      <4>1. e \in DOMAIN events' /\ e <= k + 1 /\ events'[e].sub = s
        BY <1>3, <1>9, <3>1 DEF Newly
      <4>2. ASSUME NEW d \in DOMAIN events', events'[d].sub = s PROVE d <= e
        <5>1. d \in 1 .. k /\ events'[d] = events[d]
          BY <1>6, <1>9, <2>4, <4>2
        <5> QED BY <1>3, <3>1, <4>2, <5>1 DEF Newly
      <4> QED BY <4>1, <4>2 DEF Newly
    <3>3. /\ e \in DOMAIN events' /\ events'[e].status = subs'[s].status /\ events'[e].price = subs'[s].price
          /\ Newly(events', s, Len(events'), e)
      BY <1>3, <1>8, <1>9, <2>0, <2>4, <3>1, <3>2
    <3> QED BY <2>2, <3>3 DEF Heard
  <2> QED BY <2>3, <2>4
<1> QED BY <1>10, <1>11, <1>12, StripeKeepsSInv DEF StripeSays

-----------------------------------------------------------------------------
(* The webhook catches up.                                                 *)

\* An event is answered that has been applied, or that is not about the row.
LEMMA AnsweredKeepsSInv ==
  ASSUME IInv, SInv, NEW e \in DOMAIN events, Answered(e), UNCHANGED <<ws, subs, replan>>,
         ~past.late /\ ~past.overlap => Done(e)
  PROVE  SInv'
<1> DEFINE row == [events[e] EXCEPT !.answered = TRUE]
           kept == Newest(Append(past.recent, e))
<1>1. events[e] \in EventRow /\ events \in Seq(EventRow) /\ past \in Past
  BY Element DEF IInv, Typed
<1>2. /\ row.sub = events[e].sub /\ row.customer = events[e].customer /\ row.kind = events[e].kind
      /\ row.status = events[e].status /\ row.price = events[e].price /\ row \in EventRow
  BY <1>1 DEF EventRow
<1>3. /\ events' = [events EXCEPT ![e] = row] /\ job' = NoJob /\ seen' = Newest(Append(seen, e))
      /\ past' = [past EXCEPT !.recent = kept]
  BY DEF Answered, RememberEvent
<1> HIDE DEF row
<1>4. /\ DOMAIN events' = DOMAIN events /\ Len(events') = Len(events)
      /\ \A d \in DOMAIN events :
           /\ events'[d].sub = events[d].sub /\ events'[d].customer = events[d].customer
           /\ events'[d].kind = events[d].kind /\ events'[d].status = events[d].status
           /\ events'[d].price = events[d].price /\ (d # e => events'[d].answered = events[d].answered)
  <2>1. /\ DOMAIN events' = DOMAIN events /\ Len(events') = Len(events)
        /\ \A d \in DOMAIN events : events'[d] = IF d = e THEN row ELSE events[d]
    BY <1>1, <1>2, <1>3, Updated
  <2> QED BY <1>2, <2>1
<1>5. /\ past'.recent = kept /\ past'.told = past.told /\ past'.late = past.late /\ past'.overlap = past.overlap
  <2> HIDE DEF kept
  <2> QED BY <1>1, <1>3 DEF Past
<1>6. \A s, n, d : Newly(events, s, n, d) <=> Newly(events', s, n, d)
  BY <1>4 DEF Newly
<1>7. StripeSays' /\ Paired(ws)' /\ Paired(replan.row)'
  <2>1. \A d \in DOMAIN events : Worded(events[d]) => Worded(events[d])'
    BY <1>4 DEF Worded
  <2>2. ASSUME NEW s \in DOMAIN subs, Heard(s) PROVE Heard(s)'
    <3>1. PICK d \in DOMAIN events : /\ Newly(events, s, Len(events), d) /\ events[d].status = subs[s].status
                                     /\ events[d].price = subs[s].price
      BY <2>2 DEF Heard
    <3> QED BY <1>4, <1>6, <2>2, <3>1 DEF Heard
  <2> QED BY <1>4, <2>1, <2>2 DEF SInv, StripeSays, Paired
<1>8. JobKnows'
  BY <1>3 DEF JobKnows, NoJob
<1>9. Histories'
  BY <1>3, <1>4, <1>5 DEF SInv, Histories
<1>10. Follows'
  <2> SUFFICES ASSUME ~past.late, ~past.overlap PROVE InStep'
    BY <1>5 DEF Follows
  <2>1. InStep /\ Done(e)
    BY DEF SInv, Follows
  <2>2. ASSUME NEW d \in DOMAIN events, events'[d].answered PROVE Done(d)'
    <3>1. Done(d)
      BY <1>4, <2>1, <2>2 DEF InStep
    <3> QED BY <1>4, <1>5, <3>1 DEF Done
  <2>3. RowSays'
    <3> SUFFICES ASSUME ws.sub # 0
                 PROVE  \E d \in DOMAIN events' :
                          /\ Newly(events', ws.sub, past'.told[ws.sub], d)
                          /\ ws.status = StatusFromStripe(events'[d].status)
                          /\ events'[d].price \in DOMAIN PlanOf => ws.plan = PlanOf[events'[d].price]
      BY DEF RowSays
    <3>1. PICK d \in DOMAIN events :
            /\ Newly(events, ws.sub, past.told[ws.sub], d) /\ ws.status = StatusFromStripe(events[d].status)
            /\ events[d].price \in DOMAIN PlanOf => ws.plan = PlanOf[events[d].price]
      BY <2>1 DEF InStep, RowSays
    <3> QED BY <1>4, <1>5, <1>6, <3>1
  <2> QED BY <1>3, <1>4, <2>1, <2>2, <2>3 DEF InStep, NoJob
<1> QED BY <1>7, <1>8, <1>9, <1>10 DEF SInv

\* An event that does not concern the row is not about its subscription.
LEMMA UnconcernedIsDone ==
  ASSUME IInv, SInv, NEW e \in DOMAIN events, events[e].kind # "checkout", ~Concerns(events[e])
  PROVE  Done(e)
<1>1. Worded(events[e]) /\ Paired(ws) /\ events[e].sub \in DOMAIN subs
  BY DEF SInv, StripeSays, IInv, Named
<1>2. events[e].sub # 0
  BY <1>1, Lengths DEF IInv
<1>3. events[e].sub # ws.sub
  BY <1>1, <1>2 DEF Worded, Paired, Concerns, Linked
<1> QED BY <1>3 DEF Done

\* The handler takes an event up, asks Stripe, or gives up: the row stays.
LEMMA HandlerKeepsSInv ==
  ASSUME SInv, UNCHANGED <<ws, subs, events, replan>>, JobKnows', past'.recent = seen',
         past'.told = past.told, past'.late = past.late, past'.overlap = past.overlap,
         job'.pc # "answer",
         ~past.late /\ ~past.overlap /\ job'.pc \in {"fetch", "write"} => job'.row = ws
  PROVE  SInv'
<1>1. StripeSays' /\ Paired(ws)' /\ Paired(replan.row)'
  BY DEF SInv, StripeSays, Worded, Heard, Paired
<1>2. Histories'
  BY DEF SInv, Histories
<1>3. Follows'
  BY DEF SInv, Follows, InStep, RowSays, Done
<1> QED BY <1>1, <1>2, <1>3 DEF SInv

LEMMA ReceiveKeepsSInv == ASSUME IInv, SInv, NEW e \in DOMAIN events, Receive(e) PROVE SInv'
<1> DEFINE ev == events[e]
<1>1. /\ UNCHANGED <<ws, subs, replan>> /\ e \notin ToSet(seen) /\ ev \in EventRow /\ e \in Nat
      /\ ev.sub \in DOMAIN subs /\ Worded(ev) /\ Paired(ws) /\ Len(events) \in Nat /\ DOMAIN events = 1 .. Len(events)
      /\ ev.sub # 0
  BY Element, Lengths DEF Receive, IInv, Typed, Named, SInv, StripeSays
<1>2. CASE ev.kind # "checkout" /\ ~Concerns(ev) /\ Answered(e)
  BY <1>1, <1>2, UnconcernedIsDone, AnsweredKeepsSInv
<1>3. CASE /\ ev.kind # "checkout" /\ Concerns(ev) /\ UNCHANGED <<events, seen, past>>
           /\ job' = [pc |-> "write", event |-> e, row |-> ws, status |-> ev.status, price |-> ev.price, from |-> e]
  <2>1. /\ job'.pc = "write" /\ job'.event = e /\ job'.row = ws /\ job'.status = ev.status /\ job'.price = ev.price
        /\ job'.from = e
    BY <1>3
  <2>2. ws.sub = ev.sub /\ ws.customer = ev.customer
    BY <1>1, <1>3 DEF Concerns, Linked, Worded, Paired
  <2>3. Newly(events, ev.sub, e, e)
    BY <1>1 DEF Newly
  <2>4. JobSays'
    BY <1>1, <1>3, <2>1, <2>3 DEF JobSays
  <2>5. JobFits'
    BY <1>3, <2>1, <2>2 DEF JobFits
  <2>6. Paired(job.row)'
    BY <1>1, <2>1 DEF Paired
  <2>7. JobKnows'
    BY <1>1, <1>3, <2>1, <2>4, <2>5, <2>6 DEF JobKnows
  <2>8. past'.recent = seen'
    BY <1>3 DEF SInv, Histories
  <2> QED BY <1>1, <1>3, <2>1, <2>7, <2>8, HandlerKeepsSInv
<1>4. CASE /\ ev.kind = "checkout" /\ UNCHANGED <<events, seen, past>>
           /\ job' = [NoJob EXCEPT !.pc = "fetch", !.event = e, !.row = ws]
  <2>1. job'.pc = "fetch" /\ job'.event = e /\ job'.row = ws
    BY <1>4 DEF NoJob
  <2>2. Paired(job.row)'
    BY <1>1, <2>1 DEF Paired
  <2>3. JobKnows'
    BY <1>1, <1>4, <2>1, <2>2 DEF JobKnows
  <2>4. past'.recent = seen'
    BY <1>4 DEF SInv, Histories
  <2> QED BY <1>1, <1>4, <2>1, <2>3, <2>4, HandlerKeepsSInv
<1> QED BY <1>2, <1>3, <1>4 DEF Receive

LEMMA FetchKeepsSInv == ASSUME IInv, SInv, Fetch PROVE SInv'
<1> DEFINE s == events[job.event].sub
<1>1. /\ job \in Job /\ job.pc = "fetch" /\ job.event \in DOMAIN events /\ s \in DOMAIN subs
      /\ Len(events) \in Nat /\ DOMAIN events = 1 .. Len(events) /\ job.event \in Nat
      /\ UNCHANGED <<ws, subs, events, seen, replan, past>>
  BY Lengths DEF IInv, Typed, Named, Fetch, stripe
<1>2. /\ job' = [job EXCEPT !.pc = "write", !.status = subs[s].status, !.price = subs[s].price,
                            !.from = Len(events)]
  BY DEF Fetch, Fetched
<1>3. /\ job'.pc = "write" /\ job'.event = job.event /\ job'.row = job.row /\ job'.status = subs[s].status
      /\ job'.price = subs[s].price /\ job'.from = Len(events)
  BY <1>1, <1>2 DEF Job
<1>4. Heard(s) /\ JobKnows /\ Histories
  BY <1>1 DEF SInv, StripeSays
<1>5. JobSays'
  <2>1. PICK e \in DOMAIN events : /\ Newly(events, s, Len(events), e) /\ events[e].status = subs[s].status
                                   /\ events[e].price = subs[s].price
    BY <1>4 DEF Heard
  <2> QED BY <1>1, <1>3, <2>1 DEF JobSays
<1>6. JobFits'
  BY <1>1, <1>3, <1>4 DEF JobFits, JobKnows, Histories
<1>7. JobKnows'
  BY <1>1, <1>3, <1>4, <1>5, <1>6 DEF JobKnows, Paired
<1> QED BY <1>1, <1>3, <1>4, <1>7, HandlerKeepsSInv DEF Histories, SInv, Follows, InStep

LEMMA DropKeepsSInv == ASSUME IInv, SInv, WebhookFails \/ Restart PROVE SInv'
<1>1. /\ UNCHANGED <<ws, subs, events, replan>> /\ job' = NoJob /\ NoJob.pc = "idle"
  BY DEF WebhookFails, Restart, stripe, NoJob
<1>2. JobKnows'
  BY <1>1 DEF JobKnows
<1>3. past \in Past
  BY DEF IInv, Typed
<1>4. /\ past'.recent = seen' /\ past'.told = past.told /\ past'.late = past.late /\ past'.overlap = past.overlap
  <2>1. CASE WebhookFails
    BY <2>1 DEF WebhookFails, SInv, Histories
  <2>2. CASE Restart
    <3>1. past' = [past EXCEPT !.recent = << >>] /\ seen' = << >>
      BY <2>2 DEF Restart
    <3> QED BY <1>3, <3>1 DEF Past
  <2> QED BY <2>1, <2>2
<1> QED BY <1>1, <1>2, <1>4, HandlerKeepsSInv

LEMMA AnswerKeepsSInv == ASSUME IInv, SInv, Answer PROVE SInv'
<1>1. job.pc = "answer" /\ job.event \in DOMAIN events /\ UNCHANGED <<ws, subs, replan>>
  BY DEF Answer, IInv, Named
<1>2. ~past.late /\ ~past.overlap => Done(job.event)
  <2> SUFFICES ASSUME ~past.late, ~past.overlap PROVE Done(job.event)
    OBVIOUS
  <2>1. events[job.event].sub = ws.sub /\ job.event <= past.told[ws.sub] /\ ws.sub \in Nat
    BY <1>1 DEF SInv, Follows, InStep, IInv, Typed, Row
  <2> QED BY <2>1 DEF Done
<1> QED BY <1>1, <1>2, AnsweredKeepsSInv DEF Answer

-----------------------------------------------------------------------------
(* The row is written.                                                     *)

\* What the row becomes.
LEMMA AppliedSays ==
  ASSUME IInv, job.pc = "write"
  PROVE  LET ev == events[job.event] IN
         /\ Applied.sub = ev.sub
         /\ Applied.customer = IF ev.kind = "checkout" THEN ev.customer ELSE job.row.customer
         /\ Applied.status = IF ev.kind = "deleted" THEN "canceled" ELSE StatusFromStripe(job.status)
         /\ job.price \in DOMAIN PlanOf => Applied.plan = PlanOf[job.price]
<1>1. \A p \in DOMAIN PlanOf : PlanOf[p] # "unlimited"
  BY BillingAssumption
<1> QED BY <1>1 DEF Applied, KeepIds

\* An event that is not out of order is at least as new as what its subscription's row
\* was last written from, and its subscription is not older than the row's.
LEMMA InOrder ==
  ASSUME IInv, SInv, job.pc = "write", ~OutOfOrder, InStep
  PROVE  /\ past.told[events[job.event].sub] <= job.from /\ ws.sub <= events[job.event].sub
         /\ Told = [past.told EXCEPT ![events[job.event].sub] = job.from]
         /\ events[job.event].kind # "checkout" => ws.sub = events[job.event].sub
<1> DEFINE s == events[job.event].sub
<1>1. JobFits /\ job.event \notin ToSet(seen) /\ past.recent = seen
  BY DEF SInv, JobKnows, Histories
<1>2. /\ job.event \in DOMAIN events /\ s \in DOMAIN subs /\ ws.sub \in Nat /\ job.from \in Nat
      /\ DOMAIN subs = 1 .. Len(subs) /\ Len(subs) \in Nat
  BY Lengths DEF IInv, Named, Typed, Row, Job
<1>3. past.told[s] \in Nat
  <2>1. past.told \in Seq(Nat) /\ Len(past.told) = Len(subs)
    BY DEF IInv, Typed, Past, SInv, Histories
  <2>2. DOMAIN past.told = 1 .. Len(past.told)
    BY <2>1, LenProperties
  <2> QED BY <1>2, <2>1, <2>2, Element
<1>4. job.row = ws
  BY DEF InStep
<1>5. CASE events[job.event].kind = "checkout"
  <2>1. past.told[s] <= job.from /\ ~(ws.sub > s)
    BY <1>1, <1>5 DEF JobFits, OutOfOrder
  <2> QED BY <1>2, <1>3, <1>5, <2>1 DEF Told
<1>6. CASE events[job.event].kind # "checkout"
  <2>1. ~(job.from < past.told[s]) /\ ws.sub = s
    BY <1>1, <1>4, <1>6 DEF JobFits, OutOfOrder
  <2> QED BY <1>2, <1>3, <1>6, <2>1 DEF Told
<1> QED BY <1>5, <1>6

LEMMA WriteKeepsSInv == ASSUME IInv, SInv, Write PROVE SInv'
<1> DEFINE ev == events[job.event]
           s == ev.sub
<1>1. /\ job.pc = "write" /\ ws' = Applied /\ job' = [job EXCEPT !.pc = "answer"] /\ job \in Job
      /\ job.event \in DOMAIN events /\ UNCHANGED <<subs, events, seen, replan>>
      /\ past' = [past EXCEPT !.told = Told, !.late = @ \/ OutOfOrder,
                              !.overlap = @ \/ replan.pc # "idle", !.subscribed = TRUE]
  BY DEF Write, IInv, Typed, Named, stripe
<1>2. /\ past \in Past /\ past.told \in Seq(Nat) /\ s \in DOMAIN subs /\ job.from \in Nat /\ job.event \in Nat
      /\ Len(past.told) = Len(subs) /\ s # 0 /\ Worded(ev) /\ JobSays /\ JobFits /\ Paired(job.row)
      /\ past.recent = seen /\ \A t \in DOMAIN subs : past.told[t] <= Len(events)
  <2>1. past \in Past /\ past.told \in Seq(Nat) /\ job.from \in Nat /\ s \in DOMAIN subs
    BY <1>1 DEF IInv, Typed, Named, Past, Job
  <2>2. job.event \in Nat /\ s # 0
    BY <1>1, <2>1, Lengths DEF IInv
  <2>3. /\ Len(past.told) = Len(subs) /\ past.recent = seen /\ \A t \in DOMAIN subs : past.told[t] <= Len(events)
    BY DEF SInv, Histories
  <2>4. Worded(ev) /\ JobSays /\ JobFits /\ Paired(job.row)
    BY <1>1 DEF SInv, StripeSays, JobKnows
  <2> QED BY <2>1, <2>2, <2>3, <2>4
<1>3. /\ past'.told = Told /\ past'.late = (past.late \/ OutOfOrder) /\ past'.recent = past.recent
      /\ past'.overlap = (past.overlap \/ replan.pc # "idle")
  BY <1>1, <1>2 DEF Past
<1>4. job'.pc = "answer" /\ job'.event = job.event /\ job'.row = job.row
  BY <1>1 DEF Job
<1>5. /\ ws'.sub = s /\ ws'.customer = subs[s].customer
      /\ ws'.status = IF ev.kind = "deleted" THEN "canceled" ELSE StatusFromStripe(job.status)
      /\ job.price \in DOMAIN PlanOf => ws'.plan = PlanOf[job.price]
  BY <1>1, <1>2, AppliedSays DEF JobFits, Worded
<1>6. StripeSays' /\ Paired(ws)' /\ Paired(replan.row)'
  BY <1>1, <1>2, <1>5 DEF SInv, StripeSays, Worded, Heard, Paired
<1>7. JobKnows'
  BY <1>1, <1>2, <1>4 DEF JobKnows, Paired
<1>8. Told = past.told \/ Told = [past.told EXCEPT ![s] = job.from]
  BY DEF Told
<1>9. Len(Told) = Len(subs) /\ \A t \in DOMAIN subs : Told[t] <= Len(events)
  <2>1. CASE Told = past.told
    BY <1>2, <2>1
  <2>2. CASE Told = [past.told EXCEPT ![s] = job.from]
    <3>1. DOMAIN past.told = DOMAIN subs /\ s \in DOMAIN past.told
      BY <1>2, LenProperties, Lengths DEF IInv
    <3>2. job.from <= Len(events)
      BY <1>2 DEF JobSays
    <3> HIDE DEF s
    <3>3. Len(Told) = Len(past.told) /\ \A t \in DOMAIN past.told : Told[t] = IF t = s THEN job.from ELSE past.told[t]
      BY <1>2, <2>2, <3>1, Updated
    <3> QED BY <1>2, <3>1, <3>2, <3>3
  <2> QED BY <1>8, <2>1, <2>2
<1>10. Histories'
  BY <1>1, <1>2, <1>3, <1>9 DEF Histories
<1>11. Follows'
  <2> SUFFICES ASSUME ~past'.late, ~past'.overlap PROVE InStep'
    BY DEF Follows
  <2>1. ~OutOfOrder /\ ~past.late /\ ~past.overlap /\ replan.pc = "idle"
    BY <1>3
  <2>2. InStep
    BY <2>1 DEF SInv, Follows
  <2>3. /\ past.told[s] <= job.from /\ ws.sub <= s /\ Told = [past.told EXCEPT ![s] = job.from]
        /\ ev.kind # "checkout" => ws.sub = s
    BY <1>1, <2>1, <2>2, InOrder
  <2>4. past'.told[s] = job.from
    <3>1. s \in DOMAIN past.told
      BY <1>2, LenProperties, Lengths DEF IInv
    <3> QED BY <1>3, <2>3, <3>1
  <2>5. job.event <= job.from
    BY <1>2 DEF JobSays
  <2>6. /\ ws.sub \in Nat /\ s \in Nat /\ past.told[s] \in Nat
        /\ \A e \in DOMAIN events : events[e].sub \in Nat /\ e \in Nat
    <3>1. ws.sub \in Nat /\ DOMAIN past.told = DOMAIN subs
      BY <1>2, LenProperties, Lengths DEF IInv, Typed, Row
    <3>2. \A e \in DOMAIN events : events[e].sub \in DOMAIN subs /\ e \in Nat
      BY Lengths DEF IInv, Named
    <3>3. past.told[s] \in Nat
      BY <1>2, <3>1, Element
    <3>4. \A t \in DOMAIN subs : t \in Nat
      BY Lengths DEF IInv
    <3> QED BY <1>2, <3>1, <3>2, <3>3, <3>4
  <2>7. ASSUME NEW e \in DOMAIN events, events[e].answered PROVE Done(e)'
    <3>1. Done(e) /\ e \in Nat /\ events[e].sub \in Nat
      BY <2>2, <2>6, <2>7 DEF InStep
    <3>2. events[e].kind = "checkout" => events[e].sub <= s
      BY <2>3, <2>6, <3>1 DEF Done
    <3>3. events[e].sub = s => e <= job.from
      <4>1. CASE ev.kind = "checkout"
        BY <1>2, <2>7, <4>1 DEF JobFits
      <4>2. CASE ev.kind # "checkout"
        <5> SUFFICES ASSUME events[e].sub = s PROVE e <= job.from
          OBVIOUS
        <5>1. ws.sub = s /\ e <= past.told[s]
          BY <2>3, <3>1, <4>2 DEF Done
        <5>2. past.told[s] <= job.from /\ past.told[s] \in Nat /\ job.from \in Nat /\ e \in Nat
          BY <1>2, <2>3, <2>6, <3>1
        <5> HIDE DEF s, ev
        <5> QED BY <5>1, <5>2
      <4> QED BY <4>1, <4>2
    <3> QED BY <1>1, <1>5, <2>4, <3>2, <3>3 DEF Done
  <2>8. RowSays'
    <3>1. PICK e \in DOMAIN events : /\ Newly(events, s, job.from, e)
                                     /\ events[e].status = job.status /\ events[e].price = job.price
      BY <1>2 DEF JobSays
    <3>2. ws'.status = StatusFromStripe(events[e].status)
      <4>1. CASE ev.kind = "deleted"
        <5>1. job.from = job.event /\ ev.status = "canceled"
          BY <1>2, <4>1 DEF JobFits, Worded
        <5>2. e = job.event
          <6>1. e <= job.event /\ e \in Nat /\ job.event \in Nat
            BY <1>2, <2>6, <3>1, <5>1 DEF Newly
          <6>2. job.event <= e
            BY <1>1, <1>2, <3>1, <5>1 DEF Newly
          <6> QED BY <6>1, <6>2
        <5> QED BY <1>5, <4>1, <5>1, <5>2 DEF StatusFromStripe
      <4>2. CASE ev.kind # "deleted"
        BY <1>5, <3>1, <4>2
      <4> QED BY <4>1, <4>2
    <3> QED BY <1>1, <1>5, <2>4, <3>1, <3>2 DEF RowSays
  <2> QED BY <1>1, <1>4, <1>5, <2>1, <2>4, <2>5, <2>7, <2>8 DEF InStep
<1> QED BY <1>6, <1>7, <1>10, <1>11 DEF SInv

LEMMA ReadRowKeepsSInv == ASSUME IInv, SInv, ReadRow PROVE SInv'
<1>1. /\ replan' = [pc |-> "write", row |-> ws] /\ UNCHANGED <<ws, subs, events, seen, job>>
      /\ past' = [past EXCEPT !.overlap = past.overlap \/ job.pc # "idle"] /\ past \in Past
  BY DEF ReadRow, stripe, IInv, Typed
<1>2. /\ past'.told = past.told /\ past'.recent = past.recent /\ past'.late = past.late
      /\ past'.overlap = (past.overlap \/ job.pc # "idle")
  BY <1>1 DEF Past
<1>3. StripeSays' /\ Paired(ws)' /\ Paired(replan.row)'
  BY <1>1 DEF SInv, StripeSays, Worded, Heard, Paired
<1>4. JobKnows' /\ Histories'
  BY <1>1, <1>2 DEF SInv, JobKnows, JobSays, JobFits, Paired, Histories
<1>5. Follows'
  BY <1>1, <1>2 DEF SInv, Follows, InStep, RowSays, Done
<1> QED BY <1>3, <1>4, <1>5 DEF SInv

LEMMA SetPlanKeepsSInv == ASSUME IInv, SInv, NEW plan \in {"unlimited", "solo"}, SetPlan(plan) PROVE SInv'
<1> DEFINE overlap == past.overlap \/ job.pc # "idle" \/ ws'.plan # ws.plan \/ ws'.status # ws.status
<1>1. /\ replan.pc = "write" /\ ws' = Replanned(replan.row, plan) /\ replan' = [pc |-> "idle", row |-> ws']
      /\ UNCHANGED <<subs, events, seen, job>> /\ past' = [past EXCEPT !.overlap = overlap]
      /\ past \in Past /\ replan.row \in Row /\ ws \in Row
  BY DEF SetPlan, stripe, IInv, Typed
<1>2. /\ past'.told = past.told /\ past'.recent = past.recent /\ past'.late = past.late
      /\ past'.overlap = overlap
  <2> HIDE DEF overlap
  <2> QED BY <1>1 DEF Past
<1>3. /\ ws'.sub = replan.row.sub /\ ws'.customer = replan.row.customer
      /\ ws' = [plan |-> ws'.plan, status |-> ws'.status, customer |-> ws'.customer, sub |-> ws'.sub]
      /\ ws = [plan |-> ws.plan, status |-> ws.status, customer |-> ws.customer, sub |-> ws.sub]
  BY <1>1 DEF Replanned, Row
<1>4. StripeSays' /\ Paired(ws)' /\ Paired(replan.row)'
  BY <1>1, <1>3 DEF SInv, StripeSays, Worded, Heard, Paired
<1>5. JobKnows' /\ Histories'
  BY <1>1, <1>2 DEF SInv, JobKnows, JobSays, JobFits, Paired, Histories
<1>6. Follows'
  <2> SUFFICES ASSUME ~past'.late, ~past'.overlap PROVE InStep'
    BY DEF Follows
  <2>1. ~past.late /\ ~past.overlap /\ job.pc = "idle" /\ ws'.plan = ws.plan /\ ws'.status = ws.status
    BY <1>2
  <2>2. InStep
    BY <2>1 DEF SInv, Follows
  <2>3. ws' = ws
    BY <1>1, <1>3, <2>1, <2>2 DEF InStep
  <2> QED BY <1>1, <1>2, <2>1, <2>2, <2>3 DEF InStep, RowSays, Done
<1> QED BY <1>4, <1>5, <1>6 DEF SInv

LEMMA NextSInv == IInv /\ SInv /\ [Next]_vars => SInv'
<1> SUFFICES ASSUME IInv, SInv, [Next]_vars PROVE SInv'
  OBVIOUS
<1>1. size.prices \subseteq Prices /\ size.moves \subseteq StripeStatuses
  BY BillingAssumption DEF IInv, Typed
<1>2. CASE \E p \in size.prices : Checkout(p)
  <2>1. PICK p \in size.prices : Checkout(p)
    BY <1>2
  <2> DEFINE n == IF ws.sub = 0 /\ past.subscribed THEN past.trials + 1 ELSE past.trials
  <2>2. past \in Past /\ past' = [past EXCEPT !.trials = n] /\ UNCHANGED <<ws, subs, events, seen, job, replan>>
    BY <2>1 DEF Checkout, IInv, Typed
  <2> HIDE DEF n
  <2>3. /\ past'.told = past.told /\ past'.recent = past.recent /\ past'.late = past.late
        /\ past'.overlap = past.overlap
    BY <2>2 DEF Past
  <2> QED BY <2>2, <2>3, StillSInv
<1>3. CASE \E c \in DOMAIN checkouts : Complete(c)
  BY <1>3, CompleteKeepsSInv
<1>4. CASE \E s \in DOMAIN subs, status \in size.moves, p \in size.prices : Move(s, status, p)
  BY <1>1, <1>4, MoveKeepsSInv
<1>5. CASE \E e \in DOMAIN events : Receive(e)
  BY <1>5, ReceiveKeepsSInv
<1>6. CASE Fetch \/ Write \/ Answer \/ WebhookFails \/ Restart
  BY <1>6, FetchKeepsSInv, WriteKeepsSInv, AnswerKeepsSInv, DropKeepsSInv
<1>7. CASE ReadRow \/ \E plan \in {"unlimited", "solo"} : SetPlan(plan)
  BY <1>7, ReadRowKeepsSInv, SetPlanKeepsSInv
<1>8. CASE UNCHANGED vars
  BY <1>8, StillSInv DEF vars, stripe
<1> QED BY <1>2, <1>3, <1>4, <1>5, <1>6, <1>7, <1>8 DEF Next

\* Once every event is answered the row says what Stripe says of the newest
\* subscription, for any events in any order, repeated, forgotten or failed, unless
\* one was applied after a newer one or a re-plan overlapped.
THEOREM SettlesWithStripe == Spec => []SettledAgrees
<1>1. IInv /\ SInv => SettledAgrees
  BY SInvAgrees
<1> QED BY <1>1, InitSInv, NextSInv, Inductive, PTL DEF Spec
=============================================================================
