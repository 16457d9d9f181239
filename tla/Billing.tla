------------------------------ MODULE Billing -------------------------------
(***************************************************************************)
(* How a workspace follows its Stripe subscription                         *)
(* (internal/cloud/server/billing.go, internal/cloud/billing).  Stripe is an   *)
(* environment: it keeps subscriptions, says so in events, and sends an event   *)
(* until it is answered, in any order and sometimes again.  The server handles  *)
(* one event at a time; its three calls (the workspace's row, Stripe, the row    *)
(* again) are steps of their own, so Stripe moves on between them, and so does   *)
(* an operator who re-plans the workspace from a shell.                       *)
(*                                                                         *)
(* One workspace: every statement is by its id or by its customer, unique.      *)
(***************************************************************************)
EXTENDS Naturals, Sequences, SequencesExt, FiniteSets

CONSTANTS
  Prices,       \* what Stripe may sell
  PlanOf,       \* PlanByPriceID: the plan of each configured price
  EventMemory,  \* eventMemory
  Sizes         \* bounds: the instances looked at; how many of what, and what Stripe may do

Statuses == {"trialing", "active", "past_due", "canceled", "unlimited"}
\* those that are told apart, and any other
StripeStatuses == {"trialing", "incomplete", "active", "past_due", "unpaid", "canceled", "incomplete_expired", "other"}
ASSUME BillingAssumption ==
         /\ DOMAIN PlanOf \subseteq Prices /\ "unlimited" \notin {PlanOf[p] : p \in DOMAIN PlanOf}
         /\ EventMemory \in Nat /\ \A z \in Sizes : z.prices \subseteq Prices /\ z.moves \subseteq StripeStatuses

VARIABLES
  size,       \* the instance this behaviour belongs to
  ws,         \* the row: plan, status, customer and subscription (0: none)
  checkouts,  \* Checkout Sessions: price, customer asked for, trial granted, completed
  subs,       \* Stripe's subscriptions: customer, state, price
  events,     \* what Stripe has to say: kind, subscription, its state and price then, answered
  seen,       \* eventSeen and eventOrder
  job,        \* the event being handled, under eventMu; from (history): Stripe's newest word in it
  replan,     \* the operator's set-plan: the row it read, and the new plan
  faults,     \* restarts and re-plans so far
  past        \* history: what was written from, and whether out of order

stripe == <<checkouts, subs, events>>
vars == <<size, ws, stripe, seen, job, replan, faults, past>>

NoJob == [pc |-> "idle", event |-> 0, row |-> [plan |-> "", status |-> "", customer |-> 0, sub |-> 0],
          status |-> "", price |-> "", from |-> 0]

\* createWorkspaceFor starts a trial; an operator grants a plan, or none.
Init ==
  /\ size \in Sizes
  /\ \E start \in {[plan |-> "team", status |-> "trialing"], [plan |-> "unlimited", status |-> "unlimited"]} :
       ws = [plan |-> start.plan, status |-> start.status, customer |-> 0, sub |-> 0]
  /\ checkouts = <<>> /\ subs = <<>> /\ events = <<>> /\ seen = <<>>
  /\ job = NoJob /\ replan = [pc |-> "idle", row |-> ws]
  /\ faults = [restarts |-> 0, replans |-> 0]
  /\ past = [told |-> <<>>, recent |-> <<>>, late |-> FALSE, overlap |-> FALSE, subscribed |-> FALSE, trials |-> 0]

-----------------------------------------------------------------------------
(* The browser and Stripe. *)

LiveSubscription == ws.sub # 0 /\ ws.customer # 0 /\ ws.status \in {"active", "past_due", "trialing"}

\* A live subscription is changed in the portal; a workspace that never had one
\* gets the trial.
Checkout(p) ==
  /\ p \in DOMAIN PlanOf /\ ~LiveSubscription /\ Len(checkouts) < size.checkouts
  /\ checkouts' = Append(checkouts, [price |-> p, customer |-> ws.customer, trial |-> ws.sub = 0, done |-> FALSE])
  /\ past' = [past EXCEPT !.trials = IF ws.sub = 0 /\ past.subscribed THEN @ + 1 ELSE @]
  /\ UNCHANGED <<size, ws, subs, events, seen, job, replan, faults>>

\* A customer is named by the checkout that made it.
Event(kind, s, sub) == [kind |-> kind, sub |-> s, customer |-> sub.customer, status |-> sub.status,
                        price |-> sub.price, answered |-> FALSE]

\* The hosted page is completed: a subscription, and two events about it.
Complete(c) ==
  LET sub == [customer |-> IF checkouts[c].customer = 0 THEN c ELSE checkouts[c].customer,
              status |-> IF checkouts[c].trial THEN "trialing" ELSE "active", price |-> checkouts[c].price]
      s == Len(subs) + 1 IN
  /\ ~checkouts[c].done /\ Len(events) + 2 <= size.events
  /\ checkouts' = [checkouts EXCEPT ![c].done = TRUE]
  /\ subs' = Append(subs, sub)
  /\ events' = events \o <<Event("checkout", s, sub), Event("updated", s, sub)>>
  /\ past' = [past EXCEPT !.told = Append(@, 0)]
  /\ UNCHANGED <<size, ws, seen, job, replan, faults>>

\* A payment fails or succeeds, the portal changes the plan, it is canceled.
Move(s, status, p) ==
  LET sub == [subs[s] EXCEPT !.status = status, !.price = p] IN
  /\ subs[s].status # "canceled" /\ sub # subs[s] /\ Len(events) < size.events
  /\ subs' = [subs EXCEPT ![s] = sub]
  /\ events' = Append(events, Event(IF status = "canceled" THEN "deleted" ELSE "updated", s, sub))
  /\ UNCHANGED <<size, ws, checkouts, seen, job, replan, faults, past>>

-----------------------------------------------------------------------------
(* The webhook: handleStripeWebhook and applyStripeEvent. *)

StatusFromStripe(s) ==
  CASE s \in {"trialing", "incomplete"} -> "trialing"
    [] s = "active" -> "active"
    [] s \in {"canceled", "incomplete_expired"} -> "canceled"
    [] OTHER -> "past_due"

\* The oldest is forgotten past the bound.
Newest(q) == IF Len(q) > EventMemory THEN Tail(q) ELSE q
RememberEvent(e) == seen' = Newest(Append(seen, e))

Answered(e) ==
  /\ RememberEvent(e) /\ events' = [events EXCEPT ![e].answered = TRUE]
  /\ past' = [past EXCEPT !.recent = Newest(Append(@, e))]
  /\ job' = NoJob

Linked(ev)   == ev.customer # 0 /\ ev.customer = ws.customer
AnyLinked(ev) == Linked(ev)                                   \* mutant: a replaced subscription is heard
Concerns(ev) == Linked(ev) /\ (ws.sub = 0 \/ ws.sub = ev.sub)

\* Stripe sends an event that is not answered, or one that is, again.
Receive(e) ==
  LET ev == events[e] IN
  /\ job = NoJob /\ e \notin ToSet(seen)
  /\ \/ /\ ev.kind # "checkout" /\ ~Concerns(ev) /\ Answered(e)
     \/ /\ ev.kind # "checkout" /\ Concerns(ev)
        /\ job' = [pc |-> "write", event |-> e, row |-> ws, status |-> ev.status, price |-> ev.price, from |-> e]
        /\ UNCHANGED <<events, seen, past>>
     \/ /\ ev.kind = "checkout"
        /\ job' = [NoJob EXCEPT !.pc = "fetch", !.event = e, !.row = ws]
        /\ UNCHANGED <<events, seen, past>>
  /\ UNCHANGED <<size, ws, checkouts, subs, replan, faults>>

FetchedFromEvent == events[job.event]                        \* mutant: Stripe is not asked
Fetched == subs[events[job.event].sub]
\* GetSubscription.
Fetch ==
  /\ job.pc = "fetch"
  /\ job' = [job EXCEPT !.pc = "write", !.status = Fetched.status, !.price = Fetched.price,
                        !.from = Len(events)]
  /\ UNCHANGED <<size, ws, stripe, seen, replan, faults, past>>

\* The event is older than what its subscription's row was last written from, or
\* is about an older subscription, and is not one the server still remembers.
OutOfOrder ==
  LET ev == events[job.event] IN
  /\ job.event \notin ToSet(past.recent)
  /\ \/ ev.kind # "checkout" /\ job.from < past.told[ev.sub]
     \/ ev.kind = "checkout" /\ ws.sub > ev.sub

Told == LET s == events[job.event].sub IN
        IF job.from < past.told[s] THEN past.told ELSE [past.told EXCEPT ![s] = job.from]

ForgetIds(row) == IF row.status = "canceled" THEN [row EXCEPT !.sub = 0] ELSE row  \* mutant: ids dropped
KeepIds(row)   == row

\* applySubscription: the plan of the price, or the one the row had.
Applied ==
  LET plan == IF job.price \in DOMAIN PlanOf THEN PlanOf[job.price] ELSE job.row.plan
      ev == events[job.event] IN
  KeepIds([plan |-> IF plan = "unlimited" THEN "team" ELSE plan,
   status |-> IF ev.kind = "deleted" THEN "canceled" ELSE StatusFromStripe(job.status),
   customer |-> IF ev.kind = "checkout" THEN ev.customer ELSE job.row.customer,
   sub |-> ev.sub])

Write ==
  /\ job.pc = "write" /\ ws' = Applied /\ job' = [job EXCEPT !.pc = "answer"]
  /\ past' = [past EXCEPT !.told = Told, !.late = @ \/ OutOfOrder,
                          !.overlap = @ \/ replan.pc # "idle", !.subscribed = TRUE]
  /\ UNCHANGED <<size, stripe, seen, replan, faults>>

Answer ==
  /\ job.pc = "answer" /\ Answered(job.event)
  /\ UNCHANGED <<size, ws, checkouts, subs, replan, faults>>

\* Stripe or the database fails: an error is answered, and Stripe will retry.
WebhookFails ==
  /\ job.pc \in {"fetch", "write"} /\ job' = NoJob
  /\ UNCHANGED <<size, ws, stripe, seen, replan, faults, past>>

Restart ==
  /\ faults.restarts < size.restarts /\ faults' = [faults EXCEPT !.restarts = @ + 1]
  /\ job' = NoJob /\ seen' = <<>> /\ past' = [past EXCEPT !.recent = <<>>]
  /\ UNCHANGED <<size, ws, stripe, replan>>

-----------------------------------------------------------------------------
(* admin workspace set-plan: the row is read, then written back whole. *)

ReadRow ==
  /\ replan.pc = "idle" /\ faults.replans < size.replans
  /\ replan' = [pc |-> "write", row |-> ws] /\ faults' = [faults EXCEPT !.replans = @ + 1]
  /\ past' = [past EXCEPT !.overlap = @ \/ job.pc # "idle"]
  /\ UNCHANGED <<size, ws, stripe, seen, job>>

KeepStatus(row, plan) == [row EXCEPT !.plan = plan]   \* mutant: the status does not follow
\* Only the plan, and of the status as much as stays valid.
Replanned(row, plan) ==
  [row EXCEPT !.plan = plan, !.status = IF plan = "unlimited" THEN "unlimited"
                                        ELSE IF @ = "unlimited" THEN "active" ELSE @]
SetPlan(plan) ==
  /\ replan.pc = "write" /\ ws' = Replanned(replan.row, plan) /\ replan' = [pc |-> "idle", row |-> ws']
  /\ past' = [past EXCEPT !.overlap = @ \/ job.pc # "idle" \/ ws'.plan # ws.plan \/ ws'.status # ws.status]
  /\ UNCHANGED <<size, stripe, seen, job, faults>>

Next ==
  \/ \E p \in size.prices : Checkout(p)
  \/ \E c \in DOMAIN checkouts : Complete(c)
  \/ \E s \in DOMAIN subs, status \in size.moves, p \in size.prices : Move(s, status, p)
  \/ \E e \in DOMAIN events : Receive(e)
  \/ Fetch \/ Write \/ Answer \/ WebhookFails \/ Restart
  \/ ReadRow \/ \E plan \in {"unlimited", "solo"} : SetPlan(plan)

Spec == Init /\ [][Next]_vars

-----------------------------------------------------------------------------
(* Properties. *)

\* The row is of its kind, and is unlimited in both columns or in neither.
TypeOK ==
  /\ ws.status \in Statuses /\ ws.sub \in 0..Len(subs) /\ ws.customer \in 0..Len(checkouts)
  /\ (ws.plan = "unlimited") <=> (ws.status = "unlimited")
  /\ Len(seen) <= EventMemory /\ job.pc \in {"idle", "fetch", "write", "answer"}

Quiet == job = NoJob /\ \A e \in DOMAIN events : events[e].answered

\* Once every event is answered the row is about the newest subscription and says what Stripe
\* says of it, whatever was retried, repeated, ignored as unlinked or about a
\* replaced subscription, and however Stripe moved while an event was handled.
\* Two things the code does not defend against are excepted: an event applied after
\* a newer one, and an operator's set-plan.
SettledAgrees ==
  Quiet /\ ~past.late /\ ~past.overlap /\ subs # <<>> =>
    /\ ws.sub = Len(subs)
    /\ ws.status = StatusFromStripe(subs[ws.sub].status)
    /\ subs[ws.sub].price \in DOMAIN PlanOf => ws.plan = PlanOf[subs[ws.sub].price]

\* The ids outlive a cancellation (billing.go:134-136): once a subscription was
\* applied no later checkout carries another trial, unless the operator's stale
\* row dropped them.
NoSecondTrial == past.overlap \/ past.trials = 0

\* A late event about a subscription the workspace has since replaced must not
\* cancel the new one (billing.go:124-125).
LateEventSparesTheNewOne ==
  [][\A s \in DOMAIN subs : /\ ws.sub = s /\ ws.status \in {"active", "trialing"} /\ subs[s].status = "active"
                            /\ job.pc = "write" /\ events[job.event].sub < s
                            => ws'.status # "canceled"]_vars
=============================================================================
