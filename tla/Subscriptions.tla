--------------------------- MODULE Subscriptions ----------------------------
(***************************************************************************)
(* One subscriber's plan: the row that entitlements are read from, the     *)
(* subscriptions Stripe holds for it, the events and the sweep that bring  *)
(* the row up to date, and the losses a Stock Protection plan waives.      *)
(*                                                                         *)
(* A subscription at Stripe is named by the idempotency key it was created *)
(* under.  Time is shown by what is recent and what is old: the waiting     *)
(* period of new cover lies between the two.                               *)
(***************************************************************************)
EXTENDS Handlers, SequencesExt

CONSTANTS
  Keys,        \* idempotency keys: one for each time somebody asks to subscribe
  Turns,       \* bound: how often Stripe's subscriptions change after the first payment
  Losses,      \* checkouts whose stock does not come back
  Liability,   \* what the seller owes for each
  CoverCap,    \* WAIVER_COVER_CAP_CENTS
  PeriodCap    \* WAIVER_PERIOD_CAP_CENTS; one behaviour lies within one period

ASSUME SubscriptionsAssumption ==
  /\ None \notin Keys /\ IsFiniteSet(Losses)
  /\ Liability \in Nat /\ CoverCap \in Nat /\ PeriodCap \in Nat

VARIABLES
  row,         \* subscriptions: the subscriber's row for the plan
  held,        \* external: the status of each subscription at Stripe
  since,       \* history: when each was first paid
  shown,        \* external: the keys whose payment form the subscriber was shown
  events,      \* external: what Stripe is about to deliver of each, in order
  turns,
  waived,      \* waiver_uses: what was waived of each loss
  owed         \* debts: what is owed for each loss

subscriptionVars == <<row, held, since, shown, events, turns, waived, owed, task, befell>>

stripe == <<held, since, events, turns>>
losses == <<waived, owed>>

Entitled(status) == status \in {"active", "trialing"}

NoRow == [status |-> "none", sub |-> None, created |-> "never", activated |-> "never"]

SubscriptionsInit ==
  /\ row = NoRow
  /\ held = [k \in Keys |-> "none"]
  /\ since = [k \in Keys |-> "never"]
  /\ shown = {}
  /\ events = [k \in Keys |-> <<>>]
  /\ turns = 0
  /\ waived = [l \in Losses |-> None]
  /\ owed = [l \in Losses |-> None]

(***************************************************************************)
(* Stripe and the subscriber.                                              *)
(***************************************************************************)

Reports(k, status) ==
  /\ held' = [held EXCEPT ![k] = status]
  /\ events' = [events EXCEPT ![k] = Append(@, status)]
  /\ Outside
  /\ UNCHANGED <<row, shown, losses>>

FirstPayment(k) ==
  /\ k \in shown
  /\ held[k] = "incomplete"
  /\ since' = [since EXCEPT ![k] = "recent"]
  /\ Reports(k, "active")
  /\ UNCHANGED turns

\* A renewal fails, a card is replaced, the retries run out, a first payment is never made.
Turn(k) ==
  /\ turns < Turns
  /\ turns' = turns + 1
  /\ \/ held[k] = "active" /\ Reports(k, "past_due")
     \/ held[k] = "past_due" /\ (Reports(k, "active") \/ Reports(k, "canceled"))
     \/ held[k] = "incomplete" /\ Reports(k, "incomplete_expired")
  /\ UNCHANGED since

Aged(date) == IF date = "recent" THEN "old" ELSE date

WaitingPeriodPasses ==
  /\ row' = [row EXCEPT !.created = Aged(@), !.activated = Aged(@)]
  /\ since' = [k \in Keys |-> Aged(since[k])]
  /\ row.created = "recent" \/ row.activated = "recent" \/ \E k \in Keys : since[k] = "recent"
  /\ Outside
  /\ UNCHANGED <<held, shown, events, turns, losses>>

\* A delivery is lost for good.
EventLost(k) ==
  /\ events[k] # <<>>
  /\ events' = [events EXCEPT ![k] = Tail(@)]
  /\ Befalls("lost")
  /\ UNCHANGED <<task, row, held, since, shown, turns, losses>>

(***************************************************************************)
(* Subscribing, confirming, cancelling.                                    *)
(***************************************************************************)

\* Stripe may still collect on these.
Alive == {k \in Keys : held[k] \in {"incomplete", "active", "past_due"}}

\* To subscribe once more, under another key, is out of the ordinary: while the earlier subscription
\* is alive, and after it.
SubscribeRead(w, k) ==
  LET t == [step |-> "sub_create", k |-> k] IN
  /\ ~Entitled(row.status)
  /\ IF ~(Alive \subseteq {k}) THEN BeginAmid(w, t, "again")
     ELSE IF row.sub \notin {k, None} THEN BeginAmid(w, t, "resubscribed")
     ELSE Begin(w, t)
  /\ UNCHANGED <<row, shown, stripe, losses>>

\* Under a key it has seen Stripe answers what it answered then.
SubscribeCreate(w) ==
  LET k == task[w].k IN
  /\ At(w, "sub_create")
  /\ held' = IF held[k] = "none" THEN [held EXCEPT ![k] = "incomplete"] ELSE held
  /\ Goto(w, "sub_row")
  /\ UNCHANGED <<row, shown, since, events, turns, losses>>

\* upsert: the date of activation is set once and never moved.
Upserted(k, status) ==
  [status |-> status, sub |-> k,
   created |-> IF row.created = "never" THEN "recent" ELSE row.created,
   activated |-> IF Entitled(status) /\ row.activated = "never" THEN "recent" ELSE row.activated]

SubscribeRow(w) ==
  /\ At(w, "sub_row")
  /\ row' = Upserted(task[w].k, "incomplete")
  /\ shown' = shown \cup {task[w].k}
  /\ Finish(w)
  /\ UNCHANGED <<stripe, losses>>

ConfirmRead(w) ==
  /\ row.sub # None
  /\ Begin(w, [step |-> "confirm", k |-> row.sub, status |-> held[row.sub]])
  /\ UNCHANGED <<row, shown, stripe, losses>>

ConfirmRow(w) ==
  /\ At(w, "confirm")
  /\ row' = Upserted(task[w].k, task[w].status)
  /\ Finish(w)
  /\ UNCHANGED <<shown, stripe, losses>>

\* Mutant: a plan is cancelled here and not at Stripe.
CancelledHereOnly(k) == UNCHANGED <<held, events>>

CancelledAtStripe(k) ==
  /\ held' = [held EXCEPT ![k] = "canceled"]
  /\ events' = [events EXCEPT ![k] = Append(@, "canceled")]

\* Stripe cancels at once; a subscription already over is refused, and then nothing is written.
CancelRead(w) ==
  /\ Entitled(row.status)
  /\ row.sub \in Alive
  /\ CancelledAtStripe(row.sub)
  /\ Begin(w, [step |-> "cancel"])
  /\ UNCHANGED <<row, shown, since, turns, losses>>

CancelRow(w) ==
  /\ At(w, "cancel")
  /\ row' = [row EXCEPT !.status = "canceled"]
  /\ Finish(w)
  /\ UNCHANGED <<shown, stripe, losses>>

(***************************************************************************)
(* Stripe's view is applied, by the webhook and by the daily sweep.        *)
(***************************************************************************)

Applies(k, status) == [step |-> "apply_read", k |-> k, status |-> status]

\* Events arrive in order, or, out of the ordinary, not.
EventArrives(w, k) ==
  \E i \in 1..Len(events[k]) :
    /\ events' = [events EXCEPT ![k] = RemoveAt(@, i)]
    /\ IF i = 1 THEN Begin(w, Applies(k, events[k][i]))
                ELSE BeginAmid(w, Applies(k, events[k][i]), "reordered")
    /\ UNCHANGED <<row, held, since, shown, turns, losses>>

\* reconcile: the entitled row's subscription is read again.
Reconcile(w) ==
  /\ Entitled(row.status)
  /\ Begin(w, Applies(row.sub, held[row.sub]))
  /\ UNCHANGED <<row, shown, stripe, losses>>

\* A subscription we do not know, or a status we have, changes nothing.
StateRead(w) ==
  /\ At(w, "apply_read")
  /\ IF row.sub = task[w].k /\ row.status # task[w].status THEN Goto(w, "apply") ELSE Finish(w)
  /\ UNCHANGED <<row, shown, stripe, losses>>

\* Found by Stripe's identifier again.
StateRow(w) ==
  /\ At(w, "apply")
  /\ row' = IF row.sub = task[w].k THEN [row EXCEPT !.status = task[w].status] ELSE row
  /\ Finish(w)
  /\ UNCHANGED <<shown, stripe, losses>>

(***************************************************************************)
(* A loss is charged to the seller, less what the plan waives.             *)
(***************************************************************************)

Waiver == [l \in Losses |-> IF waived[l] = None THEN 0 ELSE waived[l]]

Used == SumFunctionOnSet(Waiver, Losses)

Smaller(a, b) == IF a <= b THEN a ELSE b

\* The plan's start is its activation, or the row's creation when no activation was recorded.
Started == IF row.activated = "never" THEN row.created ELSE row.activated

Cover == Smaller(Liability, Smaller(CoverCap, PeriodCap - Used))

\* Only an active plan past its waiting period covers anything.  A plan nobody confirmed has no date
\* of its own.
LossRead(w, l) ==
  LET covered == row.status = "active" /\ Started = "old"
      t == [step |-> "loss", l |-> l, cover |-> IF covered THEN Cover ELSE 0,
            waited |-> covered => since[row.sub] = "old"]
  IN
  /\ owed[l] = None
  /\ \A v \in Workers : At(v, "loss") \/ At(v, "loss_debt") => task[v].l # l
  /\ IF covered /\ row.activated = "never" THEN BeginAmid(w, t, "unconfirmed") ELSE Begin(w, t)
  /\ UNCHANGED <<row, shown, stripe, losses>>

\* One use per checkout: a second is not made, and nothing is waived then.
LossWaive(w) ==
  LET l == task[w].l
      used == task[w].cover > 0 /\ waived[l] = None
  IN
  /\ At(w, "loss")
  /\ waived' = IF used THEN [waived EXCEPT ![l] = task[w].cover] ELSE waived
  /\ Becomes(w, [step |-> "loss_debt", l |-> l, waited |-> task[w].waited,
                 rest |-> Liability - (IF used THEN task[w].cover ELSE 0)])
  /\ UNCHANGED <<row, shown, stripe, owed, befell>>

LossDebt(w) ==
  /\ At(w, "loss_debt")
  /\ owed' = [owed EXCEPT ![task[w].l] = task[w].rest]
  /\ Finish(w)
  /\ UNCHANGED <<row, shown, stripe, waived>>

SubscriptionHandlerDies(w) == Dies(w) /\ UNCHANGED <<row, shown, stripe, losses>>

SubscriptionsNext ==
  \/ WaitingPeriodPasses
  \/ \E k \in Keys : FirstPayment(k) \/ Turn(k) \/ EventLost(k)
  \/ \E w \in Workers :
       \/ \E k \in Keys : SubscribeRead(w, k) \/ EventArrives(w, k)
       \/ \E l \in Losses : LossRead(w, l)
       \/ SubscribeCreate(w) \/ SubscribeRow(w)
       \/ ConfirmRead(w) \/ ConfirmRow(w)
       \/ CancelRead(w) \/ CancelRow(w)
       \/ Reconcile(w) \/ StateRead(w) \/ StateRow(w)
       \/ LossWaive(w) \/ LossDebt(w)
       \/ SubscriptionHandlerDies(w)

(***************************************************************************)
(* Properties                                                              *)
(***************************************************************************)

AllDelivered == AllIdle /\ \A k \in Keys : events[k] = <<>>

\* Once every event has been handled, a plan is honoured exactly while Stripe is paid for it.
EntitledIsPaid ==
  AllDelivered /\ Spared({"lost", "reordered", "again", "overlap", "crash"}) =>
    (Entitled(row.status) <=> \E k \in Keys : held[k] = "active")

\* Nobody pays for the plan twice.
PaidOnce ==
  Spared({"again", "overlap"}) =>
    Cardinality({k \in Keys : held[k] \in {"active", "past_due"}}) <= 1

\* A plan that was cancelled is not charged again.
CancelledIsOver ==
  AllIdle /\ Spared({"reordered", "again", "overlap"}) =>
    (row.status = "canceled" => held[row.sub] = "canceled")

\* A plan waives no more than the period's cap.
WaivedWithinCap ==
  Spared({"overlap"}) => Used <= PeriodCap

\* New cover waits: nothing is waived under a subscription whose first payment is recent.
CoverWaits ==
  Spared({"again", "resubscribed", "unconfirmed", "overlap"}) =>
    \A w \in Workers : At(w, "loss") \/ At(w, "loss_debt") => task[w].waited

\* What is not waived of a loss is owed, and nothing more.
RestIsOwed ==
  AllIdle /\ Spared({"crash"}) =>
    \A l \in Losses :
      /\ owed[l] # None => owed[l] + Waiver[l] = Liability
      /\ waived[l] # None => owed[l] # None

SubscriptionsRight ==
  EntitledIsPaid /\ PaidOnce /\ CancelledIsOver /\ WaivedWithinCap /\ CoverWaits /\ RestIsOwed

=============================================================================
