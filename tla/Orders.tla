------------------------------- MODULE Orders -------------------------------
(***************************************************************************)
(* An order from checkout to hand-over: src/modules/orders/                *)
(* orders.service.ts, the transaction behind it (src/modules/payments/     *)
(* payments.service.ts), the Stripe webhooks that drive both               *)
(* (src/webhooks/stripe.webhook.ts), and the community money committed to  *)
(* it (reserve, apply, release, refundRedemptionForOrder and the           *)
(* abandoned-checkout sweep of src/modules/payforward/                     *)
(* payforward.service.ts, whose inside is module PayForward).              *)
(*                                                                         *)
(* The order, its transaction and its redemption are three documents; a    *)
(* handler updates them one await at a time.  Stripe's events may come     *)
(* late, again, and in any order.                                          *)
(***************************************************************************)
EXTENDS Naturals

CONSTANTS
  Orders,
  Workers,   \* requests, webhook deliveries and sweep runs in flight
  None

ASSUME OrdersAssumption == None \notin Orders

VARIABLES
  status,      \* orders.status
  cover,       \* how much of the order the community fund covers: "none", "part" or "full"
  txn,         \* transactions.status
  intent,      \* external: the PaymentIntent
  declined,    \* external: whether an attempt on the intent ever failed
  refunded,    \* external: what went back to the card: "no", the "lines" or "all" of it
  redemption,  \* community_redemptions.status
  announced,   \* how often the vendor was told of a new order
  task,        \* what each worker is about to do
  befell       \* history: what out of the ordinary happened to each order

vars == <<status, cover, txn, intent, declined, refunded, redemption, announced, task, befell>>

stripe == <<intent, declined, refunded>>

Idle(w) == task[w].step = "idle"

At(w, s) == task[w].step = s

OrderOf(w) == task[w].order

\* A handler begins on an order; another may be at work on it.
Begin(w, o, s) ==
  /\ task' = [task EXCEPT ![w] = [step |-> s, order |-> o]]
  /\ befell' = [befell EXCEPT ![o] =
                  IF \E v \in Workers : OrderOf(v) = o THEN @ \cup {"overlap"} ELSE @]

Resting == [step |-> "idle", order |-> None]

\* A handler goes on, or ends, after something out of the ordinary.
GotoAfter(w, mishap, s) ==
  /\ task' = [task EXCEPT ![w].step = s]
  /\ befell' = [befell EXCEPT ![OrderOf(w)] = @ \cup {mishap}]

FinishAfter(w, mishap) ==
  /\ task' = [task EXCEPT ![w] = Resting]
  /\ befell' = [befell EXCEPT ![OrderOf(w)] = @ \cup {mishap}]

Goto(w, s) == task' = [task EXCEPT ![w].step = s] /\ UNCHANGED befell

Finish(w) == task' = [task EXCEPT ![w] = Resting] /\ UNCHANGED befell

\* repo.transition: a findOneAndUpdate guarded by the status it moves from.
Transition(o, from, to) == status[o] \in from /\ status' = [status EXCEPT ![o] = to]

\* A guarded update of the redemption whose miss is not an error.
Redeem(o, from, to) ==
  redemption' = [redemption EXCEPT ![o] = IF @ = from THEN to ELSE @]

\* completePendingByPaymentIntent, completePendingById, failPendingByPaymentIntent.
SettleTxn(o, to) == txn' = [txn EXCEPT ![o] = IF @ = "pending" THEN to ELSE @]

(***************************************************************************)
(* place()                                                                 *)
(***************************************************************************)

\* Prices are fixed, and the pool takes c of them if it is asked and has it.
PlaceReserve(w, o, c) ==
  /\ Idle(w)
  /\ Transition(o, {"none"}, "checkout")
  /\ cover' = [cover EXCEPT ![o] = c]
  /\ redemption' = [redemption EXCEPT ![o] = IF c = "none" THEN @ ELSE "reserved"]
  /\ Begin(w, o, "place_charge")
  /\ UNCHANGED <<txn, stripe, announced>>

\* The pool and a suspended item were both asked for: refused, after the reservation.
PlaceBothOptions(w) ==
  /\ At(w, "place_charge")
  /\ Transition(OrderOf(w), {"checkout"}, "refused")
  /\ FinishAfter(w, "both_options")
  /\ UNCHANGED <<cover, txn, stripe, redemption, announced>>

\* charge(): the transaction is recorded, then the PaymentIntent opened.
PlaceCharge(w) ==
  LET o == OrderOf(w) IN
    /\ At(w, "place_charge")
    /\ cover[o] # "full"
    /\ txn' = [txn EXCEPT ![o] = "pending"]
    /\ \/ /\ intent' = [intent EXCEPT ![o] = "open"]
          /\ Goto(w, "place_order")
       \/ /\ Goto(w, "place_release")
          /\ UNCHANGED intent
    /\ UNCHANGED <<cover, status, declined, refunded, redemption, announced>>

PlaceRelease(w) ==
  LET o == OrderOf(w) IN
    /\ At(w, "place_release")
    /\ Transition(o, {"checkout"}, "refused")
    /\ Redeem(o, "reserved", "released")
    /\ Finish(w)
    /\ UNCHANGED <<cover, txn, stripe, announced>>

\* Mutant: an order is real as soon as its charge is open.
PlaceOrderAtOnce(w) ==
  /\ At(w, "place_order") \/ (At(w, "place_charge") /\ cover[OrderOf(w)] = "full")
  /\ Transition(OrderOf(w), {"checkout"}, "pending")
  /\ Goto(w, "apply")
  /\ UNCHANGED <<cover, txn, stripe, redemption, announced>>

\* A card order waits for its money; a fully covered one is real at once.
PlaceOrder(w) ==
  LET o == OrderOf(w) IN
    /\ \/ /\ At(w, "place_order")
          /\ Transition(o, {"checkout"}, "pending_payment")
          /\ Finish(w)
       \/ /\ At(w, "place_charge") /\ cover[o] = "full"
          /\ Transition(o, {"checkout"}, "pending")
          /\ Goto(w, "apply")
    /\ UNCHANGED <<cover, txn, stripe, redemption, announced>>

\* Mutant: the fund is spent and the vendor not told.
ApplySilent(w) ==
  /\ At(w, "apply")
  /\ Redeem(OrderOf(w), "reserved", "applied")
  /\ Goto(w, "complete_txn")
  /\ UNCHANGED <<cover, status, txn, stripe, announced>>

\* announcePlaced: the fund is spent, then the vendor told.
Apply(w) ==
  /\ At(w, "apply")
  /\ Redeem(OrderOf(w), "reserved", "applied")
  /\ Goto(w, "announce")
  /\ UNCHANGED <<cover, status, txn, stripe, announced>>

Announce(w) ==
  LET o == OrderOf(w) IN
    /\ At(w, "announce")
    /\ announced' = [announced EXCEPT ![o] = @ + 1]
    /\ IF cover[o] = "full" THEN Finish(w) ELSE Goto(w, "complete_txn")
    /\ UNCHANGED <<cover, status, txn, stripe, redemption>>

(***************************************************************************)
(* The customer's card, and the webhooks Stripe sends about it.            *)
(***************************************************************************)

\* External: the customer confirms the intent; a failed attempt leaves it open to another card.
CardClears(o) ==
  /\ intent[o] = "open" /\ status[o] \notin {"none", "checkout"}
  /\ intent' = [intent EXCEPT ![o] = "succeeded"]
  /\ befell' = [befell EXCEPT ![o] = IF declined[o] THEN @ \cup {"second_card"} ELSE @]
  /\ UNCHANGED <<cover, status, txn, declined, refunded, redemption, announced, task>>

CardDeclines(o) ==
  /\ intent[o] = "open" /\ status[o] \notin {"none", "checkout"} /\ ~declined[o]
  /\ declined' = [declined EXCEPT ![o] = TRUE]
  /\ UNCHANGED <<cover, status, txn, intent, refunded, redemption, announced, task, befell>>

\* Mutant: a second delivery finds the order it has already confirmed.
ConfirmClaimAgain(w, o) ==
  /\ Idle(w)
  /\ intent[o] = "succeeded"
  /\ Transition(o, {"pending_payment", "pending"}, "pending")
  /\ Begin(w, o, "apply")
  /\ UNCHANGED <<cover, txn, stripe, redemption, announced>>

\* payment_intent.succeeded for an order still awaiting its payment: confirmByPaymentIntent.
ConfirmClaim(w, o) ==
  /\ Idle(w)
  /\ intent[o] = "succeeded"
  /\ Transition(o, {"pending_payment"}, "pending")
  /\ Begin(w, o, "apply")
  /\ UNCHANGED <<cover, txn, stripe, redemption, announced>>

CompleteTxn(w) ==
  /\ At(w, "complete_txn")
  /\ SettleTxn(OrderOf(w), "completed")
  /\ Finish(w)
  /\ UNCHANGED <<cover, status, stripe, redemption, announced>>

\* The same event for an order that is not: completeByPaymentIntent alone.  The vendor's
\* payouts screen (reconcilePendingCharges) does this at any time.
SettlePaid(o) ==
  /\ intent[o] = "succeeded"
  /\ txn[o] = "pending"
  /\ SettleTxn(o, "completed")
  /\ UNCHANGED <<cover, status, stripe, redemption, announced, task, befell>>

\* payment_intent.payment_failed: failByPaymentIntent of the order ...
FailClaim(w, o) ==
  /\ Idle(w)
  /\ declined[o]
  /\ Transition(o, {"pending_payment"}, "cancelled")
  /\ Begin(w, o, "release")
  /\ UNCHANGED <<cover, txn, stripe, redemption, announced>>

\* Mutant: the reservation outlives the order.
ReleaseNothing(w) ==
  /\ At(w, "release")
  /\ Finish(w)
  /\ UNCHANGED <<cover, status, txn, stripe, redemption, announced>>

Release(w) ==
  /\ At(w, "release")
  /\ Redeem(OrderOf(w), "reserved", "released")
  /\ Finish(w)
  /\ UNCHANGED <<cover, status, txn, stripe, announced>>

\* ... or, once the order is not awaiting payment, of its transaction.
FailTxn(o) ==
  /\ declined[o] /\ status[o] # "pending_payment"
  /\ txn[o] = "pending"
  /\ SettleTxn(o, "failed")
  /\ UNCHANGED <<cover, status, stripe, redemption, announced, task, befell>>

(***************************************************************************)
(* The vendor's screen: accept, ready, complete.                           *)
(***************************************************************************)

Accept(o) ==
  /\ Transition(o, {"pending"}, "accepted")
  /\ UNCHANGED <<cover, txn, stripe, redemption, announced, task, befell>>

Ready(o) ==
  /\ Transition(o, {"accepted"}, "ready")
  /\ UNCHANGED <<cover, txn, stripe, redemption, announced, task, befell>>

\* Mutant: the hand-over does not look at what the order has become.
CompleteAnyway(w, o) ==
  /\ Idle(w)
  /\ Transition(o, {"ready", "cancelled"}, "completed")
  /\ Begin(w, o, "complete_txn")
  /\ UNCHANGED <<cover, txn, stripe, redemption, announced>>

\* Handing the food over also settles the transaction (completeForOrder).
Complete(w, o) ==
  /\ Idle(w)
  /\ Transition(o, {"ready"}, "completed")
  /\ Begin(w, o, "complete_txn")
  /\ UNCHANGED <<cover, txn, stripe, redemption, announced>>

(***************************************************************************)
(* cancel()                                                                *)
(***************************************************************************)

CancelClaim(w, o) ==
  /\ Idle(w)
  /\ Transition(o, {"pending", "accepted"}, "cancelled")
  /\ Begin(w, o, IF cover[o] = "full" THEN "cancel_community" ELSE "cancel_read")
  /\ UNCHANGED <<cover, txn, stripe, redemption, announced>>

\* Mutant: the refund looks for a transaction that has not settled.
CancelReadPending(w) ==
  /\ At(w, "cancel_read")
  /\ Goto(w, IF txn[OrderOf(w)] = "pending" THEN "cancel_stripe" ELSE "cancel_community")
  /\ UNCHANGED <<cover, status, txn, stripe, redemption, announced>>

\* refund(): only a completed transaction can be refunded; cancel swallows the refusal.
CancelRead(w) ==
  /\ At(w, "cancel_read")
  /\ Goto(w, IF txn[OrderOf(w)] = "completed" THEN "cancel_stripe" ELSE "cancel_community")
  /\ UNCHANGED <<cover, status, txn, stripe, redemption, announced>>

\* createRefund of the whole charge; Stripe refuses more than is left of it.
CancelStripe(w) ==
  LET o == OrderOf(w) IN
    /\ At(w, "cancel_stripe")
    /\ \/ /\ refunded[o] = "no"
          /\ refunded' = [refunded EXCEPT ![o] = "all"]
          /\ Goto(w, "cancel_mark")
       \/ /\ GotoAfter(w, "refund_refused", "cancel_community")
          /\ UNCHANGED refunded
    /\ UNCHANGED <<cover, status, txn, intent, declined, redemption, announced>>

\* markRefunded
CancelMark(w) ==
  /\ At(w, "cancel_mark")
  /\ txn' = [txn EXCEPT ![OrderOf(w)] = IF @ = "completed" THEN "refunded" ELSE @]
  /\ Goto(w, "cancel_community")
  /\ UNCHANGED <<cover, status, stripe, redemption, announced>>

\* refundRedemptionForOrder
CancelCommunity(w) ==
  /\ At(w, "cancel_community")
  /\ Redeem(OrderOf(w), "applied", "refunded")
  /\ Finish(w)
  /\ UNCHANGED <<cover, status, txn, stripe, announced>>

(***************************************************************************)
(* removeLineItem(), for the last line of an order                         *)
(***************************************************************************)

RemoveRead(w, o) ==
  /\ Idle(w)
  /\ status[o] \in {"pending", "accepted"}
  /\ Begin(w, o, IF cover[o] = "full" THEN "remove_update" ELSE "remove_refund")
  /\ UNCHANGED <<cover, status, txn, stripe, redemption, announced>>

\* refundAmount: a line may cost more than the card paid of a partly covered order.
RemoveRefund(w) ==
  LET o == OrderOf(w) IN
    /\ At(w, "remove_refund")
    /\ \/ /\ txn[o] = "completed" /\ refunded[o] = "no"
          /\ refunded' = [refunded EXCEPT ![o] = "lines"]
          /\ GotoAfter(w, "line_removed", "remove_update")
       \/ /\ txn[o] # "completed" \/ refunded[o] = "all" \/ cover[o] = "part"
          /\ Finish(w)
          /\ UNCHANGED refunded
       \/ /\ txn[o] = "completed" /\ refunded[o] = "lines"  \* the same idempotency key
          /\ Goto(w, "remove_update")
          /\ UNCHANGED refunded
    /\ UNCHANGED <<cover, status, txn, intent, declined, redemption, announced>>

\* repo.update, unlike repo.transition, does not look at the status it overwrites.
RemoveUpdate(w) ==
  /\ At(w, "remove_update")
  /\ status' = [status EXCEPT ![OrderOf(w)] = "cancelled"]
  /\ FinishAfter(w, "line_removed")
  /\ UNCHANGED <<cover, txn, stripe, redemption, announced>>

(***************************************************************************)
(* releaseAbandonedCheckouts()                                             *)
(***************************************************************************)

SweepRead(w, o) ==
  /\ Idle(w)
  /\ status[o] = "pending" /\ cover[o] # "none"
  /\ Begin(w, o, "sweep_txn")
  /\ UNCHANGED <<cover, status, txn, stripe, redemption, announced>>

\* Mutant: the sweep does not look whether the card was charged.
SweepTxnUnread(w) ==
  /\ At(w, "sweep_txn")
  /\ Goto(w, "sweep_redeem")
  /\ UNCHANGED <<cover, status, txn, stripe, redemption, announced>>

SweepTxn(w) ==
  /\ At(w, "sweep_txn")
  /\ IF txn[OrderOf(w)] \in {"none", "pending"} THEN Goto(w, "sweep_redeem") ELSE Finish(w)
  /\ UNCHANGED <<cover, status, txn, stripe, redemption, announced>>

SweepRedeem(w) ==
  LET o == OrderOf(w) IN
    /\ At(w, "sweep_redeem")
    /\ Redeem(o, "applied", "released")
    /\ IF redemption[o] = "applied" THEN GotoAfter(w, "swept", "sweep_close") ELSE Finish(w)
    /\ UNCHANGED <<cover, status, txn, stripe, announced>>

SweepClose(w) ==
  LET o == OrderOf(w) IN
    /\ At(w, "sweep_close")
    /\ status' = [status EXCEPT ![o] = IF @ = "pending" THEN "cancelled" ELSE @]
    /\ Finish(w)
    /\ UNCHANGED <<cover, txn, stripe, redemption, announced>>

\* The process dies in the middle of a handler.
Crash(w) ==
  /\ ~Idle(w)
  /\ FinishAfter(w, "crash")
  /\ UNCHANGED <<cover, status, txn, stripe, redemption, announced>>

(***************************************************************************)
(* The specification                                                       *)
(***************************************************************************)

Init ==
  /\ status = [o \in Orders |-> "none"]
  /\ cover = [o \in Orders |-> "none"]
  /\ txn = [o \in Orders |-> "none"]
  /\ intent = [o \in Orders |-> "none"]
  /\ declined = [o \in Orders |-> FALSE]
  /\ refunded = [o \in Orders |-> "no"]
  /\ redemption = [o \in Orders |-> "none"]
  /\ announced = [o \in Orders |-> 0]
  /\ task = [w \in Workers |-> Resting]
  /\ befell = [o \in Orders |-> {}]

\* The first step of a handler, which claims or reads an order.
Call(w, o) ==
  \/ \E c \in {"none", "part", "full"} : PlaceReserve(w, o, c)
  \/ ConfirmClaim(w, o)
  \/ FailClaim(w, o)
  \/ Complete(w, o)
  \/ CancelClaim(w, o)
  \/ RemoveRead(w, o)
  \/ SweepRead(w, o)

\* The steps that are whole handlers, and what happens at Stripe.
Instant(o) ==
  \/ CardClears(o)
  \/ CardDeclines(o)
  \/ SettlePaid(o)
  \/ FailTxn(o)
  \/ Accept(o)
  \/ Ready(o)

\* What follows the first step of a handler.
Continue(w) ==
  \/ PlaceCharge(w)
  \/ PlaceRelease(w)
  \/ PlaceOrder(w)
  \/ Apply(w)
  \/ Announce(w)
  \/ CompleteTxn(w)
  \/ Release(w)
  \/ CancelRead(w)
  \/ CancelStripe(w)
  \/ CancelMark(w)
  \/ CancelCommunity(w)
  \/ RemoveRefund(w)
  \/ RemoveUpdate(w)
  \/ SweepTxn(w)
  \/ SweepRedeem(w)
  \/ SweepClose(w)

Next ==
  \/ \E w \in Workers, o \in Orders : Call(w, o)
  \/ \E o \in Orders : Instant(o)
  \/ \E w \in Workers : Continue(w) \/ PlaceBothOptions(w) \/ Crash(w)

Spec == Init /\ [][Next]_vars

\* A handler that began goes on, Stripe redelivers an event until it is answered, and the
\* sweep runs again and again.  No one is bound to pay, to accept or to cancel.
FairSpec ==
  /\ Spec
  /\ \A w \in Workers : WF_vars(Continue(w))
  /\ \A o \in Orders :
       /\ SF_vars(\E w \in Workers : ConfirmClaim(w, o))
       /\ SF_vars(\E w \in Workers : FailClaim(w, o))
       /\ SF_vars(\E w \in Workers : SweepRead(w, o))
       /\ WF_vars(SettlePaid(o))

(***************************************************************************)
(* Properties.  Each names the mishaps it does not survive: without them   *)
(* it holds of an order whatever befalls the others.                       *)
(***************************************************************************)

Statuses == {"none", "checkout", "refused", "pending_payment", "pending", "accepted",
             "ready", "completed", "cancelled"}

Steps == {"idle", "place_charge", "place_release", "place_order", "apply", "announce",
          "complete_txn", "release", "cancel_read", "cancel_stripe", "cancel_mark",
          "cancel_community", "remove_refund", "remove_update", "sweep_txn",
          "sweep_redeem", "sweep_close"}

Mishaps == {"overlap", "both_options", "second_card", "refund_refused", "line_removed",
            "swept", "crash"}

\* No handler is in the middle of its work on the order, and nothing of the kind befell it.
Settled(o, mishaps) ==
  (\A w \in Workers : OrderOf(w) # o) /\ befell[o] \cap mishaps = {}

\* Every document has one of its statuses, and a worker at work has an order.
TypeOK ==
  /\ status \in [Orders -> Statuses]
  /\ cover \in [Orders -> {"none", "part", "full"}]
  /\ txn \in [Orders -> {"none", "pending", "completed", "failed", "refunded"}]
  /\ intent \in [Orders -> {"none", "open", "succeeded"}]
  /\ declined \in [Orders -> BOOLEAN]
  /\ refunded \in [Orders -> {"no", "lines", "all"}]
  /\ redemption \in [Orders -> {"none", "reserved", "applied", "released", "refunded"}]
  /\ announced \in [Orders -> Nat]
  /\ befell \in [Orders -> SUBSET Mishaps]
  /\ task \in [Workers -> [step : Steps, order : Orders \cup {None}]]
  /\ \A w \in Workers : Idle(w) <=> OrderOf(w) = None

\* An order the vendor can see (place, confirmByPaymentIntent) is one whose money is real:
\* its card cleared, or the community pays for all of it.
VendorOnlyPaid ==
  \A o \in Orders :
    status[o] \in {"pending", "accepted", "ready", "completed"}
      => cover[o] = "full" \/ intent[o] = "succeeded"

\* The vendor is told of an order once (announcePlaced), however often Stripe delivers its
\* event and whichever deliveries overlap.
AnnouncedOnce == \A o \in Orders : announced[o] <= 1

\* What was handed over (complete) was paid for and stays paid for: its transaction is
\* settled, nothing of it went back to the card, and the community's share was spent.
ServedIsPaid ==
  \A o \in Orders :
    Settled(o, {"crash", "second_card", "swept"}) /\ status[o] = "completed" =>
      /\ cover[o] # "full" => txn[o] = "completed" /\ refunded[o] = "no"
      /\ cover[o] # "none" => redemption[o] = "applied"

\* A customer whose card cleared for an order that was cancelled (cancel,
\* failByPaymentIntent) got all of it back.
CancelledIsRefunded ==
  \A o \in Orders :
    Settled(o, {"crash", "overlap", "second_card", "refund_refused", "line_removed"}) =>
      (status[o] = "cancelled" /\ intent[o] = "succeeded" => refunded[o] = "all")

\* What was served was paid for and what was not served was given back (complete, cancel,
\* removeLineItem, failByPaymentIntent).
PaidAndRefunded == ServedIsPaid /\ CancelledIsRefunded

\* The pool's money is held (reserve) only for an order that can still be paid for.
HeldOnlyForOrders ==
  \A o \in Orders :
    Settled(o, {"crash", "both_options"}) /\ redemption[o] = "reserved"
      => status[o] = "pending_payment"

\* The community's share of a cancelled order goes back to it (refundRedemptionForOrder).
CommunityShareReturned ==
  \A o \in Orders :
    Settled(o, {"crash", "overlap", "line_removed"}) /\ status[o] = "cancelled"
      => redemption[o] # "applied"

\* The community's money follows the order it was reserved for (place, cancel, the sweep).
CommunityMoneyFollows == HeldOnlyForOrders /\ CommunityShareReturned

\* An order that was handed over or cancelled stays so, whatever the other handlers that
\* had read it before then write.
TerminalStays ==
  [][\A o \in Orders :
       status[o] \in {"completed", "cancelled"} /\ "line_removed" \notin befell'[o]
         => status'[o] = status[o]]_vars

\* The sweep of abandoned checkouts (releaseAbandonedCheckouts) never gives back the
\* community's share of an order whose card cleared.
PaidNeverUnwound ==
  [][\A o \in Orders :
       redemption[o] = "applied" /\ redemption'[o] = "released"
         => intent[o] # "succeeded" \/ befell[o] \cap {"crash", "overlap"} # {}]_vars

\* Once the card of a customer cleared, the vendor is told of the order.
PaidIsHeard ==
  \A o \in Orders :
    intent[o] = "succeeded"
      ~> announced[o] = 1 \/ befell[o] \cap {"crash", "second_card"} # {}

\* Money held for a checkout is spent on it or given back, though the customer walk away.
AbandonedReleased == \A o \in Orders : redemption[o] = "reserved" ~> redemption[o] # "reserved"

\* A cancelled order never keeps a customer's money.
NeverChargedForNothing ==
  \A o \in Orders :
    Settled(o, {}) /\ status[o] = "cancelled" /\ intent[o] = "succeeded" => refunded[o] = "all"
=============================================================================
