--------------------------- MODULE SuspendedItems ---------------------------
(***************************************************************************)
(* Pay It Forward, one item at a time: a giver buys an item that waits for *)
(* whoever comes next.  An order cannot take one: reserve writes a         *)
(* redemption of no cents, which its schema refuses, before it touches the *)
(* item; and nothing calls the sweep that would expire an item.  So an     *)
(* item is bought, stays, and may be given back.                           *)
(***************************************************************************)
EXTENDS Handlers

CONSTANT Suspended  \* items bought

VARIABLES
  waiting,  \* community_item_contributions
  itemCard,       \* Stripe's side: none, open, paid, returned; one payment for each item
  news        \* events Stripe has yet to deliver: each of an item, paid or failed

itemVars == <<waiting, itemCard, news, task, befell>>

\* `late' is history: the row was closed by a failure while it was pending.
NotBought == [status |-> "none", linked |-> FALSE, late |-> FALSE]

ItemsInit ==
  /\ waiting = [i \in Suspended |-> NotBought]
  /\ itemCard = [i \in Suspended |-> "none"]
  /\ news = {}

(***************************************************************************)
(* contribute: the row, with a placeholder; the charge; the charge's id.   *)
(***************************************************************************)

ContributeRow(w, i) ==
  /\ waiting[i].status = "none"
  /\ waiting' = [waiting EXCEPT ![i].status = "pending"]
  /\ Begin(w, [step |-> "item_charge", of |-> i])
  /\ UNCHANGED <<itemCard, news>>

ContributeCharge(w) ==
  /\ At(w, "item_charge")
  /\ itemCard' = [itemCard EXCEPT ![task[w].of] = "open"]
  /\ Goto(w, "item_link")
  /\ UNCHANGED <<waiting, news>>

ContributeLink(w) ==
  /\ At(w, "item_link")
  /\ waiting' = [waiting EXCEPT ![task[w].of].linked = TRUE]
  /\ Finish(w)
  /\ UNCHANGED <<itemCard, news>>

\* The giver, who has the form once contribute has answered: a card is declined, or it pays.
CardDeclined(i) ==
  /\ waiting[i].linked /\ itemCard[i] = "open" /\ <<i, "failed">> \notin news
  /\ news' = news \cup {<<i, "failed">>}
  /\ Outside
  /\ UNCHANGED <<waiting, itemCard>>

CardPays(i) ==
  /\ waiting[i].linked /\ itemCard[i] = "open"
  /\ itemCard' = [itemCard EXCEPT ![i] = "paid"]
  /\ news' = news \cup {<<i, "paid">>}
  /\ Outside
  /\ UNCHANGED waiting

(***************************************************************************)
(* The webhook, in whatever order and however often Stripe delivers.       *)
(***************************************************************************)

\* Mutant: the failure of an earlier attempt undoes what a later one paid for.
NotYetRefunded(i) == waiting[i].status # "refunded"

StillPending(i) == waiting[i].status = "pending"

OnPaymentSucceeded(i) ==
  /\ <<i, "paid">> \in news
  /\ waiting' = IF waiting[i].status = "pending" THEN [waiting EXCEPT ![i].status = "funded"]
                  ELSE waiting
  /\ news' \in {news, news \ {<<i, "paid">>}}
  /\ AtOnce
  /\ UNCHANGED itemCard

\* A failure that comes first closes the row, and a payment with the same form comes too late.
OnPaymentFailed(i) ==
  /\ <<i, "failed">> \in news
  /\ waiting' = IF StillPending(i)
                    THEN [waiting EXCEPT ![i].status = "refunded",
                                           ![i].late = waiting[i].status = "pending"]
                    ELSE waiting
  /\ news' \in {news, news \ {<<i, "failed">>}}
  /\ AtOnce
  /\ UNCHANGED itemCard

(***************************************************************************)
(* refundByGiver: the row is read, Stripe refunds under the row's own key, *)
(* and the row is saved whatever has become of it.                         *)
(***************************************************************************)

RefundItemRead(w, i) ==
  /\ waiting[i].status = "funded"
  /\ Begin(w, [step |-> "item_refund", of |-> i])
  /\ UNCHANGED <<waiting, itemCard, news>>

RefundItem(w) ==
  /\ At(w, "item_refund")
  /\ itemCard' = [itemCard EXCEPT ![task[w].of] = "returned"]
  /\ Goto(w, "item_save")
  /\ UNCHANGED <<waiting, news>>

RefundItemSave(w) ==
  /\ At(w, "item_save")
  /\ waiting' = [waiting EXCEPT ![task[w].of].status = "refunded"]
  /\ Finish(w)
  /\ UNCHANGED <<itemCard, news>>

ItemHandlerDies(w) ==
  /\ task[w].step \in {"item_charge", "item_link", "item_refund", "item_save"}
  /\ Dies(w)
  /\ UNCHANGED <<waiting, itemCard, news>>

ItemsNext ==
  \/ \E i \in Suspended :
       \/ CardDeclined(i) \/ CardPays(i)
       \/ OnPaymentSucceeded(i) \/ OnPaymentFailed(i)
       \/ \E w \in Workers : ContributeRow(w, i) \/ RefundItemRead(w, i)
  \/ \E w \in Workers :
       \/ ContributeCharge(w) \/ ContributeLink(w)
       \/ RefundItem(w) \/ RefundItemSave(w) \/ ItemHandlerDies(w)

(***************************************************************************)
(* Properties.                                                             *)
(***************************************************************************)

\* An item on offer was paid for, and its money is still there: unless a refund is half way, or
\* broke off half way (payforwardItems.service.ts onPaymentSucceeded, refundByGiver).
OfferedIsPaid ==
  \A i \in Suspended :
    waiting[i].status = "funded" =>
      \/ itemCard[i] = "paid"
      \/ itemCard[i] = "returned"
           /\ (~Spared({"crash"}) \/ \E w \in Workers : At(w, "item_save") /\ task[w].of = i)

\* A giver's money is never kept for an item that is off the list: an item that was funded leaves
\* only with its money, in whatever order the events of several attempts are delivered.  A failure
\* delivered before the payment is the exception: the row is closed and nothing reopens it.
GoneIsReturned ==
  \A i \in Suspended :
    waiting[i].status = "refunded" /\ ~waiting[i].late => itemCard[i] = "returned"

\* A payment that was announced is never forgotten while the row could still take it.
PaidIsTaken ==
  \A i \in Suspended :
    itemCard[i] = "paid" /\ <<i, "paid">> \notin news =>
      waiting[i].status = "funded" \/ waiting[i].late

ItemsRight == OfferedIsPaid /\ GoneIsReturned /\ PaidIsTaken

=============================================================================
