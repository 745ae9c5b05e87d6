---------------------------- MODULE Consignment ----------------------------
(***************************************************************************)
(* Consignment (src/modules/consignment, src/modules/salepayments): a      *)
(* seller takes goods from a hub's shelf, sells them for cash or by a card *)
(* payment, returns the rest, and the checkout is settled.                 *)
(*                                                                         *)
(* quantity_sold counts the units sold for cash and the units a card       *)
(* payment holds.  The units of a payment that comes to nothing are given  *)
(* back, even when the checkout has been settled in the meantime.          *)
(*                                                                         *)
(* A sale is one unit at a price of one.                                   *)
(***************************************************************************)
EXTENDS Handlers, FiniteSetsExt

CONSTANTS
  Checkouts,    \* the checkouts of one seller
  Traded,       \* bound: the checkouts whose goods are sold or returned
  SalePayments, \* sale_payments
  Stock,        \* quantity_available of the product at first
  Lot,          \* quantity of a checkout
  Ceiling,      \* units the credit of the seller lets him hold (creditStatus)
  DebtLimit,    \* cash debts he may carry and still take stock
  Resident      \* a shelter covers his first pickup (starterGrantAvailable)

VARIABLES
  shelf,        \* products: quantity_available
  checkouts,    \* inventory_checkouts
  sales,        \* inventory_sales: rows of each checkout, by rail
  handed,       \* inventory_returns: what came back, unique by checkout
  settlement,   \* settlements, unique by checkout
  payments,     \* sale_payments
  intents,      \* external: Stripe's payment intents
  events,       \* external: webhook events Stripe will go on delivering
  owed,         \* seller_debts of this seller, by origin
  starter       \* the resident's starter grant is not used up

consVars == <<shelf, checkouts, sales, handed, settlement, payments, intents, events, owed,
              starter, task, befell>>
documents == <<shelf, checkouts, sales, handed, settlement, payments, owed, starter>>
world == <<intents, events>>

Unborn == [status |-> "none", sold |-> 0, grant |-> FALSE]

NoPayment == [status |-> "none", of |-> None, split |-> 0]

ConsInit ==
  /\ shelf = Stock
  /\ checkouts = [c \in Checkouts |-> Unborn]
  /\ sales = [c \in Checkouts |-> [cash |-> 0, digital |-> 0]]
  /\ handed = [c \in Checkouts |-> None]
  /\ settlement = [c \in Checkouts |-> None]
  /\ payments = [p \in SalePayments |-> NoPayment]
  /\ intents = [p \in SalePayments |-> "none"]
  /\ events = {}
  /\ owed = {}
  /\ starter = Resident

Live == {"pending_approval", "active", "overdue", "return_pending"}

\* sumActiveInventoryValue: what the seller holds, in every checkout not settled or declined.
HeldValue ==
  MapThenSumSet(LAMBDA c : Lot - checkouts[c].sold,
                {c \in Checkouts : checkouts[c].status \in Live})

\* setCheckoutStatus and its kin: a checkout moves only from the statuses named.
Moves(c, from, to) ==
  IF checkouts[c].status \in from THEN [checkouts EXCEPT ![c].status = to] ELSE checkouts

(***************************************************************************)
(* Taking stock.                                                           *)
(***************************************************************************)

\* The credit of the seller: no more debts than allowed, and room for what he asks.
CreditAllows == Cardinality(owed) <= DebtLimit /\ HeldValue + Lot <= Ceiling

\* checkout, up to the last of its gates; QR code, agreement, trust and identity hold here.
Pickup(w, c) ==
  /\ checkouts[c].status = "none"
  /\ \A v \in Workers : At(v, "reserve") \/ At(v, "open") => task[v].c # c
  /\ CreditAllows
  /\ Begin(w, [step |-> "reserve", c |-> c])
  /\ UNCHANGED <<documents, world>>

\* reserveProduct: conditional on the shelf.
PickupReserve(w) ==
  /\ At(w, "reserve")
  /\ IF shelf >= Lot
       THEN shelf' = shelf - Lot /\ Goto(w, "open")
       ELSE Finish(w) /\ UNCHANGED shelf
  /\ UNCHANGED <<checkouts, sales, handed, settlement, payments, owed, starter, world>>

\* createCheckout, approved at once or waiting for the hub; the first of a resident is covered.
PickupOpen(w, status) ==
  /\ At(w, "open")
  /\ checkouts' = [checkouts EXCEPT ![task[w].c] = [Unborn EXCEPT !.status = status, !.grant = starter]]
  /\ starter' = FALSE
  /\ Finish(w)
  /\ UNCHANGED <<shelf, sales, handed, settlement, payments, owed, world>>

\* approveCheckout: conditional on the reservation still waiting.
ApproveCheckout(c) ==
  /\ checkouts[c].status = "pending_approval"
  /\ checkouts' = Moves(c, {"pending_approval"}, "active")
  /\ AtOnce
  /\ UNCHANGED <<shelf, sales, handed, settlement, payments, owed, starter, world>>

DeclineCheckout(w, c) ==
  /\ checkouts[c].status = "pending_approval"
  /\ checkouts' = Moves(c, {"pending_approval"}, "declined")
  /\ Begin(w, [step |-> "unreserve", c |-> c])
  /\ UNCHANGED <<shelf, sales, handed, settlement, payments, owed, starter, world>>

\* restockProduct: the declined units go back on the shelf.
DeclineRestock(w) ==
  /\ At(w, "unreserve")
  /\ shelf' = shelf + Lot
  /\ Finish(w)
  /\ UNCHANGED <<checkouts, sales, handed, settlement, payments, owed, starter, world>>

\* sweepOverdue and, at the end of the term, moveToReturnPending.
SweepOverdue(c) ==
  /\ checkouts[c].status = "active"
  /\ checkouts' = Moves(c, {"active"}, "overdue")
  /\ AtOnce
  /\ UNCHANGED <<shelf, sales, handed, settlement, payments, owed, starter, world>>

MoveToReturnPending(c) ==
  /\ checkouts[c].status \in {"active", "overdue"}
  /\ checkouts' = Moves(c, {"active", "overdue"}, "return_pending")
  /\ AtOnce
  /\ UNCHANGED <<shelf, sales, handed, settlement, payments, owed, starter, world>>

(***************************************************************************)
(* Sales for cash.                                                         *)
(***************************************************************************)

\* applySaleGuarded, for a cash sale and for the units a payment holds.
Sellable(c) == checkouts[c].status = "active" /\ checkouts[c].sold < Lot

Sold(c, n) == [checkouts EXCEPT ![c].sold = @ + n]

\* releaseSaleUnits: whatever the status, but never below zero.
Given(c) == IF checkouts[c].sold > 0 THEN Sold(c, -1) ELSE checkouts

LogSale(w, c) ==
  /\ Sellable(c)
  /\ checkouts' = Sold(c, 1)
  /\ Begin(w, [step |-> "cash_row", c |-> c, soldOut |-> checkouts[c].sold + 1 >= Lot])
  /\ UNCHANGED <<shelf, sales, handed, settlement, payments, owed, starter, world>>

LogSaleRow(w) ==
  /\ At(w, "cash_row")
  /\ sales' = [sales EXCEPT ![task[w].c].cash = @ + 1]
  /\ Becomes(w, [step |-> "cash_debt", c |-> task[w].c, soldOut |-> task[w].soldOut,
                 row |-> sales[task[w].c].cash + 1])
  /\ UNCHANGED <<befell, shelf, checkouts, handed, settlement, payments, owed, starter, world>>

\* settle(doc) begins: the status it will move the checkout from is the one its caller read.
Settles(w, c, status) ==
  Becomes(w, [step |-> "settle", c |-> c, status |-> status]) /\ UNCHANGED befell

\* createDebt: the seller holds the money and owes the hub's share and the fee.
LogSaleDebt(w) ==
  /\ At(w, "cash_debt")
  /\ owed' = owed \cup {<<"cash", task[w].c, task[w].row>>}
  /\ IF task[w].soldOut THEN Settles(w, task[w].c, "active") ELSE Finish(w)
  /\ UNCHANGED <<shelf, checkouts, sales, handed, settlement, payments, starter, world>>

(***************************************************************************)
(* Settlement.                                                             *)
(***************************************************************************)

Underway(c) == {p \in SalePayments : payments[p].of = c /\ payments[p].status = "pending"}

\* The sums are read, unless the checkout is settled or an open dispute (openForRef) stops it.
SettleRead(w) ==
  LET c == task[w].c IN
  /\ At(w, "settle")
  /\ \/ settlement[c] # None /\ Finish(w)
     \/ settlement[c] = None /\ FinishAfter(w, "held")
     \/ /\ settlement[c] = None
        /\ Becomes(w, [step |-> "settle_write", c |-> c, status |-> task[w].status,
                       gross |-> sales[c].cash + sales[c].digital, collected |-> sales[c].digital])
        /\ UNCHANGED befell
  /\ UNCHANGED <<documents, world>>

\* createSettlement; a second one hits the unique index.  Settling while a card payment of the
\* checkout is under way is a mishap.
SettleWrite(w) ==
  LET c == task[w].c IN
  /\ At(w, "settle_write")
  /\ IF settlement[c] # None
       THEN FinishAfter(w, "thrown") /\ UNCHANGED settlement
       ELSE /\ settlement' = [settlement EXCEPT ![c] =
                                [gross |-> task[w].gross, collected |-> task[w].collected]]
            /\ Becomes(w, [step |-> "settle_status", c |-> c, status |-> task[w].status])
            /\ IF Underway(c) = {} THEN UNCHANGED befell ELSE Befalls("underway")
  /\ UNCHANGED <<shelf, checkouts, sales, handed, payments, owed, starter, world>>

SettleStatus(w) ==
  /\ At(w, "settle_status")
  /\ checkouts' = Moves(task[w].c, {task[w].status}, "settled")
  /\ Finish(w)
  /\ UNCHANGED <<shelf, sales, handed, settlement, payments, owed, starter, world>>

(***************************************************************************)
(* Return.                                                                 *)
(***************************************************************************)

Returnable == {"active", "overdue", "return_pending"}

HandBack(w, c, n, condition) ==
  /\ checkouts[c].status \in Returnable
  /\ n = 0 => condition = "good"
  /\ Begin(w, [step |-> "return_row", c |-> c, status |-> checkouts[c].status, n |-> n,
               condition |-> condition])
  /\ UNCHANGED <<documents, world>>

\* createReturn, once for a checkout.  Nothing compares the number with what the seller holds:
\* a wrong one is a mishap.
ReturnRow(w) ==
  LET c == task[w].c IN
  /\ At(w, "return_row")
  /\ IF handed[c] # None
       THEN Finish(w) /\ UNCHANGED handed
       ELSE /\ handed' = [handed EXCEPT ![c] = [n |-> task[w].n, condition |-> task[w].condition]]
            /\ Becomes(w, [task[w] EXCEPT !.step = "return_stock"])
            /\ IF task[w].n = Lot - checkouts[c].sold THEN UNCHANGED befell ELSE Befalls("miscount")
  /\ UNCHANGED <<shelf, checkouts, sales, settlement, payments, owed, starter, world>>

\* Good units go back on the shelf; for lost or damaged ones the seller owes their value, unless
\* the shelter covers the checkout.
ReturnStock(w) ==
  LET c == task[w].c IN
  /\ At(w, "return_stock")
  /\ IF task[w].condition = "good"
       THEN shelf' = shelf + task[w].n /\ UNCHANGED owed
       ELSE /\ owed' = IF checkouts[c].grant THEN owed ELSE owed \cup {<<"lost", c, 0>>}
            /\ UNCHANGED shelf
  /\ Settles(w, c, task[w].status)
  /\ UNCHANGED <<checkouts, sales, handed, settlement, payments, starter, world>>

(***************************************************************************)
(* Card payments.                                                          *)
(***************************************************************************)

\* createIntent: the units are held before the customer is asked to pay.
CreateIntent(w, p, c) ==
  /\ payments[p].status = "none"
  /\ \A v \in Workers : At(v, "charge") => task[v].p # p
  /\ Sellable(c)
  /\ checkouts' = Sold(c, 1)
  /\ Begin(w, [step |-> "charge", p |-> p, c |-> c])
  /\ UNCHANGED <<shelf, sales, handed, settlement, payments, owed, starter, world>>

CreateCharge(w) ==
  /\ At(w, "charge")
  /\ payments' = [payments EXCEPT ![task[w].p] = [NoPayment EXCEPT !.status = "pending", !.of = task[w].c]]
  /\ intents' = [intents EXCEPT ![task[w].p] = "open"]
  /\ Finish(w)
  /\ UNCHANGED <<shelf, checkouts, sales, handed, settlement, owed, starter, events>>

\* Stripe refuses: the units are given back and the payment is marked failed.
CreateRefused(w) ==
  /\ At(w, "charge")
  /\ checkouts' = Given(task[w].c)
  /\ payments' = [payments EXCEPT ![task[w].p] = [NoPayment EXCEPT !.status = "failed", !.of = task[w].c]]
  /\ Finish(w)
  /\ UNCHANGED <<shelf, sales, handed, settlement, owed, starter, world>>

\* markCancelled, markExpired, markFailed and markSucceeded: conditional on pending.
Pending(p) == payments[p].status = "pending"

PaymentBecomes(p, status) == [payments EXCEPT ![p].status = status]

\* cancel by the seller and expireStalePayments; the intent at Stripe stays open, and money that
\* has already been paid for it comes too late.
GiveUp(w, p, status) ==
  /\ Pending(p)
  /\ payments' = PaymentBecomes(p, status)
  /\ IF intents[p] = "paid"
       THEN AllIdle /\ Becomes(w, [step |-> "release", p |-> p]) /\ Befalls("late")
       ELSE Begin(w, [step |-> "release", p |-> p])
  /\ UNCHANGED <<shelf, checkouts, sales, handed, settlement, owed, starter, world>>

GiveUpRelease(w) ==
  /\ At(w, "release")
  /\ checkouts' = Given(payments[task[w].p].of)
  /\ Finish(w)
  /\ UNCHANGED <<shelf, sales, handed, settlement, payments, owed, starter, world>>

\* The customer pays, or a first card is declined; a payment for an intent that the backend has
\* given up is a mishap.
PayIntent(p) ==
  /\ intents[p] \in {"open", "declined"}
  /\ intents' = [intents EXCEPT ![p] = "paid"]
  /\ events' = events \cup {<<"paid", p>>}
  /\ UNCHANGED task
  /\ IF Pending(p) THEN UNCHANGED befell ELSE Befalls("late")
  /\ UNCHANGED documents

DeclineIntent(p) ==
  /\ intents[p] = "open"
  /\ intents' = [intents EXCEPT ![p] = "declined"]
  /\ events' = events \cup {<<"declined", p>>}
  /\ Outside
  /\ UNCHANGED documents

Answered(kind, p) == events' = events \ {<<kind, p>>}

\* onPaymentFailed: only a pending payment; Stripe delivers the event until it is answered.
FailedRead(w, p) ==
  /\ <<"declined", p>> \in events
  /\ IF Pending(p)
       THEN Begin(w, [step |-> "mark_failed", p |-> p]) /\ UNCHANGED events
       ELSE AtOnce /\ Answered("declined", p)
  /\ UNCHANGED <<documents, intents>>

FailedMark(w) ==
  /\ At(w, "mark_failed")
  /\ payments' = IF Pending(task[w].p) THEN PaymentBecomes(task[w].p, "failed") ELSE payments
  /\ Becomes(w, [step |-> "release_failed", p |-> task[w].p])
  /\ IF Pending(task[w].p) /\ intents[task[w].p] = "paid" THEN Befalls("late") ELSE UNCHANGED befell
  /\ UNCHANGED <<shelf, checkouts, sales, handed, settlement, owed, starter, world>>

\* The units are given back whether or not markFailed found the payment pending.
FailedRelease(w) ==
  /\ At(w, "release_failed")
  /\ checkouts' = Given(payments[task[w].p].of)
  /\ Answered("declined", task[w].p)
  /\ Finish(w)
  /\ UNCHANGED <<shelf, sales, handed, settlement, payments, owed, starter, intents>>

\* onPaymentSucceeded: any payment that has not succeeded yet.
SucceededRead(w, p) ==
  /\ <<"paid", p>> \in events
  /\ IF payments[p].status = "succeeded"
       THEN AtOnce /\ Answered("paid", p)
       ELSE Begin(w, [step |-> "card_row", p |-> p]) /\ UNCHANGED events
  /\ UNCHANGED <<documents, intents>>

\* createSale comes first, the claim of the payment after it.
SucceededRow(w) ==
  /\ At(w, "card_row")
  /\ sales' = [sales EXCEPT ![payments[task[w].p].of].digital = @ + 1]
  /\ Goto(w, "claim_paid")
  /\ UNCHANGED <<shelf, checkouts, handed, settlement, payments, owed, starter, world>>

\* Mutant: the redelivered event books the payment again.
SucceededClaimAny(w) ==
  /\ At(w, "claim_paid")
  /\ payments' = PaymentBecomes(task[w].p, "succeeded")
  /\ Goto(w, "split")
  /\ UNCHANGED <<shelf, checkouts, sales, handed, settlement, owed, starter, world>>

SucceededClaim(w) ==
  /\ At(w, "claim_paid")
  /\ IF Pending(task[w].p)
       THEN /\ payments' = PaymentBecomes(task[w].p, "succeeded")
            /\ Goto(w, "split")
            /\ UNCHANGED events
       ELSE Finish(w) /\ Answered("paid", task[w].p) /\ UNCHANGED payments
  /\ UNCHANGED <<shelf, checkouts, sales, handed, settlement, owed, starter, intents>>

\* The money is booked and split between seller and hub; a sold out checkout is settled.
SucceededSplit(w) ==
  LET c == payments[task[w].p].of IN
  /\ At(w, "split")
  /\ payments' = [payments EXCEPT ![task[w].p].split = @ + 1]
  /\ Answered("paid", task[w].p)
  /\ IF checkouts[c].sold >= Lot THEN Settles(w, c, checkouts[c].status) ELSE Finish(w)
  /\ UNCHANGED <<shelf, checkouts, sales, handed, settlement, owed, starter, intents>>

(***************************************************************************)
(* The specification.                                                      *)
(***************************************************************************)

ConsDies(w) == Dies(w) /\ UNCHANGED <<documents, world>>

ConsNext ==
  \/ \E w \in Workers :
       \/ PickupReserve(w) \/ DeclineRestock(w) \/ LogSaleRow(w) \/ LogSaleDebt(w)
       \/ SettleRead(w) \/ SettleWrite(w) \/ SettleStatus(w) \/ ReturnRow(w) \/ ReturnStock(w)
       \/ CreateCharge(w) \/ CreateRefused(w) \/ GiveUpRelease(w) \/ FailedMark(w)
       \/ FailedRelease(w) \/ SucceededRow(w) \/ SucceededClaim(w) \/ SucceededSplit(w)
       \/ ConsDies(w)
       \/ \E status \in {"active", "pending_approval"} : PickupOpen(w, status)
       \/ \E c \in Checkouts : Pickup(w, c) \/ DeclineCheckout(w, c)
       \/ \E c \in Traded : LogSale(w, c)
       \/ \E c \in Traded, n \in 0..Lot, condition \in {"good", "lost"} :
            HandBack(w, c, n, condition)
       \/ \E p \in SalePayments : FailedRead(w, p) \/ SucceededRead(w, p)
       \/ \E p \in SalePayments, c \in Traded : CreateIntent(w, p, c)
       \/ \E p \in SalePayments, status \in {"cancelled", "expired"} : GiveUp(w, p, status)
  \/ \E c \in Checkouts : ApproveCheckout(c)
  \/ \E c \in Traded : SweepOverdue(c) \/ MoveToReturnPending(c)
  \/ \E p \in SalePayments : PayIntent(p) \/ DeclineIntent(p)

(***************************************************************************)
(* Properties.                                                             *)
(***************************************************************************)

PaymentsOf(c, statuses) ==
  Cardinality({p \in SalePayments : payments[p].of = c /\ payments[p].status \in statuses})

Back(c) == IF handed[c] # None /\ handed[c].condition = "good" THEN handed[c].n ELSE 0

\* Every unit is on the shelf or with the seller who took it, and came back at most once.
ShelfBalances ==
  AllIdle /\ Spared({"crash"}) =>
    shelf + MapThenSumSet(LAMBDA c : Lot - Back(c),
                          {c \in Checkouts : checkouts[c].status \notin {"none", "declined"}}) = Stock

\* quantity_sold is what was sold for cash and what card payments hold or have paid for.
SoldIsBacked ==
  AllIdle /\ Spared({"crash", "overlap"}) =>
    \A c \in Checkouts :
      checkouts[c].sold = sales[c].cash + PaymentsOf(c, {"pending", "succeeded"})

\* A settlement states every sale of a settled checkout, none that was not paid, and leaves no
\* unit open.
SettlementComplete ==
  AllIdle /\ Spared({"crash", "overlap", "late", "underway", "held"}) =>
    \A c \in Checkouts : settlement[c] # None =>
      /\ checkouts[c].status = "settled"
      /\ settlement[c].gross = sales[c].cash + sales[c].digital
      /\ settlement[c].collected = sales[c].digital
      /\ sales[c].digital = PaymentsOf(c, {"succeeded"})
      /\ "miscount" \in befell \/ Lot = checkouts[c].sold + (IF handed[c] = None THEN 0 ELSE handed[c].n)

\* A checkout that is sold out does not stay open, unless a dispute stopped its settlement.
SoldOutIsSettled ==
  AllIdle /\ Spared({"crash", "held"}) =>
    \A c \in Checkouts : checkouts[c].sold = Lot /\ Underway(c) = {} => settlement[c] # None

\* The seller owes for every unit sold for cash and, unless covered, for every lost one.
CashIsOwed ==
  AllIdle /\ Spared({"crash"}) =>
    \A c \in Checkouts :
      /\ \A n \in 1..sales[c].cash : <<"cash", c, n>> \in owed
      /\ handed[c] # None /\ handed[c].condition # "good" =>
           (<<"lost", c, 0>> \in owed) = ~checkouts[c].grant

\* No seller holds more than his credit, but for what payments that came to nothing gave back.
CreditHolds ==
  Spared({"overlap"}) =>
    HeldValue <= Ceiling + Cardinality({p \in SalePayments :
                                          payments[p].status \in {"failed", "cancelled", "expired"}})

\* Money taken from a customer is a sale and is split, once.
CustomerServed ==
  /\ \A p \in SalePayments : payments[p].split <= 1
  /\ AllIdle /\ Spared({"crash", "late"}) =>
       \A p \in SalePayments :
         intents[p] = "paid" /\ <<"paid", p>> \notin events =>
           payments[p].status = "succeeded" /\ payments[p].split = 1

\* Goods, sales, payments, debts and settlements of a consignment agree (checkout, logSale,
\* returnAndSettle, settle and the sale payment webhooks), whatever order they come in.
ConsignmentRight ==
  /\ ShelfBalances
  /\ SoldIsBacked
  /\ SettlementComplete
  /\ SoldOutIsSettled
  /\ CashIsOwed
  /\ CreditHolds
  /\ CustomerServed

=============================================================================
