---------------------------- MODULE SellerMoney ----------------------------
(***************************************************************************)
(* What a consignment seller is owed and owes (src/modules/debt, refunds,  *)
(* and the payout side of payments and salepayments): a card sale is       *)
(* booked, netted against his debts and paid out; what could not be paid   *)
(* is tried again; refunds pull his share back or make it a debt.          *)
(*                                                                         *)
(* A sale costs two, one for the seller and one for the hub, whose leg is  *)
(* alike and left out.                                                     *)
(***************************************************************************)
EXTENDS Handlers, FiniteSetsExt

CONSTANTS
  Sales,       \* succeeded sale_payments of the seller
  CashSales,   \* sales for cash, which leave a debt
  MaxRefunds   \* bound: refunds asked for

VARIABLES
  sold,        \* sale_payments: how far each is split, and what was refunded of it
  debts,       \* seller_debts: what is outstanding, by origin
  books,       \* ledger: the seller's payable and receivable accounts
  posted,      \* ledger: transaction ids posted
  transfers,   \* external: transfers at Stripe to the seller or his shelter, by key: the amount
  pulled,      \* external: share of the seller reversed at Stripe
  refunded,    \* external: paid back to the customer, by sale
  refundsMade, \* refunds
  bank         \* stripe_accounts: the payout account, and chargebacks open against the seller

moneyVars == <<sold, debts, books, posted, transfers, pulled, refunded, refundsMade, bank, task, befell>>
rows == <<sold, debts, books, posted, refundsMade, bank>>
stripe == <<transfers, pulled, refunded>>

Origins == (Sales \X {"refund"} \X (1..MaxRefunds)) \cup (CashSales \X {"cash"} \X {0})

MoneyInit ==
  /\ sold = [p \in Sales |-> [state |-> "none", netted |-> 0, moved |-> FALSE, refunded |-> 0]]
  /\ debts = [o \in {} |-> 0]
  /\ books = [payable |-> 0, receivable |-> 0]
  /\ posted = {}
  /\ transfers = [k \in {} |-> 0]
  /\ pulled = 0
  /\ refunded = [p \in Sales |-> 0]
  /\ refundsMade = 0
  /\ bank = [enabled |-> FALSE, frozen |-> FALSE, custody |-> FALSE, disputes |-> 0]

\* ledgerService.post: a transaction id is booked once.
Post(id, payable, receivable) ==
  IF id \in posted THEN UNCHANGED <<books, posted>>
  ELSE /\ books' = [payable |-> books.payable + payable, receivable |-> books.receivable + receivable]
       /\ posted' = posted \cup {id}

\* createTransfer: Stripe answers a key it knows with the transfer it made.
Transfer(key, amount) ==
  transfers' = IF key \in DOMAIN transfers THEN transfers
               ELSE [k \in DOMAIN transfers \cup {key} |-> IF k = key THEN amount ELSE transfers[k]]

NewDebt(origin, amount) ==
  debts' = [o \in DOMAIN debts \cup {origin} |-> IF o = origin THEN amount ELSE debts[o]]

(***************************************************************************)
(* Debts.                                                                  *)
(***************************************************************************)

\* createDebt: the row, then its booking.
CreateDebt(w, s) ==
  /\ <<s, "cash", 0>> \notin DOMAIN debts
  /\ NewDebt(<<s, "cash", 0>>, 1)
  /\ Begin(w, [step |-> "post_debt", s |-> s])
  /\ UNCHANGED <<sold, books, posted, refundsMade, bank, stripe>>

CreateDebtPost(w) ==
  /\ At(w, "post_debt")
  /\ Post(<<"debt", task[w].s, 0>>, 0, 1)
  /\ Finish(w)
  /\ UNCHANGED <<sold, debts, refundsMade, bank, stripe>>

\* applyRepayment: guarded, so that no more is repaid than is owed.
Repayable(o) == debts[o] >= 1

\* repay by card.
RepayDebt(w, o) ==
  /\ o \in DOMAIN debts
  /\ Repayable(o)
  /\ debts' = [debts EXCEPT ![o] = @ - 1]
  /\ Begin(w, [step |-> "post_repaid", o |-> o])
  /\ UNCHANGED <<sold, books, posted, refundsMade, bank, stripe>>

RepayPost(w) ==
  /\ At(w, "post_repaid")
  /\ Post(<<"debtpay", task[w].o, 0>>, 0, -1)
  /\ Finish(w)
  /\ UNCHANGED <<sold, debts, refundsMade, bank, stripe>>

(***************************************************************************)
(* A card sale: book, net, transfer, book the payout, record the split.    *)
(***************************************************************************)

SaleBook(w, p) ==
  /\ sold[p].state = "none"
  /\ sold' = [sold EXCEPT ![p].state = "claimed"]
  /\ Post(<<"sale", p, 0>>, 1, 0)
  /\ Begin(w, [step |-> "net", p |-> p])
  /\ UNCHANGED <<debts, refundsMade, bank, stripe>>

\* netAgainstPayout: the open debts are read, and repaid one after the other.
NetRead(w) ==
  /\ At(w, "net")
  /\ Becomes(w, [step |-> "net_apply", p |-> task[w].p, open |-> {o \in DOMAIN debts : debts[o] > 0}])
  /\ UNCHANGED <<befell, rows, stripe>>

NetApply(w, o) ==
  /\ At(w, "net_apply")
  /\ o \in task[w].open
  /\ IF Repayable(o)
       THEN /\ debts' = [debts EXCEPT ![o] = @ - 1]
            /\ Becomes(w, [step |-> "net_post", p |-> task[w].p, o |-> o])
       ELSE /\ Becomes(w, [task[w] EXCEPT !.open = @ \ {o}])
            /\ UNCHANGED debts
  /\ UNCHANGED <<befell, sold, books, posted, refundsMade, bank, stripe>>

\* No debt is left: the whole share is to be paid.
NetDone(w) ==
  /\ At(w, "net_apply")
  /\ task[w].open = {}
  /\ Becomes(w, [step |-> "transfer", p |-> task[w].p])
  /\ UNCHANGED <<befell, rows, stripe>>

NetPost(w) ==
  LET p == task[w].p IN
  /\ At(w, "net_post")
  /\ Post(<<"debtnet", p, task[w].o>>, -1, -1)
  /\ Becomes(w, [step |-> "record_split", p |-> p, netted |-> 1, moved |-> FALSE])
  /\ UNCHANGED <<befell, sold, debts, refundsMade, bank, stripe>>

Payable == bank.enabled /\ ~bank.frozen

\* payoutTransfer of the seller's leg: to his account, to his shelter's custody, or not at all.
\* Only a leg reported as paid is booked: one in custody is a mishap.
SaleTransfer(w) ==
  LET p == task[w].p IN
  /\ At(w, "transfer")
  /\ IF Payable
       THEN /\ Transfer(<<"split", p, 0>>, 1)
            /\ Becomes(w, [step |-> "post_payout", p |-> p])
            /\ UNCHANGED befell
     ELSE IF ~bank.enabled /\ bank.custody
       THEN /\ Transfer(<<"split", p, 0>>, 1)
            /\ Becomes(w, [step |-> "record_split", p |-> p, netted |-> 0, moved |-> TRUE])
            /\ Befalls("custody")
       ELSE /\ Becomes(w, [step |-> "record_split", p |-> p, netted |-> 0, moved |-> FALSE])
            /\ UNCHANGED <<transfers, befell>>
  /\ UNCHANGED <<rows, pulled, refunded>>

SalePayoutPost(w) ==
  LET p == task[w].p IN
  /\ At(w, "post_payout")
  /\ Post(<<"payout", p, 0>>, -1, 0)
  /\ Becomes(w, [step |-> "record_split", p |-> p, netted |-> 0, moved |-> TRUE])
  /\ UNCHANGED <<befell, sold, debts, refundsMade, bank, stripe>>

SaleRecord(w) ==
  /\ At(w, "record_split")
  /\ sold' = [sold EXCEPT ![task[w].p] =
                [@ EXCEPT !.state = "split", !.netted = task[w].netted, !.moved = task[w].moved]]
  /\ Finish(w)
  /\ UNCHANGED <<debts, books, posted, refundsMade, bank, stripe>>

(***************************************************************************)
(* retryFailedPayouts: for a settlement with an unpaid leg, everything the *)
(* ledger says the seller is owed.                                         *)
(***************************************************************************)

\* findUnpaidSettlements; a netted share leaves no transfer either and is listed too.
Stuck(p) == sold[p].state = "split" /\ ~sold[p].moved

RetryRead(w, p) ==
  /\ Stuck(p)
  /\ books.payable > 0
  /\ Begin(w, [step |-> "retry_transfer", p |-> p, amount |-> books.payable])
  /\ UNCHANGED <<rows, stripe>>

RetryTransfer(w) ==
  LET key == <<"retry", task[w].p, task[w].amount>> IN
  /\ At(w, "retry_transfer")
  /\ IF Payable \/ (~bank.enabled /\ bank.custody)
       THEN Transfer(key, task[w].amount) /\ Goto(w, "retry_post")
       ELSE Finish(w) /\ UNCHANGED transfers
  /\ UNCHANGED <<rows, pulled, refunded>>

RetryPost(w) ==
  /\ At(w, "retry_post")
  /\ Post(<<"retry_payout", task[w].p, task[w].amount>>, -task[w].amount, 0)
  /\ Goto(w, "mark_leg")
  /\ UNCHANGED <<sold, debts, refundsMade, bank, stripe>>

\* markSettlementLegPaid.
RetryMark(w) ==
  /\ At(w, "mark_leg")
  /\ sold' = [sold EXCEPT ![task[w].p].state = "retried"]
  /\ Finish(w)
  /\ UNCHANGED <<debts, books, posted, refundsMade, bank, stripe>>

(***************************************************************************)
(* refundSale.                                                             *)
(***************************************************************************)

\* The proportional share of the seller, rounded down: one of two, none of one.
Share(amount) == amount \div 2

RefundRead(w, p, amount) ==
  /\ sold[p].state \in {"split", "retried"}
  /\ amount <= 2 - sold[p].refunded
  /\ refundsMade < MaxRefunds
  /\ refundsMade' = refundsMade + 1
  /\ Begin(w, [step |-> "reverse", p |-> p, amount |-> amount, r |-> refundsMade + 1])
  /\ UNCHANGED <<sold, debts, books, posted, bank, stripe>>

\* tryReverse pulls back what was transferred for this sale, or the share becomes a shortfall.
RefundReverse(w, works) ==
  LET p == task[w].p
      back == IF works /\ sold[p].moved /\ sold[p].netted = 0 THEN Share(task[w].amount) ELSE 0 IN
  /\ At(w, "reverse")
  /\ pulled' = pulled + back
  /\ Becomes(w, [step |-> "refund", p |-> p, amount |-> task[w].amount, r |-> task[w].r,
                 shortfall |-> Share(task[w].amount) - back])
  /\ UNCHANGED <<befell, rows, transfers, refunded>>

RefundCustomer(w) ==
  /\ At(w, "refund")
  /\ refunded' = [refunded EXCEPT ![task[w].p] = @ + task[w].amount]
  /\ Goto(w, "post_refund")
  /\ UNCHANGED <<rows, transfers, pulled>>

\* Stripe refuses: the error leaves the handler, and what was pulled back stays so.
RefundThrown(w) ==
  /\ At(w, "refund")
  /\ FinishAfter(w, "thrown")
  /\ UNCHANGED <<rows, stripe>>

RefundPost(w) ==
  /\ At(w, "post_refund")
  /\ Post(<<"refund", task[w].r, 0>>, 0, task[w].shortfall)
  /\ Goto(w, "clawback")
  /\ UNCHANGED <<sold, debts, refundsMade, bank, stripe>>

RefundClawbackForgotten(w) ==
  /\ At(w, "clawback")
  /\ Goto(w, "add_refunded")
  /\ UNCHANGED <<sold, debts, books, posted, refundsMade, bank, stripe>>

\* recordClawback: the shortfall is a debt.
RefundClawback(w) ==
  /\ At(w, "clawback")
  /\ IF task[w].shortfall > 0
       THEN NewDebt(<<task[w].p, "refund", task[w].r>>, task[w].shortfall) ELSE UNCHANGED debts
  /\ Goto(w, "add_refunded")
  /\ UNCHANGED <<sold, books, posted, refundsMade, bank, stripe>>

RefundAdd(w) ==
  /\ At(w, "add_refunded")
  /\ sold' = [sold EXCEPT ![task[w].p].refunded = @ + task[w].amount]
  /\ Finish(w)
  /\ UNCHANGED <<debts, books, posted, refundsMade, bank, stripe>>

(***************************************************************************)
(* The payout account.                                                     *)
(***************************************************************************)

\* Onboarding completes, or the seller's shelter takes custody of his money.
Onboard ==
  /\ ~bank.enabled
  /\ bank' = [bank EXCEPT !.enabled = TRUE]
  /\ AtOnce
  /\ UNCHANGED <<sold, debts, books, posted, refundsMade, stripe>>

EnableCustody ==
  /\ ~bank.custody /\ ~bank.enabled
  /\ bank' = [bank EXCEPT !.custody = TRUE]
  /\ AtOnce
  /\ UNCHANGED <<sold, debts, books, posted, refundsMade, stripe>>

\* onChargeDisputed and onChargeDisputeClosed; a second dispute beside the first is a mishap.
ChargeDisputed ==
  /\ bank.enabled
  /\ bank.disputes < 2
  /\ bank' = [bank EXCEPT !.frozen = TRUE, !.disputes = @ + 1]
  /\ UNCHANGED task
  /\ IF bank.disputes > 0 THEN Befalls("second") ELSE UNCHANGED befell
  /\ UNCHANGED <<sold, debts, books, posted, refundsMade, stripe>>

ChargeDisputeClosed ==
  /\ bank.disputes > 0
  /\ bank' = [bank EXCEPT !.frozen = FALSE, !.disputes = @ - 1]
  /\ Outside
  /\ UNCHANGED <<sold, debts, books, posted, refundsMade, stripe>>

MoneyDies(w) == Dies(w) /\ UNCHANGED <<rows, stripe>>

MoneyNext ==
  \/ \E w \in Workers :
       \/ CreateDebtPost(w) \/ RepayPost(w) \/ NetRead(w) \/ NetDone(w) \/ NetPost(w)
       \/ SaleTransfer(w) \/ SalePayoutPost(w) \/ SaleRecord(w) \/ RetryTransfer(w) \/ RetryPost(w)
       \/ RetryMark(w) \/ RefundCustomer(w) \/ RefundThrown(w) \/ RefundPost(w)
       \/ RefundClawback(w) \/ RefundAdd(w) \/ MoneyDies(w)
       \/ \E s \in CashSales : CreateDebt(w, s)
       \/ \E o \in Origins : RepayDebt(w, o) \/ NetApply(w, o)
       \/ \E p \in Sales : SaleBook(w, p) \/ RetryRead(w, p)
       \/ \E p \in Sales, amount \in 1..2 : RefundRead(w, p, amount)
       \/ \E works \in BOOLEAN : RefundReverse(w, works)
  \/ Onboard \/ EnableCustody \/ ChargeDisputed \/ ChargeDisputeClosed

(***************************************************************************)
(* Properties.                                                             *)
(***************************************************************************)

\* What the ledger says the seller owes is what his debts say, and never less than nothing.
BooksCarryDebts ==
  /\ \A o \in DOMAIN debts : debts[o] >= 0
  /\ AllIdle /\ Spared({"crash"}) =>
       books.receivable = MapThenSumSet(LAMBDA o : debts[o], DOMAIN debts)

\* Every share a seller earned is owed to him, was paid to him, or paid a debt of his: once.
ShareOnce ==
  AllIdle /\ Spared({"crash", "custody"}) =>
    Cardinality({p \in Sales : sold[p].state # "none"})
      = books.payable + MapThenSumSet(LAMBDA k : transfers[k], DOMAIN transfers)
          + MapThenSumSet(LAMBDA p : sold[p].netted, Sales)

\* A customer is refunded no more than he paid, and what was refunded is on record.
RefundBounded ==
  AllIdle /\ Spared({"crash", "overlap"}) =>
    \A p \in Sales : refunded[p] <= 2 /\ refunded[p] = sold[p].refunded

\* What refunds take from the seller, pulled back or as debts: never more than his share, and of
\* a sale refunded whole exactly that.
ShortfallOwed ==
  LET taken == pulled + Cardinality({o \in DOMAIN debts : o[2] = "refund"})
      due == MapThenSumSet(LAMBDA p : Share(refunded[p]), Sales) IN
  AllIdle /\ Spared({"crash", "thrown"}) =>
    taken <= due /\ (refundsMade = 1 => taken = due)

\* Payouts stay frozen while a chargeback is open.
FrozenWhileDisputed == Spared({"second"}) => (bank.disputes > 0 => bank.frozen)

\* Booking, netting, payouts, retries, refunds and clawbacks of a seller's money agree.
SellerMoneyRight ==
  BooksCarryDebts /\ ShareOnce /\ RefundBounded /\ ShortfallOwed /\ FrozenWhileDisputed

=============================================================================
