----------------------------- MODULE Postcards -----------------------------
(***************************************************************************)
(* Postcards (src/modules/postcards): a business has a mailing priced,     *)
(* pays for it, a moderator passes the artwork, a sweep submits it to the  *)
(* print vendor, and the vendor is paid by settlement.  Until it is with   *)
(* the vendor, what was paid can be refunded.                              *)
(*                                                                         *)
(* One order, at a unit of money a piece.                                  *)
(***************************************************************************)
EXTENDS Handlers

CONSTANTS
  Quantities,   \* pieces one may order
  MaxAttempts,  \* POSTCARD_SUBMISSION_MAX_ATTEMPTS
  LastStage,    \* "mailed", where production ends
  Periods       \* settlements

VARIABLES
  mailing,      \* postcard_orders
  artwork,      \* postcard_assets
  intent,       \* external: Stripe's payment of the order
  press,        \* external: the vendor's order
  payable,      \* postcard_payables
  settlement,   \* postcard_settlements
  vendorDebt,   \* ledger: vendor_payable
  posted        \* ledger: the transactions there are

cardVars == <<mailing, artwork, intent, press, payable, settlement, vendorDebt, posted, task, befell>>

PostcardsInit ==
  /\ mailing = [status |-> "draft", pieces |-> 0, price |-> 0, expired |-> FALSE, attached |-> FALSE,
                intent |-> FALSE, charged |-> 0, attempts |-> 0, ref |-> FALSE, stage |-> 0]
  /\ artwork = [prepress |-> "awaiting_upload", moderation |-> "pending"]
  /\ intent = [status |-> "none", amount |-> 0]
  /\ press = [pieces |-> 0, reviewed |-> FALSE, stage |-> 0]
  /\ payable = [status |-> "none", amount |-> 0, at |-> None]
  /\ settlement = [s \in Periods |-> [status |-> "none", total |-> 0]]
  /\ vendorDebt = 0
  /\ posted = {}

books == <<payable, settlement, vendorDebt, posted>>

(***************************************************************************)
(* Artwork.                                                                *)
(***************************************************************************)

\* validate: against the size of this order or another; the review starts anew.
ValidateArtwork(verdict) ==
  /\ artwork' = [prepress |-> verdict, moderation |-> "pending"]
  /\ AtOnce
  /\ UNCHANGED <<mailing, intent, press, books>>

\* A file that is too large or unreadable fails, and keeps the review it had.
RejectFile ==
  /\ artwork' = [artwork EXCEPT !.prepress = "failed"]
  /\ AtOnce
  /\ UNCHANGED <<mailing, intent, press, books>>

DecideArtwork(decision) ==
  /\ artwork.moderation = "pending"
  /\ artwork' = [artwork EXCEPT !.moderation = decision]
  /\ AtOnce
  /\ UNCHANGED <<mailing, intent, press, books>>

(***************************************************************************)
(* The order until it is paid for.                                         *)
(***************************************************************************)

Editable == mailing.status \in {"draft", "quoted"}

ConfigureRead(w, q, attach) ==
  /\ attach => artwork.prepress = "passed"
  /\ Begin(w, [step |-> "configure", q |-> q, attach |-> attach])
  /\ UNCHANGED <<mailing, artwork, intent, press, books>>

\* Whatever is changed, the price is dropped.
ConfigureWrite(w) ==
  /\ At(w, "configure")
  /\ mailing' = IF Editable
                  THEN [mailing EXCEPT !.status = "draft", !.price = 0, !.expired = FALSE,
                                       !.pieces = task[w].q, !.attached = @ \/ task[w].attach]
                  ELSE mailing
  /\ Finish(w)
  /\ UNCHANGED <<artwork, intent, press, books>>

QuoteRead(w) ==
  /\ mailing.status # "cancelled"
  /\ mailing.pieces > 0
  /\ Begin(w, [step |-> "quote", price |-> mailing.pieces])
  /\ UNCHANGED <<mailing, artwork, intent, press, books>>

QuoteWrite(w) ==
  /\ At(w, "quote")
  /\ mailing' = IF Editable
                  THEN [mailing EXCEPT !.status = "quoted", !.price = task[w].price, !.expired = FALSE]
                  ELSE mailing
  /\ Finish(w)
  /\ UNCHANGED <<artwork, intent, press, books>>

QuoteExpires ==
  /\ mailing.status \in {"quoted", "payment_failed"}
  /\ ~mailing.expired
  /\ mailing' = [mailing EXCEPT !.expired = TRUE]
  /\ Outside
  /\ UNCHANGED <<artwork, intent, press, books>>

CancelMailing ==
  /\ Editable
  /\ mailing' = [mailing EXCEPT !.status = "cancelled"]
  /\ AtOnce
  /\ UNCHANGED <<artwork, intent, press, books>>

(***************************************************************************)
(* Payment.                                                                *)
(***************************************************************************)

Unpaid == {"quoted", "payment_failed"}

PayRead(w) ==
  /\ mailing.status \in Unpaid
  /\ mailing.price > 0
  /\ ~mailing.expired
  /\ mailing.attached
  /\ artwork.prepress = "passed"
  /\ Begin(w, [step |-> "charge", amount |-> mailing.price])
  /\ UNCHANGED <<mailing, artwork, intent, press, books>>

\* createCharge: one key for the order, under which Stripe takes no second amount.
PayCharge(w) ==
  /\ At(w, "charge")
  /\ IF intent.amount \in {0, task[w].amount}
       THEN /\ intent' = IF intent.amount = 0 THEN [status |-> "open", amount |-> task[w].amount] ELSE intent
            /\ Goto(w, "checkout")
       ELSE Finish(w) /\ UNCHANGED intent
  /\ UNCHANGED <<mailing, artwork, press, books>>

PayRecord(w) ==
  /\ At(w, "checkout")
  /\ mailing' = IF mailing.status \in Unpaid
                  THEN [mailing EXCEPT !.intent = TRUE, !.charged = task[w].amount] ELSE mailing
  /\ Finish(w)
  /\ UNCHANGED <<artwork, intent, press, books>>

BuyerPays ==
  /\ intent.status = "open"
  /\ intent' = [intent EXCEPT !.status = "paid"]
  /\ Outside
  /\ UNCHANGED <<mailing, artwork, press, books>>

\* failByPaymentIntent: the card was declined; the intent is open for another.
PaymentFails ==
  /\ intent.status = "open"
  /\ mailing.intent
  /\ mailing.status \in Unpaid
  /\ mailing' = [mailing EXCEPT !.status = "payment_failed"]
  /\ AtOnce
  /\ UNCHANGED <<artwork, intent, press, books>>

\* completeByPaymentIntent, on any delivery of the event: late, when the order has been changed or
\* cancelled since checkout.
CompleteRead(w) ==
  /\ intent.status # "open"
  /\ mailing.intent
  /\ mailing.status # "paid"
  /\ LET t == [step |-> "capture", charged |-> mailing.charged, price |-> mailing.price] IN
       IF mailing.status \in {"draft", "cancelled"} \/ mailing.price # mailing.charged
         THEN BeginAmid(w, t, "late") ELSE Begin(w, t)
  /\ UNCHANGED <<mailing, artwork, intent, press, books>>

\* recordCapture: a posting that does not balance is refused.
CapturePost(w) ==
  /\ At(w, "capture")
  /\ IF task[w].charged = task[w].price
       THEN /\ posted' = posted \cup {"paid"}
            /\ vendorDebt' = IF "paid" \in posted THEN vendorDebt ELSE vendorDebt + task[w].price
            /\ Goto(w, "accrue")
       ELSE Finish(w) /\ UNCHANGED <<posted, vendorDebt>>
  /\ UNCHANGED <<mailing, artwork, intent, press, payable, settlement>>

CaptureAccrue(w) ==
  /\ At(w, "accrue")
  /\ payable' = IF payable.status = "none"
                  THEN [status |-> "accrued", amount |-> task[w].price, at |-> None] ELSE payable
  /\ Goto(w, "mark_paid")
  /\ UNCHANGED <<mailing, artwork, intent, press, settlement, vendorDebt, posted>>

CaptureMark(w) ==
  /\ At(w, "mark_paid")
  /\ mailing' = IF mailing.status \in Unpaid THEN [mailing EXCEPT !.status = "paid"] ELSE mailing
  /\ Finish(w)
  /\ UNCHANGED <<artwork, intent, press, books>>

(***************************************************************************)
(* Refund: at Stripe, on the ledger, of the payable, of the order.         *)
(***************************************************************************)

\* Mutant: a mailing already submitted may be refunded.
MailingRefundableInPrint == mailing.status \in {"paid", "submitted"}

MailingRefundable == mailing.status = "paid"

\* A refund of what is being settled with the vendor already is out of the ordinary.
RefundMailingRead(w) ==
  /\ MailingRefundable
  /\ mailing.intent
  /\ LET t == [step |-> "refund_charge", price |-> mailing.price] IN
       IF payable.status \in {"settling", "settled"} THEN BeginAmid(w, t, "settling") ELSE Begin(w, t)
  /\ UNCHANGED <<mailing, artwork, intent, press, books>>

RefundMailingCharge(w) ==
  /\ At(w, "refund_charge")
  /\ intent' = [intent EXCEPT !.status = "refunded"]
  /\ Goto(w, "refund_post")
  /\ UNCHANGED <<mailing, artwork, press, books>>

RefundMailingPost(w) ==
  /\ At(w, "refund_post")
  /\ posted' = posted \cup {"refunded"}
  /\ vendorDebt' = IF "refunded" \in posted THEN vendorDebt ELSE vendorDebt - task[w].price
  /\ Goto(w, "refund_payable")
  /\ UNCHANGED <<mailing, artwork, intent, press, payable, settlement>>

RefundMailingPayable(w) ==
  /\ At(w, "refund_payable")
  /\ payable' = IF payable.status = "accrued" THEN [payable EXCEPT !.status = "reversed"] ELSE payable
  /\ Goto(w, "refund_mark")
  /\ UNCHANGED <<mailing, artwork, intent, press, settlement, vendorDebt, posted>>

RefundMailingMark(w) ==
  /\ At(w, "refund_mark")
  /\ mailing' = IF MailingRefundable THEN [mailing EXCEPT !.status = "refunded"] ELSE mailing
  /\ Finish(w)
  /\ UNCHANGED <<artwork, intent, press, books>>

(***************************************************************************)
(* Submission to the vendor.                                               *)
(***************************************************************************)

\* submitOne: what is not reviewed waits, what was refused is given up.
SubmitRead(w) ==
  /\ mailing.status = "paid"
  /\ artwork.moderation # "pending"
  /\ Begin(w, IF artwork.moderation = "rejected" THEN [step |-> "give_up", fatal |-> TRUE]
              ELSE [step |-> "submit_claim"])
  /\ UNCHANGED <<mailing, artwork, intent, press, books>>

SubmitClaim(w) ==
  /\ At(w, "submit_claim")
  /\ IF mailing.status = "paid"
       THEN mailing' = [mailing EXCEPT !.attempts = @ + 1] /\ Goto(w, "submit")
       ELSE Finish(w) /\ UNCHANGED mailing
  /\ UNCHANGED <<artwork, intent, press, books>>

\* The vendor refuses, or knows the order, or takes it; its answer may be lost.
SubmitVendor(w, answer) ==
  /\ At(w, "submit")
  /\ press' = IF answer = "refused" \/ press.pieces > 0 THEN press
              ELSE [pieces |-> mailing.pieces, reviewed |-> artwork.moderation = "approved", stage |-> 0]
  /\ Becomes(w, CASE answer # "taken" -> [step |-> "give_up", fatal |-> FALSE]
                  [] OTHER -> [step |-> "mark_submitted", ref |-> press.pieces = 0])
  /\ IF answer = "lost" THEN Befalls("lost") ELSE UNCHANGED befell
  /\ UNCHANGED <<mailing, artwork, intent, books>>

\* Of an order the vendor knew already, its reference stays unknown.
SubmitMark(w) ==
  /\ At(w, "mark_submitted")
  /\ mailing' = IF mailing.status = "paid"
                  THEN [mailing EXCEPT !.status = "submitted", !.ref = task[w].ref] ELSE mailing
  /\ Finish(w)
  /\ UNCHANGED <<artwork, intent, press, books>>

\* recordFailure reads the attempts, then writes by the order's id.
RecordFailureRead(w) ==
  /\ At(w, "give_up")
  /\ IF task[w].fatal \/ mailing.attempts >= MaxAttempts THEN Goto(w, "submission_failed") ELSE Finish(w)
  /\ UNCHANGED <<mailing, artwork, intent, press, books>>

RecordFailureWrite(w) ==
  /\ At(w, "submission_failed")
  /\ mailing' = [mailing EXCEPT !.status = "submission_failed"]
  /\ Finish(w)
  /\ UNCHANGED <<artwork, intent, press, books>>

PressAdvances ==
  /\ press.pieces > 0
  /\ press.stage < LastStage
  /\ press' = [press EXCEPT !.stage = @ + 1]
  /\ Outside
  /\ UNCHANGED <<mailing, artwork, intent, books>>

\* pollDue and onVendorEvent: the stage is asked of the vendor, and applied if it is forward.
PollRead(w) ==
  /\ mailing.status = "submitted"
  /\ mailing.ref
  /\ press.stage > mailing.stage
  /\ Begin(w, [step |-> "stage", stage |-> press.stage])
  /\ UNCHANGED <<mailing, artwork, intent, press, books>>

ApplyStage(w) ==
  /\ At(w, "stage")
  /\ mailing' = [mailing EXCEPT !.stage = task[w].stage]
  /\ Finish(w)
  /\ UNCHANGED <<artwork, intent, press, books>>

(***************************************************************************)
(* Settlement with the vendor.                                             *)
(***************************************************************************)

CloseRead(w, s) ==
  /\ settlement[s].status = "none"
  /\ \A t \in Periods : settlement[t].status # "open"
  /\ payable.status = "accrued"
  /\ Begin(w, [step |-> "close", s |-> s])
  /\ UNCHANGED <<mailing, artwork, intent, press, books>>

CloseCreate(w) ==
  /\ At(w, "close")
  /\ settlement[task[w].s].status = "none"
  /\ settlement' = [settlement EXCEPT ![task[w].s].status = "open"]
  /\ Goto(w, "close_claim")
  /\ UNCHANGED <<mailing, artwork, intent, press, payable, vendorDebt, posted>>

CloseClaim(w) ==
  /\ At(w, "close_claim")
  /\ payable' = IF payable.status = "accrued"
                  THEN [payable EXCEPT !.status = "settling", !.at = task[w].s] ELSE payable
  /\ Goto(w, "close_total")
  /\ UNCHANGED <<mailing, artwork, intent, press, settlement, vendorDebt, posted>>

CloseTotal(w) ==
  LET s == task[w].s IN
  /\ At(w, "close_total")
  /\ settlement' = [settlement EXCEPT ![s].total = IF payable.at = s THEN payable.amount ELSE 0]
  /\ Finish(w)
  /\ UNCHANGED <<mailing, artwork, intent, press, payable, vendorDebt, posted>>

ConfirmPaid(w, s) ==
  /\ settlement[s].status = "open"
  /\ settlement' = [settlement EXCEPT ![s].status = "paid"]
  /\ Begin(w, [step |-> "confirm", s |-> s, total |-> settlement[s].total])
  /\ UNCHANGED <<mailing, artwork, intent, press, payable, vendorDebt, posted>>

ConfirmPost(w) ==
  /\ At(w, "confirm")
  /\ vendorDebt' = vendorDebt - task[w].total
  /\ posted' = IF task[w].total > 0 THEN posted \cup {task[w].s} ELSE posted
  /\ Goto(w, "confirm_payable")
  /\ UNCHANGED <<mailing, artwork, intent, press, payable, settlement>>

InSettlement(s) == payable.status = "settling" /\ payable.at = s

ConfirmPayable(w) ==
  /\ At(w, "confirm_payable")
  /\ payable' = IF InSettlement(task[w].s) THEN [payable EXCEPT !.status = "settled"] ELSE payable
  /\ Finish(w)
  /\ UNCHANGED <<mailing, artwork, intent, press, settlement, vendorDebt, posted>>

VoidSettlement(w, s) ==
  /\ settlement[s].status = "open"
  /\ settlement' = [settlement EXCEPT ![s].status = "void"]
  /\ Begin(w, [step |-> "void", s |-> s])
  /\ UNCHANGED <<mailing, artwork, intent, press, payable, vendorDebt, posted>>

VoidRelease(w) ==
  /\ At(w, "void")
  /\ payable' = IF InSettlement(task[w].s) THEN [payable EXCEPT !.status = "accrued", !.at = None] ELSE payable
  /\ Finish(w)
  /\ UNCHANGED <<mailing, artwork, intent, press, settlement, vendorDebt, posted>>

PostcardsDies(w) == Dies(w) /\ UNCHANGED <<mailing, artwork, intent, press, books>>

PostcardsNext ==
  \/ \E w \in Workers :
       \/ ConfigureWrite(w) \/ QuoteRead(w) \/ QuoteWrite(w) \/ PayRead(w) \/ PayCharge(w) \/ PayRecord(w)
       \/ CompleteRead(w) \/ CapturePost(w) \/ CaptureAccrue(w) \/ CaptureMark(w)
       \/ RefundMailingRead(w) \/ RefundMailingCharge(w) \/ RefundMailingPost(w)
       \/ RefundMailingPayable(w) \/ RefundMailingMark(w)
       \/ SubmitRead(w) \/ SubmitClaim(w) \/ SubmitMark(w) \/ RecordFailureRead(w) \/ RecordFailureWrite(w)
       \/ PollRead(w) \/ ApplyStage(w)
       \/ CloseCreate(w) \/ CloseClaim(w) \/ CloseTotal(w) \/ ConfirmPost(w) \/ ConfirmPayable(w)
       \/ VoidRelease(w) \/ PostcardsDies(w)
       \/ \E answer \in {"taken", "refused", "lost"} : SubmitVendor(w, answer)
       \/ \E q \in Quantities, attach \in BOOLEAN : ConfigureRead(w, q, attach)
       \/ \E s \in Periods : CloseRead(w, s) \/ ConfirmPaid(w, s) \/ VoidSettlement(w, s)
  \/ \E verdict \in {"passed", "failed"} : ValidateArtwork(verdict)
  \/ \E decision \in {"approved", "rejected"} : DecideArtwork(decision)
  \/ RejectFile \/ QuoteExpires \/ CancelMailing \/ BuyerPays \/ PaymentFails \/ PressAdvances

(***************************************************************************)
(* Properties.                                                             *)
(***************************************************************************)

\* Money that was booked belongs to an order that was paid.
CapturedIsPaid ==
  AllIdle /\ "paid" \in posted /\ Spared({"crash", "late", "overlap"}) =>
    mailing.status \in {"paid", "refunded", "submitted", "submission_failed"}

\* What is printed was not paid back.
PrintedIsNotRefunded ==
  press.pieces > 0 /\ Spared({"crash", "overlap", "lost"}) => intent.status = "paid"

\* What is printed was paid for, piece by piece, and reviewed.
PrintedIsPaid ==
  press.pieces > 0 /\ Spared({"overlap"}) => intent.amount = press.pieces /\ press.reviewed

\* The price stands for the pieces it was asked for.
PricedAsOrdered ==
  mailing.price > 0 /\ Spared({"overlap"}) => mailing.price = mailing.pieces

\* A mailing that was given up is not being printed.
GivenUpIsNotPrinted ==
  mailing.status = "submission_failed" /\ Spared({"crash", "overlap", "lost"}) => press.pieces = 0

\* A mailing the vendor has is on record as submitted.
PrintedIsSubmitted ==
  AllIdle /\ press.pieces > 0 /\ Spared({"crash", "overlap", "lost"}) => mailing.status = "submitted"

\* The ledger owes the vendor what the payables say, so the vendor is never paid beyond it.
VendorOwed ==
  AllIdle /\ Spared({"crash", "overlap", "settling"}) =>
    vendorDebt = IF payable.status \in {"accrued", "settling"} THEN payable.amount ELSE 0

\* The buyer's money ends in a mailing or with the buyer, and the vendor's with the vendor, once.
PostcardsRight ==
  /\ CapturedIsPaid
  /\ PrintedIsNotRefunded
  /\ PrintedIsPaid
  /\ PricedAsOrdered
  /\ GivenUpIsNotPrinted
  /\ PrintedIsSubmitted
  /\ VendorOwed

=============================================================================
