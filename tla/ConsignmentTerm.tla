-------------------------- MODULE ConsignmentTerm --------------------------
(***************************************************************************)
(* The term of one consignment (src/modules/consignment): expiry notices,  *)
(* renewal, extension, termination by notice, and Return-Pending.          *)
(*                                                                         *)
(* The daily sweep lists the documents that are due and then acts on what  *)
(* it read, while seller and hub extend, end and change the consignment.   *)
(***************************************************************************)
EXTENDS Handlers, FiniteSetsExt

CONSTANTS
  MaxDay,      \* bound: days watched
  TermDays,    \* term_days of a fresh term
  NoticeDays,  \* termination_notice_days
  Warn,        \* expiry notice thresholds above 0, and the renewal notice's
  Abandoned,   \* abandonment_after_days
  MaySellLow   \* seller_permissions.may_sell_below_min

VARIABLES
  day,
  lease,       \* the inventory checkout, as its term sees it
  told,        \* notices the seller was sent, by days left (the notice's idempotency key)
  swept,       \* the last day on which the sweep finished
  flagged      \* abandonment review was asked for

termVars == <<day, lease, told, swept, flagged, task, befell>>

Floor == 2  \* minimum_authorized_price_cents; the price starts one above it

\* A checkout just picked up.  `why' and `at' are history: what moved it to Return-Pending, and
\* the split in force when the first unit was sold; `terms' counts the terms begun.
Lease == [status |-> "active", expires |-> TermDays, sold |-> FALSE, sent |-> {}, announced |-> None,
          renews |-> FALSE, ends |-> None, since |-> None, price |-> Floor + 1, split |-> 1,
          why |-> "none", at |-> None, terms |-> 1]

TermInit == day = 0 /\ lease = Lease /\ told = {} /\ swept = -1 /\ flagged = FALSE

TermRuns == lease.status = "active"

\* moveToReturnPending: conditional on the status alone.
ReturnPending(why) ==
  IF TermRuns THEN [lease EXCEPT !.status = "return_pending", !.since = day, !.why = why] ELSE lease

\* A new term: expiry from today, notices armed again.
Fresh(doc) ==
  [doc EXCEPT !.expires = day + TermDays, !.sent = {}, !.announced = None, !.terms = @ + 1]

(***************************************************************************)
(* What seller and hub may do.                                             *)
(***************************************************************************)

\* extendTerm: the term starts again, also of a checkout that is Return-Pending, and stays so.
ExtendTerm ==
  /\ lease.status \in {"active", "return_pending"}
  /\ lease.terms < 3
  /\ lease' = Fresh(lease)
  /\ AtOnce
  /\ UNCHANGED <<day, told, swept, flagged>>

\* giveTerminationNotice: once, and it ends the renewal.
EndConsignment ==
  /\ TermRuns
  /\ lease.ends = None
  /\ lease' = [lease EXCEPT !.ends = day + NoticeDays, !.renews = FALSE]
  /\ AtOnce
  /\ UNCHANGED <<day, told, swept, flagged>>

\* Mutant: renewal may be turned on again after notice to end was given.
SetAutoRenewAny(enabled) ==
  /\ TermRuns
  /\ lease.renews # enabled
  /\ lease' = [lease EXCEPT !.renews = enabled]
  /\ AtOnce
  /\ UNCHANGED <<day, told, swept, flagged>>

SetAutoRenew(enabled) ==
  /\ TermRuns
  /\ lease.ends = None
  /\ lease.renews # enabled
  /\ lease' = [lease EXCEPT !.renews = enabled]
  /\ AtOnce
  /\ UNCHANGED <<day, told, swept, flagged>>

\* reducePrice: lower, and not below the owner's floor without permission.
ReducePrice(price) ==
  /\ price < lease.price
  /\ price >= Floor \/ MaySellLow
  /\ lease.status \in {"active", "return_pending"}
  /\ lease' = [lease EXCEPT !.price = price]
  /\ AtOnce
  /\ UNCHANGED <<day, told, swept, flagged>>

\* changeCommission: setSplitPercent is conditional on nothing being sold.
ChangeCommission(split) ==
  /\ TermRuns
  /\ ~lease.sold
  /\ split # lease.split
  /\ lease' = [lease EXCEPT !.split = split]
  /\ AtOnce
  /\ UNCHANGED <<day, told, swept, flagged>>

\* The goods are sold.
SellAll ==
  /\ TermRuns
  /\ ~lease.sold
  /\ lease' = [lease EXCEPT !.sold = TRUE, !.at = lease.split]
  /\ AtOnce
  /\ UNCHANGED <<day, told, swept, flagged>>

(***************************************************************************)
(* sweepExpiryNotices.                                                     *)
(***************************************************************************)

\* Terminations whose notice has run out come first.
SweepTerminations(w) ==
  /\ swept < day
  /\ \A v \in Workers : Idle(v)
  /\ lease' = IF lease.ends # None /\ lease.ends <= day THEN ReturnPending("notice") ELSE lease
  /\ Begin(w, [step |-> "list_due"])
  /\ UNCHANGED <<day, told, swept, flagged>>

\* dueForExpiryNotice: the documents are read here and acted upon later.
SweepDue(w) ==
  /\ At(w, "list_due")
  /\ Becomes(w, IF TermRuns /\ lease.expires - day <= Max(Warn)
                  THEN [step |-> "renew", doc |-> lease] ELSE [step |-> "review"])
  /\ UNCHANGED <<befell, day, lease, told, swept, flagged>>

DaysLeft(doc) == doc.expires - day

\* renewCheckout: conditional on auto_renew still being on.
Renewable == lease.renews /\ TermRuns

\* The renewal is announced ahead, and made when the term is over and goods are left.
SweepRenewal(w) ==
  LET doc == task[w].doc
      renewing == doc.renews /\ doc.ends = None
      over == DaysLeft(doc) <= 0 /\ ~doc.sold IN
  /\ At(w, "renew")
  /\ IF renewing /\ over /\ Renewable
       THEN /\ lease' = Fresh(lease)
            /\ Goto(w, "review")
       ELSE /\ lease' = IF renewing /\ DaysLeft(doc) > 0 THEN [lease EXCEPT !.announced = doc.expires]
                        ELSE lease
            /\ Goto(w, "mark_notice")
  /\ UNCHANGED <<day, told, swept, flagged>>

\* The thresholds crossed and not yet sent; on the day itself, threshold 0.
Crossed(doc) ==
  (IF DaysLeft(doc) <= 0 THEN {0} ELSE {t \in Warn : DaysLeft(doc) <= t}) \ doc.sent

\* recordNoticesSent comes before the notice is sent.
SweepMark(w) ==
  LET doc == task[w].doc IN
  /\ At(w, "mark_notice")
  /\ lease' = [lease EXCEPT !.sent = @ \cup Crossed(doc)]
  /\ Goto(w, IF Crossed(doc) # {} THEN "send_notice" ELSE "expire")
  /\ UNCHANGED <<day, told, swept, flagged>>

\* One notice, for the nearest threshold; its key does not name the term.
SweepNotify(w) ==
  /\ At(w, "send_notice")
  /\ told' = told \cup {Min(Crossed(task[w].doc))}
  /\ Goto(w, "expire")
  /\ UNCHANGED <<day, lease, swept, flagged>>

SweepExpire(w) ==
  LET doc == task[w].doc IN
  /\ At(w, "expire")
  /\ lease' = IF DaysLeft(doc) <= 0 /\ ~doc.sold
                THEN ReturnPending(IF DaysLeft(lease) <= 0 THEN "expired" ELSE "extended") ELSE lease
  /\ Goto(w, "review")
  /\ UNCHANGED <<day, told, swept, flagged>>

\* dueForAbandonmentReview: flagged, never kept.
SweepReview(w) ==
  /\ At(w, "review")
  /\ flagged' = (flagged \/ (lease.status = "return_pending" /\ day - lease.since >= Abandoned))
  /\ swept' = day
  /\ Finish(w)
  /\ UNCHANGED <<day, lease, told>>

\* A day passes after its sweep has run; a day without one is a mishap.
DayPasses ==
  /\ day < MaxDay
  /\ AllIdle
  /\ day' = day + 1
  /\ UNCHANGED task
  /\ IF swept = day THEN UNCHANGED befell ELSE Befalls("missed")
  /\ UNCHANGED <<lease, told, swept, flagged>>

TermDies(w) == Dies(w) /\ UNCHANGED <<day, lease, told, swept, flagged>>

TermNext ==
  \/ \E w \in Workers :
       \/ SweepTerminations(w) \/ SweepDue(w) \/ SweepRenewal(w) \/ SweepMark(w) \/ SweepNotify(w)
       \/ SweepExpire(w) \/ SweepReview(w) \/ TermDies(w)
  \/ ExtendTerm \/ EndConsignment \/ SellAll \/ DayPasses
  \/ \E enabled \in BOOLEAN : SetAutoRenew(enabled)
  \/ \E price \in 1..Floor : ReducePrice(price)
  \/ \E split \in 1..2 : ChangeCommission(split)

(***************************************************************************)
(* Properties.                                                             *)
(***************************************************************************)

\* Goods are asked back only when the term or the notice period is over.
ReturnsWhenDue == Spared({"overlap"}) => lease.why # "extended"

\* A consignment under notice does not renew, and is over when the notice period is.
NoticePrevails ==
  /\ lease.ends # None => ~lease.renews
  /\ swept = day /\ AllIdle /\ lease.ends # None /\ lease.ends <= day => ~TermRuns

\* No consignment runs on with unsold goods past its term.
NoOverrun ==
  swept = day /\ AllIdle /\ TermRuns /\ ~lease.sold => DaysLeft(lease) > 0

\* The seller of an expired first term was told on the day; later terms reuse the notice's key.
ExpiryWasTold ==
  Spared({"crash"}) /\ lease.terms = 1 /\ lease.why = "expired" => 0 \in told

\* Sales keep the split they were made under, and prices the owner's floor.
TermsKept ==
  /\ lease.sold => lease.at = lease.split
  /\ ~MaySellLow => lease.price >= Floor

\* The term of a consignment (sweepExpiryNotices against extendTerm, endConsignment, setAutoRenew,
\* changeCommission and reducePrice) ends when and how it was agreed.
TermRight == ReturnsWhenDue /\ NoticePrevails /\ NoOverrun /\ ExpiryWasTold /\ TermsKept

=============================================================================
