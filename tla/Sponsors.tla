------------------------------ MODULE Sponsors ------------------------------
(***************************************************************************)
(* Sponsorships of the landing page: one sponsor, from the purchase to the *)
(* review of the logo, the term, what was promised and delivered, and the  *)
(* preregistrations counted for it.                                        *)
(***************************************************************************)
EXTENDS Handlers

CONSTANTS
  Emails,         \* people who preregister
  Deliverables    \* bound: how many deliverables are logged

ASSUME SponsorsAssumption == None \notin Nat

VARIABLES
  sponsor,        \* sponsors
  sponsorship,    \* external: Stripe's payment for it, and the event it still delivers
  promised,       \* sponsor_fulfillments: None, or what was delivered
  deliveries,     \* sponsor_fulfillment_events
  waitlist,       \* preregistrations: those attributed to the sponsor, and the others
  credited        \* sponsors: attributed_signups_count

sponsorVars ==
  <<sponsor, sponsorship, promised, deliveries, waitlist, credited, task, befell>>

NoSponsor == [status |-> "none", active |-> FALSE, ref |-> "none", paid |-> FALSE, over |-> FALSE]

NoDelivery == promised = None /\ deliveries = 0

SponsorsInit ==
  /\ sponsor = NoSponsor
  /\ sponsorship = [status |-> "none", event |-> "none", refunded |-> FALSE]
  /\ NoDelivery
  /\ waitlist = [ours |-> {}, others |-> {}]
  /\ credited = 0

counted == <<waitlist, credited>>
fulfilled == <<promised, deliveries>>

(***************************************************************************)
(* Purchase and payment.                                                   *)
(***************************************************************************)

\* purchase: the row first, the charge and the reference to it after.
PurchaseCreate(w) ==
  /\ sponsor.status = "none"
  /\ sponsor' = [sponsor EXCEPT !.status = "pending_payment"]
  /\ Begin(w, [step |-> "sponsor_charge"])
  /\ UNCHANGED <<sponsorship, fulfilled, counted>>

PurchaseCharge(w) ==
  /\ At(w, "sponsor_charge")
  /\ sponsorship' = [sponsorship EXCEPT !.status = "open"]
  /\ Goto(w, "sponsor_ref")
  /\ UNCHANGED <<sponsor, fulfilled, counted>>

PurchaseRef(w) ==
  /\ At(w, "sponsor_ref")
  /\ sponsor' = [sponsor EXCEPT !.ref = "pending"]
  /\ Finish(w)
  /\ UNCHANGED <<sponsorship, fulfilled, counted>>

\* The buyer, who was told of the charge once it was recorded.  A declined card may be tried again:
\* paying with the next one is out of the ordinary.
SponsorPays ==
  /\ sponsor.ref # "none" \/ sponsor.status = "rejected"
  /\ sponsorship.status \in {"open", "declined"}
  /\ sponsorship' = [sponsorship EXCEPT !.status = "paid", !.event = "succeeded"]
  /\ IF sponsorship.status = "declined" THEN Befalls("paid_late") ELSE UNCHANGED befell
  /\ UNCHANGED <<task, sponsor, fulfilled, counted>>

SponsorDeclined ==
  /\ sponsor.ref = "pending"
  /\ sponsorship.status = "open"
  /\ sponsorship' = [sponsorship EXCEPT !.status = "declined", !.event = "failed"]
  /\ Outside
  /\ UNCHANGED <<sponsor, fulfilled, counted>>

\* activateByPaymentIntent: found by the reference that is pending, once.
ActivateSponsor ==
  /\ sponsorship.event = "succeeded"
  /\ sponsor' = IF sponsor.ref = "pending"
                  THEN [sponsor EXCEPT !.ref = "paid", !.status = "pending_review", !.paid = TRUE]
                  ELSE sponsor
  /\ sponsorship' = [sponsorship EXCEPT !.event = "none"]
  /\ AtOnce
  /\ UNCHANGED <<fulfilled, counted>>

\* failByPaymentIntent
FailSponsor ==
  /\ sponsorship.event = "failed"
  /\ sponsor' = IF sponsor.ref = "pending"
                  THEN [sponsor EXCEPT !.ref = "dropped", !.status = "rejected"]
                  ELSE sponsor
  /\ sponsorship' = [sponsorship EXCEPT !.event = "none"]
  /\ AtOnce
  /\ UNCHANGED <<fulfilled, counted>>

(***************************************************************************)
(* Review, and the end of the term.                                        *)
(***************************************************************************)

\* Mutant: a logo is approved before it is paid for.
ApprovableUnpaid == sponsor.status \in {"pending_payment", "pending_review"}

Approvable == sponsor.status = "pending_review"

ApproveRead(w) ==
  /\ Approvable
  /\ Begin(w, [step |-> "approve"])
  /\ UNCHANGED <<sponsor, sponsorship, fulfilled, counted>>

\* The write asks for nothing.
ApproveWrite(w) ==
  /\ At(w, "approve")
  /\ sponsor' = [sponsor EXCEPT !.status = "active", !.active = TRUE]
  /\ Goto(w, "promise")
  /\ UNCHANGED <<sponsorship, fulfilled, counted>>

\* seedForSponsor, once; a failure is logged.
ApprovePromise(w) ==
  /\ At(w, "promise")
  /\ \/ promised' = (IF promised = None THEN 0 ELSE promised) /\ Finish(w)
     \/ FinishAfter(w, "unseeded") /\ UNCHANGED promised
  /\ UNCHANGED <<sponsor, sponsorship, deliveries, counted>>

RejectRead(w) ==
  /\ sponsor.status \in {"pending_review", "active"}
  /\ Begin(w, [step |-> "reject_refund", paid |-> sponsor.paid])
  /\ UNCHANGED <<sponsor, sponsorship, fulfilled, counted>>

\* What was paid goes back; a refund that Stripe refuses is left to be made by hand.
RejectRefund(w) ==
  /\ At(w, "reject_refund")
  /\ Becomes(w, [step |-> "reject"])
  /\ \/ sponsorship' = [sponsorship EXCEPT !.refunded = task[w].paid] /\ UNCHANGED befell
     \/ task[w].paid /\ Befalls("refused") /\ UNCHANGED sponsorship
  /\ UNCHANGED <<sponsor, fulfilled, counted>>

RejectWrite(w) ==
  /\ At(w, "reject")
  /\ sponsor' = [sponsor EXCEPT !.status = "rejected", !.active = FALSE]
  /\ Finish(w)
  /\ UNCHANGED <<sponsorship, fulfilled, counted>>

TermEnds ==
  /\ sponsor.status = "active" /\ ~sponsor.over
  /\ sponsor' = [sponsor EXCEPT !.over = TRUE]
  /\ Outside
  /\ UNCHANGED <<sponsorship, fulfilled, counted>>

\* expireFinishedSponsorships: each is claimed while it is active.
ExpireSponsor ==
  /\ sponsor.status = "active" /\ sponsor.over
  /\ sponsor' = [sponsor EXCEPT !.status = "expired", !.active = FALSE]
  /\ AtOnce
  /\ UNCHANGED <<sponsorship, fulfilled, counted>>

\* update: an administrator shows or hides the logo whatever its status.
UpdateSponsor(active) ==
  /\ sponsor.status # "none"
  /\ sponsor' = [sponsor EXCEPT !.active = active]
  /\ sponsor' # sponsor
  /\ Befalls("overruled")
  /\ UNCHANGED <<task, sponsorship, fulfilled, counted>>

(***************************************************************************)
(* What was promised, and who came by the sponsor's link.                  *)
(***************************************************************************)

\* logDelivery: the event, then the total.
LogRead(w) ==
  /\ promised # None
  /\ deliveries < Deliverables
  /\ deliveries' = deliveries + 1
  /\ Begin(w, [step |-> "log"])
  /\ UNCHANGED <<sponsor, sponsorship, promised, counted>>

LogTotal(w) ==
  /\ At(w, "log")
  /\ promised' = promised + 1
  /\ Finish(w)
  /\ UNCHANGED <<sponsor, sponsorship, deliveries, counted>>

\* preregister: the sponsor is credited while its logo is up, and then the row is created.  Somebody
\* who registers again is out of the ordinary.
PreregisterCredit(w, e) ==
  /\ IF e \in waitlist.ours \cup waitlist.others
       THEN BeginAmid(w, [step |-> "prereg", e |-> e, ours |-> sponsor.active], "again")
       ELSE Begin(w, [step |-> "prereg", e |-> e, ours |-> sponsor.active])
  /\ credited' = IF sponsor.active THEN credited + 1 ELSE credited
  /\ UNCHANGED <<sponsor, sponsorship, fulfilled, waitlist>>

\* The address is unique.
PreregisterRow(w) ==
  LET e == task[w].e IN
  /\ At(w, "prereg")
  /\ waitlist' = IF e \in waitlist.ours \cup waitlist.others THEN waitlist
                 ELSE IF task[w].ours THEN [waitlist EXCEPT !.ours = @ \cup {e}]
                 ELSE [waitlist EXCEPT !.others = @ \cup {e}]
  /\ Finish(w)
  /\ UNCHANGED <<sponsor, sponsorship, fulfilled, credited>>

SponsorHandlerDies(w) == Dies(w) /\ UNCHANGED <<sponsor, sponsorship, fulfilled, counted>>

SponsorsNext ==
  \/ SponsorPays \/ SponsorDeclined \/ ActivateSponsor \/ FailSponsor \/ TermEnds \/ ExpireSponsor
  \/ \E active \in BOOLEAN : UpdateSponsor(active)
  \/ \E w \in Workers :
       \/ PurchaseCreate(w) \/ PurchaseCharge(w) \/ PurchaseRef(w)
       \/ ApproveRead(w) \/ ApproveWrite(w) \/ ApprovePromise(w)
       \/ RejectRead(w) \/ RejectRefund(w) \/ RejectWrite(w)
       \/ LogRead(w) \/ LogTotal(w)
       \/ \E e \in Emails : PreregisterCredit(w, e)
       \/ PreregisterRow(w) \/ SponsorHandlerDies(w)

(***************************************************************************)
(* Properties                                                              *)
(***************************************************************************)

\* A logo that is up was paid for and not refunded.
LogoIsPaid ==
  /\ Spared({"overruled"}) => (sponsor.active => sponsor.paid)
  /\ AllIdle /\ Spared({"overruled", "overlap", "crash"}) => ~(sponsor.active /\ sponsorship.refunded)

\* A placement that was paid for and turned down was paid back, and no other was.
RejectedIsRefunded ==
  AllIdle /\ Spared({"refused", "overlap", "crash"}) =>
    (sponsorship.refunded <=> sponsor.status = "rejected" /\ sponsor.paid)

\* Money that Stripe reported is money somebody reviews: it never belongs to a purchase that was given up.
PaidIsReviewed ==
  Spared({"paid_late"}) =>
    (sponsorship.status = "paid" /\ sponsorship.event = "none" => sponsor.paid)

\* What was promised to a sponsor who went live is on record.
LiveIsPromised ==
  AllIdle /\ Spared({"unseeded", "crash"}) =>
    (sponsor.status \in {"active", "expired"} => promised # None)

\* The total delivered is what was logged.
DeliveredIsLogged ==
  AllIdle /\ Spared({"crash"}) => promised = None \/ promised = deliveries

\* The sponsor is credited with those who came by its link, once each.
CreditIsEarned ==
  AllIdle /\ Spared({"again", "crash", "overlap"}) => credited = Cardinality(waitlist.ours)

SponsorsRight ==
  LogoIsPaid /\ RejectedIsRefunded /\ PaidIsReviewed /\ LiveIsPromised /\ DeliveredIsLogged /\ CreditIsEarned

=============================================================================
