-------------------------------- MODULE Ads --------------------------------
(***************************************************************************)
(* Paid placements: featured spots, of which a city has a few, and ads     *)
(* billed by the impression.                                               *)
(*                                                                         *)
(* Money counts impressions: a budget pays for Budget of them.             *)
(***************************************************************************)
EXTENDS Handlers

CONSTANTS
  Placements,
  Featured,    \* the placements that are featured spots of one city; the others are ads
  SpotsInCity, \* FEATURED_MAX_SLOTS_PER_CITY
  Budget,
  Batch        \* AD_IMPRESSION_BATCH

ASSUME AdsAssumption ==
  /\ Featured \subseteq Placements /\ IsFiniteSet(Featured)
  /\ SpotsInCity \in Nat
  /\ Budget \in Nat \ {0}
  /\ Batch \in Nat \ {0}

VARIABLES
  placement,   \* placements
  adCharge,    \* external: Stripe's payment, and the event it still delivers
  served       \* history: impressions of each ad

adVars == <<placement, adCharge, served, task, befell>>

NoPlacement == [status |-> "none", ref |-> FALSE, paid |-> FALSE, over |-> FALSE, spent |-> 0, unbilled |-> 0]

AdsInit ==
  /\ placement = [p \in Placements |-> NoPlacement]
  /\ adCharge = [p \in Placements |-> [status |-> "none", told |-> TRUE]]
  /\ served = [p \in Placements |-> 0]

SetPlacement(p, r) == placement' = [placement EXCEPT ![p] = r]

\* A paused spot does not count.
SpotsTaken == {p \in Featured : placement[p].status \in {"active", "pending_payment"}}

(***************************************************************************)
(* Purchase and payment.                                                   *)
(***************************************************************************)

\* Mutant: the last spot is sold twice.
SpotLeftOneMore(p) == p \in Featured => Cardinality(SpotsTaken) <= SpotsInCity

SpotLeft(p) == p \in Featured => Cardinality(SpotsTaken) < SpotsInCity

\* feature and createCampaign: the spots are counted, and the placement created after.
PlaceRead(w, p) ==
  /\ placement[p].status = "none"
  /\ \A v \in Workers : ~(At(v, "place") /\ task[v].p = p)
  /\ SpotLeft(p)
  /\ Begin(w, [step |-> "place", p |-> p])
  /\ UNCHANGED <<placement, adCharge, served>>

PlaceCreate(w) ==
  /\ At(w, "place")
  /\ SetPlacement(task[w].p, [NoPlacement EXCEPT !.status = "pending_payment"])
  /\ Goto(w, "ad_charge")
  /\ UNCHANGED <<adCharge, served>>

\* openCharge, keyed on the placement: a second one finds the first.
OpenAdCharge(w) ==
  /\ At(w, "ad_charge")
  /\ adCharge' = [adCharge EXCEPT ![task[w].p].status = IF @ = "none" THEN "open" ELSE @]
  /\ Goto(w, "ad_ref")
  /\ UNCHANGED <<placement, served>>

AdRef(w) ==
  /\ At(w, "ad_ref")
  /\ SetPlacement(task[w].p, [placement[task[w].p] EXCEPT !.ref = TRUE])
  /\ Finish(w)
  /\ UNCHANGED <<adCharge, served>>

\* resumePayment
ResumePayment(w, p) ==
  /\ placement[p].status = "pending_payment"
  /\ Begin(w, [step |-> "ad_charge", p |-> p])
  /\ UNCHANGED <<placement, adCharge, served>>

\* The advertiser pays.  Once the placement was given up this is out of the ordinary.
AdPays(p) ==
  /\ adCharge[p].status = "open" /\ placement[p].ref
  /\ adCharge' = [adCharge EXCEPT ![p] = [status |-> "paid", told |-> FALSE]]
  /\ IF placement[p].status = "ended" THEN Befalls("paid_late") ELSE UNCHANGED befell
  /\ UNCHANGED <<task, placement, served>>

\* activateByPaymentIntent: the clock starts when the money arrives, once.
Activated(p) ==
  IF placement[p].status = "pending_payment"
    THEN [placement[p] EXCEPT !.status = "active", !.paid = TRUE]
    ELSE placement[p]

ActivateAd(p) ==
  /\ ~adCharge[p].told
  /\ placement[p].ref
  /\ SetPlacement(p, Activated(p))
  /\ adCharge' = [adCharge EXCEPT ![p].told = TRUE]
  /\ AtOnce
  /\ UNCHANGED served

\* reconcilePendingPayments: what Stripe says of a placement that waits.
ReconcileRead(w, p) ==
  /\ placement[p].status = "pending_payment" /\ placement[p].ref
  /\ adCharge[p].status = "paid"
  /\ Begin(w, [step |-> "reconcile_ad", p |-> p])
  /\ UNCHANGED <<placement, adCharge, served>>

ReconcileAd(w) ==
  /\ At(w, "reconcile_ad")
  /\ SetPlacement(task[w].p, Activated(task[w].p))
  /\ Finish(w)
  /\ UNCHANGED <<adCharge, served>>

\* pause: the status is written whatever it was.  Of one that is neither running nor paused, or of a
\* featured spot somebody else may have taken meanwhile, this is out of turn.
PauseAd(p, paused) ==
  LET before == IF paused THEN "active" ELSE "paused"
      after == IF paused THEN "paused" ELSE "active"
  IN /\ placement[p].status \notin {"none", after}
     /\ SetPlacement(p, [placement[p] EXCEPT !.status = after])
     /\ IF placement[p].status = before /\ (paused \/ p \notin Featured)
          THEN AtOnce
          ELSE Befalls("out_of_turn") /\ UNCHANGED task
     /\ UNCHANGED <<adCharge, served>>

(***************************************************************************)
(* Serving, and the sweep that bills.                                      *)
(***************************************************************************)

Running(p) == placement[p].status = "active" /\ ~placement[p].over

ServeRead(w, p) ==
  /\ p \notin Featured
  /\ Running(p)
  /\ placement[p].spent < Budget
  /\ placement[p].unbilled < Budget
  /\ Begin(w, [step |-> "serve", p |-> p])
  /\ UNCHANGED <<placement, adCharge, served>>

ServeCount(w) ==
  LET p == task[w].p IN
  /\ At(w, "serve")
  /\ SetPlacement(p, [placement[p] EXCEPT !.unbilled = @ + 1])
  /\ served' = [served EXCEPT ![p] = @ + 1]
  /\ Finish(w)
  /\ UNCHANGED adCharge

AdLapses(p) ==
  /\ Running(p)
  /\ SetPlacement(p, [placement[p] EXCEPT !.over = TRUE])
  /\ Outside
  /\ UNCHANGED <<adCharge, served>>

\* settleImpressions: placements whose time is up, and those nobody paid for within the hour, end.
EndLapsed(p) ==
  /\ placement[p].status = "active" /\ placement[p].over
  /\ SetPlacement(p, [placement[p] EXCEPT !.status = "ended"])
  /\ AtOnce
  /\ UNCHANGED <<adCharge, served>>

\* The hour is up; that the payment is under way is out of the ordinary.
EndAbandoned(p) ==
  /\ placement[p].status = "pending_payment"
  /\ SetPlacement(p, [placement[p] EXCEPT !.status = "ended"])
  /\ IF adCharge[p].status = "paid" THEN Befalls("paid_late") /\ UNCHANGED task ELSE AtOnce
  /\ UNCHANGED <<adCharge, served>>

BillRead(w, p) ==
  /\ p \notin Featured
  /\ placement[p].unbilled >= Batch
  /\ LET spent == IF placement[p].spent + placement[p].unbilled < Budget
                    THEN placement[p].spent + placement[p].unbilled ELSE Budget
     IN Begin(w, [step |-> "bill", p |-> p, spent |-> spent])
  /\ UNCHANGED <<placement, adCharge, served>>

\* The count goes back to zero whatever was added since, and a budget that is used up ends it.
BillWrite(w) ==
  LET p == task[w].p IN
  /\ At(w, "bill")
  /\ SetPlacement(p, [placement[p] EXCEPT !.spent = task[w].spent, !.unbilled = 0,
                                          !.status = IF task[w].spent >= Budget THEN "exhausted" ELSE @])
  /\ Finish(w)
  /\ UNCHANGED <<adCharge, served>>

AdHandlerDies(w) == Dies(w) /\ UNCHANGED <<placement, adCharge, served>>

AdsNext ==
  \/ \E p \in Placements :
       \/ AdPays(p) \/ ActivateAd(p) \/ AdLapses(p) \/ EndLapsed(p) \/ EndAbandoned(p)
       \/ \E paused \in BOOLEAN : PauseAd(p, paused)
  \/ \E w \in Workers :
       \/ \E p \in Placements :
            PlaceRead(w, p) \/ ResumePayment(w, p) \/ ReconcileRead(w, p) \/ ServeRead(w, p) \/ BillRead(w, p)
       \/ PlaceCreate(w) \/ OpenAdCharge(w) \/ AdRef(w) \/ ReconcileAd(w) \/ ServeCount(w) \/ BillWrite(w)
       \/ AdHandlerDies(w)

(***************************************************************************)
(* Properties                                                              *)
(***************************************************************************)

\* Whatever runs, or ran, was paid for.
RunsArePaid ==
  Spared({"out_of_turn"}) =>
    \A p \in Placements :
      placement[p].status \in {"active", "paused", "exhausted"} => placement[p].paid /\ adCharge[p].status = "paid"

\* A payment that was reported starts the placement.
PaidRuns ==
  AllIdle /\ Spared({"paid_late", "out_of_turn"}) =>
    \A p \in Placements : adCharge[p].status = "paid" /\ adCharge[p].told => placement[p].paid

\* A city has no more featured spots than it may.
SpotsHeld == Spared({"out_of_turn", "overlap"}) => Cardinality(SpotsTaken) <= SpotsInCity

\* Nobody is billed beyond the budget, nor for an impression that was not served, and every one
\* that was is billed or will be.
BilledIsServed ==
  \A p \in Placements :
    /\ placement[p].spent <= Budget
    /\ placement[p].spent + placement[p].unbilled <= served[p]
    /\ Spared({"overlap"}) =>
         placement[p].spent = Budget \/ placement[p].spent + placement[p].unbilled = served[p]

\* An ad whose budget is used up is not shown again.
ExhaustedStops ==
  Spared({"out_of_turn"}) =>
    \A p \in Placements : placement[p].spent = Budget => placement[p].status = "exhausted"

AdsRight == RunsArePaid /\ PaidRuns /\ SpotsHeld /\ BilledIsServed /\ ExhaustedStops

=============================================================================
