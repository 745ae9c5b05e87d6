------------------------------ MODULE Delivery ------------------------------
(***************************************************************************)
(* Delivery (src/modules/delivery): a vendor asks for a driver, the first  *)
(* to accept has the job, the customer is charged then, and the driver is  *)
(* paid when he is done.  With it, the drivers' own papers.                *)
(***************************************************************************)
EXTENDS Handlers

CONSTANTS
  Deliveries,
  Drivers,
  Unsettled,   \* bound: drivers whose papers change; the others' are in order
  MaxRounds    \* DELIVERY_MAX_BROADCASTS

ASSUME DeliveryAssumption ==
  /\ Unsettled \subseteq Drivers
  /\ None \notin Drivers
  /\ MaxRounds \in Nat

VARIABLES
  delivery,    \* delivery_requests
  driver,      \* driver_profiles
  fare,        \* external: the customer's charge
  pay          \* external: the transfer to a driver, keyed on the delivery

deliveryVars == <<delivery, driver, fare, pay, task, befell>>

NewDelivery == [status |-> "broadcasting", by |-> None, round |-> 1, due |-> FALSE, txn |-> FALSE]

NewDriver ==
  [status |-> "pending", reason |-> "none", check |-> "pending", inDate |-> TRUE, payable |-> TRUE,
   verdict |-> FALSE]    \* history: the last decision of the operators

DeliveryInit ==
  /\ delivery = [d \in Deliveries |-> [NewDelivery EXCEPT !.status = "none"]]
  /\ driver = [a \in Drivers |->
       IF a \in Unsettled THEN NewDriver
       ELSE [NewDriver EXCEPT !.status = "approved", !.check = "passed", !.verdict = TRUE]]
  /\ fare = [d \in Deliveries |-> "no"]
  /\ pay = [d \in Deliveries |-> None]

Moving == {"accepted", "picked_up"}

(***************************************************************************)
(* Drivers.                                                                *)
(***************************************************************************)

\* eligibility.
Eligible(a) ==
  /\ driver[a].status = "approved"
  /\ driver[a].check = "passed"
  /\ driver[a].inDate
  /\ driver[a].payable

\* decide: approved only with a passed check.
DecideDriver(a, check, approve) ==
  LET yes == approve /\ check = "passed" IN
  /\ driver' = [driver EXCEPT ![a] =
       [@ EXCEPT !.check = check, !.status = IF yes THEN "approved" ELSE "suspended",
                 !.reason = IF yes THEN "none" ELSE "ops", !.verdict = yes]]
  /\ AtOnce
  /\ UNCHANGED <<delivery, fare, pay>>

DatesPass(a) ==
  /\ driver[a].inDate
  /\ driver' = [driver EXCEPT ![a].inDate = FALSE]
  /\ Outside
  /\ UNCHANGED <<delivery, fare, pay>>

\* suspendLapsed, which claims on the status alone.
SuspendRead(w, a) ==
  /\ driver[a].status = "approved" /\ ~driver[a].inDate
  /\ Begin(w, [step |-> "suspend", a |-> a])
  /\ UNCHANGED <<delivery, driver, fare, pay>>

SuspendClaim(w) ==
  LET a == task[w].a IN
  /\ At(w, "suspend")
  /\ driver' = IF driver[a].status = "approved"
                 THEN [driver EXCEPT ![a].status = "suspended", ![a].reason = "lapsed"] ELSE driver
  /\ Finish(w)
  /\ UNCHANGED <<delivery, fare, pay>>

LiftableAny(a) == driver[a].status = "suspended"

\* Only a suspension about dates lifts itself.
Liftable(a) == driver[a].status = "suspended" /\ driver[a].reason = "lapsed"

RenewRead(w, a) ==
  /\ ~driver[a].inDate
  /\ Begin(w, [step |-> "renew", a |-> a, lift |-> Liftable(a)])
  /\ UNCHANGED <<delivery, driver, fare, pay>>

RenewWrite(w) ==
  LET a == task[w].a IN
  /\ At(w, "renew")
  /\ driver' = [driver EXCEPT ![a] =
       IF task[w].lift THEN [@ EXCEPT !.inDate = TRUE, !.status = "approved", !.reason = "none"]
       ELSE [@ EXCEPT !.inDate = TRUE]]
  /\ Finish(w)
  /\ UNCHANGED <<delivery, fare, pay>>

\* Stripe takes a payout account away.
AccountRevoked(a) ==
  /\ driver[a].payable
  /\ driver' = [driver EXCEPT ![a].payable = FALSE]
  /\ UNCHANGED task
  /\ Befalls("revoked")
  /\ UNCHANGED <<delivery, fare, pay>>

(***************************************************************************)
(* The request, its rounds, and the first to accept.                       *)
(***************************************************************************)

RequestDelivery(d) ==
  /\ delivery[d].status = "none"
  /\ delivery' = [delivery EXCEPT ![d] = NewDelivery]
  /\ AtOnce
  /\ UNCHANGED <<driver, fare, pay>>

OfferLapses(d) ==
  /\ delivery[d].status = "broadcasting" /\ ~delivery[d].due
  /\ delivery' = [delivery EXCEPT ![d].due = TRUE]
  /\ Outside
  /\ UNCHANGED <<driver, fare, pay>>

\* sweepOffers: another, wider round, or no more.
SweepOffersRead(w, d) ==
  /\ delivery[d].status = "broadcasting" /\ delivery[d].due
  /\ Begin(w, [step |-> "sweep_offer", d |-> d, round |-> delivery[d].round])
  /\ UNCHANGED <<delivery, driver, fare, pay>>

SweepOffersClaim(w) ==
  LET d == task[w].d IN
  /\ At(w, "sweep_offer")
  /\ delivery' =
       IF delivery[d].status # "broadcasting" THEN delivery
       ELSE IF task[w].round >= MaxRounds THEN [delivery EXCEPT ![d].status = "expired"]
       ELSE [delivery EXCEPT ![d].due = FALSE, ![d].round = @ + 1]
  /\ Finish(w)
  /\ UNCHANGED <<driver, fare, pay>>

OfferRead(w, a, d) ==
  /\ Eligible(a)
  /\ \A e \in Deliveries : ~(delivery[e].by = a /\ delivery[e].status \in Moving)
  /\ delivery[d].status = "broadcasting"
  /\ Begin(w, [step |-> "accept", a |-> a, d |-> d])
  /\ UNCHANGED <<delivery, driver, fare, pay>>

TakeableByAnyone(d) == delivery[d].status \in {"broadcasting", "accepted"} /\ ~delivery[d].due

\* The guard of the claim decides between two drivers.
Takeable(d) == delivery[d].status = "broadcasting" /\ delivery[d].by = None /\ ~delivery[d].due

TakeOffer(w) ==
  LET d == task[w].d IN
  /\ At(w, "accept")
  /\ IF Takeable(d)
       THEN /\ delivery' = [delivery EXCEPT ![d].by = task[w].a, ![d].status = "accepted"]
            /\ Goto(w, "charge_fare")
       ELSE Finish(w) /\ UNCHANGED delivery
  /\ UNCHANGED <<driver, fare, pay>>

\* A charge that fails is logged; the driver keeps the job.
ChargeFare(w, works) ==
  LET d == task[w].d IN
  /\ At(w, "charge_fare")
  /\ IF works /\ fare[d] = "no"
       THEN fare' = [fare EXCEPT ![d] = "taken"] /\ Goto(w, "record_fare")
       ELSE Finish(w) /\ UNCHANGED fare
  /\ UNCHANGED <<delivery, driver, pay>>

RecordFare(w) ==
  /\ At(w, "record_fare")
  /\ delivery' = [delivery EXCEPT ![task[w].d].txn = TRUE]
  /\ Finish(w)
  /\ UNCHANGED <<driver, fare, pay>>

(***************************************************************************)
(* The trip and its end.                                                   *)
(***************************************************************************)

MarkPickedUp(d) ==
  /\ delivery[d].status = "accepted"
  /\ delivery' = [delivery EXCEPT ![d].status = "picked_up"]
  /\ AtOnce
  /\ UNCHANGED <<driver, fare, pay>>

\* complete, with the customer's code.
CompleteClaim(w, d) ==
  /\ delivery[d].status = "picked_up"
  /\ delivery' = [delivery EXCEPT ![d].status = "delivered"]
  /\ Begin(w, [step |-> "pay_driver", d |-> d])
  /\ UNCHANGED <<driver, fare, pay>>

MarkUndeliverable(w, d) ==
  /\ delivery[d].status \in Moving
  /\ delivery' = [delivery EXCEPT ![d].status = "undeliverable"]
  /\ Begin(w, [step |-> "pay_driver", d |-> d])
  /\ UNCHANGED <<driver, fare, pay>>

\* payoutTransfer under the key of the delivery; without an account nothing is paid.
PayDriver(w) ==
  LET d == task[w].d
      a == delivery[d].by IN
  /\ At(w, "pay_driver")
  /\ pay' = IF driver[a].payable /\ pay[d] = None THEN [pay EXCEPT ![d] = a] ELSE pay
  /\ Finish(w)
  /\ UNCHANGED <<delivery, driver, fare>>

\* cancel, by driver or vendor: refused when it is finished, on what was read.
CancelTripRead(w, d) ==
  /\ delivery[d].status \in Moving \cup {"broadcasting", "expired"}
  /\ Begin(w, [step |-> "cancel_trip", d |-> d, txn |-> delivery[d].txn])
  /\ UNCHANGED <<delivery, driver, fare, pay>>

CancelTripWrite(w) ==
  /\ At(w, "cancel_trip")
  /\ delivery' = [delivery EXCEPT ![task[w].d].status = "cancelled"]
  /\ IF task[w].txn THEN Goto(w, "refund_fare") ELSE Finish(w)
  /\ UNCHANGED <<driver, fare, pay>>

\* refundCustomer logs a refusal and goes on.
RefundFare(w, works) ==
  LET d == task[w].d IN
  /\ At(w, "refund_fare")
  /\ IF works
       THEN fare' = [fare EXCEPT ![d] = "refunded"] /\ Finish(w)
       ELSE FinishAfter(w, "refused") /\ UNCHANGED fare
  /\ UNCHANGED <<delivery, driver, pay>>

DeliveryDies(w) == Dies(w) /\ UNCHANGED <<delivery, driver, fare, pay>>

DeliveryNext ==
  \/ \E w \in Workers :
       \/ SuspendClaim(w) \/ RenewWrite(w) \/ SweepOffersClaim(w) \/ TakeOffer(w) \/ RecordFare(w)
       \/ PayDriver(w) \/ CancelTripWrite(w) \/ DeliveryDies(w)
       \/ \E works \in BOOLEAN : ChargeFare(w, works) \/ RefundFare(w, works)
       \/ \E a \in Unsettled : SuspendRead(w, a) \/ RenewRead(w, a)
       \/ \E a \in Drivers, d \in Deliveries : OfferRead(w, a, d)
       \/ \E d \in Deliveries :
            SweepOffersRead(w, d) \/ CompleteClaim(w, d) \/ MarkUndeliverable(w, d) \/ CancelTripRead(w, d)
  \/ \E d \in Deliveries : RequestDelivery(d) \/ OfferLapses(d) \/ MarkPickedUp(d)
  \/ \E a \in Unsettled : DatesPass(a) \/ AccountRevoked(a)
  \/ \E a \in Unsettled, check \in {"passed", "failed"}, approve \in BOOLEAN : DecideDriver(a, check, approve)

\* Delivery on its own.
DeliverySpec == HandlersInit /\ DeliveryInit /\ [][DeliveryNext]_deliveryVars

(***************************************************************************)
(* Properties.                                                             *)
(***************************************************************************)

\* "Two drivers tapping at the same instant must not both end up believing the job is theirs"
\* (delivery.service.ts:359), and what is charged and paid follows who has it: every delivery is an
\* errand, under every overlap and crash.
AnErrand == INSTANCE Errand WITH
  Errands <- Deliveries, Couriers <- Drivers, Nobody <- None,
  holder <- [d \in Deliveries |-> delivery[d].by], charged <- fare, paidTo <- pay

DeliveryIsAnErrand == AnErrand!Spec

\* A driver has one live delivery.
OneAtATime ==
  Spared({"overlap"}) =>
    \A a \in Drivers : Cardinality({d \in Deliveries : delivery[d].by = a /\ delivery[d].status \in Moving}) <= 1

\* Whose work is done is paid, and nobody else.
DoneIsPaid ==
  AllIdle =>
    \A d \in Deliveries :
      /\ Spared({"crash", "revoked"}) =>
           (delivery[d].status \in {"delivered", "undeliverable"} => pay[d] = delivery[d].by)
      /\ Spared({"overlap"}) =>
           (pay[d] # None => delivery[d].status \in {"delivered", "undeliverable"})

\* Nobody pays for a delivery that did not happen.
UndoneIsFree ==
  AllIdle /\ Spared({"crash", "overlap", "refused"}) =>
    \A d \in Deliveries :
      delivery[d].status \in {"none", "broadcasting", "expired", "cancelled"} => fare[d] # "taken"

\* Whom the operators turned down does not come back by renewing his papers.
RefusalStands == Spared({"overlap"}) => \A a \in Drivers : driver[a].status = "approved" => driver[a].verdict

\* Drivers have one trip, are paid for it, and customers pay for trips that happen.
DeliveryRight == OneAtATime /\ DoneIsPaid /\ UndoneIsFree /\ RefusalStands

=============================================================================
