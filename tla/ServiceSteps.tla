---------------------------- MODULE ServiceSteps ----------------------------
(***************************************************************************)
(* Proofs about services, for any number of handlers, customers and        *)
(* mishaps: every delivery is an errand, and DeliveryRight; and, for the   *)
(* jobs board, appointments, sponsors, ads, loyalty cards and              *)
(* subscriptions, an invariant each, that every step of the component      *)
(* keeps and that implies the component's properties.  They share what     *)
(* handlers that do not overlap have in common: one at most is half way.   *)
(* ServiceProofs draws the conclusions for the deployed services.          *)
(***************************************************************************)
EXTENDS Delivery, Jobs, Scheduling, Sponsors, Ads, Subscriptions, Loyalty, SumTheorems

(***************************************************************************)
(* Delivery.                                                               *)
(***************************************************************************)

Done == {"delivered", "undeliverable"}

Undone == {"none", "broadcasting", "expired", "cancelled"}

Requests ==
  [status : Undone \cup Moving \cup Done, by : Drivers \cup {None}, round : Int,
   due : BOOLEAN, txn : BOOLEAN]

Profiles ==
  [status : {"pending", "approved", "suspended"}, reason : {"none", "ops", "lapsed"},
   check : {"pending", "passed", "failed"}, inDate : BOOLEAN, payable : BOOLEAN, verdict : BOOLEAN]

Tasks ==
  {Resting}
    \cup [step : {"suspend"}, a : Drivers]
    \cup [step : {"renew"}, a : Drivers, lift : BOOLEAN]
    \cup [step : {"sweep_offer"}, d : Deliveries, round : Int]
    \cup [step : {"accept", "charge_fare", "record_fare"}, a : Drivers, d : Deliveries]
    \cup [step : {"pay_driver"}, d : Deliveries]
    \cup [step : {"cancel_trip", "refund_fare"}, d : Deliveries, txn : BOOLEAN]

\* The types of the rows and of what the handlers remember between two awaits.
Typed ==
  /\ delivery \in [Deliveries -> Requests]
  /\ driver \in [Drivers -> Profiles]
  /\ fare \in [Deliveries -> {"no", "taken", "refunded"}]
  /\ pay \in [Deliveries -> Drivers \cup {None}]
  /\ task \in [Workers -> Tasks]

\* A trip, and whoever charges or pays for it, has its driver; who gives a fare back has seen
\* one; what was paid was paid to the driver.
Held ==
  /\ \A d \in Deliveries :
       /\ delivery[d].status = "none" => delivery[d].by = None
       /\ delivery[d].status \in Moving \cup Done => delivery[d].by # None
       /\ delivery[d].txn => fare[d] # "no"
       /\ pay[d] \in {None, delivery[d].by}
  /\ \A w \in Workers :
       /\ task[w].step \in {"charge_fare", "pay_driver"} => delivery[task[w].d].by # None
       /\ task[w].step \in {"record_fare", "refund_fare"} => fare[task[w].d] # "no"
       /\ task[w].step = "cancel_trip" /\ task[w].txn => fare[task[w].d] # "no"

Apart == "overlap" \notin befell

\* Unless handlers overlap, one at most is half way.
Alone == Apart => \A v, w \in Workers : ~Idle(v) /\ ~Idle(w) => v = w

TripsOf(a) == {d \in Deliveries : delivery[d].by = a /\ delivery[d].status \in Moving}

\* ... a driver has one trip, and none when he is about to be given one;
OneTrip ==
  Apart =>
    /\ \A a \in Drivers : \A d, e \in TripsOf(a) : d = e
    /\ \A w \in Workers : task[w].step = "accept" => TripsOf(task[w].a) = {}

\* ... nobody approves himself.
Decided ==
  Apart =>
    /\ \A a \in Drivers :
         driver[a].status = "approved" \/ driver[a].reason = "lapsed" => driver[a].verdict
    /\ \A w \in Workers : task[w].step = "renew" /\ task[w].lift => driver[task[w].a].verdict

Paying(d) == \E w \in Workers : task[w].step = "pay_driver" /\ task[w].d = d

\* Whose work is done has been paid or is being paid, ...
PaidWhenDone ==
  /\ "revoked" \notin befell => \A a \in Drivers : driver[a].payable
  /\ Spared({"crash", "revoked"}) =>
       \A d \in Deliveries :
         delivery[d].status \in Done => pay[d] = delivery[d].by \/ Paying(d)

\* ... and nobody else.
DoneWhenPaid ==
  Apart =>
    /\ \A d \in Deliveries : pay[d] # None => delivery[d].status \in Done
    /\ \A w \in Workers :
         /\ task[w].step = "pay_driver" => delivery[task[w].d].status \in Done
         /\ task[w].step = "cancel_trip" => delivery[task[w].d].status \notin Done

Recording(d) == \E w \in Workers : task[w].step = "record_fare" /\ task[w].d = d

Returning(d) == \E w \in Workers : task[w].step = "refund_fare" /\ task[w].d = d

\* A fare is on record or about to be, and goes back when there is no trip.
FareFollows ==
  Spared({"crash", "overlap", "refused"}) =>
    /\ \A d \in Deliveries :
         fare[d] = "taken" => /\ delivery[d].txn \/ Recording(d)
                              /\ delivery[d].status \in Undone => Returning(d)
    /\ \A w \in Workers :
         /\ task[w].step \in {"charge_fare", "record_fare"} => delivery[task[w].d].status \in Moving
         /\ task[w].step = "cancel_trip" => (delivery[task[w].d].txn => task[w].txn)

IInv ==
  Typed /\ Held /\ Alone /\ OneTrip /\ Decided /\ PaidWhenDone /\ DoneWhenPaid /\ FareFollows

\* What a handler remembers at each of its steps, and what it takes to the next one.
LEMMA TaskFields ==
  ASSUME Typed, NEW w \in Workers
  PROVE  /\ task[w].step \in {"suspend", "renew"} => task[w].a \in Drivers
         /\ task[w].step = "renew" => task[w].lift \in BOOLEAN
         /\ task[w].step = "sweep_offer" => task[w].d \in Deliveries /\ task[w].round \in Int
         /\ task[w].step \in {"accept", "charge_fare", "record_fare"} =>
              /\ task[w].a \in Drivers /\ task[w].d \in Deliveries
              /\ \A s : [task[w] EXCEPT !.step = s] = [step |-> s, a |-> task[w].a, d |-> task[w].d]
              /\ \A s \in {"charge_fare", "record_fare"} : [task[w] EXCEPT !.step = s] \in Tasks
         /\ task[w].step = "pay_driver" => task[w].d \in Deliveries
         /\ task[w].step \in {"cancel_trip", "refund_fare"} =>
              /\ task[w].d \in Deliveries /\ task[w].txn \in BOOLEAN
              /\ \A s : [task[w] EXCEPT !.step = s] = [step |-> s, d |-> task[w].d, txn |-> task[w].txn]
              /\ [task[w] EXCEPT !.step = "refund_fare"] \in Tasks
<1>1. task[w] \in Tasks
  BY DEF Typed
<1>2. CASE task[w] \in [step : {"accept", "charge_fare", "record_fare"}, a : Drivers, d : Deliveries]
  <2> DEFINE t == task[w]
  <2>1. t \in [step : {"accept", "charge_fare", "record_fare"}, a : Drivers, d : Deliveries]
    BY <1>2
  <2> HIDE DEF t
  <2>2. \A s : [t EXCEPT !.step = s] = [step |-> s, a |-> t.a, d |-> t.d]
    BY <2>1
  <2>3. \A s \in {"charge_fare", "record_fare"} : [t EXCEPT !.step = s] \in Tasks
    BY <2>1, <2>2 DEF Tasks
  <2> QED
    BY <2>1, <2>2, <2>3 DEF t
<1>3. CASE task[w] \in [step : {"cancel_trip", "refund_fare"}, d : Deliveries, txn : BOOLEAN]
  <2> DEFINE t == task[w]
  <2>1. t \in [step : {"cancel_trip", "refund_fare"}, d : Deliveries, txn : BOOLEAN]
    BY <1>3
  <2> HIDE DEF t
  <2>2. \A s : [t EXCEPT !.step = s] = [step |-> s, d |-> t.d, txn |-> t.txn]
    BY <2>1
  <2>3. [t EXCEPT !.step = "refund_fare"] \in Tasks
    BY <2>1, <2>2 DEF Tasks
  <2> QED
    BY <2>1, <2>2, <2>3 DEF t
<1> QED
  BY <1>1, <1>2, <1>3 DEF Tasks, Resting

\* A row with fields changed is a row.
LEMMA RowEdits ==
  ASSUME NEW q \in Requests
  PROVE  /\ \A s \in Undone \cup Moving \cup Done : [q EXCEPT !.status = s] \in Requests
         /\ \A t \in BOOLEAN : [q EXCEPT !.txn = t] \in Requests /\ [q EXCEPT !.due = t] \in Requests
         /\ \A a \in Drivers : [q EXCEPT !.by = a] \in Requests
         /\ \A n \in Int : [q EXCEPT !.round = n] \in Requests
BY DEF Requests

LEMMA ProfileEdits ==
  ASSUME NEW p \in Profiles
  PROVE  /\ \A s \in {"approved", "suspended"} : [p EXCEPT !.status = s] \in Profiles
         /\ \A r \in {"none", "ops", "lapsed"} : [p EXCEPT !.reason = r] \in Profiles
         /\ \A c \in {"passed", "failed"} : [p EXCEPT !.check = c] \in Profiles
         /\ \A b \in BOOLEAN : /\ [p EXCEPT !.inDate = b] \in Profiles
                               /\ [p EXCEPT !.payable = b] \in Profiles
                               /\ [p EXCEPT !.verdict = b] \in Profiles
BY DEF Profiles

\* Every step keeps the types.
LEMMA TypedStep ==
  ASSUME Typed, DeliveryNext
  PROVE  Typed'
<1> USE DEF At, Idle, Begin, Becomes, Goto, Finish, FinishAfter, AtOnce, Outside
<1>r. \A d \in Deliveries : delivery[d] \in Requests
  BY DEF Typed
<1>p. \A a \in Drivers : driver[a] \in Profiles
  BY DEF Typed
<1>1. ASSUME NEW w \in Workers, SuspendClaim(w)
      PROVE  Typed'
  <2>1. task[w].a \in Drivers
    BY <1>1, TaskFields DEF SuspendClaim
  <2>2. driver' \in [Drivers -> Profiles]
    <3>1. [[driver[task[w].a] EXCEPT !.status = "suspended"] EXCEPT !.reason = "lapsed"] \in Profiles
      BY <1>p, <2>1, ProfileEdits
    <3> QED
      BY <1>1, <2>1, <3>1 DEF SuspendClaim, Typed
  <2> QED
    BY <1>1, <2>2 DEF SuspendClaim, Typed, Tasks
<1>2. ASSUME NEW w \in Workers, RenewWrite(w)
      PROVE  Typed'
  <2> DEFINE p == [driver[task[w].a] EXCEPT !.inDate = TRUE]
             q == [p EXCEPT !.status = "approved"]
  <2>1. task[w].a \in Drivers
    BY <1>2, TaskFields DEF RenewWrite
  <2>2. p \in Profiles
    BY <1>p, <2>1, ProfileEdits
  <2>3. q \in Profiles
    <3> HIDE DEF p
    <3> QED
      BY <2>2, ProfileEdits
  <2>4. [q EXCEPT !.reason = "none"] \in Profiles
    <3> HIDE DEF q
    <3> QED
      BY <2>3, ProfileEdits
  <2>5. driver' \in [Drivers -> Profiles]
    BY <1>2, <2>1, <2>2, <2>4 DEF RenewWrite, Typed
  <2> QED
    BY <1>2, <2>5 DEF RenewWrite, Typed, Tasks
<1>3. ASSUME NEW w \in Workers, SweepOffersClaim(w)
      PROVE  Typed'
  <2> DEFINE q == [delivery[task[w].d] EXCEPT !.due = FALSE]
  <2>1. task[w].d \in Deliveries /\ delivery[task[w].d] \in Requests
    BY <1>3, <1>r, TaskFields DEF SweepOffersClaim
  <2>2. q \in Requests
    BY <2>1, RowEdits
  <2>3. [q EXCEPT !.round = @ + 1] \in Requests
    <3> HIDE DEF q
    <3>1. q.round + 1 \in Int
      BY <2>2 DEF Requests
    <3> QED
      BY <2>2, <3>1, RowEdits
  <2>4. [delivery[task[w].d] EXCEPT !.status = "expired"] \in Requests
    BY <2>1, RowEdits DEF Undone
  <2>5. delivery' \in [Deliveries -> Requests]
    BY <1>3, <2>1, <2>3, <2>4 DEF SweepOffersClaim, Typed
  <2> QED
    BY <1>3, <2>5 DEF SweepOffersClaim, Typed, Tasks
<1>4. ASSUME NEW w \in Workers, TakeOffer(w)
      PROVE  Typed'
  <2> DEFINE q == [delivery[task[w].d] EXCEPT !.by = task[w].a]
  <2>1. task[w].d \in Deliveries /\ task[w].a \in Drivers /\ delivery[task[w].d] \in Requests
    BY <1>4, <1>r, TaskFields DEF TakeOffer
  <2>2. q \in Requests
    BY <2>1, RowEdits
  <2>3. [q EXCEPT !.status = "accepted"] \in Requests
    <3> HIDE DEF q
    <3> QED
      BY <2>2, RowEdits DEF Moving
  <2>4. delivery' \in [Deliveries -> Requests]
    BY <1>4, <2>1, <2>3 DEF TakeOffer, Typed
  <2>0. Resting \in Tasks /\ [task[w] EXCEPT !.step = "charge_fare"] \in Tasks
    BY <1>4, TaskFields DEF TakeOffer, Tasks
  <2>5. task' \in [Workers -> Tasks]
    BY <1>4, <2>0 DEF TakeOffer, Typed
  <2> QED
    BY <1>4, <2>4, <2>5 DEF TakeOffer, Typed
<1>5. ASSUME NEW w \in Workers, RecordFare(w)
      PROVE  Typed'
  <2>1. task[w].d \in Deliveries
    BY <1>5, TaskFields DEF RecordFare
  <2>2. delivery' \in [Deliveries -> Requests]
    BY <1>5, <1>r, <2>1, RowEdits DEF RecordFare, Typed
  <2> QED
    BY <1>5, <2>2 DEF RecordFare, Typed, Tasks
<1>6. ASSUME NEW w \in Workers, PayDriver(w)
      PROVE  Typed'
  <2>1. task[w].d \in Deliveries
    BY <1>6, TaskFields DEF PayDriver
  <2>2. delivery[task[w].d].by \in Drivers \cup {None}
    BY <1>r, <2>1 DEF Requests
  <2> QED
    BY <1>6, <2>1, <2>2 DEF PayDriver, Typed, Tasks
<1>7. ASSUME NEW w \in Workers, CancelTripWrite(w)
      PROVE  Typed'
  <2>1. task[w].d \in Deliveries
    BY <1>7, TaskFields DEF CancelTripWrite
  <2>2. delivery' \in [Deliveries -> Requests]
    BY <1>7, <1>r, <2>1, RowEdits DEF CancelTripWrite, Typed, Undone
  <2>0. Resting \in Tasks /\ [task[w] EXCEPT !.step = "refund_fare"] \in Tasks
    BY <1>7, TaskFields DEF CancelTripWrite, Tasks
  <2>3. task' \in [Workers -> Tasks]
    BY <1>7, <2>0 DEF CancelTripWrite, Typed
  <2> QED
    BY <1>7, <2>2, <2>3 DEF CancelTripWrite, Typed
<1>8. ASSUME NEW w \in Workers, DeliveryDies(w)
      PROVE  Typed'
  BY <1>8 DEF DeliveryDies, Dies, Typed, Tasks
<1>9. ASSUME NEW w \in Workers, NEW works \in BOOLEAN, ChargeFare(w, works)
      PROVE  Typed'
  <2>0. Resting \in Tasks /\ [task[w] EXCEPT !.step = "record_fare"] \in Tasks
    BY <1>9, TaskFields DEF ChargeFare, Tasks
  <2>1. task' \in [Workers -> Tasks]
    BY <1>9, <2>0 DEF ChargeFare, Typed
  <2> QED
    BY <1>9, <2>1 DEF ChargeFare, Typed
<1>10. ASSUME NEW w \in Workers, NEW works \in BOOLEAN, RefundFare(w, works)
       PROVE  Typed'
  BY <1>10 DEF RefundFare, Typed, Tasks
<1>11. ASSUME NEW w \in Workers, NEW a \in Unsettled, SuspendRead(w, a) \/ RenewRead(w, a)
       PROVE  Typed'
  <2>1. [step |-> "suspend", a |-> a] \in Tasks
    BY DeliveryAssumption DEF Tasks
  <2>2. [step |-> "renew", a |-> a, lift |-> Liftable(a)] \in Tasks
    BY DeliveryAssumption DEF Tasks, Liftable
  <2> QED
    BY <1>11, <2>1, <2>2 DEF SuspendRead, RenewRead, Typed
<1>12. ASSUME NEW w \in Workers, NEW a \in Drivers, NEW d \in Deliveries, OfferRead(w, a, d)
       PROVE  Typed'
  BY <1>12 DEF OfferRead, Typed, Tasks
<1>13. ASSUME NEW w \in Workers, NEW d \in Deliveries, SweepOffersRead(w, d)
       PROVE  Typed'
  BY <1>13 DEF SweepOffersRead, Typed, Tasks, Requests
<1>14. ASSUME NEW w \in Workers, NEW d \in Deliveries, CompleteClaim(w, d) \/ MarkUndeliverable(w, d)
       PROVE  Typed'
  <2>0. \A s \in Done : [delivery[d] EXCEPT !.status = s] \in Requests
    BY <1>r, RowEdits
  <2>1. delivery' \in [Deliveries -> Requests]
    BY <1>14, <2>0 DEF CompleteClaim, MarkUndeliverable, Typed, Done
  <2> QED
    BY <1>14, <2>1 DEF CompleteClaim, MarkUndeliverable, Typed, Tasks
<1>15. ASSUME NEW w \in Workers, NEW d \in Deliveries, CancelTripRead(w, d)
       PROVE  Typed'
  BY <1>15 DEF CancelTripRead, Typed, Tasks, Requests
<1>16. ASSUME NEW d \in Deliveries, RequestDelivery(d) \/ OfferLapses(d) \/ MarkPickedUp(d)
       PROVE  Typed'
  <2>1. NewDelivery \in Requests
    BY DEF NewDelivery, Requests, Undone
  <2>0. /\ [delivery[d] EXCEPT !.due = TRUE] \in Requests
        /\ [delivery[d] EXCEPT !.status = "picked_up"] \in Requests
    BY <1>r, RowEdits DEF Moving
  <2>2. delivery' \in [Deliveries -> Requests]
    BY <1>16, <2>0, <2>1 DEF RequestDelivery, OfferLapses, MarkPickedUp, Typed
  <2> QED
    BY <1>16, <2>2 DEF RequestDelivery, OfferLapses, MarkPickedUp, Typed
<1>17. ASSUME NEW a \in Unsettled, DatesPass(a) \/ AccountRevoked(a)
       PROVE  Typed'
  <2>0. /\ [driver[a] EXCEPT !.inDate = FALSE] \in Profiles
        /\ [driver[a] EXCEPT !.payable = FALSE] \in Profiles
    BY <1>p, ProfileEdits, DeliveryAssumption
  <2>1. driver' \in [Drivers -> Profiles]
    BY <1>17, <2>0 DEF DatesPass, AccountRevoked, Typed
  <2> QED
    BY <1>17, <2>1 DEF DatesPass, AccountRevoked, Typed
<1>18. ASSUME NEW a \in Unsettled, NEW c \in {"passed", "failed"}, NEW approve \in BOOLEAN,
              DecideDriver(a, c, approve)
       PROVE  Typed'
  <2> DEFINE yes == approve /\ c = "passed"
             p == [driver[a] EXCEPT !.check = c]
             q == [p EXCEPT !.status = IF yes THEN "approved" ELSE "suspended"]
             r == [q EXCEPT !.reason = IF yes THEN "none" ELSE "ops"]
             s == [r EXCEPT !.verdict = yes]
  <2>1. yes \in BOOLEAN /\ p \in Profiles
    BY <1>p, DeliveryAssumption, ProfileEdits
  <2>2. driver' = [driver EXCEPT ![a] = s] /\ UNCHANGED <<delivery, fare, pay, task>>
    BY <1>18 DEF DecideDriver
  <2> HIDE DEF yes, p
  <2>3. q \in Profiles
    BY <2>1, ProfileEdits
  <2> HIDE DEF q
  <2>4. r \in Profiles
    BY <2>3, ProfileEdits
  <2> HIDE DEF r
  <2>5. s \in Profiles
    BY <2>1, <2>4, ProfileEdits
  <2> HIDE DEF s
  <2> QED
    BY <2>2, <2>5 DEF Typed
<1> QED
  BY <1>1, <1>2, <1>3, <1>4, <1>5, <1>6, <1>7, <1>8, <1>9, <1>10, <1>11, <1>12, <1>13, <1>14,
     <1>15, <1>16, <1>17, <1>18 DEF DeliveryNext

\* Only handler w's task changes.
Others(w) == \A v \in Workers \ {w} : task'[v] = task[v]

\* Only delivery d changes.
OtherRows(d) == \A e \in Deliveries \ {d} : delivery'[e] = delivery[e]

\* Handler w began; it is alone unless handlers now overlap.
Entered(w) ==
  /\ task[w].step = "idle" /\ befell \subseteq befell'
  /\ "overlap" \in befell' \/ \A v \in Workers : Idle(v)

\* Every step keeps the invariant, the types apart, and is a step of an errand or changes
\* nothing an errand knows of.
LEMMA Steps ==
  ASSUME IInv, Typed', DeliveryNext
  PROVE  /\ (Held /\ Alone /\ OneTrip /\ Decided /\ PaidWhenDone /\ DoneWhenPaid /\ FareFollows)'
         /\ [AnErrand!Next]_(AnErrand!vars)
<1> DEFINE Rest == Held /\ Alone /\ OneTrip /\ Decided /\ PaidWhenDone /\ DoneWhenPaid /\ FareFollows
<1> USE DEF Apart, Spared
<1>i. Typed /\ Rest
  BY DEF IInv
<1>r. \A d \in Deliveries : delivery[d] \in Requests
  BY <1>i DEF Typed
<1>p. \A a \in Drivers : driver[a] \in Profiles
  BY <1>i DEF Typed
<1>t. \A v \in Workers :
        /\ task[v].step \in {"accept", "charge_fare", "record_fare", "refund_fare", "pay_driver",
                           "cancel_trip", "sweep_offer"} => task[v].d \in Deliveries
        /\ task[v].step \in {"accept", "suspend", "renew"} => task[v].a \in Drivers
        /\ task[v].step = "cancel_trip" => task[v].txn \in BOOLEAN
  BY <1>i, TaskFields

<1>1. ASSUME NEW w \in Workers, TakeOffer(w)
      PROVE  Rest' /\ [AnErrand!Next]_(AnErrand!vars)
  <2> DEFINE d == task[w].d
             a == task[w].a
             t == [task[w] EXCEPT !.step = "charge_fare"]
  <2>0. t.step = "charge_fare" /\ t.d = task[w].d
    BY <1>1, <1>i, TaskFields DEF TakeOffer, At
  <2>1. /\ task[w].step = "accept" /\ d \in Deliveries /\ a \in Drivers /\ task[w].d = d /\ task[w].a = a
        /\ Others(w) /\ befell' = befell /\ UNCHANGED <<driver, fare, pay>>
        /\ \/ /\ delivery[d].status = "broadcasting" /\ delivery[d].by = None /\ OtherRows(d)
              /\ delivery'[d].status = "accepted" /\ delivery'[d].by = a /\ delivery'[d].txn = delivery[d].txn
              /\ task'[w].step = "charge_fare" /\ task'[w].d = d
           \/ delivery' = delivery /\ task'[w].step = "idle"
    <3>1. /\ task[w].step = "accept" /\ d \in Deliveries /\ a \in Drivers
          /\ UNCHANGED <<driver, fare, pay>>
      BY <1>1, <1>t DEF TakeOffer, At
    <3>2. CASE Takeable(d)
      <4>1. delivery' = [delivery EXCEPT ![d].by = a, ![d].status = "accepted"]
        BY <1>1, <3>2 DEF TakeOffer
      <4>2. delivery[d].status = "broadcasting" /\ delivery[d].by = None
        BY <3>2 DEF Takeable
      <4>3. /\ OtherRows(d) /\ delivery'[d].status = "accepted" /\ delivery'[d].by = a
            /\ delivery'[d].txn = delivery[d].txn
        BY <1>i, <1>r, <3>1, <4>1 DEF OtherRows, Typed, Requests
      <4>4. task' = [task EXCEPT ![w] = t] /\ befell' = befell
        BY <1>1, <3>2 DEF TakeOffer, Goto, Becomes
      <4> HIDE DEF t
      <4>5. Others(w) /\ task'[w].step = "charge_fare" /\ task'[w].d = d
        BY <1>i, <2>0, <4>4 DEF Others, Typed
      <4> QED
        BY <3>1, <4>2, <4>3, <4>4, <4>5
    <3>3. CASE ~Takeable(d)
      <4>1. task' = [task EXCEPT ![w] = Resting] /\ befell' = befell /\ delivery' = delivery
        BY <1>1, <3>3 DEF TakeOffer, Finish, Becomes
      <4>2. Others(w) /\ task'[w].step = "idle"
        BY <1>i, <4>1 DEF Others, Typed, Resting
      <4> QED
        BY <3>1, <4>1, <4>2
    <3> QED
      BY <3>2, <3>3
  <2> HIDE DEF d, a
  <2>2. Held'
    BY <1>i, <1>t, <1>r, <2>1, DeliveryAssumption DEF Held, Moving, Done, Others, OtherRows
  <2>3. Alone'
    BY <1>i, <2>1 DEF Alone, Idle, Others, OtherRows
  <2>4. OneTrip'
    BY <1>i, <1>t, <2>1 DEF OneTrip, TripsOf, Moving, Alone, Idle, Others, OtherRows
  <2>5. Decided'
    BY <1>i, <1>t, <2>1 DEF Decided, Alone, Idle, Others, OtherRows
  <2>6. PaidWhenDone'
    BY <1>i, <1>t, <1>r, <2>1
    DEF PaidWhenDone, Requests, Paying, Held, Moving, Done, Others, OtherRows
  <2>7. DoneWhenPaid'
    BY <1>i, <1>t, <1>r, <2>1 DEF DoneWhenPaid, Alone, Idle, Moving, Done, Others, OtherRows
  <2>8. FareFollows'
    BY <1>i, <1>t, <1>r, <2>1
    DEF FareFollows, Held, Alone, Idle, Recording, Returning, Moving, Done, Undone, Others,
      OtherRows
  <2>9. [AnErrand!Next]_(AnErrand!vars)
    <3>1. CASE delivery' = delivery
      BY <2>1, <3>1 DEF AnErrand!vars
    <3>2. CASE delivery' # delivery
      BY <2>1, <3>2 DEF AnErrand!Next, AnErrand!Take, OtherRows
    <3> QED
      BY <3>1, <3>2
  <2> QED
    BY <2>2, <2>3, <2>4, <2>5, <2>6, <2>7, <2>8, <2>9
<1>2. ASSUME NEW w \in Workers, NEW works \in BOOLEAN, ChargeFare(w, works)
      PROVE  Rest' /\ [AnErrand!Next]_(AnErrand!vars)
  <2> DEFINE d == task[w].d
             t == [task[w] EXCEPT !.step = "record_fare"]
  <2>0. t.step = "record_fare" /\ t.d = task[w].d
    BY <1>2, <1>i, TaskFields DEF ChargeFare, At
  <2>1. /\ task[w].step = "charge_fare" /\ d \in Deliveries /\ task[w].d = d
        /\ Others(w) /\ befell' = befell /\ UNCHANGED <<driver, delivery, pay>>
        /\ \/ /\ fare[d] = "no" /\ fare'[d] = "taken" /\ \A e \in Deliveries \ {d} : fare'[e] = fare[e]
              /\ task'[w].step = "record_fare" /\ task'[w].d = d
           \/ fare' = fare /\ task'[w].step = "idle"
    <3>1. CASE works /\ fare[d] = "no"
      <4>1. task' = [task EXCEPT ![w] = t] /\ fare' = [fare EXCEPT ![d] = "taken"]
        BY <1>2, <3>1 DEF ChargeFare, Goto, Becomes
      <4> QED
        BY <1>2, <1>i, <1>t, <2>0, <3>1, <4>1 DEF ChargeFare, At, Goto, Others, Typed
    <3>2. CASE ~(works /\ fare[d] = "no")
      BY <1>2, <1>i, <1>t, <3>2 DEF ChargeFare, At, Finish, Becomes, Resting, Others, Typed
    <3> QED
      BY <3>1, <3>2
  <2> HIDE DEF d
  <2>2. Held'
    BY <1>i, <1>t, <1>r, <2>1 DEF Held, Moving, Done, Others
  <2>3. Alone'
    BY <1>i, <2>1 DEF Alone, Idle, Others
  <2>4. OneTrip'
    BY <1>i, <1>t, <2>1 DEF OneTrip, TripsOf, Moving, Alone, Idle, Others
  <2>5. Decided'
    BY <1>i, <1>t, <2>1 DEF Decided, Alone, Idle, Others
  <2>6. PaidWhenDone'
    BY <1>i, <1>t, <1>r, <2>1 DEF PaidWhenDone, Requests, Paying, Held, Moving, Done, Others
  <2>7. DoneWhenPaid'
    BY <1>i, <1>t, <1>r, <2>1 DEF DoneWhenPaid, Alone, Idle, Moving, Done, Others
  <2>8. FareFollows'
    BY <1>i, <1>t, <1>r, <2>1
    DEF FareFollows, Held, Alone, Idle, Recording, Returning, Moving, Done, Undone, Others
  <2>9. [AnErrand!Next]_(AnErrand!vars)
    <3>1. CASE fare' = fare
      BY <2>1, <3>1 DEF AnErrand!vars
    <3>2. CASE fare' # fare
      BY <1>i, <2>1, <3>2 DEF AnErrand!Next, AnErrand!Charge, Held, Typed
    <3> QED
      BY <3>1, <3>2
  <2> QED
    BY <2>2, <2>3, <2>4, <2>5, <2>6, <2>7, <2>8, <2>9
<1>3. ASSUME NEW w \in Workers, RecordFare(w)
      PROVE  Rest' /\ [AnErrand!Next]_(AnErrand!vars)
  <2> DEFINE d == task[w].d
  <2>1. /\ task[w].step = "record_fare" /\ d \in Deliveries /\ task[w].d = d
        /\ Others(w) /\ task'[w].step = "idle" /\ befell' = befell /\ UNCHANGED <<driver, fare, pay>>
        /\ OtherRows(d) /\ delivery'[d].txn /\ delivery'[d].status = delivery[d].status
        /\ delivery'[d].by = delivery[d].by
    BY <1>3, <1>i, <1>r, <1>t
    DEF RecordFare, At, Finish, Becomes, Resting, Others, OtherRows, Typed, Requests
  <2> HIDE DEF d
  <2>2. Held'
    BY <1>i, <1>t, <1>r, <2>1 DEF Held, Moving, Done, Others, OtherRows
  <2>3. Alone'
    BY <1>i, <2>1 DEF Alone, Idle, Others, OtherRows
  <2>4. OneTrip'
    BY <1>i, <1>t, <2>1 DEF OneTrip, TripsOf, Moving, Alone, Idle, Others, OtherRows
  <2>5. Decided'
    BY <1>i, <1>t, <2>1 DEF Decided, Alone, Idle, Others, OtherRows
  <2>6. PaidWhenDone'
    BY <1>i, <1>t, <1>r, <2>1
    DEF PaidWhenDone, Requests, Paying, Held, Moving, Done, Others, OtherRows
  <2>7. DoneWhenPaid'
    BY <1>i, <1>t, <1>r, <2>1 DEF DoneWhenPaid, Alone, Idle, Moving, Done, Others, OtherRows
  <2>8. FareFollows'
    BY <1>i, <1>t, <1>r, <2>1
    DEF FareFollows, Held, Alone, Idle, Recording, Returning, Moving, Done, Undone, Others,
      OtherRows
  <2>9. UNCHANGED AnErrand!vars
    BY <2>1 DEF AnErrand!vars, OtherRows
  <2> QED
    BY <2>2, <2>3, <2>4, <2>5, <2>6, <2>7, <2>8, <2>9
<1>4. ASSUME NEW w \in Workers, NEW works \in BOOLEAN, RefundFare(w, works)
      PROVE  Rest' /\ [AnErrand!Next]_(AnErrand!vars)
  <2> DEFINE d == task[w].d
  <2>1. /\ task[w].step = "refund_fare" /\ d \in Deliveries /\ task[w].d = d
        /\ Others(w) /\ task'[w].step = "idle" /\ UNCHANGED <<driver, delivery, pay>>
        /\ \/ /\ befell' = befell /\ fare'[d] = "refunded"
              /\ \A e \in Deliveries \ {d} : fare'[e] = fare[e]
           \/ befell' = befell \cup {"refused"} /\ fare' = fare
    BY <1>4, <1>i, <1>r, <1>t
    DEF RefundFare, At, Finish, FinishAfter, Befalls, Becomes, Resting, Others, Typed,
      Requests
  <2> HIDE DEF d
  <2>2. Held'
    BY <1>i, <1>t, <1>r, <2>1 DEF Held, Moving, Done, Others
  <2>3. Alone'
    BY <1>i, <2>1 DEF Alone, Idle, Others
  <2>4. OneTrip'
    BY <1>i, <1>t, <2>1 DEF OneTrip, TripsOf, Moving, Alone, Idle, Others
  <2>5. Decided'
    BY <1>i, <1>t, <2>1 DEF Decided, Alone, Idle, Others
  <2>6. PaidWhenDone'
    BY <1>i, <1>t, <1>r, <2>1 DEF PaidWhenDone, Requests, Paying, Held, Moving, Done, Others
  <2>7. DoneWhenPaid'
    BY <1>i, <1>t, <1>r, <2>1 DEF DoneWhenPaid, Alone, Idle, Moving, Done, Others
  <2>8. FareFollows'
    BY <1>i, <1>t, <1>r, <2>1
    DEF FareFollows, Held, Alone, Idle, Recording, Returning, Moving, Done, Undone, Others
  <2>9. [AnErrand!Next]_(AnErrand!vars)
    <3>1. CASE fare' = fare
      BY <2>1, <3>1 DEF AnErrand!vars
    <3>2. CASE fare' # fare
      BY <1>i, <2>1, <3>2 DEF AnErrand!Next, AnErrand!GiveBack, Held, Typed
    <3> QED
      BY <3>1, <3>2
  <2> QED
    BY <2>2, <2>3, <2>4, <2>5, <2>6, <2>7, <2>8, <2>9
<1>5. ASSUME NEW w \in Workers, PayDriver(w)
      PROVE  Rest' /\ [AnErrand!Next]_(AnErrand!vars)
  <2> DEFINE d == task[w].d
  <2>1. /\ task[w].step = "pay_driver" /\ d \in Deliveries /\ task[w].d = d
        /\ Others(w) /\ task'[w].step = "idle" /\ befell' = befell /\ UNCHANGED <<driver, delivery, fare>>
        /\ \A e \in Deliveries \ {d} : pay'[e] = pay[e]
        /\ pay'[d] = IF driver[delivery[d].by].payable /\ pay[d] = None THEN delivery[d].by ELSE pay[d]
    BY <1>5, <1>i, <1>r, <1>t
    DEF PayDriver, At, Finish, Becomes, Resting, Others, Typed, Requests
  <2> HIDE DEF d
  <2>2. Held'
    BY <1>i, <1>t, <1>r, <2>1 DEF Held, Moving, Done, Others
  <2>3. Alone'
    BY <1>i, <2>1 DEF Alone, Idle, Others
  <2>4. OneTrip'
    BY <1>i, <1>t, <2>1 DEF OneTrip, TripsOf, Moving, Alone, Idle, Others
  <2>5. Decided'
    BY <1>i, <1>t, <2>1 DEF Decided, Alone, Idle, Others
  <2>6. PaidWhenDone'
    BY <1>i, <1>t, <1>r, <2>1 DEF PaidWhenDone, Requests, Paying, Held, Moving, Done, Others
  <2>7. DoneWhenPaid'
    BY <1>i, <1>t, <1>r, <2>1 DEF DoneWhenPaid, Alone, Idle, Moving, Done, Others
  <2>8. FareFollows'
    BY <1>i, <1>t, <1>r, <2>1
    DEF FareFollows, Held, Alone, Idle, Recording, Returning, Moving, Done, Undone, Others
  <2>9. [AnErrand!Next]_(AnErrand!vars)
    <3>1. CASE pay' = pay
      BY <2>1, <3>1 DEF AnErrand!vars
    <3>2. CASE pay' # pay
      BY <1>i, <2>1, <3>2 DEF AnErrand!Next, AnErrand!Pay, Held, Typed
    <3> QED
      BY <3>1, <3>2
  <2> QED
    BY <2>2, <2>3, <2>4, <2>5, <2>6, <2>7, <2>8, <2>9
<1>6. ASSUME NEW w \in Workers, CancelTripWrite(w)
      PROVE  Rest' /\ [AnErrand!Next]_(AnErrand!vars)
  <2> DEFINE d == task[w].d
             t == [task[w] EXCEPT !.step = "refund_fare"]
  <2>0. t.step = "refund_fare" /\ t.d = task[w].d
    BY <1>6, <1>i, TaskFields DEF CancelTripWrite, At
  <2>1. /\ task[w].step = "cancel_trip" /\ d \in Deliveries /\ task[w].d = d
        /\ Others(w) /\ befell' = befell /\ UNCHANGED <<driver, fare, pay>>
        /\ OtherRows(d) /\ delivery'[d].status = "cancelled" /\ delivery'[d].by = delivery[d].by
        /\ delivery'[d].txn = delivery[d].txn
        /\ IF task[w].txn THEN task'[w].step = "refund_fare" /\ task'[w].d = d
                          ELSE task'[w].step = "idle"
    <3>1. CASE task[w].txn
      <4>1. task' = [task EXCEPT ![w] = t] /\ befell' = befell
        BY <1>6, <3>1 DEF CancelTripWrite, Goto, Becomes
      <4> QED
        BY <1>6, <1>i, <1>r, <1>t, <2>0, <3>1, <4>1
        DEF CancelTripWrite, At, Others, OtherRows, Typed, Requests
    <3>2. CASE ~task[w].txn
      BY <1>6, <1>i, <1>r, <1>t, <3>2
      DEF CancelTripWrite, At, Finish, Becomes, Resting, Others, OtherRows, Typed, Requests
    <3> QED
      BY <3>1, <3>2
  <2> HIDE DEF d
  <2>2. Held'
    BY <1>i, <1>t, <1>r, <2>1 DEF Held, Moving, Done, Others, OtherRows
  <2>3. Alone'
    BY <1>i, <2>1 DEF Alone, Idle, Others, OtherRows
  <2>4. OneTrip'
    BY <1>i, <1>t, <2>1 DEF OneTrip, TripsOf, Moving, Alone, Idle, Others, OtherRows
  <2>5. Decided'
    BY <1>i, <1>t, <2>1 DEF Decided, Alone, Idle, Others, OtherRows
  <2>6. PaidWhenDone'
    BY <1>i, <1>t, <1>r, <2>1
    DEF PaidWhenDone, Requests, Paying, Held, Moving, Done, Others, OtherRows
  <2>7. DoneWhenPaid'
    BY <1>i, <1>t, <1>r, <2>1 DEF DoneWhenPaid, Alone, Idle, Moving, Done, Others, OtherRows
  <2>8. FareFollows'
    BY <1>i, <1>t, <1>r, <2>1
    DEF FareFollows, Held, Alone, Idle, Recording, Returning, Moving, Done, Undone, Others,
      OtherRows
  <2>9. UNCHANGED AnErrand!vars
    BY <2>1 DEF AnErrand!vars, OtherRows
  <2> QED
    BY <2>2, <2>3, <2>4, <2>5, <2>6, <2>7, <2>8, <2>9
<1>7. ASSUME NEW w \in Workers, SweepOffersClaim(w)
      PROVE  Rest' /\ [AnErrand!Next]_(AnErrand!vars)
  <2> DEFINE d == task[w].d
  <2>1. /\ task[w].step = "sweep_offer" /\ d \in Deliveries /\ task[w].d = d
        /\ Others(w) /\ task'[w].step = "idle" /\ befell' = befell /\ UNCHANGED <<driver, fare, pay>>
        /\ OtherRows(d) /\ delivery'[d].by = delivery[d].by /\ delivery'[d].txn = delivery[d].txn
        /\ \/ delivery'[d].status = delivery[d].status
           \/ delivery[d].status = "broadcasting" /\ delivery'[d].status = "expired"
    BY <1>7, <1>i, <1>r, <1>t
    DEF SweepOffersClaim, At, Finish, Becomes, Resting, Others, OtherRows, Typed, Requests
  <2> HIDE DEF d
  <2>2. Held'
    BY <1>i, <1>t, <1>r, <2>1 DEF Held, Moving, Done, Others, OtherRows
  <2>3. Alone'
    BY <1>i, <2>1 DEF Alone, Idle, Others, OtherRows
  <2>4. OneTrip'
    BY <1>i, <1>t, <2>1 DEF OneTrip, TripsOf, Moving, Alone, Idle, Others, OtherRows
  <2>5. Decided'
    BY <1>i, <1>t, <2>1 DEF Decided, Alone, Idle, Others, OtherRows
  <2>6. PaidWhenDone'
    BY <1>i, <1>t, <1>r, <2>1
    DEF PaidWhenDone, Requests, Paying, Held, Moving, Done, Others, OtherRows
  <2>7. DoneWhenPaid'
    BY <1>i, <1>t, <1>r, <2>1 DEF DoneWhenPaid, Alone, Idle, Moving, Done, Others, OtherRows
  <2>8. FareFollows'
    BY <1>i, <1>t, <1>r, <2>1
    DEF FareFollows, Held, Alone, Idle, Recording, Returning, Moving, Done, Undone, Others,
      OtherRows
  <2>9. UNCHANGED AnErrand!vars
    BY <2>1 DEF AnErrand!vars, OtherRows
  <2> QED
    BY <2>2, <2>3, <2>4, <2>5, <2>6, <2>7, <2>8, <2>9
<1>8. ASSUME NEW w \in Workers, NEW d \in Deliveries, CompleteClaim(w, d) \/ MarkUndeliverable(w, d)
      PROVE  Rest' /\ [AnErrand!Next]_(AnErrand!vars)
  <2>1. /\ Others(w) /\ task'[w].step = "pay_driver" /\ task'[w].d = d /\ Entered(w)
        /\ UNCHANGED <<driver, fare, pay>>
        /\ delivery[d].status \in Moving
        /\ OtherRows(d) /\ delivery'[d].status \in Done /\ delivery'[d].by = delivery[d].by
        /\ delivery'[d].txn = delivery[d].txn
    BY <1>8, <1>i, <1>r
    DEF CompleteClaim, MarkUndeliverable, Begin, Idle, Overlaps, Befalls, Moving, Done,
      Others, OtherRows, Entered, Typed, Requests
  <2>2. Held'
    BY <1>i, <1>t, <1>r, <2>1 DEF Held, Moving, Done, Others, OtherRows, Entered
  <2>3. Alone'
    BY <1>i, <2>1 DEF Alone, Idle, Others, OtherRows, Entered
  <2>4. OneTrip'
    BY <1>i, <1>t, <2>1 DEF OneTrip, TripsOf, Moving, Alone, Idle, Others, OtherRows, Entered
  <2>5. Decided'
    BY <1>i, <1>t, <2>1 DEF Decided, Alone, Idle, Others, OtherRows, Entered
  <2>6. PaidWhenDone'
    BY <1>i, <1>t, <1>r, <2>1
    DEF PaidWhenDone, Requests, Paying, Held, Moving, Done, Others, OtherRows, Entered
  <2>7. DoneWhenPaid'
    BY <1>i, <1>t, <1>r, <2>1
    DEF DoneWhenPaid, Alone, Idle, Moving, Done, Others, OtherRows, Entered
  <2>8. FareFollows'
    BY <1>i, <1>t, <1>r, <2>1
    DEF FareFollows, Held, Alone, Idle, Recording, Returning, Moving, Done, Undone, Others,
      OtherRows, Entered
  <2>9. UNCHANGED AnErrand!vars
    BY <2>1 DEF AnErrand!vars, OtherRows
  <2> QED
    BY <2>2, <2>3, <2>4, <2>5, <2>6, <2>7, <2>8, <2>9
<1>9. ASSUME NEW w \in Workers, NEW d \in Deliveries, CancelTripRead(w, d)
      PROVE  Rest' /\ [AnErrand!Next]_(AnErrand!vars)
  <2>1. /\ Others(w) /\ Entered(w) /\ UNCHANGED <<delivery, driver, fare, pay>>
        /\ task'[w].step = "cancel_trip" /\ task'[w].d = d /\ task'[w].txn = delivery[d].txn
        /\ delivery[d].status \in Moving \cup {"broadcasting", "expired"}
    BY <1>9, <1>i, <1>r
    DEF CancelTripRead, Begin, Idle, Overlaps, Befalls, Others, Entered, Typed, Requests
  <2>2. Held'
    BY <1>i, <1>t, <1>r, <2>1 DEF Held, Moving, Done, Others, Entered
  <2>3. Alone'
    BY <1>i, <2>1 DEF Alone, Idle, Others, Entered
  <2>4. OneTrip'
    BY <1>i, <1>t, <2>1 DEF OneTrip, TripsOf, Moving, Alone, Idle, Others, Entered
  <2>5. Decided'
    BY <1>i, <1>t, <2>1 DEF Decided, Alone, Idle, Others, Entered
  <2>6. PaidWhenDone'
    BY <1>i, <1>t, <1>r, <2>1
    DEF PaidWhenDone, Requests, Paying, Held, Moving, Done, Others, Entered
  <2>7. DoneWhenPaid'
    BY <1>i, <1>t, <1>r, <2>1 DEF DoneWhenPaid, Alone, Idle, Moving, Done, Others, Entered
  <2>8. FareFollows'
    BY <1>i, <1>t, <1>r, <2>1
    DEF FareFollows, Held, Alone, Idle, Recording, Returning, Moving, Done, Undone, Others,
      Entered
  <2>9. UNCHANGED AnErrand!vars
    BY <2>1 DEF AnErrand!vars
  <2> QED
    BY <2>2, <2>3, <2>4, <2>5, <2>6, <2>7, <2>8, <2>9
<1>10. ASSUME NEW w \in Workers, NEW a \in Drivers, NEW d \in Deliveries, OfferRead(w, a, d)
       PROVE  Rest' /\ [AnErrand!Next]_(AnErrand!vars)
  <2>1. /\ Others(w) /\ Entered(w) /\ UNCHANGED <<delivery, driver, fare, pay>>
        /\ task'[w].step = "accept" /\ task'[w].a = a
        /\ TripsOf(a) = {}
    BY <1>10, <1>i, <1>r
    DEF OfferRead, Begin, Idle, Overlaps, Befalls, TripsOf, Others, Entered, Typed, Requests
  <2>2. Held'
    BY <1>i, <1>t, <1>r, <2>1 DEF Held, Moving, Done, Others, Entered
  <2>3. Alone'
    BY <1>i, <2>1 DEF Alone, Idle, Others, Entered
  <2>4. OneTrip'
    BY <1>i, <1>t, <2>1 DEF OneTrip, TripsOf, Moving, Alone, Idle, Others, Entered
  <2>5. Decided'
    BY <1>i, <1>t, <2>1 DEF Decided, Alone, Idle, Others, Entered
  <2>6. PaidWhenDone'
    BY <1>i, <1>t, <1>r, <2>1
    DEF PaidWhenDone, Requests, Paying, Held, Moving, Done, Others, Entered
  <2>7. DoneWhenPaid'
    BY <1>i, <1>t, <1>r, <2>1 DEF DoneWhenPaid, Alone, Idle, Moving, Done, Others, Entered
  <2>8. FareFollows'
    BY <1>i, <1>t, <1>r, <2>1
    DEF FareFollows, Held, Alone, Idle, Recording, Returning, Moving, Done, Undone, Others,
      Entered
  <2>9. UNCHANGED AnErrand!vars
    BY <2>1 DEF AnErrand!vars
  <2> QED
    BY <2>2, <2>3, <2>4, <2>5, <2>6, <2>7, <2>8, <2>9
<1>11. ASSUME NEW w \in Workers, NEW d \in Deliveries, SweepOffersRead(w, d)
       PROVE  Rest' /\ [AnErrand!Next]_(AnErrand!vars)
  <2>1. /\ Others(w) /\ Entered(w) /\ UNCHANGED <<delivery, driver, fare, pay>>
        /\ task'[w].step = "sweep_offer"
    BY <1>11, <1>i, <1>r
    DEF SweepOffersRead, Begin, Idle, Overlaps, Befalls, Others, Entered, Typed, Requests
  <2>2. Held'
    BY <1>i, <1>t, <1>r, <2>1 DEF Held, Moving, Done, Others, Entered
  <2>3. Alone'
    BY <1>i, <2>1 DEF Alone, Idle, Others, Entered
  <2>4. OneTrip'
    BY <1>i, <1>t, <2>1 DEF OneTrip, TripsOf, Moving, Alone, Idle, Others, Entered
  <2>5. Decided'
    BY <1>i, <1>t, <2>1 DEF Decided, Alone, Idle, Others, Entered
  <2>6. PaidWhenDone'
    BY <1>i, <1>t, <1>r, <2>1
    DEF PaidWhenDone, Requests, Paying, Held, Moving, Done, Others, Entered
  <2>7. DoneWhenPaid'
    BY <1>i, <1>t, <1>r, <2>1 DEF DoneWhenPaid, Alone, Idle, Moving, Done, Others, Entered
  <2>8. FareFollows'
    BY <1>i, <1>t, <1>r, <2>1
    DEF FareFollows, Held, Alone, Idle, Recording, Returning, Moving, Done, Undone, Others,
      Entered
  <2>9. UNCHANGED AnErrand!vars
    BY <2>1 DEF AnErrand!vars
  <2> QED
    BY <2>2, <2>3, <2>4, <2>5, <2>6, <2>7, <2>8, <2>9
<1>12. ASSUME NEW w \in Workers, NEW a \in Unsettled, SuspendRead(w, a)
       PROVE  Rest' /\ [AnErrand!Next]_(AnErrand!vars)
  <2>1. /\ Others(w) /\ Entered(w) /\ UNCHANGED <<delivery, driver, fare, pay>>
        /\ task'[w].step = "suspend"
    BY <1>12, <1>i, <1>r, DeliveryAssumption
    DEF SuspendRead, Begin, Idle, Overlaps, Befalls, Others, Entered, Typed, Requests
  <2>2. Held'
    BY <1>i, <1>t, <1>r, <2>1 DEF Held, Moving, Done, Others, Entered
  <2>3. Alone'
    BY <1>i, <2>1 DEF Alone, Idle, Others, Entered
  <2>4. OneTrip'
    BY <1>i, <1>t, <2>1 DEF OneTrip, TripsOf, Moving, Alone, Idle, Others, Entered
  <2>5. Decided'
    BY <1>i, <1>t, <2>1 DEF Decided, Alone, Idle, Others, Entered
  <2>6. PaidWhenDone'
    BY <1>i, <1>t, <1>r, <2>1
    DEF PaidWhenDone, Requests, Paying, Held, Moving, Done, Others, Entered
  <2>7. DoneWhenPaid'
    BY <1>i, <1>t, <1>r, <2>1 DEF DoneWhenPaid, Alone, Idle, Moving, Done, Others, Entered
  <2>8. FareFollows'
    BY <1>i, <1>t, <1>r, <2>1
    DEF FareFollows, Held, Alone, Idle, Recording, Returning, Moving, Done, Undone, Others,
      Entered
  <2>9. UNCHANGED AnErrand!vars
    BY <2>1 DEF AnErrand!vars
  <2> QED
    BY <2>2, <2>3, <2>4, <2>5, <2>6, <2>7, <2>8, <2>9
<1>13. ASSUME NEW w \in Workers, NEW a \in Unsettled, RenewRead(w, a)
       PROVE  Rest' /\ [AnErrand!Next]_(AnErrand!vars)
  <2>1. /\ Others(w) /\ Entered(w) /\ UNCHANGED <<delivery, driver, fare, pay>>
        /\ task'[w].step = "renew" /\ task'[w].a = a /\ a \in Drivers
        /\ task'[w].lift => driver[a].reason = "lapsed"
    BY <1>13, <1>i, <1>r, DeliveryAssumption
    DEF RenewRead, Liftable, Begin, Idle, Overlaps, Befalls, Others, Entered, Typed, Requests
  <2>2. Held'
    BY <1>i, <1>t, <1>r, <2>1 DEF Held, Moving, Done, Others, Entered
  <2>3. Alone'
    BY <1>i, <2>1 DEF Alone, Idle, Others, Entered
  <2>4. OneTrip'
    BY <1>i, <1>t, <2>1 DEF OneTrip, TripsOf, Moving, Alone, Idle, Others, Entered
  <2>5. Decided'
    BY <1>i, <1>t, <2>1 DEF Decided, Alone, Idle, Others, Entered
  <2>6. PaidWhenDone'
    BY <1>i, <1>t, <1>r, <2>1
    DEF PaidWhenDone, Requests, Paying, Held, Moving, Done, Others, Entered
  <2>7. DoneWhenPaid'
    BY <1>i, <1>t, <1>r, <2>1 DEF DoneWhenPaid, Alone, Idle, Moving, Done, Others, Entered
  <2>8. FareFollows'
    BY <1>i, <1>t, <1>r, <2>1
    DEF FareFollows, Held, Alone, Idle, Recording, Returning, Moving, Done, Undone, Others,
      Entered
  <2>9. UNCHANGED AnErrand!vars
    BY <2>1 DEF AnErrand!vars
  <2> QED
    BY <2>2, <2>3, <2>4, <2>5, <2>6, <2>7, <2>8, <2>9
<1>14. ASSUME NEW w \in Workers, SuspendClaim(w)
       PROVE  Rest' /\ [AnErrand!Next]_(AnErrand!vars)
  <2> DEFINE a == task[w].a
  <2>1. /\ task[w].step = "suspend" /\ a \in Drivers /\ task[w].a = a
        /\ Others(w) /\ task'[w].step = "idle" /\ befell' = befell /\ UNCHANGED <<delivery, fare, pay>>
        /\ \A b \in Drivers \ {a} : driver'[b] = driver[b]
        /\ driver'[a].payable = driver[a].payable /\ driver'[a].verdict = driver[a].verdict
        /\ \/ driver'[a] = driver[a]
           \/ driver[a].status = "approved"
    BY <1>14, <1>i, <1>r, <1>p, <1>t
    DEF SuspendClaim, At, Finish, Becomes, Resting, Profiles, Others, Typed, Requests
  <2> HIDE DEF a
  <2>2. Held'
    BY <1>i, <1>t, <1>r, <2>1 DEF Held, Moving, Done, Others
  <2>3. Alone'
    BY <1>i, <2>1 DEF Alone, Idle, Others
  <2>4. OneTrip'
    BY <1>i, <1>t, <2>1 DEF OneTrip, TripsOf, Moving, Alone, Idle, Others
  <2>5. Decided'
    BY <1>i, <1>t, <2>1 DEF Decided, Alone, Idle, Others
  <2>6. PaidWhenDone'
    BY <1>i, <1>t, <1>r, <2>1 DEF PaidWhenDone, Requests, Paying, Held, Moving, Done, Others
  <2>7. DoneWhenPaid'
    BY <1>i, <1>t, <1>r, <2>1 DEF DoneWhenPaid, Alone, Idle, Moving, Done, Others
  <2>8. FareFollows'
    BY <1>i, <1>t, <1>r, <2>1
    DEF FareFollows, Held, Alone, Idle, Recording, Returning, Moving, Done, Undone, Others
  <2>9. UNCHANGED AnErrand!vars
    BY <2>1 DEF AnErrand!vars
  <2> QED
    BY <2>2, <2>3, <2>4, <2>5, <2>6, <2>7, <2>8, <2>9
<1>15. ASSUME NEW w \in Workers, RenewWrite(w)
       PROVE  Rest' /\ [AnErrand!Next]_(AnErrand!vars)
  <2> DEFINE a == task[w].a
  <2>1. /\ task[w].step = "renew" /\ a \in Drivers /\ task[w].a = a
        /\ Others(w) /\ task'[w].step = "idle" /\ befell' = befell /\ UNCHANGED <<delivery, fare, pay>>
        /\ \A b \in Drivers \ {a} : driver'[b] = driver[b]
        /\ driver'[a].payable = driver[a].payable /\ driver'[a].verdict = driver[a].verdict
        /\ ~task[w].lift => /\ driver'[a].status = driver[a].status
                            /\ driver'[a].reason = driver[a].reason
    BY <1>15, <1>i, <1>r, <1>p, <1>t
    DEF RenewWrite, At, Finish, Becomes, Resting, Profiles, Others, Typed, Requests
  <2> HIDE DEF a
  <2>2. Held'
    BY <1>i, <1>t, <1>r, <2>1 DEF Held, Moving, Done, Others
  <2>3. Alone'
    BY <1>i, <2>1 DEF Alone, Idle, Others
  <2>4. OneTrip'
    BY <1>i, <1>t, <2>1 DEF OneTrip, TripsOf, Moving, Alone, Idle, Others
  <2>5. Decided'
    BY <1>i, <1>t, <2>1 DEF Decided, Alone, Idle, Others
  <2>6. PaidWhenDone'
    BY <1>i, <1>t, <1>r, <2>1 DEF PaidWhenDone, Requests, Paying, Held, Moving, Done, Others
  <2>7. DoneWhenPaid'
    BY <1>i, <1>t, <1>r, <2>1 DEF DoneWhenPaid, Alone, Idle, Moving, Done, Others
  <2>8. FareFollows'
    BY <1>i, <1>t, <1>r, <2>1
    DEF FareFollows, Held, Alone, Idle, Recording, Returning, Moving, Done, Undone, Others
  <2>9. UNCHANGED AnErrand!vars
    BY <2>1 DEF AnErrand!vars
  <2> QED
    BY <2>2, <2>3, <2>4, <2>5, <2>6, <2>7, <2>8, <2>9
<1>16. ASSUME NEW w \in Workers, DeliveryDies(w)
       PROVE  Rest' /\ [AnErrand!Next]_(AnErrand!vars)
  <2>1. /\ Others(w) /\ task'[w].step = "idle" /\ befell' = befell \cup {"crash"}
        /\ UNCHANGED <<delivery, driver, fare, pay>>
    BY <1>16, <1>i, <1>r
    DEF DeliveryDies, Dies, FinishAfter, Befalls, Becomes, Resting, Others, Typed, Requests
  <2>2. Held'
    BY <1>i, <1>t, <1>r, <2>1 DEF Held, Moving, Done, Others
  <2>3. Alone'
    BY <1>i, <2>1 DEF Alone, Idle, Others
  <2>4. OneTrip'
    BY <1>i, <1>t, <2>1 DEF OneTrip, TripsOf, Moving, Alone, Idle, Others
  <2>5. Decided'
    BY <1>i, <1>t, <2>1 DEF Decided, Alone, Idle, Others
  <2>6. PaidWhenDone'
    BY <1>i, <1>t, <1>r, <2>1 DEF PaidWhenDone, Requests, Paying, Held, Moving, Done, Others
  <2>7. DoneWhenPaid'
    BY <1>i, <1>t, <1>r, <2>1 DEF DoneWhenPaid, Alone, Idle, Moving, Done, Others
  <2>8. FareFollows'
    BY <1>i, <1>t, <1>r, <2>1
    DEF FareFollows, Held, Alone, Idle, Recording, Returning, Moving, Done, Undone, Others
  <2>9. UNCHANGED AnErrand!vars
    BY <2>1 DEF AnErrand!vars
  <2> QED
    BY <2>2, <2>3, <2>4, <2>5, <2>6, <2>7, <2>8, <2>9
<1>17. ASSUME NEW d \in Deliveries, RequestDelivery(d) \/ OfferLapses(d) \/ MarkPickedUp(d)
       PROVE  Rest' /\ [AnErrand!Next]_(AnErrand!vars)
  <2>1. /\ task' = task /\ UNCHANGED <<driver, fare, pay>> /\ OtherRows(d)
        /\ befell \subseteq befell'
        /\ \/ /\ delivery'[d].status = delivery[d].status /\ delivery'[d].by = delivery[d].by
              /\ delivery'[d].txn = delivery[d].txn
           \/ /\ \/ \A v \in Workers : Idle(v)
                 \/ "overlap" \in befell'
              /\ \/ /\ delivery[d].status = "none" /\ delivery'[d].by = None
                    /\ delivery'[d].status = "broadcasting" /\ ~delivery'[d].txn
                 \/ /\ delivery[d].status = "accepted" /\ delivery'[d].by = delivery[d].by
                    /\ delivery'[d].status = "picked_up" /\ delivery'[d].txn = delivery[d].txn
    BY <1>17, <1>i, <1>r
    DEF RequestDelivery, OfferLapses, MarkPickedUp, NewDelivery, AtOnce, Outside, Idle,
      Overlaps, Befalls, Others, OtherRows, Typed, Requests
  <2>2. Held'
    BY <1>i, <1>t, <1>r, <2>1 DEF Held, Moving, Done, Others, OtherRows
  <2>3. Alone'
    BY <1>i, <2>1 DEF Alone, Idle, Others, OtherRows
  <2>4. OneTrip'
    BY <1>i, <1>t, <2>1 DEF OneTrip, TripsOf, Moving, Alone, Idle, Others, OtherRows
  <2>5. Decided'
    BY <1>i, <1>t, <2>1 DEF Decided, Alone, Idle, Others, OtherRows
  <2>6. PaidWhenDone'
    BY <1>i, <1>t, <1>r, <2>1
    DEF PaidWhenDone, Requests, Paying, Held, Moving, Done, Others, OtherRows
  <2>7. DoneWhenPaid'
    BY <1>i, <1>t, <1>r, <2>1 DEF DoneWhenPaid, Alone, Idle, Moving, Done, Others, OtherRows
  <2>8. FareFollows'
    BY <1>i, <1>t, <1>r, <2>1
    DEF FareFollows, Held, Alone, Idle, Recording, Returning, Moving, Done, Undone, Others,
      OtherRows
  <2>9. UNCHANGED AnErrand!vars
    <3>1. \A e \in Deliveries : delivery'[e].by = delivery[e].by
      BY <1>i, <2>1 DEF OtherRows, Held
    <3> QED
      BY <2>1, <3>1 DEF AnErrand!vars
  <2> QED
    BY <2>2, <2>3, <2>4, <2>5, <2>6, <2>7, <2>8, <2>9
<1>18. ASSUME NEW a \in Unsettled, DatesPass(a) \/ AccountRevoked(a)
       PROVE  Rest' /\ [AnErrand!Next]_(AnErrand!vars)
  <2>1. /\ task' = task /\ UNCHANGED <<delivery, fare, pay>> /\ befell \subseteq befell'
        /\ \A b \in Drivers : /\ driver'[b].status = driver[b].status /\ driver'[b].reason = driver[b].reason
                              /\ driver'[b].verdict = driver[b].verdict
                              /\ "revoked" \notin befell' => driver'[b].payable = driver[b].payable
    BY <1>18, <1>i, <1>r, <1>p, DeliveryAssumption
    DEF DatesPass, AccountRevoked, Outside, Befalls, Profiles, Others, Typed, Requests
  <2>2. Held'
    BY <1>i, <1>t, <1>r, <2>1 DEF Held, Moving, Done, Others
  <2>3. Alone'
    BY <1>i, <2>1 DEF Alone, Idle, Others
  <2>4. OneTrip'
    BY <1>i, <1>t, <2>1 DEF OneTrip, TripsOf, Moving, Alone, Idle, Others
  <2>5. Decided'
    BY <1>i, <1>t, <2>1 DEF Decided, Alone, Idle, Others
  <2>6. PaidWhenDone'
    BY <1>i, <1>t, <1>r, <2>1 DEF PaidWhenDone, Requests, Paying, Held, Moving, Done, Others
  <2>7. DoneWhenPaid'
    BY <1>i, <1>t, <1>r, <2>1 DEF DoneWhenPaid, Alone, Idle, Moving, Done, Others
  <2>8. FareFollows'
    BY <1>i, <1>t, <1>r, <2>1
    DEF FareFollows, Held, Alone, Idle, Recording, Returning, Moving, Done, Undone, Others
  <2>9. UNCHANGED AnErrand!vars
    BY <2>1 DEF AnErrand!vars
  <2> QED
    BY <2>2, <2>3, <2>4, <2>5, <2>6, <2>7, <2>8, <2>9
<1>19. ASSUME NEW a \in Unsettled, NEW c \in {"passed", "failed"}, NEW approve \in BOOLEAN,
              DecideDriver(a, c, approve)
       PROVE  Rest' /\ [AnErrand!Next]_(AnErrand!vars)
  <2>1. /\ task' = task /\ UNCHANGED <<delivery, fare, pay>> /\ befell \subseteq befell'
        /\ (\A v \in Workers : Idle(v)) \/ "overlap" \in befell'
        /\ \A b \in Drivers : /\ driver'[b].payable = driver[b].payable
                              /\ driver'[b] # driver[b] =>
                                   /\ driver'[b].status = "approved" => driver'[b].verdict
                                   /\ driver'[b].reason # "lapsed"
    BY <1>19, <1>i, <1>r, <1>p, DeliveryAssumption
    DEF DecideDriver, AtOnce, Idle, Overlaps, Befalls, Profiles, Others, Typed, Requests
  <2>2. Held'
    BY <1>i, <1>t, <1>r, <2>1 DEF Held, Moving, Done, Others
  <2>3. Alone'
    BY <1>i, <2>1 DEF Alone, Idle, Others
  <2>4. OneTrip'
    BY <1>i, <1>t, <2>1 DEF OneTrip, TripsOf, Moving, Alone, Idle, Others
  <2>5. Decided'
    BY <1>i, <1>t, <2>1 DEF Decided, Alone, Idle, Others
  <2>6. PaidWhenDone'
    BY <1>i, <1>t, <1>r, <2>1 DEF PaidWhenDone, Requests, Paying, Held, Moving, Done, Others
  <2>7. DoneWhenPaid'
    BY <1>i, <1>t, <1>r, <2>1 DEF DoneWhenPaid, Alone, Idle, Moving, Done, Others
  <2>8. FareFollows'
    BY <1>i, <1>t, <1>r, <2>1
    DEF FareFollows, Held, Alone, Idle, Recording, Returning, Moving, Done, Undone, Others
  <2>9. UNCHANGED AnErrand!vars
    BY <2>1 DEF AnErrand!vars
  <2> QED
    BY <2>2, <2>3, <2>4, <2>5, <2>6, <2>7, <2>8, <2>9
<1> QED
  BY <1>1, <1>2, <1>3, <1>4, <1>5, <1>6, <1>7, <1>8, <1>9, <1>10, <1>11, <1>12, <1>13, <1>14,
     <1>15, <1>16, <1>17, <1>18, <1>19
  DEF DeliveryNext
\* Every reachable state of Delivery satisfies the inductive invariant.
LEMMA Invariant == DeliverySpec => []IInv
<1>1. HandlersInit /\ DeliveryInit => IInv
  <2> SUFFICES ASSUME HandlersInit, DeliveryInit
               PROVE  IInv
    OBVIOUS
  <2>1. \A d \in Deliveries : /\ delivery[d].status = "none" /\ delivery[d].by = None
                              /\ ~delivery[d].txn /\ fare[d] = "no" /\ pay[d] = None
    BY DEF DeliveryInit, NewDelivery
  <2>2. \A a \in Drivers : /\ driver[a].status = "approved" => driver[a].verdict
                           /\ driver[a].payable /\ driver[a].reason = "none"
    BY DEF DeliveryInit, NewDriver
  <2>3. \A w \in Workers : task[w].step = "idle"
    BY DEF HandlersInit, Resting
  <2>4. Typed
    <3>1. [NewDelivery EXCEPT !.status = "none"] \in Requests
      <4>1. NewDelivery \in Requests
        BY DEF NewDelivery, Requests, Undone
      <4> QED
        BY <4>1, RowEdits DEF Undone
    <3>3. NewDriver \in Profiles /\ Resting \in Tasks
      BY DEF NewDriver, Profiles, Tasks
    <3>2. [NewDriver EXCEPT !.status = "approved", !.check = "passed", !.verdict = TRUE] \in Profiles
      BY DEF NewDriver, Profiles
    <3> QED
      BY <3>1, <3>2, <3>3 DEF DeliveryInit, HandlersInit, Typed
  <2>5. Held
    BY <2>1, <2>3 DEF Held, Moving, Done
  <2>6. OneTrip /\ Alone
    BY <2>1, <2>3 DEF OneTrip, TripsOf, Moving, Alone, Idle
  <2>7. Decided
    BY <2>2, <2>3 DEF Decided
  <2>8. PaidWhenDone /\ DoneWhenPaid
    BY <2>1, <2>2, <2>3 DEF PaidWhenDone, DoneWhenPaid, Done
  <2>9. FareFollows
    BY <2>1, <2>3 DEF FareFollows
  <2> QED
    BY <2>4, <2>5, <2>6, <2>7, <2>8, <2>9 DEF IInv
<1>2. IInv /\ [DeliveryNext]_deliveryVars => IInv'
  <2> SUFFICES ASSUME IInv, [DeliveryNext]_deliveryVars
               PROVE  IInv'
    OBVIOUS
  <2>1. CASE DeliveryNext
    BY <2>1, TypedStep, Steps DEF IInv
  <2>2. CASE UNCHANGED deliveryVars
    BY <2>2 DEF deliveryVars, IInv, Typed, Held, Alone, Apart, Idle, OneTrip, TripsOf, Decided,
       PaidWhenDone, Paying, DoneWhenPaid, FareFollows, Recording, Returning, Spared
  <2> QED
    BY <2>1, <2>2
<1> QED
  BY <1>1, <1>2, PTL DEF DeliverySpec

\* Whatever overlaps and whatever dies, a delivery is an errand: one driver takes it and stays
\* the one, the customer is charged only then and once, only that driver is paid, and once.
THEOREM DeliveryImplementsErrand == DeliverySpec => DeliveryIsAnErrand
<1>1. HandlersInit /\ DeliveryInit => AnErrand!Init
  BY DEF DeliveryInit, NewDelivery, AnErrand!Init
<1>2. IInv /\ [DeliveryNext]_deliveryVars => [AnErrand!Next]_(AnErrand!vars)
  <2> SUFFICES ASSUME IInv, [DeliveryNext]_deliveryVars
               PROVE  [AnErrand!Next]_(AnErrand!vars)
    OBVIOUS
  <2>1. CASE DeliveryNext
    BY <2>1, TypedStep, Steps DEF IInv
  <2>2. CASE UNCHANGED deliveryVars
    BY <2>2 DEF deliveryVars, AnErrand!vars
  <2> QED
    BY <2>1, <2>2
<1> QED
  BY <1>1, <1>2, Invariant, PTL DEF DeliverySpec, DeliveryIsAnErrand, AnErrand!Spec

\* Drivers have one trip, are paid for it, customers pay for trips that happen, and a driver
\* who was turned down stays so.
THEOREM DeliveriesRight == DeliverySpec => []DeliveryRight
<1>1. IInv => DeliveryRight
  <2> SUFFICES ASSUME IInv
               PROVE  DeliveryRight
    OBVIOUS
  <2>1. OneAtATime
    BY AllTheSame DEF IInv, OneTrip, Apart, TripsOf, OneAtATime, Spared
  <2>2. DoneIsPaid
    BY DEF IInv, PaidWhenDone, Paying, DoneWhenPaid, Done, Apart, DoneIsPaid, AllIdle, Idle, Spared
  <2>3. UndoneIsFree
    BY DEF IInv, FareFollows, Undone, Returning, UndoneIsFree, AllIdle, Idle
  <2>4. RefusalStands
    BY DEF IInv, Decided, Apart, RefusalStands, Spared
  <2> QED
    BY <2>1, <2>2, <2>3, <2>4 DEF DeliveryRight
<1> QED
  BY <1>1, Invariant, PTL

(***************************************************************************)
(* The jobs board.                                                         *)
(***************************************************************************)

Gigs == [status : {"open", "filled", "completed", "cancelled"}, by : Seekers \cup {None}, late : BOOLEAN]

Applications ==
  [status : {"none", "accepted", "checked_in", "completed", "cancelled", "no_show"},
   from : Nat, pay : Nat, ref : BOOLEAN]

GigTasks ==
  {Resting}
    \cup [step : {"apply_row", "check_in"}, a : Seekers]
    \cup [step : {"pay", "complete", "complete_paid"}, a : Seekers, amount : 1..Duration]
    \cup [step : {"close_gig", "reopen"}]
    \cup [step : {"cancel_gig", "cancel_claim"}, active : SUBSET Seekers]

JobsTyped ==
  /\ gig \in Gigs
  /\ claim \in [Seekers -> Applications]
  /\ hour \in Nat
  /\ wages \in [Seekers -> 0..Duration]
  /\ task \in [Workers -> GigTasks]

HasClaim(a) == claim[a].status \in {"accepted", "checked_in"}

\* The gig changes hands: its row says filled while nobody has the claim.
Unsure(w) == task[w].step \in {"apply_row", "reopen"}

ChecksOut(w) == task[w].step \in {"pay", "complete", "complete_paid"}

CallsOff(w) == task[w].step \in {"cancel_gig", "cancel_claim"}

\* Who has a live claim is named by the gig's row, and nobody has while it changes hands, in one
\* handler at a time.
HolderNamed ==
  /\ \A a \in Seekers : HasClaim(a) => gig.by = a /\ gig.status # "open"
  /\ \A w \in Workers : Unsure(w) => gig.status # "open" /\ \A a \in Seekers : ~HasClaim(a)
  /\ \A v, w \in Workers : Unsure(v) /\ Unsure(w) => v = w
  /\ \A w \in Workers : task[w].step = "apply_row" => task[w].a = gig.by

\* A filled gig is somebody's, or a handler is on its way to change that.
FilledHeld ==
  /\ \A w \in Workers : task[w].step = "cancel_claim" => gig.status \in {"cancelled", "completed"}
  /\ gig.status = "filled" /\ Spared({"crash", "reapplied"}) =>
       \/ \E a \in Seekers : HasClaim(a)
       \/ \E w \in Workers : Unsure(w) \/ task[w].step = "close_gig"

\* Whoever checks out worked, and is paid what his row will say; whoever was paid worked, and
\* his row says how much.
WorkPaid ==
  /\ \A w \in Workers : ChecksOut(w) =>
       /\ claim[task[w].a].status \in {"checked_in", "completed", "cancelled"}
       /\ task[w].step = "complete_paid" => wages[task[w].a] = task[w].amount
  /\ \A a \in Seekers :
       /\ wages[a] > 0 => claim[a].status \in {"checked_in", "completed", "cancelled"}
       /\ claim[a].ref => wages[a] = claim[a].pay /\ wages[a] > 0

\* Unless handlers overlap, what a cancellation read still holds when it writes, and a gig that
\* was called off is nobody's.
CalledOffInTime ==
  Apart =>
    /\ \A w \in Workers : CallsOff(w) =>
         \A a \in Seekers : /\ a \in task[w].active <=> HasClaim(a)
                            /\ HasClaim(a) => claim[a].status = "accepted"
    /\ \A w \in Workers : ChecksOut(w) => claim[task[w].a].status = "checked_in"
    /\ \A w \in Workers : task[w].step = "apply_row" => gig.status = "filled"
    /\ \A a \in Seekers : wages[a] > 0 => claim[a].status # "cancelled"
    /\ gig.status = "cancelled" /\ "crash" \notin befell =>
         \/ \A a \in Seekers : ~HasClaim(a)
         \/ \E w \in Workers : task[w].step = "cancel_claim"

JobsIInv == JobsTyped /\ Alone /\ HolderNamed /\ FilledHeld /\ WorkPaid /\ CalledOffInTime

\* Only a's application changes.
OtherClaims(a) == \A b \in Seekers \ {a} : claim'[b] = claim[b]

\* What a handler of the board remembers.
LEMMA GigTaskFields ==
  ASSUME JobsTyped, NEW w \in Workers
  PROVE  /\ task[w].step \in {"apply_row", "check_in", "pay", "complete", "complete_paid"} =>
              task[w].a \in Seekers
         /\ task[w].step \in {"pay", "complete", "complete_paid"} =>
              /\ task[w].amount \in 1..Duration
              /\ task[w] = [step |-> task[w].step, a |-> task[w].a, amount |-> task[w].amount]
         /\ task[w].step \in {"cancel_gig", "cancel_claim"} =>
              /\ task[w].active \in SUBSET Seekers
              /\ task[w] = [step |-> task[w].step, active |-> task[w].active]
<1>1. task[w] \in GigTasks
  BY DEF JobsTyped
<1> DEFINE t == task[w]
<1>2. t \in GigTasks
  BY <1>1
<1> HIDE DEF t
<1>3. /\ t.step \in {"apply_row", "check_in", "pay", "complete", "complete_paid"} => t.a \in Seekers
      /\ t.step \in {"pay", "complete", "complete_paid"} =>
           /\ t.amount \in 1..Duration
           /\ t = [step |-> t.step, a |-> t.a, amount |-> t.amount]
      /\ t.step \in {"cancel_gig", "cancel_claim"} =>
           /\ t.active \in SUBSET Seekers
           /\ t = [step |-> t.step, active |-> t.active]
  BY <1>2 DEF GigTasks, Resting
<1> QED
  BY <1>3 DEF t

\* What beginning a handler changes.
LEMMA BeginEffect ==
  ASSUME NEW T, task \in [Workers -> T], NEW w \in Workers, NEW t \in T, Begin(w, t)
  PROVE  task' \in [Workers -> T] /\ task'[w] = t /\ Others(w) /\ Entered(w)
BY DEF Begin, Idle, Others, Entered, Overlaps, Befalls

\* What going on, or ending, changes.
LEMMA BecomesEffect ==
  ASSUME NEW T, task \in [Workers -> T], NEW w \in Workers, NEW t \in T, Becomes(w, t)
  PROVE  task' \in [Workers -> T] /\ task'[w] = t /\ Others(w)
BY DEF Becomes, Others

\* What writing a field of an application leaves alone.
LEMMA ApplicationEdits ==
  ASSUME NEW c \in Applications
  PROVE  /\ LET d == [c EXCEPT !.status = "completed"] IN d \in Applications /\ d.status = "completed"
         /\ \A n \in Nat : LET d == [c EXCEPT !.pay = n] IN
              d \in Applications /\ d.status = c.status /\ d.pay = n
         /\ \A r \in BOOLEAN : LET d == [c EXCEPT !.ref = r] IN
              d \in Applications /\ d.status = c.status /\ d.pay = c.pay /\ d.ref = r
BY DEF Applications

\* Every step of the board keeps the invariant.
LEMMA JobsSteps ==
  ASSUME JobsIInv, JobsNext
  PROVE  JobsIInv'
<1> DEFINE Rest == Alone /\ HolderNamed /\ FilledHeld /\ WorkPaid /\ CalledOffInTime
<1> USE DEF At
<1>i. JobsTyped /\ Rest
  BY DEF JobsIInv
<1>c. \A a \in Seekers : claim[a] \in Applications
  BY <1>i DEF JobsTyped
<1>w. \A a \in Seekers : wages[a] \in 0..Duration
  BY <1>i DEF JobsTyped
<1>g. gig \in Gigs
  BY <1>i DEF JobsTyped
<1>k. task \in [Workers -> GigTasks]
  BY <1>i DEF JobsTyped
<1>t. \A v \in Workers :
        /\ task[v].step \in {"apply_row", "check_in", "pay", "complete", "complete_paid"} =>
              task[v].a \in Seekers
        /\ task[v].step \in {"pay", "complete", "complete_paid"} => task[v].amount \in 1..Duration
        /\ task[v].step \in {"cancel_gig", "cancel_claim"} => task[v].active \in SUBSET Seekers
  BY <1>i, GigTaskFields
<1>1. ASSUME NEW w \in Workers, NEW a \in Seekers, Apply(w, a)
      PROVE  JobsTyped' /\ Rest'
  <2>1. JobsTyped'
    <3>1. [step |-> "apply_row", a |-> a] \in GigTasks
      BY DEF GigTasks
    <3>2. task' \in [Workers -> GigTasks]
      BY <1>1, <1>k, <3>1, BeginEffect DEF Apply
    <3>3. gig' = [status |-> "filled", by |-> a, late |-> gig.late]
      BY <1>1, <1>g DEF Apply, Gigs
    <3> QED
      BY <1>1, <1>i, <1>g, <3>2, <3>3 DEF Apply, JobsTyped, Gigs
  <2>2. /\ gig.status = "open" /\ gig'.status = "filled" /\ gig'.by = a
        /\ task'[w].step = "apply_row" /\ task'[w].a = a /\ Others(w) /\ Entered(w)
        /\ UNCHANGED <<claim, wages>>
    <3>1. [step |-> "apply_row", a |-> a] \in GigTasks
      BY DEF GigTasks
    <3> QED
      BY <1>1, <1>k, <1>g, <3>1, BeginEffect DEF Apply, Gigs
  <2>3. Alone'
    BY <1>i, <2>2
    DEF Alone, Apart, Idle, Entered, Others
  <2>4. HolderNamed'
    BY <1>i, <1>t, <2>2
    DEF HolderNamed, HasClaim, Unsure, Entered, Others
  <2>5. FilledHeld'
    BY <1>i, <2>2
    DEF FilledHeld, HolderNamed, HasClaim, Unsure, Spared, Entered, Others
  <2>6. WorkPaid'
    BY <1>i, <1>t, <1>w, <2>2
    DEF WorkPaid, ChecksOut, Entered, Others
  <2>7. CalledOffInTime'
    BY <1>i, <1>t, <1>w, <2>2
    DEF CalledOffInTime, Apart, Alone, Idle, HolderNamed, FilledHeld, WorkPaid, ChecksOut,
      CallsOff, HasClaim, Unsure, Entered, Others
  <2> QED
    BY <2>1, <2>3, <2>4, <2>5, <2>6, <2>7
<1>2. ASSUME NEW w \in Workers, ApplyRow(w)
      PROVE  JobsTyped' /\ Rest'
  <2> DEFINE a == task[w].a
  <2>1. JobsTyped'
    <3>1. claim[a] \in Applications
      BY <1>2, <1>c, <1>t DEF ApplyRow
    <3>2. [claim[a] EXCEPT !.status = "accepted"] \in Applications
      BY <3>1 DEF Applications
    <3>3. claim' \in [Seekers -> Applications]
      BY <1>2, <1>i, <3>2 DEF ApplyRow, JobsTyped
    <3>4. Resting \in GigTasks
      BY DEF GigTasks
    <3>5. task' \in [Workers -> GigTasks]
      BY <1>2, <1>k, <3>4, BecomesEffect DEF ApplyRow, Finish, FinishAfter
    <3> QED
      BY <1>2, <1>i, <3>3, <3>5 DEF ApplyRow, JobsTyped
  <2>2. /\ task[w].step = "apply_row" /\ a \in Seekers /\ a = task[w].a
        /\ task'[w].step = "idle" /\ Others(w) /\ befell \subseteq befell' /\ UNCHANGED <<gig, wages>>
        /\ \/ /\ claim[a].status = "none" /\ claim'[a].status = "accepted" /\ claim'[a].ref = claim[a].ref
              /\ OtherClaims(a)
           \/ claim' = claim /\ "reapplied" \in befell'
    <3>1. a \in Seekers /\ claim[a] \in Applications /\ Resting \in GigTasks
      BY <1>2, <1>c, <1>t DEF ApplyRow, GigTasks
    <3>2. task'[w] = Resting /\ Others(w)
      BY <1>2, <1>k, <3>1, BecomesEffect DEF ApplyRow, Finish, FinishAfter
    <3> QED
      BY <1>2, <1>i, <3>1, <3>2
      DEF ApplyRow, Finish, FinishAfter, Befalls, Resting, JobsTyped, Applications, OtherClaims
  <2> HIDE DEF a
  <2>3. Alone'
    BY <1>i, <2>2
    DEF Alone, Apart, Idle, Others, OtherClaims
  <2>4. HolderNamed'
    BY <1>i, <1>t, <2>2
    DEF HolderNamed, HasClaim, Unsure, Others, OtherClaims
  <2>5. FilledHeld'
    BY <1>i, <2>2
    DEF FilledHeld, HolderNamed, HasClaim, Unsure, Spared, Others, OtherClaims
  <2>6. WorkPaid'
    BY <1>i, <1>t, <1>w, <2>2
    DEF WorkPaid, ChecksOut, Others, OtherClaims
  <2>7. CalledOffInTime'
    BY <1>i, <1>t, <1>w, <2>2
    DEF CalledOffInTime, Apart, Alone, Idle, HolderNamed, FilledHeld, WorkPaid, ChecksOut,
      CallsOff, HasClaim, Unsure, Others, OtherClaims
  <2> QED
    BY <2>1, <2>3, <2>4, <2>5, <2>6, <2>7
<1>3. ASSUME NEW w \in Workers, NEW a \in Seekers, CheckInRead(w, a)
      PROVE  JobsTyped' /\ Rest'
  <2>1. JobsTyped'
    <3>1. [step |-> "check_in", a |-> a] \in GigTasks
      BY DEF GigTasks
    <3>2. task' \in [Workers -> GigTasks]
      BY <1>3, <1>k, <3>1, BeginEffect DEF CheckInRead
    <3> QED
      BY <1>3, <1>i, <3>2 DEF CheckInRead, JobsTyped
  <2>2. /\ task'[w].step = "check_in" /\ Others(w) /\ Entered(w)
        /\ UNCHANGED <<gig, claim, wages>>
    BY <1>3, <1>k DEF CheckInRead, Begin, Idle, Overlaps, Befalls, Others, Entered
  <2>3. Alone'
    BY <1>i, <2>2
    DEF Alone, Apart, Idle, Entered, Others
  <2>4. HolderNamed'
    BY <1>i, <1>t, <2>2
    DEF HolderNamed, HasClaim, Unsure, Entered, Others
  <2>5. FilledHeld'
    BY <1>i, <2>2
    DEF FilledHeld, HolderNamed, HasClaim, Unsure, Spared, Entered, Others
  <2>6. WorkPaid'
    BY <1>i, <1>t, <1>w, <2>2
    DEF WorkPaid, ChecksOut, Entered, Others
  <2>7. CalledOffInTime'
    BY <1>i, <1>t, <1>w, <2>2
    DEF CalledOffInTime, Apart, Alone, Idle, HolderNamed, FilledHeld, WorkPaid, ChecksOut,
      CallsOff, HasClaim, Unsure, Entered, Others
  <2> QED
    BY <2>1, <2>3, <2>4, <2>5, <2>6, <2>7
<1>4. ASSUME NEW w \in Workers, CheckIn(w)
      PROVE  JobsTyped' /\ Rest'
  <2> DEFINE a == task[w].a
  <2>1. JobsTyped'
    <3>1. a \in Seekers /\ claim[a] \in Applications
      BY <1>4, <1>c, <1>t DEF CheckIn
    <3> DEFINE c == [claim[a] EXCEPT !.status = "checked_in"]
    <3>2. c \in Applications
      BY <3>1 DEF Applications
    <3>3. [c EXCEPT !.from = hour] \in Applications
      <4> HIDE DEF c
      <4> QED
        BY <1>i, <3>2 DEF Applications, JobsTyped
    <3>4. claim' \in [Seekers -> Applications]
      BY <1>4, <1>i, <3>1, <3>3 DEF CheckIn, JobsTyped
    <3>5. Resting \in GigTasks
      BY DEF GigTasks
    <3>6. task' \in [Workers -> GigTasks]
      BY <1>4, <1>k, <3>5, BecomesEffect DEF CheckIn, Finish
    <3> QED
      BY <1>4, <1>i, <3>4, <3>6 DEF CheckIn, JobsTyped
  <2>2. /\ task[w].step = "check_in" /\ a \in Seekers /\ a = task[w].a
        /\ task'[w].step = "idle" /\ Others(w) /\ UNCHANGED <<gig, wages, befell>>
        /\ \/ /\ claim[a].status = "accepted" /\ claim'[a].status = "checked_in" /\ claim'[a].ref = claim[a].ref
              /\ claim'[a].pay = claim[a].pay /\ OtherClaims(a)
           \/ claim' = claim
    <3>1. a \in Seekers /\ claim[a] \in Applications /\ Resting \in GigTasks
      BY <1>4, <1>c, <1>t DEF CheckIn, GigTasks
    <3>2. task'[w] = Resting /\ Others(w)
      BY <1>4, <1>k, <3>1, BecomesEffect DEF CheckIn, Finish
    <3> QED
      BY <1>4, <1>i, <3>1, <3>2
      DEF CheckIn, Finish, Resting, JobsTyped, Applications, OtherClaims
  <2> HIDE DEF a
  <2>3. Alone'
    BY <1>i, <2>2
    DEF Alone, Apart, Idle, Others, OtherClaims
  <2>4. HolderNamed'
    BY <1>i, <1>t, <2>2
    DEF HolderNamed, HasClaim, Unsure, Others, OtherClaims
  <2>5. FilledHeld'
    BY <1>i, <2>2
    DEF FilledHeld, HolderNamed, HasClaim, Unsure, Spared, Others, OtherClaims
  <2>6. WorkPaid'
    BY <1>i, <1>t, <1>w, <2>2
    DEF WorkPaid, ChecksOut, Others, OtherClaims
  <2>7. CalledOffInTime'
    BY <1>i, <1>t, <1>w, <2>2
    DEF CalledOffInTime, Apart, Alone, Idle, HolderNamed, FilledHeld, WorkPaid, ChecksOut,
      CallsOff, HasClaim, Unsure, Others, OtherClaims
  <2> QED
    BY <2>1, <2>3, <2>4, <2>5, <2>6, <2>7
<1>5. ASSUME NEW w \in Workers, NEW a \in Seekers, CheckOutRead(w, a)
      PROVE  JobsTyped' /\ Rest'
  <2> DEFINE t == [step |-> "pay", a |-> a, amount |-> Wage(a)]
  <2>1. JobsTyped'
    <3>1. t \in GigTasks
      <4>1. Wage(a) \in 1..Duration
        BY <1>i, <1>c, JobsAssumption DEF Wage, JobsTyped, Applications
      <4> QED
        BY <4>1 DEF GigTasks
    <3>2. task' \in [Workers -> GigTasks]
      BY <1>5, <1>k, <3>1, BeginEffect DEF CheckOutRead
    <3> QED
      BY <1>5, <1>i, <3>2 DEF CheckOutRead, JobsTyped
  <2>2. /\ claim[a].status = "checked_in" /\ task'[w].step = "pay" /\ task'[w].a = a /\ Others(w) /\ Entered(w)
        /\ UNCHANGED <<gig, claim, wages>>
    <3>1. task' = [task EXCEPT ![w] = t] /\ Entered(w) /\ t.step = "pay" /\ t.a = a
      BY <1>5 DEF CheckOutRead, Begin, Entered, Idle, Overlaps, Befalls
    <3> HIDE DEF t
    <3> QED
      BY <1>5, <1>k, <3>1 DEF CheckOutRead, Others
  <2> HIDE DEF t
  <2>3. Alone'
    BY <1>i, <2>2
    DEF Alone, Apart, Idle, Entered, Others
  <2>4. HolderNamed'
    BY <1>i, <1>t, <2>2
    DEF HolderNamed, HasClaim, Unsure, Entered, Others
  <2>5. FilledHeld'
    BY <1>i, <2>2
    DEF FilledHeld, HolderNamed, HasClaim, Unsure, Spared, Entered, Others
  <2>6. WorkPaid'
    BY <1>i, <1>t, <1>w, <2>2
    DEF WorkPaid, ChecksOut, Entered, Others
  <2>7. CalledOffInTime'
    BY <1>i, <1>t, <1>w, <2>2
    DEF CalledOffInTime, Apart, Alone, Idle, HolderNamed, FilledHeld, WorkPaid, ChecksOut,
      CallsOff, HasClaim, Unsure, Entered, Others
  <2> QED
    BY <2>1, <2>3, <2>4, <2>5, <2>6, <2>7
<1>6. ASSUME NEW w \in Workers, NEW able \in BOOLEAN, CheckOutPay(w, able)
      PROVE  JobsTyped' /\ Rest'
  <2> DEFINE a == task[w].a
             n == task[w].amount
  <2>1. JobsTyped'
    <3>1. task[w] = [step |-> "pay", a |-> a, amount |-> n] /\ a \in Seekers /\ n \in 1..Duration
      BY <1>6, <1>i, GigTaskFields DEF CheckOutPay
    <3> HIDE DEF a, n
    <3>2. CASE ~able
      <4>1. [task[w] EXCEPT !.step = "complete"] = [step |-> "complete", a |-> a, amount |-> n]
        BY <3>1
      <4>2. [step |-> "complete", a |-> a, amount |-> n] \in GigTasks
        BY <3>1 DEF GigTasks
      <4>3. task' \in [Workers -> GigTasks]
        BY <1>6, <1>k, <3>2, <4>1, <4>2, BecomesEffect DEF CheckOutPay
      <4> QED
        BY <1>6, <1>i, <3>2, <4>3 DEF CheckOutPay, JobsTyped
    <3>3. CASE able /\ wages[a] \in {0, n}
      <4>1. [step |-> "complete_paid", a |-> a, amount |-> n] \in GigTasks
        BY <3>1 DEF GigTasks
      <4>2. /\ Becomes(w, [step |-> "complete_paid", a |-> a, amount |-> n])
            /\ wages' = [wages EXCEPT ![a] = n]
        BY <1>6, <3>1, <3>3 DEF CheckOutPay
      <4>3. task' \in [Workers -> GigTasks]
        BY <1>k, <4>1, <4>2, BecomesEffect
      <4> QED
        BY <1>6, <1>i, <3>1, <4>2, <4>3 DEF CheckOutPay, JobsTyped
    <3>4. CASE able /\ wages[a] \notin {0, n}
      <4>1. Becomes(w, Resting) /\ wages' = wages
        BY <1>6, <3>1, <3>4 DEF CheckOutPay, Finish
      <4>2. Resting \in GigTasks
        BY DEF GigTasks
      <4>3. task' \in [Workers -> GigTasks]
        BY <1>k, <4>1, <4>2, BecomesEffect
      <4> QED
        BY <1>6, <1>i, <4>1, <4>3 DEF CheckOutPay, JobsTyped
    <3> QED
      BY <3>2, <3>3, <3>4
  <2>2. /\ task[w].step = "pay" /\ a = task[w].a /\ n = task[w].amount /\ a \in Seekers /\ n \in 1..Duration
        /\ Others(w) /\ UNCHANGED <<gig, claim, befell>>
        /\ \/ task'[w].step = "complete" /\ task'[w].a = a /\ task'[w].amount = n /\ wages' = wages
           \/ /\ task'[w].step = "complete_paid" /\ task'[w].a = a /\ task'[w].amount = n
              /\ wages[a] \in {0, n} /\ wages'[a] = n /\ \A b \in Seekers \ {a} : wages'[b] = wages[b]
           \/ task'[w].step = "idle" /\ wages' = wages
    <3>1. task[w] = [step |-> "pay", a |-> a, amount |-> n] /\ a \in Seekers /\ n \in 1..Duration
      BY <1>6, <1>i, GigTaskFields DEF CheckOutPay
    <3>0. task[w].step = "pay" /\ a = task[w].a /\ n = task[w].amount
      BY <1>6 DEF CheckOutPay
    <3> HIDE DEF a, n
    <3>2. CASE ~able
      <4>1. [task[w] EXCEPT !.step = "complete"] = [step |-> "complete", a |-> a, amount |-> n]
        BY <3>1
      <4>2. task' = [task EXCEPT ![w] = [step |-> "complete", a |-> a, amount |-> n]]
        BY <1>6, <3>2, <4>1 DEF CheckOutPay, Becomes
      <4> QED
        BY <1>6, <1>k, <3>0, <3>1, <3>2, <4>2 DEF CheckOutPay, Others
    <3>3. CASE able /\ wages[a] \in {0, n}
      BY <1>6, <1>i, <1>k, <3>0, <3>1, <3>3 DEF CheckOutPay, Becomes, Others, JobsTyped
    <3>4. CASE able /\ wages[a] \notin {0, n}
      BY <1>6, <1>k, <3>0, <3>1, <3>4 DEF CheckOutPay, Finish, Becomes, Resting, Others
    <3> QED
      BY <3>2, <3>3, <3>4
  <2> HIDE DEF a, n
  <2>3. Alone'
    BY <1>i, <2>2
    DEF Alone, Apart, Idle, Others
  <2>4. HolderNamed'
    BY <1>i, <1>t, <2>2
    DEF HolderNamed, HasClaim, Unsure, Others
  <2>5. FilledHeld'
    BY <1>i, <2>2
    DEF FilledHeld, HolderNamed, HasClaim, Unsure, Spared, Others
  <2>6. WorkPaid'
    BY <1>i, <1>t, <1>w, <2>2
    DEF WorkPaid, ChecksOut, Others
  <2>7. CalledOffInTime'
    BY <1>i, <1>t, <1>w, <2>2
    DEF CalledOffInTime, Apart, Alone, Idle, HolderNamed, FilledHeld, WorkPaid, ChecksOut,
      CallsOff, HasClaim, Unsure, Others
  <2> QED
    BY <2>1, <2>3, <2>4, <2>5, <2>6, <2>7
<1>7. ASSUME NEW w \in Workers, CheckOutComplete(w)
      PROVE  JobsTyped' /\ Rest'
  <2> DEFINE a == task[w].a
             n == task[w].amount
  <2>0. PICK c \in Applications :
          /\ claim' = [claim EXCEPT ![a] = c]
          /\ c.status = "completed" /\ c.pay = n /\ c.ref = (task[w].step = "complete_paid")
    <3> DEFINE p == [claim[a] EXCEPT !.status = "completed"]
               q == [p EXCEPT !.pay = n]
               r == task[w].step = "complete_paid"
               c == [q EXCEPT !.ref = r]
    <3>1. a \in Seekers /\ n \in Nat /\ r \in BOOLEAN
      BY <1>7, <1>t, JobsAssumption DEF CheckOutComplete
    <3>2. claim' = [claim EXCEPT ![a] = c]
      BY <1>7 DEF CheckOutComplete
    <3>3. p \in Applications /\ p.status = "completed"
      BY <1>c, <3>1, ApplicationEdits
    <3> HIDE DEF p
    <3>4. q \in Applications /\ q.status = "completed" /\ q.pay = n
      BY <3>1, <3>3, ApplicationEdits
    <3> HIDE DEF q, r
    <3>5. c \in Applications /\ c.status = "completed" /\ c.pay = n /\ c.ref = r
      BY <3>1, <3>4, ApplicationEdits
    <3> HIDE DEF c
    <3> QED
      BY <3>2, <3>5 DEF r
  <2>1. JobsTyped'
    <3>5. [step |-> "close_gig"] \in GigTasks
      BY DEF GigTasks
    <3>6. task' \in [Workers -> GigTasks]
      BY <1>7, <1>k, <3>5, BecomesEffect DEF CheckOutComplete
    <3> QED
      BY <1>7, <1>i, <2>0, <3>6 DEF CheckOutComplete, JobsTyped
  <2>2. /\ task[w].step \in {"complete", "complete_paid"} /\ a = task[w].a /\ n = task[w].amount
        /\ a \in Seekers /\ n \in 1..Duration
        /\ task'[w].step = "close_gig" /\ Others(w) /\ UNCHANGED <<gig, wages, befell>>
        /\ claim'[a].status = "completed" /\ claim'[a].pay = n
        /\ claim'[a].ref <=> task[w].step = "complete_paid"
        /\ OtherClaims(a)
    <3>1. a \in Seekers /\ n \in 1..Duration
          /\ task[w].step \in {"complete", "complete_paid"} /\ a = task[w].a /\ n = task[w].amount
      BY <1>7, <1>t DEF CheckOutComplete
    <3>3. task' = [task EXCEPT ![w] = [step |-> "close_gig"]] /\ UNCHANGED <<gig, wages, befell>>
      BY <1>7 DEF CheckOutComplete, Becomes
    <3> HIDE DEF a, n
    <3> QED
      BY <1>i, <1>k, <2>0, <3>1, <3>3 DEF JobsTyped, Others, OtherClaims
  <2> HIDE DEF a, n
  <2>3. Alone'
    BY <1>i, <2>2
    DEF Alone, Apart, Idle, Others, OtherClaims
  <2>4. HolderNamed'
    BY <1>i, <1>t, <2>2
    DEF HolderNamed, HasClaim, Unsure, Others, OtherClaims
  <2>5. FilledHeld'
    BY <1>i, <2>2
    DEF FilledHeld, HolderNamed, HasClaim, Unsure, Spared, Others, OtherClaims
  <2>6. WorkPaid'
    BY <1>i, <1>t, <1>w, <2>2
    DEF WorkPaid, ChecksOut, Others, OtherClaims
  <2>7. CalledOffInTime'
    BY <1>i, <1>t, <1>w, <2>2
    DEF CalledOffInTime, Apart, Alone, Idle, HolderNamed, FilledHeld, WorkPaid, ChecksOut,
      CallsOff, HasClaim, Unsure, Others, OtherClaims
  <2> QED
    BY <2>1, <2>3, <2>4, <2>5, <2>6, <2>7
<1>8. ASSUME NEW w \in Workers, CheckOutClose(w)
      PROVE  JobsTyped' /\ Rest'
  <2>1. JobsTyped'
    <3>1. gig' \in Gigs
      BY <1>8, <1>g DEF CheckOutClose, Gigs
    <3>5. Resting \in GigTasks
      BY DEF GigTasks
    <3>6. task' \in [Workers -> GigTasks]
      BY <1>8, <1>k, <3>5, BecomesEffect DEF CheckOutClose, Finish
    <3> QED
      BY <1>8, <1>i, <3>1, <3>6 DEF CheckOutClose, JobsTyped
  <2>2. /\ task[w].step = "close_gig" /\ task'[w].step = "idle" /\ Others(w)
        /\ UNCHANGED <<claim, wages, befell>>
        /\ gig'.status = "completed" /\ gig'.by = gig.by
    BY <1>8, <1>k, <1>g DEF CheckOutClose, Finish, Becomes, Resting, Others, Gigs
  <2>3. Alone'
    BY <1>i, <2>2
    DEF Alone, Apart, Idle, Others
  <2>4. HolderNamed'
    BY <1>i, <1>t, <2>2
    DEF HolderNamed, HasClaim, Unsure, Others
  <2>5. FilledHeld'
    BY <1>i, <2>2
    DEF FilledHeld, HolderNamed, HasClaim, Unsure, Spared, Others
  <2>6. WorkPaid'
    BY <1>i, <1>t, <1>w, <2>2
    DEF WorkPaid, ChecksOut, Others
  <2>7. CalledOffInTime'
    BY <1>i, <1>t, <1>w, <2>2
    DEF CalledOffInTime, Apart, Alone, Idle, HolderNamed, FilledHeld, WorkPaid, ChecksOut,
      CallsOff, HasClaim, Unsure, Others
  <2> QED
    BY <2>1, <2>3, <2>4, <2>5, <2>6, <2>7
<1>9. ASSUME NEW w \in Workers, CancelGigRead(w)
      PROVE  JobsTyped' /\ Rest'
  <2> DEFINE t == [step |-> "cancel_gig", active |-> ClaimedBy({"accepted", "checked_in"})]
  <2>1. JobsTyped'
    <3>1. t \in GigTasks
      BY DEF GigTasks, ClaimedBy
    <3>2. task' \in [Workers -> GigTasks]
      BY <1>9, <1>k, <3>1, BeginEffect DEF CancelGigRead
    <3> QED
      BY <1>9, <1>i, <3>2 DEF CancelGigRead, JobsTyped
  <2>2. /\ task'[w].step = "cancel_gig" /\ Others(w) /\ Entered(w) /\ UNCHANGED <<gig, claim, wages>>
        /\ \A a \in Seekers : /\ a \in task'[w].active <=> HasClaim(a)
                              /\ claim[a].status # "checked_in"
    <3>1. task' = [task EXCEPT ![w] = t] /\ Entered(w) /\ t.step = "cancel_gig"
      BY <1>9 DEF CancelGigRead, Begin, Entered, Idle, Overlaps, Befalls
    <3>2. \A a \in Seekers : /\ a \in t.active <=> HasClaim(a)
                             /\ claim[a].status # "checked_in"
      BY <1>9 DEF CancelGigRead, ClaimedBy, HasClaim
    <3> HIDE DEF t
    <3> QED
      BY <1>9, <1>k, <3>1, <3>2 DEF CancelGigRead, Others
  <2> HIDE DEF t
  <2>3. Alone'
    BY <1>i, <2>2
    DEF Alone, Apart, Idle, Entered, Others
  <2>4. HolderNamed'
    BY <1>i, <1>t, <2>2
    DEF HolderNamed, HasClaim, Unsure, Entered, Others
  <2>5. FilledHeld'
    BY <1>i, <2>2
    DEF FilledHeld, HolderNamed, HasClaim, Unsure, Spared, Entered, Others
  <2>6. WorkPaid'
    BY <1>i, <1>t, <1>w, <2>2
    DEF WorkPaid, ChecksOut, Entered, Others
  <2>7. CalledOffInTime'
    BY <1>i, <1>t, <1>w, <2>2
    DEF CalledOffInTime, Apart, Alone, Idle, HolderNamed, FilledHeld, WorkPaid, ChecksOut,
      CallsOff, HasClaim, Unsure, Entered, Others
  <2> QED
    BY <2>1, <2>3, <2>4, <2>5, <2>6, <2>7
<1>10. ASSUME NEW w \in Workers, CancelGigWrite(w)
      PROVE  JobsTyped' /\ Rest'
  <2> DEFINE s == task[w].active
  <2>1. JobsTyped'
    <3>1. gig' \in Gigs
      BY <1>10, <1>g DEF CancelGigWrite, Gigs
    <3>2. [task[w] EXCEPT !.step = "cancel_claim"] \in GigTasks
      <4>1. task[w] = [step |-> "cancel_gig", active |-> s] /\ s \in SUBSET Seekers
        BY <1>10, <1>i, GigTaskFields DEF CancelGigWrite
      <4> HIDE DEF s
      <4>2. [task[w] EXCEPT !.step = "cancel_claim"] = [step |-> "cancel_claim", active |-> s]
        BY <4>1
      <4> QED
        BY <4>1, <4>2 DEF GigTasks
    <3>6. task' \in [Workers -> GigTasks]
      BY <1>10, <1>k, <3>2, BecomesEffect DEF CancelGigWrite, Goto
    <3> QED
      BY <1>10, <1>i, <3>1, <3>6 DEF CancelGigWrite, JobsTyped, Goto
  <2>2. /\ task[w].step = "cancel_gig" /\ task'[w].step = "cancel_claim" /\ task'[w].active = task[w].active
        /\ Others(w) /\ UNCHANGED <<claim, wages, befell>>
        /\ gig'.status = "cancelled" /\ gig'.by = gig.by
    <3>1. task[w] = [step |-> "cancel_gig", active |-> s]
      BY <1>10, <1>i, GigTaskFields DEF CancelGigWrite
    <3>0. s = task[w].active
      OBVIOUS
    <3> HIDE DEF s
    <3>2. [task[w] EXCEPT !.step = "cancel_claim"] = [step |-> "cancel_claim", active |-> s]
      BY <3>1
    <3>3. task' = [task EXCEPT ![w] = [step |-> "cancel_claim", active |-> s]]
      BY <1>10, <3>2 DEF CancelGigWrite, Goto, Becomes
    <3> QED
      BY <1>10, <1>k, <1>g, <3>0, <3>1, <3>3 DEF CancelGigWrite, Goto, Others, Gigs
  <2> HIDE DEF s
  <2>3. Alone'
    BY <1>i, <2>2
    DEF Alone, Apart, Idle, Others
  <2>4. HolderNamed'
    BY <1>i, <1>t, <2>2
    DEF HolderNamed, HasClaim, Unsure, Others
  <2>5. FilledHeld'
    BY <1>i, <2>2
    DEF FilledHeld, HolderNamed, HasClaim, Unsure, Spared, Others
  <2>6. WorkPaid'
    BY <1>i, <1>t, <1>w, <2>2
    DEF WorkPaid, ChecksOut, Others
  <2>7. CalledOffInTime'
    BY <1>i, <1>t, <1>w, <2>2
    DEF CalledOffInTime, Apart, Alone, Idle, HolderNamed, FilledHeld, WorkPaid, ChecksOut,
      CallsOff, HasClaim, Unsure, Others
  <2> QED
    BY <2>1, <2>3, <2>4, <2>5, <2>6, <2>7
<1>11. ASSUME NEW w \in Workers, CancelGigClaim(w)
      PROVE  JobsTyped' /\ Rest'
  <2>1. JobsTyped'
    <3>1. \A a \in Seekers : [claim[a] EXCEPT !.status = "cancelled"] \in Applications
      BY <1>c DEF Applications
    <3>2. claim' \in [Seekers -> Applications]
      BY <1>11, <1>c, <3>1 DEF CancelGigClaim
    <3>5. Resting \in GigTasks
      BY DEF GigTasks
    <3>6. task' \in [Workers -> GigTasks]
      BY <1>11, <1>k, <3>5, BecomesEffect DEF CancelGigClaim, Finish
    <3> QED
      BY <1>11, <1>i, <3>2, <3>6 DEF CancelGigClaim, JobsTyped
  <2>2. /\ task[w].step = "cancel_claim" /\ task'[w].step = "idle" /\ Others(w)
        /\ UNCHANGED <<gig, wages, befell>>
        /\ \A a \in Seekers :
             /\ claim'[a].ref = claim[a].ref /\ claim'[a].pay = claim[a].pay
             /\ claim'[a].status = IF a \in task[w].active THEN "cancelled" ELSE claim[a].status
    <3>1. \A a \in Seekers : /\ [claim[a] EXCEPT !.status = "cancelled"].status = "cancelled"
                             /\ [claim[a] EXCEPT !.status = "cancelled"].ref = claim[a].ref
                             /\ [claim[a] EXCEPT !.status = "cancelled"].pay = claim[a].pay
      BY <1>c DEF Applications
    <3> QED
      BY <1>11, <1>k, <3>1 DEF CancelGigClaim, Finish, Becomes, Resting, Others
  <2>3. Alone'
    BY <1>i, <2>2
    DEF Alone, Apart, Idle, Others
  <2>4. HolderNamed'
    BY <1>i, <1>t, <2>2
    DEF HolderNamed, HasClaim, Unsure, Others
  <2>5. FilledHeld'
    BY <1>i, <2>2
    DEF FilledHeld, HolderNamed, HasClaim, Unsure, Spared, Others
  <2>6. WorkPaid'
    BY <1>i, <1>t, <1>w, <2>2
    DEF WorkPaid, ChecksOut, Others
  <2>7. CalledOffInTime'
    BY <1>i, <1>t, <1>w, <2>2
    DEF CalledOffInTime, Apart, Alone, Idle, HolderNamed, FilledHeld, WorkPaid, ChecksOut,
      CallsOff, HasClaim, Unsure, Others
  <2> QED
    BY <2>1, <2>3, <2>4, <2>5, <2>6, <2>7
<1>12. ASSUME GraceOver
      PROVE  JobsTyped' /\ Rest'
  <2>1. JobsTyped'
    <3>1. gig' \in Gigs
      BY <1>12, <1>g DEF GraceOver, Gigs
    <3> QED
      BY <1>12, <1>i, <3>1 DEF GraceOver, Outside, JobsTyped
  <2>2. /\ UNCHANGED <<claim, wages, befell, task>> /\ gig'.status = gig.status /\ gig'.by = gig.by
    BY <1>12, <1>g DEF GraceOver, Outside, Gigs
  <2>3. Alone'
    BY <1>i, <2>2
    DEF Alone, Apart, Idle
  <2>4. HolderNamed'
    BY <1>i, <1>t, <2>2
    DEF HolderNamed, HasClaim, Unsure
  <2>5. FilledHeld'
    BY <1>i, <2>2
    DEF FilledHeld, HolderNamed, HasClaim, Unsure, Spared
  <2>6. WorkPaid'
    BY <1>i, <1>t, <1>w, <2>2
    DEF WorkPaid, ChecksOut
  <2>7. CalledOffInTime'
    BY <1>i, <1>t, <1>w, <2>2
    DEF CalledOffInTime, Apart, Alone, Idle, HolderNamed, FilledHeld, WorkPaid, ChecksOut,
      CallsOff, HasClaim, Unsure
  <2> QED
    BY <2>1, <2>3, <2>4, <2>5, <2>6, <2>7
<1>13. ASSUME NEW w \in Workers, NEW a \in Seekers, NoShow(w, a)
      PROVE  JobsTyped' /\ Rest'
  <2>1. JobsTyped'
    <3>1. [claim[a] EXCEPT !.status = "no_show"] \in Applications
      BY <1>c DEF Applications
    <3>2. claim' \in [Seekers -> Applications]
      BY <1>13, <1>i, <3>1 DEF NoShow, JobsTyped
    <3>5. [step |-> "reopen"] \in GigTasks
      BY DEF GigTasks
    <3>6. task' \in [Workers -> GigTasks]
      BY <1>13, <1>k, <3>5, BeginEffect DEF NoShow
    <3> QED
      BY <1>13, <1>i, <3>2, <3>6 DEF NoShow, JobsTyped
  <2>2. /\ task'[w].step = "reopen" /\ Others(w) /\ Entered(w) /\ UNCHANGED <<gig, wages>>
        /\ claim[a].status = "accepted" /\ claim'[a].status = "no_show" /\ OtherClaims(a)
        /\ claim'[a].ref = claim[a].ref /\ claim'[a].pay = claim[a].pay
    BY <1>13, <1>i, <1>k, <1>c
    DEF NoShow, Begin, Idle, Overlaps, Befalls, Others, Entered, OtherClaims, JobsTyped, Applications
  <2>3. Alone'
    BY <1>i, <2>2
    DEF Alone, Apart, Idle, Entered, Others, OtherClaims
  <2>4. HolderNamed'
    BY <1>i, <1>t, <2>2
    DEF HolderNamed, HasClaim, Unsure, Entered, Others, OtherClaims
  <2>5. FilledHeld'
    BY <1>i, <2>2
    DEF FilledHeld, HolderNamed, HasClaim, Unsure, Spared, Entered, Others, OtherClaims
  <2>6. WorkPaid'
    BY <1>i, <1>t, <1>w, <2>2
    DEF WorkPaid, ChecksOut, Entered, Others, OtherClaims
  <2>7. CalledOffInTime'
    BY <1>i, <1>t, <1>w, <2>2
    DEF CalledOffInTime, Apart, Alone, Idle, HolderNamed, FilledHeld, WorkPaid, ChecksOut,
      CallsOff, HasClaim, Unsure, Entered, Others, OtherClaims
  <2> QED
    BY <2>1, <2>3, <2>4, <2>5, <2>6, <2>7
<1>14. ASSUME NEW w \in Workers, Reopen(w)
      PROVE  JobsTyped' /\ Rest'
  <2>1. JobsTyped'
    <3>1. gig' \in Gigs
      <4>1. CASE gig.status = "filled"
        <5>1. gig' = [status |-> "open", by |-> None, late |-> gig.late]
          BY <1>14, <1>g, <4>1 DEF Reopen, Gigs
        <5> QED
          BY <1>g, <5>1 DEF Gigs
      <4>2. CASE gig.status # "filled"
        BY <1>14, <1>g, <4>2 DEF Reopen
      <4> QED
        BY <4>1, <4>2
    <3>5. Resting \in GigTasks
      BY DEF GigTasks
    <3>6. task' \in [Workers -> GigTasks]
      BY <1>14, <1>k, <3>5, BecomesEffect DEF Reopen, Finish
    <3> QED
      BY <1>14, <1>i, <3>1, <3>6 DEF Reopen, JobsTyped
  <2>2. /\ task[w].step = "reopen" /\ task'[w].step = "idle" /\ Others(w)
        /\ UNCHANGED <<claim, wages, befell>>
        /\ gig'.status = IF gig.status = "filled" THEN "open" ELSE gig.status
    <3>1. gig'.status = IF gig.status = "filled" THEN "open" ELSE gig.status
      BY <1>14, <1>g DEF Reopen, Gigs
    <3> QED
      BY <1>14, <1>k, <3>1 DEF Reopen, Finish, Becomes, Resting, Others
  <2>3. Alone'
    BY <1>i, <2>2
    DEF Alone, Apart, Idle, Others
  <2>4. HolderNamed'
    BY <1>i, <1>t, <2>2
    DEF HolderNamed, HasClaim, Unsure, Others
  <2>5. FilledHeld'
    BY <1>i, <2>2
    DEF FilledHeld, HolderNamed, HasClaim, Unsure, Spared, Others
  <2>6. WorkPaid'
    BY <1>i, <1>t, <1>w, <2>2
    DEF WorkPaid, ChecksOut, Others
  <2>7. CalledOffInTime'
    BY <1>i, <1>t, <1>w, <2>2
    DEF CalledOffInTime, Apart, Alone, Idle, HolderNamed, FilledHeld, WorkPaid, ChecksOut,
      CallsOff, HasClaim, Unsure, Others
  <2> QED
    BY <2>1, <2>3, <2>4, <2>5, <2>6, <2>7
<1>15. ASSUME HourPasses
      PROVE  JobsTyped' /\ Rest'
  <2>1. JobsTyped'
    BY <1>15, <1>i DEF HourPasses, Outside, JobsTyped
  <2>2. UNCHANGED <<gig, claim, wages, befell, task>>
    BY <1>15 DEF HourPasses, Outside
  <2>3. Alone'
    BY <1>i, <2>2
    DEF Alone, Apart, Idle
  <2>4. HolderNamed'
    BY <1>i, <1>t, <2>2
    DEF HolderNamed, HasClaim, Unsure
  <2>5. FilledHeld'
    BY <1>i, <2>2
    DEF FilledHeld, HolderNamed, HasClaim, Unsure, Spared
  <2>6. WorkPaid'
    BY <1>i, <1>t, <1>w, <2>2
    DEF WorkPaid, ChecksOut
  <2>7. CalledOffInTime'
    BY <1>i, <1>t, <1>w, <2>2
    DEF CalledOffInTime, Apart, Alone, Idle, HolderNamed, FilledHeld, WorkPaid, ChecksOut,
      CallsOff, HasClaim, Unsure
  <2> QED
    BY <2>1, <2>3, <2>4, <2>5, <2>6, <2>7
<1>16. ASSUME NEW w \in Workers, JobsDies(w)
      PROVE  JobsTyped' /\ Rest'
  <2>1. JobsTyped'
    <3>5. Resting \in GigTasks
      BY DEF GigTasks
    <3>6. task' \in [Workers -> GigTasks]
      BY <1>16, <1>k, <3>5, BecomesEffect DEF JobsDies, Dies, FinishAfter
    <3> QED
      BY <1>16, <1>i, <3>6 DEF JobsDies, JobsTyped
  <2>2. /\ task'[w].step = "idle" /\ Others(w) /\ UNCHANGED <<gig, claim, wages>>
        /\ befell \subseteq befell' /\ "crash" \in befell'
    BY <1>16, <1>k DEF JobsDies, Dies, FinishAfter, Becomes, Befalls, Resting, Others
  <2>3. Alone'
    BY <1>i, <2>2
    DEF Alone, Apart, Idle, Others
  <2>4. HolderNamed'
    BY <1>i, <1>t, <2>2
    DEF HolderNamed, HasClaim, Unsure, Others
  <2>5. FilledHeld'
    BY <1>i, <2>2
    DEF FilledHeld, HolderNamed, HasClaim, Unsure, Spared, Others
  <2>6. WorkPaid'
    BY <1>i, <1>t, <1>w, <2>2
    DEF WorkPaid, ChecksOut, Others
  <2>7. CalledOffInTime'
    BY <1>i, <1>t, <1>w, <2>2
    DEF CalledOffInTime, Apart, Alone, Idle, HolderNamed, FilledHeld, WorkPaid, ChecksOut,
      CallsOff, HasClaim, Unsure, Others
  <2> QED
    BY <2>1, <2>3, <2>4, <2>5, <2>6, <2>7
<1> QED
  BY <1>1, <1>2, <1>3, <1>4, <1>5, <1>6, <1>7, <1>8, <1>9, <1>10, <1>11, <1>12, <1>13, <1>14,
     <1>15, <1>16
  DEF JobsNext, JobsIInv, SweepNoShows, MarkNoShow

(***************************************************************************)
(* Appointments.                                                           *)
(***************************************************************************)

Appointments ==
  [status : {"none", "booked", "cancelled", "no_show", "completed"}, at : Nat,
   reminded : BOOLEAN, fee : {0, Price}]

CalendarTasks ==
  {Resting}
    \cup [step : {"insert_windows"}, offered : SUBSET Slots]
    \cup [step : {"book", "reschedule"}, b : Bookings, at : Slots]
    \cup [step : {"absent", "booking_fee", "flag"}, b : Bookings]

SchedTyped ==
  /\ windows \subseteq Slots
  /\ booking \in [Bookings -> Appointments]
  /\ now \in Nat
  /\ told \in [Bookings -> Nat]
  /\ task \in [Workers -> CalendarTasks]

\* Unless handlers overlap, appointments are at different moments, and whoever is about to get
\* one, or to move the one he has, finds its moment free.
SlotsApart ==
  Apart =>
    /\ \A b, c \in Bookings :
         booking[b].status = "booked" /\ booking[c].status = "booked" /\ booking[b].at = booking[c].at => b = c
    /\ \A w \in Workers : task[w].step \in {"book", "reschedule"} =>
         \A b \in Bookings : ~(booking[b].status = "booked" /\ booking[b].at = task[w].at)
    /\ \A w \in Workers : task[w].step = "reschedule" => booking[task[w].b].status = "booked"

\* Who was charged was served, and who was served is charged or about to be.
FeeFollows ==
  /\ \A b \in Bookings :
       /\ booking[b].fee > 0 => booking[b].status = "completed"
       /\ booking[b].status = "completed" /\ "crash" \notin befell =>
            \/ booking[b].fee > 0
            \/ \E w \in Workers : task[w].step = "booking_fee" /\ task[w].b = b
  /\ \A w \in Workers : task[w].step = "booking_fee" => booking[task[w].b].status = "completed"

\* Unless handlers overlap, a customer was told of the appointment whose row is flagged, or
\* about to be.
ToldFirst ==
  Apart =>
    /\ \A b \in Bookings : booking[b].reminded => told[b] = booking[b].at
    /\ \A w \in Workers : task[w].step = "flag" => told[task[w].b] = booking[task[w].b].at

\* Unless handlers overlap, an appointment that was missed, or is about to be called missed,
\* had begun.
MissedHadBegun ==
  Apart =>
    /\ \A b \in Bookings : booking[b].status = "no_show" => booking[b].at <= now
    /\ \A w \in Workers : task[w].step = "absent" => booking[task[w].b].at <= now

SchedIInv == SchedTyped /\ Alone /\ SlotsApart /\ FeeFollows /\ ToldFirst /\ MissedHadBegun

\* Only b's row changes.
OtherBookings(b) == \A c \in Bookings \ {b} : booking'[c] = booking[c]

\* What a handler of the calendar remembers.
LEMMA CalendarFields ==
  ASSUME SchedTyped, NEW w \in Workers
  PROVE  /\ task[w].step \in {"book", "reschedule"} => task[w].b \in Bookings /\ task[w].at \in Slots
         /\ task[w].step \in {"absent", "booking_fee", "flag"} => task[w].b \in Bookings
         /\ task[w].step = "insert_windows" => task[w].offered \subseteq Slots
<1>1. task[w] \in CalendarTasks
  BY DEF SchedTyped
<1> DEFINE t == task[w]
<1>2. t \in CalendarTasks
  BY <1>1
<1> HIDE DEF t
<1>3. /\ t.step \in {"book", "reschedule"} => t.b \in Bookings /\ t.at \in Slots
      /\ t.step \in {"absent", "booking_fee", "flag"} => t.b \in Bookings
      /\ t.step = "insert_windows" => t.offered \subseteq Slots
  BY <1>2 DEF CalendarTasks, Resting
<1> QED
  BY <1>3 DEF t

\* What writing a field of a row leaves alone.
LEMMA AppointmentEdits ==
  ASSUME NEW r \in Appointments
  PROVE  /\ \A s \in {"cancelled", "no_show", "completed"} : LET q == [r EXCEPT !.status = s] IN
              q \in Appointments /\ q.status = s /\ q.at = r.at /\ q.reminded = r.reminded /\ q.fee = r.fee
         /\ \A t \in BOOLEAN : LET q == [r EXCEPT !.reminded = t] IN
              q \in Appointments /\ q.status = r.status /\ q.at = r.at /\ q.reminded = t /\ q.fee = r.fee
         /\ LET q == [r EXCEPT !.fee = Price] IN
              q \in Appointments /\ q.status = r.status /\ q.at = r.at /\ q.reminded = r.reminded /\ q.fee = Price
BY DEF Appointments

\* The row at another moment.
Moved(r, n) == [r EXCEPT !.at = n]

\* What moving a row leaves alone.
LEMMA MovedRow ==
  ASSUME NEW r \in Appointments, NEW n \in Nat
  PROVE  /\ Moved(r, n) \in Appointments /\ Moved(r, n).at = n /\ Moved(r, n).status = r.status
         /\ Moved(r, n).reminded = r.reminded /\ Moved(r, n).fee = r.fee
BY DEF Appointments, Moved

\* Row b becomes one of this status, moment, flag and fee, and the other rows stay.
Wrote(b, s, at, reminded, fee) ==
  /\ booking'[b].status = s /\ booking'[b].at = at /\ booking'[b].reminded = reminded /\ booking'[b].fee = fee
  /\ OtherBookings(b)

\* Every step of the calendar keeps the invariant.
LEMMA SchedSteps ==
  ASSUME SchedIInv, SchedNext
  PROVE  SchedIInv'
<1> DEFINE Rest == Alone /\ SlotsApart /\ FeeFollows /\ ToldFirst /\ MissedHadBegun
<1> USE DEF At
<1>i. SchedTyped /\ Rest
  BY DEF SchedIInv
<1>c. \A b \in Bookings : booking[b] \in Appointments
  BY <1>i DEF SchedTyped
<1>f. \A b \in Bookings :
        booking[b].at \in Nat /\ booking[b].fee \in {0, Price} /\ booking[b].reminded \in BOOLEAN
  BY <1>c DEF Appointments
<1>n. now \in Nat
  BY <1>i DEF SchedTyped
<1>k. task \in [Workers -> CalendarTasks]
  BY <1>i DEF SchedTyped
<1>r. Resting \in CalendarTasks /\ Resting.step = "idle"
  BY DEF CalendarTasks, Resting
<1>t. \A v \in Workers :
        /\ task[v].step \in {"book", "reschedule"} => task[v].b \in Bookings /\ task[v].at \in Slots
        /\ task[v].step \in {"absent", "booking_fee", "flag"} => task[v].b \in Bookings
        /\ task[v].step = "insert_windows" => task[v].offered \subseteq Slots
  BY <1>i, CalendarFields
<1>1. ASSUME NEW w \in Workers, InsertWindows(w)
      PROVE  SchedTyped' /\ Rest'
  <2>1. SchedTyped'
    <3>1. task' \in [Workers -> CalendarTasks]
      BY <1>1, <1>k, <1>r, BecomesEffect DEF InsertWindows, Finish
    <3> QED
      BY <1>1, <1>i, <1>t, <3>1 DEF InsertWindows, SchedTyped
  <2>2. /\ task[w].step = "insert_windows" /\ task'[w].step = "idle" /\ Others(w) /\ befell' = befell
        /\ UNCHANGED <<booking, now, told>>
    <3>1. task'[w] = Resting /\ Others(w) /\ befell' = befell
      BY <1>1, <1>k, <1>r, BecomesEffect DEF InsertWindows, Finish
    <3> QED
      BY <1>1, <1>i, <1>r, <1>t, <3>1 DEF InsertWindows, Wrote, OtherBookings, SchedTyped
  <2>3. Alone'
    BY <1>i, <2>2
    DEF Alone, Apart, Idle, Others
  <2>4. SlotsApart'
    BY <1>i, <1>t, <2>2
    DEF SlotsApart, Apart, Alone, Idle, Others
  <2>5. FeeFollows'
    BY <1>i, <1>t, <2>2
    DEF FeeFollows, Others
  <2>6. ToldFirst'
    BY <1>i, <1>t, <2>2
    DEF ToldFirst, Apart, Alone, Idle, Others
  <2>7. MissedHadBegun'
    BY <1>i, <1>t, <1>f, <1>n, <2>2
    DEF MissedHadBegun, SlotsApart, Apart, Alone, Idle, Others
  <2> QED
    BY <2>1, <2>3, <2>4, <2>5, <2>6, <2>7
<1>2. ASSUME NEW w \in Workers, BookWrite(w)
      PROVE  SchedTyped' /\ Rest'
  <2> DEFINE b == task[w].b
             at == task[w].at
  <2>0. PICK r \in Appointments :
          /\ booking' = IF booking[b].status = "none" THEN [booking EXCEPT ![b] = r] ELSE booking
          /\ r.status = "booked" /\ r.at = at /\ ~r.reminded /\ r.fee = 0
    <3> DEFINE p == [NoBooking EXCEPT !.status = "booked"]
               r == Moved(p, at)
    <3>1. at \in Nat
      BY <1>2, <1>t, SchedulingAssumption DEF BookWrite
    <3>2. booking' = IF booking[b].status = "none" THEN [booking EXCEPT ![b] = r] ELSE booking
      BY <1>2 DEF BookWrite, Moved
    <3>3. p \in Appointments /\ p.status = "booked" /\ ~p.reminded /\ p.fee = 0
      BY DEF NoBooking, Appointments
    <3> HIDE DEF p, at
    <3>4. r \in Appointments /\ r.status = p.status /\ r.at = at /\ r.reminded = p.reminded /\ r.fee = p.fee
      BY <3>1, <3>3, MovedRow
    <3> HIDE DEF r
    <3> QED
      BY <3>2, <3>3, <3>4
  <2>1. SchedTyped'
    <3>1. task' \in [Workers -> CalendarTasks]
      BY <1>2, <1>k, <1>r, BecomesEffect DEF BookWrite, Finish
    <3> QED
      BY <1>2, <1>i, <1>t, <3>1, <2>0 DEF BookWrite, SchedTyped
  <2>2. /\ task[w].step = "book" /\ b = task[w].b /\ at = task[w].at /\ b \in Bookings /\ at \in Slots
        /\ task'[w].step = "idle" /\ Others(w) /\ befell' = befell
        /\ \/ booking[b].status = "none" /\ Wrote(b, "booked", at, FALSE, 0)
           \/ booking' = booking
        /\ UNCHANGED <<now, told>>
    <3>1. task'[w] = Resting /\ Others(w) /\ befell' = befell
      BY <1>2, <1>k, <1>r, BecomesEffect DEF BookWrite, Finish
    <3>2. /\ task[w].step = "book" /\ b = task[w].b /\ at = task[w].at /\ b \in Bookings /\ at \in Slots
          /\ UNCHANGED <<now, told>>
      BY <1>2, <1>t DEF BookWrite
    <3> HIDE DEF b, at
    <3>3. \/ booking[b].status = "none" /\ Wrote(b, "booked", at, FALSE, 0)
          \/ booking' = booking
      BY <1>i, <2>0, <3>2 DEF Wrote, OtherBookings, SchedTyped
    <3> QED
      BY <1>r, <3>1, <3>2, <3>3
  <2> HIDE DEF b, at
  <2>3. Alone'
    BY <1>i, <2>2
    DEF Alone, Apart, Idle, Others, Wrote, OtherBookings
  <2>4. SlotsApart'
    BY <1>i, <1>t, <2>2
    DEF SlotsApart, Apart, Alone, Idle, Others, Wrote, OtherBookings
  <2>5. FeeFollows'
    BY <1>i, <1>t, <2>2
    DEF FeeFollows, Others, Wrote, OtherBookings
  <2>6. ToldFirst'
    BY <1>i, <1>t, <2>2
    DEF ToldFirst, Apart, Alone, Idle, Others, Wrote, OtherBookings
  <2>7. MissedHadBegun'
    BY <1>i, <1>t, <1>f, <1>n, <2>2
    DEF MissedHadBegun, SlotsApart, Apart, Alone, Idle, Others, Wrote, OtherBookings
  <2> QED
    BY <2>1, <2>3, <2>4, <2>5, <2>6, <2>7
<1>3. ASSUME NEW w \in Workers, RescheduleWrite(w)
      PROVE  SchedTyped' /\ Rest'
  <2> DEFINE b == task[w].b
             at == task[w].at
  <2>0. PICK r \in Appointments :
          /\ booking' = [booking EXCEPT ![b] = r]
          /\ r.status = booking[b].status /\ r.at = at /\ ~r.reminded /\ r.fee = booking[b].fee
    <3> DEFINE p == Moved(booking[b], at)
               r == [p EXCEPT !.reminded = FALSE]
    <3>1. booking[b] \in Appointments /\ at \in Nat
      BY <1>3, <1>c, <1>t, SchedulingAssumption DEF RescheduleWrite
    <3>2. booking' = [booking EXCEPT ![b] = r]
      BY <1>3 DEF RescheduleWrite, Moved
    <3> HIDE DEF b, at
    <3>3. p \in Appointments /\ p.status = booking[b].status /\ p.at = at /\ p.fee = booking[b].fee
      BY <3>1, MovedRow
    <3> HIDE DEF p
    <3>4. r \in Appointments /\ r.status = p.status /\ r.at = p.at /\ ~r.reminded /\ r.fee = p.fee
      BY <3>3, AppointmentEdits
    <3> HIDE DEF r
    <3> QED
      BY <3>2, <3>3, <3>4
  <2>1. SchedTyped'
    <3>1. task' \in [Workers -> CalendarTasks]
      BY <1>3, <1>k, <1>r, BecomesEffect DEF RescheduleWrite, Finish
    <3> QED
      BY <1>3, <1>i, <1>t, <3>1, <2>0 DEF RescheduleWrite, SchedTyped
  <2>2. /\ task[w].step = "reschedule" /\ b = task[w].b /\ at = task[w].at /\ b \in Bookings /\ at \in Slots
        /\ task'[w].step = "idle" /\ Others(w) /\ befell' = befell
        /\ Wrote(b, booking[b].status, at, FALSE, booking[b].fee)
        /\ UNCHANGED <<now, told>>
    <3>1. task'[w] = Resting /\ Others(w) /\ befell' = befell
      BY <1>3, <1>k, <1>r, BecomesEffect DEF RescheduleWrite, Finish
    <3> QED
      BY <1>3, <1>i, <1>r, <1>t, <3>1, <2>0 DEF RescheduleWrite, Wrote, OtherBookings, SchedTyped
  <2> HIDE DEF b, at
  <2>3. Alone'
    BY <1>i, <2>2
    DEF Alone, Apart, Idle, Others, Wrote, OtherBookings
  <2>4. SlotsApart'
    BY <1>i, <1>t, <2>2
    DEF SlotsApart, Apart, Alone, Idle, Others, Wrote, OtherBookings
  <2>5. FeeFollows'
    BY <1>i, <1>t, <2>2
    DEF FeeFollows, Others, Wrote, OtherBookings
  <2>6. ToldFirst'
    BY <1>i, <1>t, <2>2
    DEF ToldFirst, Apart, Alone, Idle, Others, Wrote, OtherBookings
  <2>7. MissedHadBegun'
    BY <1>i, <1>t, <1>f, <1>n, <2>2
    DEF MissedHadBegun, SlotsApart, Apart, Alone, Idle, Others, Wrote, OtherBookings
  <2> QED
    BY <2>1, <2>3, <2>4, <2>5, <2>6, <2>7
<1>4. ASSUME NEW w \in Workers, AbsentClaim(w)
      PROVE  SchedTyped' /\ Rest'
  <2> DEFINE b == task[w].b
             r == [booking[b] EXCEPT !.status = "no_show"]
  <2>0. task[w].step = "absent" /\ b = task[w].b /\ b \in Bookings /\ booking[b] \in Appointments
    BY <1>4, <1>c, <1>t DEF AbsentClaim
  <2>9. /\ r \in Appointments /\ r.status = "no_show" /\ r.at = booking[b].at
       /\ r.reminded = booking[b].reminded /\ r.fee = booking[b].fee
    BY <2>0, AppointmentEdits
  <2>8. (booking[b].status = "booked" /\ booking' = [booking EXCEPT ![b] = r]) \/ booking' = booking
    BY <1>4 DEF AbsentClaim
  <2>1. SchedTyped'
    <3> HIDE DEF r
    <3>1. task' \in [Workers -> CalendarTasks]
      BY <1>4, <1>k, <1>r, BecomesEffect DEF AbsentClaim, Finish
    <3>2. booking' \in [Bookings -> Appointments]
      BY <1>i, <2>0, <2>8, <2>9 DEF SchedTyped
    <3> QED
      BY <1>4, <1>i, <3>1, <3>2 DEF AbsentClaim, SchedTyped
  <2>2. /\ task[w].step = "absent" /\ b = task[w].b /\ b \in Bookings
        /\ task'[w].step = "idle" /\ Others(w) /\ befell' = befell
        /\ \/ booking[b].status = "booked" /\ Wrote(b, "no_show", booking[b].at, booking[b].reminded, booking[b].fee)
           \/ booking' = booking
        /\ UNCHANGED <<now, told>>
    <3> HIDE DEF r
    <3>1. task'[w] = Resting /\ Others(w) /\ befell' = befell
      BY <1>4, <1>k, <1>r, BecomesEffect DEF AbsentClaim, Finish
    <3>2. UNCHANGED <<now, told>>
      BY <1>4 DEF AbsentClaim
    <3> QED
      BY <1>i, <1>r, <2>0, <2>8, <2>9, <3>1, <3>2 DEF Wrote, OtherBookings, SchedTyped
  <2> HIDE DEF b, r
  <2>3. Alone'
    BY <1>i, <2>2
    DEF Alone, Apart, Idle, Others, Wrote, OtherBookings
  <2>4. SlotsApart'
    BY <1>i, <1>t, <2>2
    DEF SlotsApart, Apart, Alone, Idle, Others, Wrote, OtherBookings
  <2>5. FeeFollows'
    BY <1>i, <1>t, <2>2
    DEF FeeFollows, Others, Wrote, OtherBookings
  <2>6. ToldFirst'
    BY <1>i, <1>t, <2>2
    DEF ToldFirst, Apart, Alone, Idle, Others, Wrote, OtherBookings
  <2>7. MissedHadBegun'
    BY <1>i, <1>t, <1>f, <1>n, <2>2
    DEF MissedHadBegun, SlotsApart, Apart, Alone, Idle, Others, Wrote, OtherBookings
  <2> QED
    BY <2>1, <2>3, <2>4, <2>5, <2>6, <2>7
<1>5. ASSUME NEW w \in Workers, RecordBookingFee(w)
      PROVE  SchedTyped' /\ Rest'
  <2> DEFINE b == task[w].b
             r == [booking[b] EXCEPT !.fee = Price]
  <2>0. task[w].step = "booking_fee" /\ b = task[w].b /\ b \in Bookings /\ booking[b] \in Appointments
    BY <1>5, <1>c, <1>t DEF RecordBookingFee
  <2>9. /\ r \in Appointments /\ r.status = booking[b].status /\ r.at = booking[b].at
       /\ r.reminded = booking[b].reminded /\ r.fee = Price
    BY <2>0, AppointmentEdits
  <2>8. booking' = [booking EXCEPT ![b] = r]
    BY <1>5 DEF RecordBookingFee
  <2>1. SchedTyped'
    <3> HIDE DEF r
    <3>1. task' \in [Workers -> CalendarTasks]
      BY <1>5, <1>k, <1>r, BecomesEffect DEF RecordBookingFee, Finish
    <3>2. booking' \in [Bookings -> Appointments]
      BY <1>i, <2>0, <2>8, <2>9 DEF SchedTyped
    <3> QED
      BY <1>5, <1>i, <3>1, <3>2 DEF RecordBookingFee, SchedTyped
  <2>2. /\ task[w].step = "booking_fee" /\ b = task[w].b /\ b \in Bookings
        /\ task'[w].step = "idle" /\ Others(w) /\ befell' = befell
        /\ Wrote(b, booking[b].status, booking[b].at, booking[b].reminded, Price)
        /\ UNCHANGED <<now, told>>
    <3> HIDE DEF r
    <3>1. task'[w] = Resting /\ Others(w) /\ befell' = befell
      BY <1>5, <1>k, <1>r, BecomesEffect DEF RecordBookingFee, Finish
    <3>2. UNCHANGED <<now, told>>
      BY <1>5 DEF RecordBookingFee
    <3> QED
      BY <1>i, <1>r, <2>0, <2>8, <2>9, <3>1, <3>2 DEF Wrote, OtherBookings, SchedTyped
  <2> HIDE DEF b, r
  <2>3. Alone'
    BY <1>i, <2>2
    DEF Alone, Apart, Idle, Others, Wrote, OtherBookings
  <2>4. SlotsApart'
    BY <1>i, <1>t, <2>2
    DEF SlotsApart, Apart, Alone, Idle, Others, Wrote, OtherBookings
  <2>5. FeeFollows'
    BY <1>i, <1>t, SchedulingAssumption, <2>2
    DEF FeeFollows, Others, Wrote, OtherBookings
  <2>6. ToldFirst'
    BY <1>i, <1>t, <2>2
    DEF ToldFirst, Apart, Alone, Idle, Others, Wrote, OtherBookings
  <2>7. MissedHadBegun'
    BY <1>i, <1>t, <1>f, <1>n, <2>2
    DEF MissedHadBegun, SlotsApart, Apart, Alone, Idle, Others, Wrote, OtherBookings
  <2> QED
    BY <2>1, <2>3, <2>4, <2>5, <2>6, <2>7
<1>6. ASSUME NEW w \in Workers, RemindFlag(w)
      PROVE  SchedTyped' /\ Rest'
  <2> DEFINE b == task[w].b
             r == [booking[b] EXCEPT !.reminded = TRUE]
  <2>0. task[w].step = "flag" /\ b = task[w].b /\ b \in Bookings /\ booking[b] \in Appointments
    BY <1>6, <1>c, <1>t DEF RemindFlag
  <2>9. /\ r \in Appointments /\ r.status = booking[b].status /\ r.at = booking[b].at
       /\ r.reminded = TRUE /\ r.fee = booking[b].fee
    BY <2>0, AppointmentEdits
  <2>8. booking' = [booking EXCEPT ![b] = r]
    BY <1>6 DEF RemindFlag
  <2>1. SchedTyped'
    <3> HIDE DEF r
    <3>1. task' \in [Workers -> CalendarTasks]
      BY <1>6, <1>k, <1>r, BecomesEffect DEF RemindFlag, Finish
    <3>2. booking' \in [Bookings -> Appointments]
      BY <1>i, <2>0, <2>8, <2>9 DEF SchedTyped
    <3> QED
      BY <1>6, <1>i, <3>1, <3>2 DEF RemindFlag, SchedTyped
  <2>2. /\ task[w].step = "flag" /\ b = task[w].b /\ b \in Bookings
        /\ task'[w].step = "idle" /\ Others(w) /\ befell' = befell
        /\ Wrote(b, booking[b].status, booking[b].at, TRUE, booking[b].fee)
        /\ UNCHANGED <<now, told>>
    <3> HIDE DEF r
    <3>1. task'[w] = Resting /\ Others(w) /\ befell' = befell
      BY <1>6, <1>k, <1>r, BecomesEffect DEF RemindFlag, Finish
    <3>2. UNCHANGED <<now, told>>
      BY <1>6 DEF RemindFlag
    <3> QED
      BY <1>i, <1>r, <2>0, <2>8, <2>9, <3>1, <3>2 DEF Wrote, OtherBookings, SchedTyped
  <2> HIDE DEF b, r
  <2>3. Alone'
    BY <1>i, <2>2
    DEF Alone, Apart, Idle, Others, Wrote, OtherBookings
  <2>4. SlotsApart'
    BY <1>i, <1>t, <2>2
    DEF SlotsApart, Apart, Alone, Idle, Others, Wrote, OtherBookings
  <2>5. FeeFollows'
    BY <1>i, <1>t, <2>2
    DEF FeeFollows, Others, Wrote, OtherBookings
  <2>6. ToldFirst'
    BY <1>i, <1>t, <2>2
    DEF ToldFirst, Apart, Alone, Idle, Others, Wrote, OtherBookings
  <2>7. MissedHadBegun'
    BY <1>i, <1>t, <1>f, <1>n, <2>2
    DEF MissedHadBegun, SlotsApart, Apart, Alone, Idle, Others, Wrote, OtherBookings
  <2> QED
    BY <2>1, <2>3, <2>4, <2>5, <2>6, <2>7
<1>7. ASSUME NEW w \in Workers, SchedDies(w)
      PROVE  SchedTyped' /\ Rest'
  <2>1. SchedTyped'
    <3>1. task' \in [Workers -> CalendarTasks]
      BY <1>7, <1>k, <1>r, BecomesEffect DEF SchedDies, Dies, FinishAfter
    <3> QED
      BY <1>7, <1>i, <3>1 DEF SchedDies, SchedTyped
  <2>2. /\ task'[w].step = "idle" /\ Others(w) /\ befell \subseteq befell' /\ "crash" \in befell'
        /\ UNCHANGED <<booking, now, told>>
    BY <1>7, <1>k, <1>r DEF SchedDies, Dies, FinishAfter, Becomes, Befalls, Others
  <2>3. Alone'
    BY <1>i, <2>2
    DEF Alone, Apart, Idle, Others
  <2>4. SlotsApart'
    BY <1>i, <1>t, <2>2
    DEF SlotsApart, Apart, Alone, Idle, Others
  <2>5. FeeFollows'
    BY <1>i, <1>t, <2>2
    DEF FeeFollows, Others
  <2>6. ToldFirst'
    BY <1>i, <1>t, <2>2
    DEF ToldFirst, Apart, Alone, Idle, Others
  <2>7. MissedHadBegun'
    BY <1>i, <1>t, <1>f, <1>n, <2>2
    DEF MissedHadBegun, SlotsApart, Apart, Alone, Idle, Others
  <2> QED
    BY <2>1, <2>3, <2>4, <2>5, <2>6, <2>7
<1>8. ASSUME NEW w \in Workers, NEW offered \in {{}, Slots}, DeleteWindows(w, offered)
      PROVE  SchedTyped' /\ Rest'
  <2> DEFINE t == [step |-> "insert_windows", offered |-> offered]
  <2>1. SchedTyped'
    <3>1. t \in CalendarTasks
      BY SchedulingAssumption DEF CalendarTasks
    <3>2. Begin(w, t)
      BY <1>8 DEF DeleteWindows
    <3> HIDE DEF t
    <3>3. task' \in [Workers -> CalendarTasks]
      BY <1>k, <3>1, <3>2, BeginEffect
    <3> QED
      BY <1>8, <1>i, <3>3 DEF DeleteWindows, SchedTyped
  <2>2. /\ task'[w].step = "insert_windows" /\ Others(w) /\ Entered(w)
        /\ UNCHANGED <<booking, now, told>>
    <3>1. task' = [task EXCEPT ![w] = t] /\ Entered(w)
      BY <1>8 DEF DeleteWindows, Begin, Entered, Idle, Overlaps, Befalls
    <3>2. task'[w] = t /\ Others(w)
      BY <1>k, <3>1 DEF Others
    <3> QED
      BY <1>8, <1>i, <1>c, <1>f, <3>1, <3>2 DEF DeleteWindows, SchedTyped
  <2> HIDE DEF t
  <2>3. Alone'
    BY <1>i, <2>2
    DEF Alone, Apart, Idle, Entered, Others
  <2>4. SlotsApart'
    BY <1>i, <1>t, <2>2
    DEF SlotsApart, Apart, Alone, Idle, Entered, Others
  <2>5. FeeFollows'
    BY <1>i, <1>t, <2>2
    DEF FeeFollows, Entered, Others
  <2>6. ToldFirst'
    BY <1>i, <1>t, <2>2
    DEF ToldFirst, Apart, Alone, Idle, Entered, Others
  <2>7. MissedHadBegun'
    BY <1>i, <1>t, <1>f, <1>n, <2>2
    DEF MissedHadBegun, SlotsApart, Apart, Alone, Idle, Entered, Others
  <2> QED
    BY <2>1, <2>3, <2>4, <2>5, <2>6, <2>7
<1>9. ASSUME NEW w \in Workers, NEW b \in Bookings, AbsentRead(w, b)
      PROVE  SchedTyped' /\ Rest'
  <2> DEFINE t == [step |-> "absent", b |-> b]
  <2>1. SchedTyped'
    <3>1. t \in CalendarTasks
      BY SchedulingAssumption DEF CalendarTasks
    <3>2. Begin(w, t)
      BY <1>9 DEF AbsentRead
    <3> HIDE DEF t
    <3>3. task' \in [Workers -> CalendarTasks]
      BY <1>k, <3>1, <3>2, BeginEffect
    <3> QED
      BY <1>9, <1>i, <3>3 DEF AbsentRead, SchedTyped
  <2>2. /\ task'[w].step = "absent" /\ task'[w].b = b /\ Others(w) /\ Entered(w) /\ booking[b].at <= now
        /\ UNCHANGED <<booking, now, told>>
    <3>1. task' = [task EXCEPT ![w] = t] /\ Entered(w)
      BY <1>9 DEF AbsentRead, Begin, Entered, Idle, Overlaps, Befalls
    <3>2. task'[w] = t /\ Others(w)
      BY <1>k, <3>1 DEF Others
    <3> QED
      BY <1>9, <1>i, <1>c, <1>f, <3>1, <3>2 DEF AbsentRead, SchedTyped
  <2> HIDE DEF t
  <2>3. Alone'
    BY <1>i, <2>2
    DEF Alone, Apart, Idle, Entered, Others
  <2>4. SlotsApart'
    BY <1>i, <1>t, <2>2
    DEF SlotsApart, Apart, Alone, Idle, Entered, Others
  <2>5. FeeFollows'
    BY <1>i, <1>t, <2>2
    DEF FeeFollows, Entered, Others
  <2>6. ToldFirst'
    BY <1>i, <1>t, <2>2
    DEF ToldFirst, Apart, Alone, Idle, Entered, Others
  <2>7. MissedHadBegun'
    BY <1>i, <1>t, <1>f, <1>n, <2>2
    DEF MissedHadBegun, SlotsApart, Apart, Alone, Idle, Entered, Others
  <2> QED
    BY <2>1, <2>3, <2>4, <2>5, <2>6, <2>7
<1>10. ASSUME NEW w \in Workers, NEW b \in Bookings, CompleteBooking(w, b)
      PROVE  SchedTyped' /\ Rest'
  <2> DEFINE t == [step |-> "booking_fee", b |-> b]
             r == [booking[b] EXCEPT !.status = "completed"]
  <2>0. /\ r \in Appointments /\ r.status = "completed" /\ r.at = booking[b].at
       /\ r.reminded = booking[b].reminded /\ r.fee = booking[b].fee
    BY <1>c, AppointmentEdits
  <2>9. booking' = [booking EXCEPT ![b] = r]
    BY <1>10 DEF CompleteBooking
  <2>1. SchedTyped'
    <3>1. t \in CalendarTasks
      BY SchedulingAssumption DEF CalendarTasks
    <3>2. Begin(w, t)
      BY <1>10 DEF CompleteBooking
    <3> HIDE DEF t
    <3>3. task' \in [Workers -> CalendarTasks]
      BY <1>k, <3>1, <3>2, BeginEffect
    <3> QED
      BY <1>10, <1>i, <3>3, <2>0, <2>9 DEF CompleteBooking, SchedTyped
  <2>2. /\ task'[w].step = "booking_fee" /\ task'[w].b = b /\ Others(w) /\ Entered(w)
        /\ booking[b].status = "booked"
        /\ Wrote(b, "completed", booking[b].at, booking[b].reminded, booking[b].fee)
        /\ UNCHANGED <<now, told>>
    <3>1. task' = [task EXCEPT ![w] = t] /\ Entered(w) /\ UNCHANGED <<now, told>> /\ booking[b].status = "booked"
      BY <1>10 DEF CompleteBooking, Begin, Entered, Idle, Overlaps, Befalls
    <3>2. task'[w] = t /\ Others(w)
      BY <1>k, <3>1 DEF Others
    <3>3. Wrote(b, "completed", booking[b].at, booking[b].reminded, booking[b].fee)
      <4> HIDE DEF r
      <4> QED
        BY <1>i, <2>0, <2>9 DEF Wrote, OtherBookings, SchedTyped
    <3> QED
      BY <3>1, <3>2, <3>3
  <2> HIDE DEF t, r
  <2>3. Alone'
    BY <1>i, <2>2
    DEF Alone, Apart, Idle, Entered, Others, Wrote, OtherBookings
  <2>4. SlotsApart'
    BY <1>i, <1>t, <2>2
    DEF SlotsApart, Apart, Alone, Idle, Entered, Others, Wrote, OtherBookings
  <2>5. FeeFollows'
    BY <1>i, <1>t, <2>2
    DEF FeeFollows, Entered, Others, Wrote, OtherBookings
  <2>6. ToldFirst'
    BY <1>i, <1>t, <2>2
    DEF ToldFirst, Apart, Alone, Idle, Entered, Others, Wrote, OtherBookings
  <2>7. MissedHadBegun'
    BY <1>i, <1>t, <1>f, <1>n, <2>2
    DEF MissedHadBegun, SlotsApart, Apart, Alone, Idle, Entered, Others, Wrote, OtherBookings
  <2> QED
    BY <2>1, <2>3, <2>4, <2>5, <2>6, <2>7
<1>11. ASSUME NEW w \in Workers, NEW b \in Bookings, RemindRead(w, b)
      PROVE  SchedTyped' /\ Rest'
  <2> DEFINE t == [step |-> "flag", b |-> b]
  <2>1. SchedTyped'
    <3>1. t \in CalendarTasks
      BY SchedulingAssumption DEF CalendarTasks
    <3>2. Begin(w, t)
      BY <1>11 DEF RemindRead
    <3> HIDE DEF t
    <3>3. task' \in [Workers -> CalendarTasks]
      BY <1>k, <3>1, <3>2, BeginEffect
    <3> QED
      BY <1>11, <1>i, <3>3, <1>f DEF RemindRead, SchedTyped
  <2>2. /\ task'[w].step = "flag" /\ task'[w].b = b /\ Others(w) /\ Entered(w) /\ ~booking[b].reminded
        /\ told'[b] = booking[b].at /\ \A c \in Bookings \ {b} : told'[c] = told[c]
        /\ UNCHANGED <<booking, now>>
    <3>1. task' = [task EXCEPT ![w] = t] /\ Entered(w)
      BY <1>11 DEF RemindRead, Begin, Entered, Idle, Overlaps, Befalls
    <3>2. task'[w] = t /\ Others(w)
      BY <1>k, <3>1 DEF Others
    <3> QED
      BY <1>11, <1>i, <1>c, <1>f, <3>1, <3>2 DEF RemindRead, SchedTyped
  <2> HIDE DEF t
  <2>3. Alone'
    BY <1>i, <2>2
    DEF Alone, Apart, Idle, Entered, Others
  <2>4. SlotsApart'
    BY <1>i, <1>t, <2>2
    DEF SlotsApart, Apart, Alone, Idle, Entered, Others
  <2>5. FeeFollows'
    BY <1>i, <1>t, <2>2
    DEF FeeFollows, Entered, Others
  <2>6. ToldFirst'
    BY <1>i, <1>t, <2>2
    DEF ToldFirst, Apart, Alone, Idle, Entered, Others
  <2>7. MissedHadBegun'
    BY <1>i, <1>t, <1>f, <1>n, <2>2
    DEF MissedHadBegun, SlotsApart, Apart, Alone, Idle, Entered, Others
  <2> QED
    BY <2>1, <2>3, <2>4, <2>5, <2>6, <2>7
<1>12. ASSUME NEW w \in Workers, NEW b \in Bookings, NEW s \in Slots, BookRead(w, b, s)
      PROVE  SchedTyped' /\ Rest'
  <2> DEFINE t == [step |-> "book", b |-> b, at |-> s]
  <2>0. \A c \in Bookings : ~(booking[c].status = "booked" /\ booking[c].at = s)
    <3>1. s \in s .. s + SlotsLong - 1
      BY SchedulingAssumption
    <3>2. Booked(s) = {}
      BY <1>12, <3>1 DEF BookRead, ValidSlot
    <3> QED
      BY <3>2 DEF Booked
  <2>1. SchedTyped'
    <3>1. t \in CalendarTasks
      BY SchedulingAssumption DEF CalendarTasks
    <3>2. Begin(w, t)
      BY <1>12 DEF BookRead
    <3> HIDE DEF t
    <3>3. task' \in [Workers -> CalendarTasks]
      BY <1>k, <3>1, <3>2, BeginEffect
    <3> QED
      BY <1>12, <1>i, <3>3 DEF BookRead, SchedTyped
  <2>2. /\ task'[w].step = "book" /\ task'[w].b = b /\ task'[w].at = s /\ Others(w) /\ Entered(w)
        /\ \A c \in Bookings : ~(booking[c].status = "booked" /\ booking[c].at = s)
        /\ UNCHANGED <<booking, now, told>>
    <3>1. task' = [task EXCEPT ![w] = t] /\ Entered(w)
      BY <1>12 DEF BookRead, Begin, Entered, Idle, Overlaps, Befalls
    <3>2. task'[w] = t /\ Others(w)
      BY <1>k, <3>1 DEF Others
    <3> QED
      BY <1>12, <1>i, <1>c, <1>f, <3>1, <3>2, <2>0 DEF BookRead, SchedTyped
  <2> HIDE DEF t
  <2>3. Alone'
    BY <1>i, <2>2
    DEF Alone, Apart, Idle, Entered, Others
  <2>4. SlotsApart'
    BY <1>i, <1>t, <2>2
    DEF SlotsApart, Apart, Alone, Idle, Entered, Others
  <2>5. FeeFollows'
    BY <1>i, <1>t, <2>2
    DEF FeeFollows, Entered, Others
  <2>6. ToldFirst'
    BY <1>i, <1>t, <2>2
    DEF ToldFirst, Apart, Alone, Idle, Entered, Others
  <2>7. MissedHadBegun'
    BY <1>i, <1>t, <1>f, <1>n, <2>2
    DEF MissedHadBegun, SlotsApart, Apart, Alone, Idle, Entered, Others
  <2> QED
    BY <2>1, <2>3, <2>4, <2>5, <2>6, <2>7
<1>13. ASSUME NEW w \in Workers, NEW b \in Bookings, NEW s \in Slots, RescheduleRead(w, b, s)
      PROVE  SchedTyped' /\ Rest'
  <2> DEFINE t == [step |-> "reschedule", b |-> b, at |-> s]
  <2>0. \A c \in Bookings : ~(booking[c].status = "booked" /\ booking[c].at = s)
    <3>1. s \in s .. s + SlotsLong - 1
      BY SchedulingAssumption
    <3>2. Booked(s) = {}
      BY <1>13, <3>1 DEF RescheduleRead, ValidSlot
    <3> QED
      BY <3>2 DEF Booked
  <2>1. SchedTyped'
    <3>1. t \in CalendarTasks
      BY SchedulingAssumption DEF CalendarTasks
    <3>2. Begin(w, t)
      BY <1>13 DEF RescheduleRead
    <3> HIDE DEF t
    <3>3. task' \in [Workers -> CalendarTasks]
      BY <1>k, <3>1, <3>2, BeginEffect
    <3> QED
      BY <1>13, <1>i, <3>3 DEF RescheduleRead, SchedTyped
  <2>2. /\ task'[w].step = "reschedule" /\ task'[w].b = b /\ task'[w].at = s /\ Others(w) /\ Entered(w)
        /\ \A c \in Bookings : ~(booking[c].status = "booked" /\ booking[c].at = s) /\ booking[b].status = "booked"
        /\ UNCHANGED <<booking, now, told>>
    <3>1. task' = [task EXCEPT ![w] = t] /\ Entered(w)
      BY <1>13 DEF RescheduleRead, Begin, Entered, Idle, Overlaps, Befalls
    <3>2. task'[w] = t /\ Others(w)
      BY <1>k, <3>1 DEF Others
    <3> QED
      BY <1>13, <1>i, <1>c, <1>f, <3>1, <3>2, <2>0 DEF RescheduleRead, SchedTyped
  <2> HIDE DEF t
  <2>3. Alone'
    BY <1>i, <2>2
    DEF Alone, Apart, Idle, Entered, Others
  <2>4. SlotsApart'
    BY <1>i, <1>t, <2>2
    DEF SlotsApart, Apart, Alone, Idle, Entered, Others
  <2>5. FeeFollows'
    BY <1>i, <1>t, <2>2
    DEF FeeFollows, Entered, Others
  <2>6. ToldFirst'
    BY <1>i, <1>t, <2>2
    DEF ToldFirst, Apart, Alone, Idle, Entered, Others
  <2>7. MissedHadBegun'
    BY <1>i, <1>t, <1>f, <1>n, <2>2
    DEF MissedHadBegun, SlotsApart, Apart, Alone, Idle, Entered, Others
  <2> QED
    BY <2>1, <2>3, <2>4, <2>5, <2>6, <2>7
<1>14. ASSUME NEW b \in Bookings, NEW byCustomer \in BOOLEAN, CancelBooking(b, byCustomer)
      PROVE  SchedTyped' /\ Rest'
  <2> DEFINE r == [booking[b] EXCEPT !.status = "cancelled"]
  <2>0. /\ r \in Appointments /\ r.status = "cancelled" /\ r.at = booking[b].at
       /\ r.reminded = booking[b].reminded /\ r.fee = booking[b].fee
    BY <1>c, AppointmentEdits
  <2>9. booking' = [booking EXCEPT ![b] = r]
    BY <1>14 DEF CancelBooking
  <2>1. SchedTyped'
    BY <1>14, <1>i, <2>0, <2>9 DEF CancelBooking, AtOnce, SchedTyped
  <2>2. /\ UNCHANGED <<task, now, told>> /\ befell \subseteq befell'
        /\ "overlap" \in befell' \/ \A v \in Workers : Idle(v)
        /\ booking[b].status = "booked"
        /\ Wrote(b, "cancelled", booking[b].at, booking[b].reminded, booking[b].fee)
    <3>1. Wrote(b, "cancelled", booking[b].at, booking[b].reminded, booking[b].fee)
      <4> HIDE DEF r
      <4> QED
        BY <1>i, <2>0, <2>9 DEF Wrote, OtherBookings, SchedTyped
    <3> QED
      BY <1>14, <3>1 DEF CancelBooking, AtOnce, Overlaps, Befalls
  <2> HIDE DEF r
  <2>3. Alone'
    BY <1>i, <2>2
    DEF Alone, Apart, Idle, Wrote, OtherBookings
  <2>4. SlotsApart'
    BY <1>i, <1>t, <2>2
    DEF SlotsApart, Apart, Alone, Idle, Wrote, OtherBookings
  <2>5. FeeFollows'
    BY <1>i, <1>t, <2>2
    DEF FeeFollows, Wrote, OtherBookings
  <2>6. ToldFirst'
    BY <1>i, <1>t, <2>2
    DEF ToldFirst, Apart, Alone, Idle, Wrote, OtherBookings
  <2>7. MissedHadBegun'
    BY <1>i, <1>t, <1>f, <1>n, <2>2
    DEF MissedHadBegun, SlotsApart, Apart, Alone, Idle, Wrote, OtherBookings
  <2> QED
    BY <2>1, <2>3, <2>4, <2>5, <2>6, <2>7
<1>15. ASSUME Ticks
      PROVE  SchedTyped' /\ Rest'
  <2>1. SchedTyped'
    BY <1>15, <1>i DEF Ticks, Outside, SchedTyped
  <2>2. UNCHANGED <<booking, told, task, befell>> /\ now' = now + 1
    BY <1>15 DEF Ticks, Outside
  <2>3. Alone'
    BY <1>i, <2>2
    DEF Alone, Apart, Idle
  <2>4. SlotsApart'
    BY <1>i, <1>t, <2>2
    DEF SlotsApart, Apart, Alone, Idle
  <2>5. FeeFollows'
    BY <1>i, <1>t, <2>2
    DEF FeeFollows
  <2>6. ToldFirst'
    BY <1>i, <1>t, <2>2
    DEF ToldFirst, Apart, Alone, Idle
  <2>7. MissedHadBegun'
    BY <1>i, <1>t, <1>f, <1>n, <2>2
    DEF MissedHadBegun, SlotsApart, Apart, Alone, Idle
  <2> QED
    BY <2>1, <2>3, <2>4, <2>5, <2>6, <2>7
<1> QED
  BY <1>1, <1>2, <1>3, <1>4, <1>5, <1>6, <1>7, <1>8, <1>9, <1>10, <1>11, <1>12, <1>13, <1>14,
     <1>15
  DEF SchedNext, SchedIInv

\* The invariant says what the board promises, ...
LEMMA BoardRight == JobsIInv => JobsRight
<1> SUFFICES ASSUME JobsIInv
             PROVE  JobsRight
  OBVIOUS
<1> USE DEF JobsIInv, ClaimedBy, HasClaim
<1>1. OneHolder
  BY DEF OneHolder, HolderNamed
<1>2. FilledIsHeld
  <2> SUFFICES ASSUME AllIdle, Spared({"crash", "reapplied"}), gig.status = "filled"
               PROVE  ClaimedBy({"accepted", "checked_in"}) = {gig.by}
    BY DEF FilledIsHeld
  <2>1. PICK a \in Seekers : HasClaim(a)
    BY DEF FilledHeld, AllIdle, Idle, Unsure
  <2>2. \A b \in Seekers : HasClaim(b) => gig.by = b
    BY DEF HolderNamed
  <2> QED
    BY <2>1, <2>2
<1>3. OpenIsFree
  BY DEF OpenIsFree, HolderNamed, CalledOffInTime, Apart, AllIdle, Idle, Spared
<1>4. PaidForWork
  BY JobsAssumption DEF PaidForWork, WorkPaid, JobsTyped
<1>5. WorkStands
  BY DEF WorkStands, CalledOffInTime, Apart, Spared
<1> QED
  BY <1>1, <1>2, <1>3, <1>4, <1>5 DEF JobsRight

\* ... and what the calendar does.
LEMMA CalendarRight == SchedIInv => SchedulingRight
<1> SUFFICES ASSUME SchedIInv
             PROVE  SchedulingRight
  OBVIOUS
<1> USE DEF SchedIInv
<1>1. SlotIsOneCustomers
  <2> SUFFICES ASSUME Spared({"overlap"}), NEW s \in Slots
               PROVE  Cardinality(Booked(s)) <= 1
    BY DEF SlotIsOneCustomers
  <2>1. \A b, c \in Booked(s) : b = c
    BY DEF Booked, SlotsApart, Apart, Spared
  <2> QED
    BY <2>1, AllTheSame
<1>2. ServedIsCharged
  BY DEF ServedIsCharged, FeeFollows, AllIdle, Idle, Spared
<1>3. FlaggedWasTold
  BY DEF FlaggedWasTold, ToldFirst, Apart, Spared
<1>4. AbsentHadBegun
  BY DEF AbsentHadBegun, MissedHadBegun, Apart, Spared
<1> QED
  BY <1>1, <1>2, <1>3, <1>4 DEF SchedulingRight

(***************************************************************************)
(* The sponsor's logo.                                                     *)
(***************************************************************************)

Logos ==
  [status : {"none", "pending_payment", "pending_review", "active", "rejected", "expired"},
   active : BOOLEAN, ref : {"none", "pending", "dropped", "paid"}, paid : BOOLEAN, over : BOOLEAN]

Sponsorships ==
  [status : {"none", "open", "declined", "paid"}, event : {"none", "succeeded", "failed"},
   refunded : BOOLEAN]

SponsorTasks ==
  {Resting}
    \cup [step : {"sponsor_charge", "sponsor_ref", "approve", "promise", "reject", "log"}]
    \cup [step : {"reject_refund"}, paid : BOOLEAN]
    \cup [step : {"prereg"}, e : Emails, ours : BOOLEAN]

SponsorsTyped ==
  /\ sponsor \in Logos
  /\ sponsorship \in Sponsorships
  /\ promised \in Nat \cup {None}
  /\ deliveries \in Nat
  /\ waitlist \in [ours : SUBSET Emails, others : SUBSET Emails]
  /\ credited \in Nat
  /\ task \in [Workers -> SponsorTasks]

Purchases(w) == task[w].step \in {"sponsor_charge", "sponsor_ref"}

\* One handler buys.  Until it has recorded the charge nothing is paid, and nothing reviewed.
BoughtOnce ==
  /\ \A w \in Workers : Purchases(w) => sponsor.status = "pending_payment" /\ sponsor.ref = "none"
  /\ \A w \in Workers : task[w].step = "sponsor_charge" => sponsorship.status = "none"
  /\ \A w \in Workers : task[w].step = "sponsor_ref" => sponsorship.status # "none"
  /\ \A v, w \in Workers : Purchases(v) /\ Purchases(w) => v = w
  /\ sponsor.status = "none" => sponsorship.status = "none" /\ sponsor.ref = "none"

\* How far the row has come with the payment it names.
RowFollowsPayment ==
  /\ sponsor.ref = "none" =>
       sponsor.status \in {"none", "pending_payment"} /\ sponsorship.status \in {"none", "open"}
  /\ sponsor.ref = "pending" => sponsor.status = "pending_payment" /\ sponsorship.status # "none"
  /\ sponsor.ref = "dropped" => sponsor.status = "rejected"
  /\ sponsor.ref = "paid" => sponsor.status \in {"pending_review", "active", "rejected", "expired"}
  /\ sponsor.paid <=> sponsor.ref = "paid"
  /\ sponsorship.status \in {"none", "open"} =>
       sponsorship.event = "none" /\ sponsor.ref \in {"none", "pending"}
  /\ sponsorship.event = "failed" => sponsorship.status = "declined"
  /\ sponsorship.event = "succeeded" => sponsorship.status = "paid"
  /\ sponsorship.status = "paid" /\ "paid_late" \notin befell =>
       \/ sponsor.paid
       \/ sponsorship.event = "succeeded" /\ sponsor.ref = "pending"

\* Only what was paid for is reviewed, and no logo is up but an active sponsor's.
ReviewedIsPaid ==
  /\ \A w \in Workers : task[w].step \in {"approve", "promise", "reject_refund", "reject"} => sponsor.paid
  /\ \A w \in Workers : task[w].step = "reject_refund" => task[w].paid
  /\ sponsor.active /\ "overruled" \notin befell => sponsor.status = "active"

\* The money goes back with the rejection and, unless handlers overlap, with nothing else.
RefundFollows ==
  /\ "refused" \notin befell =>
       /\ sponsor.status = "rejected" /\ sponsor.paid => sponsorship.refunded
       /\ \A w \in Workers : task[w].step = "reject" => sponsorship.refunded
  /\ Apart /\ "crash" \notin befell =>
       /\ \A w \in Workers : task[w].step = "approve" => sponsor.status = "pending_review"
       /\ sponsorship.refunded =>
            \/ sponsor.status = "rejected" /\ sponsor.paid
            \/ \E w \in Workers : task[w].step = "reject"

Logging == {w \in Workers : task[w].step = "log"}

\* What a sponsor who went live was promised is on record or about to be, and what was delivered
\* is in the total or about to be.
PromiseKept ==
  /\ sponsor.status \in {"active", "expired"} /\ promised = None /\ Spared({"unseeded", "crash"}) =>
       \E w \in Workers : task[w].step = "promise"
  /\ promised = None => deliveries = 0 /\ Logging = {}
  /\ IsFiniteSet(Logging)
  /\ promised # None /\ "crash" \notin befell => deliveries = promised + Cardinality(Logging)

Crediting(w) == task[w].step = "prereg" /\ task[w].ours

\* Whoever came by the sponsor's link is counted, and registered or about to be.
CreditFollows ==
  /\ IsFiniteSet(waitlist.ours)
  /\ Spared({"again", "crash", "overlap"}) =>
       /\ \A w \in Workers : task[w].step = "prereg" => task[w].e \notin waitlist.ours \cup waitlist.others
       /\ (\A w \in Workers : ~Crediting(w)) => credited = Cardinality(waitlist.ours)
       /\ \A w \in Workers : Crediting(w) => credited = Cardinality(waitlist.ours) + 1

SponsorsIInv ==
  /\ SponsorsTyped /\ Alone /\ BoughtOnce /\ RowFollowsPayment /\ ReviewedIsPaid
  /\ RefundFollows /\ PromiseKept /\ CreditFollows

\* The row of the sponsor becomes one of this status, shown or not, with this reference, paid or not.
LogoIs(s, a, r, p) ==
  /\ sponsor' \in Logos
  /\ sponsor'.status = s /\ sponsor'.active = a /\ sponsor'.ref = r /\ sponsor'.paid = p

\* Stripe's payment gets this status, and this event to deliver; it is refunded or not.
ChargeIs(s, e, f) ==
  /\ sponsorship' \in Sponsorships
  /\ sponsorship'.status = s /\ sponsorship'.event = e /\ sponsorship'.refunded = f

\* What is written at once is written while no handler is half way, unless handlers now overlap.
Undisturbed ==
  /\ task' = task /\ befell \subseteq befell'
  /\ "overlap" \in befell' \/ \A v \in Workers : Idle(v)

LEMMA AtOnceEffect ==
  ASSUME AtOnce
  PROVE  Undisturbed
BY DEF AtOnce, Undisturbed, Overlaps, Befalls

\* What a handler of the sponsors remembers.
LEMMA SponsorFields ==
  ASSUME SponsorsTyped, NEW w \in Workers
  PROVE  /\ task[w].step = "prereg" => task[w].e \in Emails /\ task[w].ours \in BOOLEAN
         /\ task[w].step = "reject_refund" => task[w].paid \in BOOLEAN
         /\ \A s \in {"sponsor_charge", "sponsor_ref", "approve", "promise", "reject", "log"} :
              task[w].step \in {"sponsor_charge", "sponsor_ref", "approve", "promise", "reject", "log"} =>
                /\ [task[w] EXCEPT !.step = s] \in SponsorTasks
                /\ [task[w] EXCEPT !.step = s].step = s
<1>1. task[w] \in SponsorTasks
  BY DEF SponsorsTyped
<1> DEFINE t == task[w]
<1>2. t \in SponsorTasks
  BY <1>1
<1> HIDE DEF t
<1>3. /\ t.step = "prereg" => t.e \in Emails /\ t.ours \in BOOLEAN
      /\ t.step = "reject_refund" => t.paid \in BOOLEAN
  BY <1>2 DEF SponsorTasks, Resting
<1>4. ASSUME t.step \in {"sponsor_charge", "sponsor_ref", "approve", "promise", "reject", "log"},
             NEW s \in {"sponsor_charge", "sponsor_ref", "approve", "promise", "reject", "log"}
      PROVE  [t EXCEPT !.step = s] \in SponsorTasks /\ [t EXCEPT !.step = s].step = s
  <2>1. t \in [step : {"sponsor_charge", "sponsor_ref", "approve", "promise", "reject", "log"}]
    BY <1>2, <1>4 DEF SponsorTasks, Resting
  <2> QED
    BY <2>1, <1>4 DEF SponsorTasks
<1> QED
  BY <1>3, <1>4 DEF t

\* Who is logging, after handler w took a step.
LEMMA LoggingStep ==
  ASSUME IsFiniteSet(Logging), NEW w \in Workers, Others(w)
  PROVE  /\ IsFiniteSet(Logging') /\ Cardinality(Logging) \in Nat
         /\ task[w].step = "log" /\ task'[w].step # "log" =>
              Cardinality(Logging') = Cardinality(Logging) - 1 /\ Logging # {}
         /\ task[w].step # "log" /\ task'[w].step = "log" =>
              Cardinality(Logging') = Cardinality(Logging) + 1
         /\ (task[w].step = "log" <=> task'[w].step = "log") => Logging' = Logging
<1>0. Cardinality(Logging) \in Nat
  BY FS_CardinalityType
<1>1. CASE task[w].step = "log" /\ task'[w].step # "log"
  <2>1. Logging' = Logging \ {w} /\ w \in Logging
    BY <1>1 DEF Logging, Others
  <2> QED
    BY <1>0, <1>1, <2>1, FS_RemoveElement
<1>2. CASE task[w].step # "log" /\ task'[w].step = "log"
  <2>1. Logging' = Logging \cup {w} /\ w \notin Logging
    BY <1>2 DEF Logging, Others
  <2> QED
    BY <1>0, <1>2, <2>1, FS_AddElement
<1>3. CASE task[w].step = "log" <=> task'[w].step = "log"
  <2>1. Logging' = Logging
    BY <1>3 DEF Logging, Others
  <2> QED
    BY <1>0, <1>3, <2>1
<1> QED
  BY <1>1, <1>2, <1>3

\* Every step of a sponsorship keeps the invariant.
LEMMA SponsorsSteps ==
  ASSUME SponsorsIInv, SponsorsNext
  PROVE  SponsorsIInv'
<1> DEFINE Rest ==
             /\ Alone /\ BoughtOnce /\ RowFollowsPayment /\ ReviewedIsPaid
             /\ RefundFollows /\ PromiseKept /\ CreditFollows
<1> USE DEF At
<1>i. SponsorsTyped /\ Rest
  BY DEF SponsorsIInv
<1>s. sponsor \in Logos /\ sponsorship \in Sponsorships
  BY <1>i DEF SponsorsTyped
<1>f. /\ sponsor.status \in {"none", "pending_payment", "pending_review", "active", "rejected", "expired"}
      /\ sponsor.ref \in {"none", "pending", "dropped", "paid"} /\ sponsor.paid \in BOOLEAN
  BY <1>s DEF Logos
<1>p. promised \in Nat \cup {None} /\ deliveries \in Nat /\ None \notin Nat
  BY <1>i, SponsorsAssumption DEF SponsorsTyped
<1>k. task \in [Workers -> SponsorTasks]
  BY <1>i DEF SponsorsTyped
<1>r. Resting \in SponsorTasks /\ Resting.step = "idle"
  BY DEF SponsorTasks, Resting
<1>1. ASSUME NEW w \in Workers, PurchaseCreate(w)
      PROVE  SponsorsTyped' /\ Rest'
  <2>1. /\ task' \in [Workers -> SponsorTasks] /\ task'[w] = [step |-> "sponsor_charge"] /\ Others(w)
        /\ Entered(w)
        /\ sponsor.status = "none"
        /\ LogoIs("pending_payment", sponsor.active, sponsor.ref, sponsor.paid)
        /\ UNCHANGED <<sponsorship, promised, deliveries, waitlist, credited>>
    <3>1. [step |-> "sponsor_charge"] \in SponsorTasks
      BY <1>s DEF SponsorTasks, Logos
    <3>2. /\ task' \in [Workers -> SponsorTasks] /\ task'[w] = [step |-> "sponsor_charge"]
          /\ Others(w) /\ Entered(w)
      BY <1>1, <1>k, <3>1, BeginEffect DEF PurchaseCreate
    <3> QED
      BY <1>1, <1>s, <1>p, <3>2
      DEF PurchaseCreate, Logos, Sponsorships, LogoIs, ChargeIs, fulfilled, counted, Approvable
  <2>2. SponsorsTyped'
    BY <1>i, <2>1 DEF SponsorsTyped, Entered, Others, LogoIs
  <2>l. /\ IsFiniteSet(Logging') /\ Cardinality(Logging) \in Nat
        /\ task[w].step = "log" /\ task'[w].step # "log" =>
             Cardinality(Logging') = Cardinality(Logging) - 1 /\ Logging # {}
        /\ task[w].step # "log" /\ task'[w].step = "log" =>
             Cardinality(Logging') = Cardinality(Logging) + 1
        /\ (task[w].step = "log" <=> task'[w].step = "log") => Logging' = Logging
    BY <1>i, <2>1, LoggingStep DEF PromiseKept
  <2>3. Alone'
    BY <1>i, <2>1
    DEF Alone, Apart, Idle, Entered, Others, LogoIs
  <2>4. BoughtOnce'
    BY <1>i, <1>f, <2>1
    DEF BoughtOnce, Purchases, RowFollowsPayment, ReviewedIsPaid, Entered, Others, LogoIs
  <2>5. RowFollowsPayment'
    BY <1>i, <1>f, <2>1
    DEF RowFollowsPayment, BoughtOnce, Purchases, ReviewedIsPaid, Entered, Others, LogoIs
  <2>6. ReviewedIsPaid'
    BY <1>i, <1>f, <2>1
    DEF ReviewedIsPaid, RowFollowsPayment, Entered, Others, LogoIs
  <2>7. RefundFollows'
    BY <1>i, <1>f, <2>1
    DEF RefundFollows, RowFollowsPayment, ReviewedIsPaid, Alone, Apart, Idle, Entered, Others,
      LogoIs
  <2>8. PromiseKept'
    BY <1>i, <1>p, <2>l, <2>1
    DEF PromiseKept, Spared, Entered, Others, LogoIs
  <2>9. CreditFollows'
    BY <1>i, <2>1
    DEF CreditFollows, Crediting, Alone, Apart, Idle, Spared, Entered, Others, LogoIs
  <2> QED
    BY <2>2, <2>3, <2>4, <2>5, <2>6, <2>7, <2>8, <2>9
<1>2. ASSUME NEW w \in Workers, PurchaseCharge(w)
      PROVE  SponsorsTyped' /\ Rest'
  <2>1. /\ task' \in [Workers -> SponsorTasks] /\ task[w].step = "sponsor_charge"
        /\ task'[w].step = "sponsor_ref"
        /\ Others(w) /\ befell' = befell
        /\ ChargeIs("open", sponsorship.event, sponsorship.refunded)
        /\ UNCHANGED <<sponsor, promised, deliveries, waitlist, credited>>
    <3> DEFINE t == [task[w] EXCEPT !.step = "sponsor_ref"]
    <3>0. Becomes(w, t) /\ befell' = befell
      BY <1>2 DEF PurchaseCharge, Goto
    <3>2. t \in SponsorTasks /\ t.step = "sponsor_ref"
      BY <1>2, <1>i, SponsorFields DEF PurchaseCharge
    <3> HIDE DEF t
    <3>1. task' \in [Workers -> SponsorTasks] /\ task'[w].step = "sponsor_ref" /\ Others(w)
          /\ befell' = befell
      BY <1>k, <3>0, <3>2, BecomesEffect
    <3> QED
      BY <1>2, <1>i, <1>s, <1>p, <3>1
      DEF PurchaseCharge, Logos, Sponsorships, LogoIs, ChargeIs, fulfilled, counted, SponsorsTyped
  <2>2. SponsorsTyped'
    BY <1>i, <2>1 DEF SponsorsTyped, Others, ChargeIs
  <2>l. /\ IsFiniteSet(Logging') /\ Cardinality(Logging) \in Nat
        /\ task[w].step = "log" /\ task'[w].step # "log" =>
             Cardinality(Logging') = Cardinality(Logging) - 1 /\ Logging # {}
        /\ task[w].step # "log" /\ task'[w].step = "log" =>
             Cardinality(Logging') = Cardinality(Logging) + 1
        /\ (task[w].step = "log" <=> task'[w].step = "log") => Logging' = Logging
    BY <1>i, <2>1, LoggingStep DEF PromiseKept
  <2>3. Alone'
    BY <1>i, <2>1
    DEF Alone, Apart, Idle, Others, ChargeIs
  <2>4. BoughtOnce'
    BY <1>i, <1>f, <2>1
    DEF BoughtOnce, Purchases, RowFollowsPayment, ReviewedIsPaid, Others, ChargeIs
  <2>5. RowFollowsPayment'
    BY <1>i, <1>f, <2>1
    DEF RowFollowsPayment, BoughtOnce, Purchases, ReviewedIsPaid, Others, ChargeIs
  <2>6. ReviewedIsPaid'
    BY <1>i, <1>f, <2>1
    DEF ReviewedIsPaid, RowFollowsPayment, Others, ChargeIs
  <2>7. RefundFollows'
    BY <1>i, <1>f, <2>1
    DEF RefundFollows, RowFollowsPayment, ReviewedIsPaid, Alone, Apart, Idle, Others, ChargeIs
  <2>8. PromiseKept'
    BY <1>i, <1>p, <2>l, <2>1
    DEF PromiseKept, Spared, Others, ChargeIs
  <2>9. CreditFollows'
    BY <1>i, <2>1
    DEF CreditFollows, Crediting, Alone, Apart, Idle, Spared, Others, ChargeIs
  <2> QED
    BY <2>2, <2>3, <2>4, <2>5, <2>6, <2>7, <2>8, <2>9
<1>3. ASSUME NEW w \in Workers, PurchaseRef(w)
      PROVE  SponsorsTyped' /\ Rest'
  <2>1. /\ task' \in [Workers -> SponsorTasks] /\ task[w].step = "sponsor_ref" /\ task'[w].step = "idle"
        /\ Others(w) /\ befell' = befell
        /\ LogoIs(sponsor.status, sponsor.active, "pending", sponsor.paid)
        /\ UNCHANGED <<sponsorship, promised, deliveries, waitlist, credited>>
    <3>0. Becomes(w, Resting) /\ befell' = befell
      BY <1>3 DEF PurchaseRef, Finish
    <3>1. task' \in [Workers -> SponsorTasks] /\ task'[w].step = "idle" /\ Others(w) /\ befell' = befell
      BY <1>k, <1>r, <3>0, BecomesEffect
    <3> QED
      BY <1>3, <1>i, <1>s, <1>p, <3>1
      DEF PurchaseRef, Logos, Sponsorships, LogoIs, ChargeIs, fulfilled, counted, SponsorsTyped
  <2>2. SponsorsTyped'
    BY <1>i, <2>1 DEF SponsorsTyped, Others, LogoIs
  <2>l. /\ IsFiniteSet(Logging') /\ Cardinality(Logging) \in Nat
        /\ task[w].step = "log" /\ task'[w].step # "log" =>
             Cardinality(Logging') = Cardinality(Logging) - 1 /\ Logging # {}
        /\ task[w].step # "log" /\ task'[w].step = "log" =>
             Cardinality(Logging') = Cardinality(Logging) + 1
        /\ (task[w].step = "log" <=> task'[w].step = "log") => Logging' = Logging
    BY <1>i, <2>1, LoggingStep DEF PromiseKept
  <2>3. Alone'
    BY <1>i, <2>1
    DEF Alone, Apart, Idle, Others, LogoIs
  <2>4. BoughtOnce'
    BY <1>i, <1>f, <2>1
    DEF BoughtOnce, Purchases, RowFollowsPayment, ReviewedIsPaid, Others, LogoIs
  <2>5. RowFollowsPayment'
    BY <1>i, <1>f, <2>1
    DEF RowFollowsPayment, BoughtOnce, Purchases, ReviewedIsPaid, Others, LogoIs
  <2>6. ReviewedIsPaid'
    BY <1>i, <1>f, <2>1
    DEF ReviewedIsPaid, RowFollowsPayment, Others, LogoIs
  <2>7. RefundFollows'
    BY <1>i, <1>f, <2>1
    DEF RefundFollows, RowFollowsPayment, ReviewedIsPaid, Alone, Apart, Idle, Others, LogoIs
  <2>8. PromiseKept'
    BY <1>i, <1>p, <2>l, <2>1
    DEF PromiseKept, Spared, Others, LogoIs
  <2>9. CreditFollows'
    BY <1>i, <2>1
    DEF CreditFollows, Crediting, Alone, Apart, Idle, Spared, Others, LogoIs
  <2> QED
    BY <2>2, <2>3, <2>4, <2>5, <2>6, <2>7, <2>8, <2>9
<1>4. ASSUME SponsorPays
      PROVE  SponsorsTyped' /\ Rest'
  <2>1. /\ sponsor.ref # "none" \/ sponsor.status = "rejected"
        /\ ChargeIs("paid", "succeeded", sponsorship.refunded) /\ befell \subseteq befell'
        /\ \/ sponsorship.status = "open"
           \/ sponsorship.status = "declined" /\ "paid_late" \in befell' 
        /\ UNCHANGED <<task, sponsor, promised, deliveries, waitlist, credited>>
    BY <1>4, <1>s
    DEF SponsorPays, Logos, Sponsorships, LogoIs, ChargeIs, fulfilled, counted, Outside, Befalls
  <2>2. SponsorsTyped'
    BY <1>i, <2>1 DEF SponsorsTyped, ChargeIs
  <2>l. Logging' = Logging
    BY <2>1 DEF Logging
  <2>3. Alone'
    BY <1>i, <2>1
    DEF Alone, Apart, Idle, ChargeIs
  <2>4. BoughtOnce'
    BY <1>i, <1>f, <2>1
    DEF BoughtOnce, Purchases, RowFollowsPayment, ReviewedIsPaid, ChargeIs
  <2>5. RowFollowsPayment'
    BY <1>i, <1>f, <2>1
    DEF RowFollowsPayment, BoughtOnce, Purchases, ReviewedIsPaid, ChargeIs
  <2>6. ReviewedIsPaid'
    BY <1>i, <1>f, <2>1
    DEF ReviewedIsPaid, RowFollowsPayment, ChargeIs
  <2>7. RefundFollows'
    BY <1>i, <1>f, <2>1
    DEF RefundFollows, RowFollowsPayment, ReviewedIsPaid, Alone, Apart, Idle, ChargeIs
  <2>8. PromiseKept'
    BY <1>i, <1>p, <2>l, <2>1
    DEF PromiseKept, Spared, ChargeIs
  <2>9. CreditFollows'
    BY <1>i, <2>1
    DEF CreditFollows, Crediting, Alone, Apart, Idle, Spared, ChargeIs
  <2> QED
    BY <2>2, <2>3, <2>4, <2>5, <2>6, <2>7, <2>8, <2>9
<1>5. ASSUME SponsorDeclined
      PROVE  SponsorsTyped' /\ Rest'
  <2>1. /\ sponsor.ref = "pending" /\ sponsorship.status = "open"
        /\ ChargeIs("declined", "failed", sponsorship.refunded)
        /\ UNCHANGED <<task, befell, sponsor, promised, deliveries, waitlist, credited>>
    BY <1>5, <1>s
    DEF SponsorDeclined, Logos, Sponsorships, LogoIs, ChargeIs, fulfilled, counted, Outside, Befalls
  <2>2. SponsorsTyped'
    BY <1>i, <2>1 DEF SponsorsTyped, ChargeIs
  <2>l. Logging' = Logging
    BY <2>1 DEF Logging
  <2>3. Alone'
    BY <1>i, <2>1
    DEF Alone, Apart, Idle, ChargeIs
  <2>4. BoughtOnce'
    BY <1>i, <1>f, <2>1
    DEF BoughtOnce, Purchases, RowFollowsPayment, ReviewedIsPaid, ChargeIs
  <2>5. RowFollowsPayment'
    BY <1>i, <1>f, <2>1
    DEF RowFollowsPayment, BoughtOnce, Purchases, ReviewedIsPaid, ChargeIs
  <2>6. ReviewedIsPaid'
    BY <1>i, <1>f, <2>1
    DEF ReviewedIsPaid, RowFollowsPayment, ChargeIs
  <2>7. RefundFollows'
    BY <1>i, <1>f, <2>1
    DEF RefundFollows, RowFollowsPayment, ReviewedIsPaid, Alone, Apart, Idle, ChargeIs
  <2>8. PromiseKept'
    BY <1>i, <1>p, <2>l, <2>1
    DEF PromiseKept, Spared, ChargeIs
  <2>9. CreditFollows'
    BY <1>i, <2>1
    DEF CreditFollows, Crediting, Alone, Apart, Idle, Spared, ChargeIs
  <2> QED
    BY <2>2, <2>3, <2>4, <2>5, <2>6, <2>7, <2>8, <2>9
<1>6. ASSUME ActivateSponsor
      PROVE  SponsorsTyped' /\ Rest'
  <2>1. /\ Undisturbed /\ sponsorship.event = "succeeded"
        /\ ChargeIs(sponsorship.status, "none", sponsorship.refunded)
        /\ \/ sponsor.ref = "pending" /\ LogoIs("pending_review", sponsor.active, "paid", TRUE)
           \/ sponsor.ref # "pending" /\ sponsor' = sponsor
        /\ UNCHANGED <<promised, deliveries, waitlist, credited>>
    <3>1. Undisturbed
      BY <1>6, AtOnceEffect DEF ActivateSponsor
    <3> QED
      BY <1>6, <1>s, <3>1
      DEF ActivateSponsor, Logos, Sponsorships, LogoIs, ChargeIs, fulfilled, counted
  <2>2. SponsorsTyped'
    BY <1>i, <2>1 DEF SponsorsTyped, Undisturbed, LogoIs, ChargeIs
  <2>l. Logging' = Logging
    BY <2>1 DEF Logging, Undisturbed
  <2>3. Alone'
    BY <1>i, <2>1
    DEF Alone, Apart, Idle, Undisturbed, LogoIs, ChargeIs
  <2>4. BoughtOnce'
    BY <1>i, <1>f, <2>1
    DEF BoughtOnce, Purchases, RowFollowsPayment, ReviewedIsPaid, Undisturbed, LogoIs, ChargeIs
  <2>5. RowFollowsPayment'
    BY <1>i, <1>f, <2>1
    DEF RowFollowsPayment, BoughtOnce, Purchases, ReviewedIsPaid, Undisturbed, LogoIs, ChargeIs
  <2>6. ReviewedIsPaid'
    BY <1>i, <1>f, <2>1
    DEF ReviewedIsPaid, RowFollowsPayment, Undisturbed, LogoIs, ChargeIs
  <2>7. RefundFollows'
    BY <1>i, <1>f, <2>1
    DEF RefundFollows, RowFollowsPayment, ReviewedIsPaid, Alone, Apart, Idle, Undisturbed, LogoIs,
      ChargeIs
  <2>8. PromiseKept'
    BY <1>i, <1>p, <2>l, <2>1
    DEF PromiseKept, Spared, Undisturbed, LogoIs, ChargeIs
  <2>9. CreditFollows'
    BY <1>i, <2>1
    DEF CreditFollows, Crediting, Alone, Apart, Idle, Spared, Undisturbed, LogoIs, ChargeIs
  <2> QED
    BY <2>2, <2>3, <2>4, <2>5, <2>6, <2>7, <2>8, <2>9
<1>7. ASSUME FailSponsor
      PROVE  SponsorsTyped' /\ Rest'
  <2>1. /\ Undisturbed /\ sponsorship.event = "failed"
        /\ ChargeIs(sponsorship.status, "none", sponsorship.refunded)
        /\ \/ sponsor.ref = "pending" /\ LogoIs("rejected", sponsor.active, "dropped", sponsor.paid)
           \/ sponsor.ref # "pending" /\ sponsor' = sponsor
        /\ UNCHANGED <<promised, deliveries, waitlist, credited>>
    <3>1. Undisturbed
      BY <1>7, AtOnceEffect DEF FailSponsor
    <3> QED
      BY <1>7, <1>s, <3>1
      DEF FailSponsor, Logos, Sponsorships, LogoIs, ChargeIs, fulfilled, counted
  <2>2. SponsorsTyped'
    BY <1>i, <2>1 DEF SponsorsTyped, Undisturbed, LogoIs, ChargeIs
  <2>l. Logging' = Logging
    BY <2>1 DEF Logging, Undisturbed
  <2>3. Alone'
    BY <1>i, <2>1
    DEF Alone, Apart, Idle, Undisturbed, LogoIs, ChargeIs
  <2>4. BoughtOnce'
    BY <1>i, <1>f, <2>1
    DEF BoughtOnce, Purchases, RowFollowsPayment, ReviewedIsPaid, Undisturbed, LogoIs, ChargeIs
  <2>5. RowFollowsPayment'
    BY <1>i, <1>f, <2>1
    DEF RowFollowsPayment, BoughtOnce, Purchases, ReviewedIsPaid, Undisturbed, LogoIs, ChargeIs
  <2>6. ReviewedIsPaid'
    BY <1>i, <1>f, <2>1
    DEF ReviewedIsPaid, RowFollowsPayment, Undisturbed, LogoIs, ChargeIs
  <2>7. RefundFollows'
    BY <1>i, <1>f, <2>1
    DEF RefundFollows, RowFollowsPayment, ReviewedIsPaid, Alone, Apart, Idle, Undisturbed, LogoIs,
      ChargeIs
  <2>8. PromiseKept'
    BY <1>i, <1>p, <2>l, <2>1
    DEF PromiseKept, Spared, Undisturbed, LogoIs, ChargeIs
  <2>9. CreditFollows'
    BY <1>i, <2>1
    DEF CreditFollows, Crediting, Alone, Apart, Idle, Spared, Undisturbed, LogoIs, ChargeIs
  <2> QED
    BY <2>2, <2>3, <2>4, <2>5, <2>6, <2>7, <2>8, <2>9
<1>8. ASSUME NEW w \in Workers, ApproveRead(w)
      PROVE  SponsorsTyped' /\ Rest'
  <2>1. /\ task' \in [Workers -> SponsorTasks] /\ task'[w] = [step |-> "approve"] /\ Others(w) /\ Entered(w)
        /\ sponsor.status = "pending_review"
        /\ UNCHANGED <<sponsor, sponsorship, promised, deliveries, waitlist, credited>>
    <3>1. [step |-> "approve"] \in SponsorTasks
      BY <1>s DEF SponsorTasks, Logos
    <3>2. /\ task' \in [Workers -> SponsorTasks] /\ task'[w] = [step |-> "approve"]
          /\ Others(w) /\ Entered(w)
      BY <1>8, <1>k, <3>1, BeginEffect DEF ApproveRead
    <3> QED
      BY <1>8, <1>s, <1>p, <3>2
      DEF ApproveRead, Logos, Sponsorships, LogoIs, ChargeIs, fulfilled, counted, Approvable
  <2>2. SponsorsTyped'
    BY <1>i, <2>1 DEF SponsorsTyped, Entered, Others
  <2>l. /\ IsFiniteSet(Logging') /\ Cardinality(Logging) \in Nat
        /\ task[w].step = "log" /\ task'[w].step # "log" =>
             Cardinality(Logging') = Cardinality(Logging) - 1 /\ Logging # {}
        /\ task[w].step # "log" /\ task'[w].step = "log" =>
             Cardinality(Logging') = Cardinality(Logging) + 1
        /\ (task[w].step = "log" <=> task'[w].step = "log") => Logging' = Logging
    BY <1>i, <2>1, LoggingStep DEF PromiseKept
  <2>3. Alone'
    BY <1>i, <2>1
    DEF Alone, Apart, Idle, Entered, Others
  <2>4. BoughtOnce'
    BY <1>i, <1>f, <2>1
    DEF BoughtOnce, Purchases, RowFollowsPayment, ReviewedIsPaid, Entered, Others
  <2>5. RowFollowsPayment'
    BY <1>i, <1>f, <2>1
    DEF RowFollowsPayment, BoughtOnce, Purchases, ReviewedIsPaid, Entered, Others
  <2>6. ReviewedIsPaid'
    BY <1>i, <1>f, <2>1
    DEF ReviewedIsPaid, RowFollowsPayment, Entered, Others
  <2>7. RefundFollows'
    BY <1>i, <1>f, <2>1
    DEF RefundFollows, RowFollowsPayment, ReviewedIsPaid, Alone, Apart, Idle, Entered, Others
  <2>8. PromiseKept'
    BY <1>i, <1>p, <2>l, <2>1
    DEF PromiseKept, Spared, Entered, Others
  <2>9. CreditFollows'
    BY <1>i, <2>1
    DEF CreditFollows, Crediting, Alone, Apart, Idle, Spared, Entered, Others
  <2> QED
    BY <2>2, <2>3, <2>4, <2>5, <2>6, <2>7, <2>8, <2>9
<1>9. ASSUME NEW w \in Workers, ApproveWrite(w)
      PROVE  SponsorsTyped' /\ Rest'
  <2>1. /\ task' \in [Workers -> SponsorTasks] /\ task[w].step = "approve" /\ task'[w].step = "promise"
        /\ Others(w) /\ befell' = befell
        /\ LogoIs("active", TRUE, sponsor.ref, sponsor.paid)
        /\ UNCHANGED <<sponsorship, promised, deliveries, waitlist, credited>>
    <3> DEFINE t == [task[w] EXCEPT !.step = "promise"]
    <3>0. Becomes(w, t) /\ befell' = befell
      BY <1>9 DEF ApproveWrite, Goto
    <3>2. t \in SponsorTasks /\ t.step = "promise"
      BY <1>9, <1>i, SponsorFields DEF ApproveWrite
    <3> HIDE DEF t
    <3>1. task' \in [Workers -> SponsorTasks] /\ task'[w].step = "promise" /\ Others(w) /\ befell' = befell
      BY <1>k, <3>0, <3>2, BecomesEffect
    <3> QED
      BY <1>9, <1>i, <1>s, <1>p, <3>1
      DEF ApproveWrite, Logos, Sponsorships, LogoIs, ChargeIs, fulfilled, counted, SponsorsTyped
  <2>2. SponsorsTyped'
    BY <1>i, <2>1 DEF SponsorsTyped, Others, LogoIs
  <2>l. /\ IsFiniteSet(Logging') /\ Cardinality(Logging) \in Nat
        /\ task[w].step = "log" /\ task'[w].step # "log" =>
             Cardinality(Logging') = Cardinality(Logging) - 1 /\ Logging # {}
        /\ task[w].step # "log" /\ task'[w].step = "log" =>
             Cardinality(Logging') = Cardinality(Logging) + 1
        /\ (task[w].step = "log" <=> task'[w].step = "log") => Logging' = Logging
    BY <1>i, <2>1, LoggingStep DEF PromiseKept
  <2>3. Alone'
    BY <1>i, <2>1
    DEF Alone, Apart, Idle, Others, LogoIs
  <2>4. BoughtOnce'
    BY <1>i, <1>f, <2>1
    DEF BoughtOnce, Purchases, RowFollowsPayment, ReviewedIsPaid, Others, LogoIs
  <2>5. RowFollowsPayment'
    BY <1>i, <1>f, <2>1
    DEF RowFollowsPayment, BoughtOnce, Purchases, ReviewedIsPaid, Others, LogoIs
  <2>6. ReviewedIsPaid'
    BY <1>i, <1>f, <2>1
    DEF ReviewedIsPaid, RowFollowsPayment, Others, LogoIs
  <2>7. RefundFollows'
    BY <1>i, <1>f, <2>1
    DEF RefundFollows, RowFollowsPayment, ReviewedIsPaid, Alone, Apart, Idle, Others, LogoIs
  <2>8. PromiseKept'
    BY <1>i, <1>p, <2>l, <2>1
    DEF PromiseKept, Spared, Others, LogoIs
  <2>9. CreditFollows'
    BY <1>i, <2>1
    DEF CreditFollows, Crediting, Alone, Apart, Idle, Spared, Others, LogoIs
  <2> QED
    BY <2>2, <2>3, <2>4, <2>5, <2>6, <2>7, <2>8, <2>9
<1>10. ASSUME NEW w \in Workers, ApprovePromise(w)
      PROVE  SponsorsTyped' /\ Rest'
  <2>1. /\ task' \in [Workers -> SponsorTasks] /\ task[w].step = "promise" /\ task'[w].step = "idle"
        /\ Others(w) /\ befell \subseteq befell'
        /\ \/ promised' = (IF promised = None THEN 0 ELSE promised) /\ befell' = befell
           \/ promised' = promised /\ "unseeded" \in befell'
        /\ UNCHANGED <<sponsor, sponsorship, deliveries, waitlist, credited>>
    <3>1. task' \in [Workers -> SponsorTasks] /\ task'[w].step = "idle" /\ Others(w)
      BY <1>10, <1>k, <1>r, BecomesEffect DEF ApprovePromise, Finish, FinishAfter
    <3> QED
      BY <1>10, <3>1 DEF ApprovePromise, Finish, FinishAfter, Befalls, counted
  <2>2. SponsorsTyped'
    BY <1>i, <2>1 DEF SponsorsTyped, Others
  <2>l. /\ IsFiniteSet(Logging') /\ Cardinality(Logging) \in Nat
        /\ task[w].step = "log" /\ task'[w].step # "log" =>
             Cardinality(Logging') = Cardinality(Logging) - 1 /\ Logging # {}
        /\ task[w].step # "log" /\ task'[w].step = "log" =>
             Cardinality(Logging') = Cardinality(Logging) + 1
        /\ (task[w].step = "log" <=> task'[w].step = "log") => Logging' = Logging
    BY <1>i, <2>1, LoggingStep DEF PromiseKept
  <2>3. Alone'
    BY <1>i, <2>1
    DEF Alone, Apart, Idle, Others
  <2>4. BoughtOnce'
    BY <1>i, <1>f, <2>1
    DEF BoughtOnce, Purchases, RowFollowsPayment, ReviewedIsPaid, Others
  <2>5. RowFollowsPayment'
    BY <1>i, <1>f, <2>1
    DEF RowFollowsPayment, BoughtOnce, Purchases, ReviewedIsPaid, Others
  <2>6. ReviewedIsPaid'
    BY <1>i, <1>f, <2>1
    DEF ReviewedIsPaid, RowFollowsPayment, Others
  <2>7. RefundFollows'
    BY <1>i, <1>f, <2>1
    DEF RefundFollows, RowFollowsPayment, ReviewedIsPaid, Alone, Apart, Idle, Others
  <2>8. PromiseKept'
    BY <1>i, <1>p, FS_EmptySet, <2>l, <2>1
    DEF PromiseKept, Spared, Others
  <2>9. CreditFollows'
    BY <1>i, <2>1
    DEF CreditFollows, Crediting, Alone, Apart, Idle, Spared, Others
  <2> QED
    BY <2>2, <2>3, <2>4, <2>5, <2>6, <2>7, <2>8, <2>9
<1>11. ASSUME NEW w \in Workers, RejectRead(w)
      PROVE  SponsorsTyped' /\ Rest'
  <2>1. /\ task' \in [Workers -> SponsorTasks] /\ task'[w] = [step |-> "reject_refund",
          paid |-> sponsor.paid] /\ Others(w) /\ Entered(w)
        /\ sponsor.status \in {"pending_review", "active"}
        /\ UNCHANGED <<sponsor, sponsorship, promised, deliveries, waitlist, credited>>
    <3>1. [step |-> "reject_refund", paid |-> sponsor.paid] \in SponsorTasks
      BY <1>s DEF SponsorTasks, Logos
    <3>2. /\ task' \in [Workers -> SponsorTasks] /\ task'[w] = [step |-> "reject_refund",
            paid |-> sponsor.paid]
          /\ Others(w) /\ Entered(w)
      BY <1>11, <1>k, <3>1, BeginEffect DEF RejectRead
    <3> QED
      BY <1>11, <1>s, <1>p, <3>2
      DEF RejectRead, Logos, Sponsorships, LogoIs, ChargeIs, fulfilled, counted, Approvable
  <2>2. SponsorsTyped'
    BY <1>i, <2>1 DEF SponsorsTyped, Entered, Others
  <2>l. /\ IsFiniteSet(Logging') /\ Cardinality(Logging) \in Nat
        /\ task[w].step = "log" /\ task'[w].step # "log" =>
             Cardinality(Logging') = Cardinality(Logging) - 1 /\ Logging # {}
        /\ task[w].step # "log" /\ task'[w].step = "log" =>
             Cardinality(Logging') = Cardinality(Logging) + 1
        /\ (task[w].step = "log" <=> task'[w].step = "log") => Logging' = Logging
    BY <1>i, <2>1, LoggingStep DEF PromiseKept
  <2>3. Alone'
    BY <1>i, <2>1
    DEF Alone, Apart, Idle, Entered, Others
  <2>4. BoughtOnce'
    BY <1>i, <1>f, <2>1
    DEF BoughtOnce, Purchases, RowFollowsPayment, ReviewedIsPaid, Entered, Others
  <2>5. RowFollowsPayment'
    BY <1>i, <1>f, <2>1
    DEF RowFollowsPayment, BoughtOnce, Purchases, ReviewedIsPaid, Entered, Others
  <2>6. ReviewedIsPaid'
    BY <1>i, <1>f, <2>1
    DEF ReviewedIsPaid, RowFollowsPayment, Entered, Others
  <2>7. RefundFollows'
    BY <1>i, <1>f, <2>1
    DEF RefundFollows, RowFollowsPayment, ReviewedIsPaid, Alone, Apart, Idle, Entered, Others
  <2>8. PromiseKept'
    BY <1>i, <1>p, <2>l, <2>1
    DEF PromiseKept, Spared, Entered, Others
  <2>9. CreditFollows'
    BY <1>i, <2>1
    DEF CreditFollows, Crediting, Alone, Apart, Idle, Spared, Entered, Others
  <2> QED
    BY <2>2, <2>3, <2>4, <2>5, <2>6, <2>7, <2>8, <2>9
<1>12. ASSUME NEW w \in Workers, RejectRefund(w)
      PROVE  SponsorsTyped' /\ Rest'
  <2>1. /\ task' \in [Workers -> SponsorTasks] /\ task[w].step = "reject_refund" /\ task'[w].step = "reject"
        /\ Others(w) /\ befell \subseteq befell'
        /\ \/ ChargeIs(sponsorship.status, sponsorship.event, task[w].paid) /\ befell' = befell
           \/ sponsorship' = sponsorship /\ "refused" \in befell'
        /\ UNCHANGED <<sponsor, promised, deliveries, waitlist, credited>>
    <3>1. [step |-> "reject"] \in SponsorTasks
      BY DEF SponsorTasks
    <3> DEFINE t == [step |-> "reject"]
    <3>0. Becomes(w, t)
      BY <1>12 DEF RejectRefund
    <3>4. t \in SponsorTasks /\ t.step = "reject"
      BY <3>1
    <3> HIDE DEF t
    <3>2. task' \in [Workers -> SponsorTasks] /\ task'[w].step = "reject" /\ Others(w)
      BY <1>k, <3>0, <3>4, BecomesEffect
    <3>3. task[w].step = "reject_refund" /\ task[w].paid \in BOOLEAN
      BY <1>12, <1>i, SponsorFields DEF RejectRefund
    <3> QED
      BY <1>12, <1>s, <3>2, <3>3 DEF RejectRefund, Befalls, ChargeIs, Sponsorships, fulfilled, counted
  <2>2. SponsorsTyped'
    BY <1>i, <2>1 DEF SponsorsTyped, Others, ChargeIs
  <2>l. /\ IsFiniteSet(Logging') /\ Cardinality(Logging) \in Nat
        /\ task[w].step = "log" /\ task'[w].step # "log" =>
             Cardinality(Logging') = Cardinality(Logging) - 1 /\ Logging # {}
        /\ task[w].step # "log" /\ task'[w].step = "log" =>
             Cardinality(Logging') = Cardinality(Logging) + 1
        /\ (task[w].step = "log" <=> task'[w].step = "log") => Logging' = Logging
    BY <1>i, <2>1, LoggingStep DEF PromiseKept
  <2>3. Alone'
    BY <1>i, <2>1
    DEF Alone, Apart, Idle, Others, ChargeIs
  <2>4. BoughtOnce'
    BY <1>i, <1>f, <2>1
    DEF BoughtOnce, Purchases, RowFollowsPayment, ReviewedIsPaid, Others, ChargeIs
  <2>5. RowFollowsPayment'
    BY <1>i, <1>f, <2>1
    DEF RowFollowsPayment, BoughtOnce, Purchases, ReviewedIsPaid, Others, ChargeIs
  <2>6. ReviewedIsPaid'
    BY <1>i, <1>f, <2>1
    DEF ReviewedIsPaid, RowFollowsPayment, Others, ChargeIs
  <2>7. RefundFollows'
    BY <1>i, <1>f, <2>1
    DEF RefundFollows, RowFollowsPayment, ReviewedIsPaid, Alone, Apart, Idle, Others, ChargeIs
  <2>8. PromiseKept'
    BY <1>i, <1>p, <2>l, <2>1
    DEF PromiseKept, Spared, Others, ChargeIs
  <2>9. CreditFollows'
    BY <1>i, <2>1
    DEF CreditFollows, Crediting, Alone, Apart, Idle, Spared, Others, ChargeIs
  <2> QED
    BY <2>2, <2>3, <2>4, <2>5, <2>6, <2>7, <2>8, <2>9
<1>13. ASSUME NEW w \in Workers, RejectWrite(w)
      PROVE  SponsorsTyped' /\ Rest'
  <2>1. /\ task' \in [Workers -> SponsorTasks] /\ task[w].step = "reject" /\ task'[w].step = "idle"
        /\ Others(w) /\ befell' = befell
        /\ LogoIs("rejected", FALSE, sponsor.ref, sponsor.paid)
        /\ UNCHANGED <<sponsorship, promised, deliveries, waitlist, credited>>
    <3>0. Becomes(w, Resting) /\ befell' = befell
      BY <1>13 DEF RejectWrite, Finish
    <3>1. task' \in [Workers -> SponsorTasks] /\ task'[w].step = "idle" /\ Others(w) /\ befell' = befell
      BY <1>k, <1>r, <3>0, BecomesEffect
    <3> QED
      BY <1>13, <1>i, <1>s, <1>p, <3>1
      DEF RejectWrite, Logos, Sponsorships, LogoIs, ChargeIs, fulfilled, counted, SponsorsTyped
  <2>2. SponsorsTyped'
    BY <1>i, <2>1 DEF SponsorsTyped, Others, LogoIs
  <2>l. /\ IsFiniteSet(Logging') /\ Cardinality(Logging) \in Nat
        /\ task[w].step = "log" /\ task'[w].step # "log" =>
             Cardinality(Logging') = Cardinality(Logging) - 1 /\ Logging # {}
        /\ task[w].step # "log" /\ task'[w].step = "log" =>
             Cardinality(Logging') = Cardinality(Logging) + 1
        /\ (task[w].step = "log" <=> task'[w].step = "log") => Logging' = Logging
    BY <1>i, <2>1, LoggingStep DEF PromiseKept
  <2>3. Alone'
    BY <1>i, <2>1
    DEF Alone, Apart, Idle, Others, LogoIs
  <2>4. BoughtOnce'
    BY <1>i, <1>f, <2>1
    DEF BoughtOnce, Purchases, RowFollowsPayment, ReviewedIsPaid, Others, LogoIs
  <2>5. RowFollowsPayment'
    BY <1>i, <1>f, <2>1
    DEF RowFollowsPayment, BoughtOnce, Purchases, ReviewedIsPaid, Others, LogoIs
  <2>6. ReviewedIsPaid'
    BY <1>i, <1>f, <2>1
    DEF ReviewedIsPaid, RowFollowsPayment, Others, LogoIs
  <2>7. RefundFollows'
    BY <1>i, <1>f, <2>1
    DEF RefundFollows, RowFollowsPayment, ReviewedIsPaid, Alone, Apart, Idle, Others, LogoIs
  <2>8. PromiseKept'
    BY <1>i, <1>p, <2>l, <2>1
    DEF PromiseKept, Spared, Others, LogoIs
  <2>9. CreditFollows'
    BY <1>i, <2>1
    DEF CreditFollows, Crediting, Alone, Apart, Idle, Spared, Others, LogoIs
  <2> QED
    BY <2>2, <2>3, <2>4, <2>5, <2>6, <2>7, <2>8, <2>9
<1>14. ASSUME TermEnds
      PROVE  SponsorsTyped' /\ Rest'
  <2>1. /\ LogoIs(sponsor.status, sponsor.active, sponsor.ref, sponsor.paid)
        /\ UNCHANGED <<task, befell, sponsorship, promised, deliveries, waitlist, credited>>
    BY <1>14, <1>s
    DEF TermEnds, Logos, Sponsorships, LogoIs, ChargeIs, fulfilled, counted, Outside, Befalls
  <2>2. SponsorsTyped'
    BY <1>i, <2>1 DEF SponsorsTyped, LogoIs
  <2>l. Logging' = Logging
    BY <2>1 DEF Logging
  <2>3. Alone'
    BY <1>i, <2>1
    DEF Alone, Apart, Idle, LogoIs
  <2>4. BoughtOnce'
    BY <1>i, <1>f, <2>1
    DEF BoughtOnce, Purchases, RowFollowsPayment, ReviewedIsPaid, LogoIs
  <2>5. RowFollowsPayment'
    BY <1>i, <1>f, <2>1
    DEF RowFollowsPayment, BoughtOnce, Purchases, ReviewedIsPaid, LogoIs
  <2>6. ReviewedIsPaid'
    BY <1>i, <1>f, <2>1
    DEF ReviewedIsPaid, RowFollowsPayment, LogoIs
  <2>7. RefundFollows'
    BY <1>i, <1>f, <2>1
    DEF RefundFollows, RowFollowsPayment, ReviewedIsPaid, Alone, Apart, Idle, LogoIs
  <2>8. PromiseKept'
    BY <1>i, <1>p, <2>l, <2>1
    DEF PromiseKept, Spared, LogoIs
  <2>9. CreditFollows'
    BY <1>i, <2>1
    DEF CreditFollows, Crediting, Alone, Apart, Idle, Spared, LogoIs
  <2> QED
    BY <2>2, <2>3, <2>4, <2>5, <2>6, <2>7, <2>8, <2>9
<1>15. ASSUME ExpireSponsor
      PROVE  SponsorsTyped' /\ Rest'
  <2>1. /\ Undisturbed /\ sponsor.status = "active"
        /\ LogoIs("expired", FALSE, sponsor.ref, sponsor.paid)
        /\ UNCHANGED <<sponsorship, promised, deliveries, waitlist, credited>>
    <3>1. Undisturbed
      BY <1>15, AtOnceEffect DEF ExpireSponsor
    <3> QED
      BY <1>15, <1>s, <3>1
      DEF ExpireSponsor, Logos, Sponsorships, LogoIs, ChargeIs, fulfilled, counted
  <2>2. SponsorsTyped'
    BY <1>i, <2>1 DEF SponsorsTyped, Undisturbed, LogoIs
  <2>l. Logging' = Logging
    BY <2>1 DEF Logging, Undisturbed
  <2>3. Alone'
    BY <1>i, <2>1
    DEF Alone, Apart, Idle, Undisturbed, LogoIs
  <2>4. BoughtOnce'
    BY <1>i, <1>f, <2>1
    DEF BoughtOnce, Purchases, RowFollowsPayment, ReviewedIsPaid, Undisturbed, LogoIs
  <2>5. RowFollowsPayment'
    BY <1>i, <1>f, <2>1
    DEF RowFollowsPayment, BoughtOnce, Purchases, ReviewedIsPaid, Undisturbed, LogoIs
  <2>6. ReviewedIsPaid'
    BY <1>i, <1>f, <2>1
    DEF ReviewedIsPaid, RowFollowsPayment, Undisturbed, LogoIs
  <2>7. RefundFollows'
    BY <1>i, <1>f, <2>1
    DEF RefundFollows, RowFollowsPayment, ReviewedIsPaid, Alone, Apart, Idle, Undisturbed, LogoIs
  <2>8. PromiseKept'
    BY <1>i, <1>p, <2>l, <2>1
    DEF PromiseKept, Spared, Undisturbed, LogoIs
  <2>9. CreditFollows'
    BY <1>i, <2>1
    DEF CreditFollows, Crediting, Alone, Apart, Idle, Spared, Undisturbed, LogoIs
  <2> QED
    BY <2>2, <2>3, <2>4, <2>5, <2>6, <2>7, <2>8, <2>9
<1>16. ASSUME NEW active \in BOOLEAN, UpdateSponsor(active)
      PROVE  SponsorsTyped' /\ Rest'
  <2>1. /\ LogoIs(sponsor.status, active, sponsor.ref, sponsor.paid)
        /\ befell \subseteq befell' /\ "overruled" \in befell' 
        /\ UNCHANGED <<task, sponsorship, promised, deliveries, waitlist, credited>>
    BY <1>16, <1>s
    DEF UpdateSponsor, Logos, Sponsorships, LogoIs, ChargeIs, fulfilled, counted, Outside, Befalls
  <2>2. SponsorsTyped'
    BY <1>i, <2>1 DEF SponsorsTyped, LogoIs
  <2>l. Logging' = Logging
    BY <2>1 DEF Logging
  <2>3. Alone'
    BY <1>i, <2>1
    DEF Alone, Apart, Idle, LogoIs
  <2>4. BoughtOnce'
    BY <1>i, <1>f, <2>1
    DEF BoughtOnce, Purchases, RowFollowsPayment, ReviewedIsPaid, LogoIs
  <2>5. RowFollowsPayment'
    BY <1>i, <1>f, <2>1
    DEF RowFollowsPayment, BoughtOnce, Purchases, ReviewedIsPaid, LogoIs
  <2>6. ReviewedIsPaid'
    BY <1>i, <1>f, <2>1
    DEF ReviewedIsPaid, RowFollowsPayment, LogoIs
  <2>7. RefundFollows'
    BY <1>i, <1>f, <2>1
    DEF RefundFollows, RowFollowsPayment, ReviewedIsPaid, Alone, Apart, Idle, LogoIs
  <2>8. PromiseKept'
    BY <1>i, <1>p, <2>l, <2>1
    DEF PromiseKept, Spared, LogoIs
  <2>9. CreditFollows'
    BY <1>i, <2>1
    DEF CreditFollows, Crediting, Alone, Apart, Idle, Spared, LogoIs
  <2> QED
    BY <2>2, <2>3, <2>4, <2>5, <2>6, <2>7, <2>8, <2>9
<1>17. ASSUME NEW w \in Workers, LogRead(w)
      PROVE  SponsorsTyped' /\ Rest'
  <2>1. /\ task' \in [Workers -> SponsorTasks] /\ task'[w] = [step |-> "log"] /\ Others(w) /\ Entered(w)
        /\ promised # None
        /\ deliveries' = deliveries + 1
        /\ UNCHANGED <<sponsor, sponsorship, promised, waitlist, credited>>
    <3>1. [step |-> "log"] \in SponsorTasks
      BY <1>s DEF SponsorTasks, Logos
    <3>2. /\ task' \in [Workers -> SponsorTasks] /\ task'[w] = [step |-> "log"]
          /\ Others(w) /\ Entered(w)
      BY <1>17, <1>k, <3>1, BeginEffect DEF LogRead
    <3> QED
      BY <1>17, <1>s, <1>p, <3>2
      DEF LogRead, Logos, Sponsorships, LogoIs, ChargeIs, fulfilled, counted, Approvable
  <2>2. SponsorsTyped'
    BY <1>i, <2>1 DEF SponsorsTyped, Entered, Others
  <2>l. /\ IsFiniteSet(Logging') /\ Cardinality(Logging) \in Nat
        /\ task[w].step = "log" /\ task'[w].step # "log" =>
             Cardinality(Logging') = Cardinality(Logging) - 1 /\ Logging # {}
        /\ task[w].step # "log" /\ task'[w].step = "log" =>
             Cardinality(Logging') = Cardinality(Logging) + 1
        /\ (task[w].step = "log" <=> task'[w].step = "log") => Logging' = Logging
    BY <1>i, <2>1, LoggingStep DEF PromiseKept
  <2>3. Alone'
    BY <1>i, <2>1
    DEF Alone, Apart, Idle, Entered, Others
  <2>4. BoughtOnce'
    BY <1>i, <1>f, <2>1
    DEF BoughtOnce, Purchases, RowFollowsPayment, ReviewedIsPaid, Entered, Others
  <2>5. RowFollowsPayment'
    BY <1>i, <1>f, <2>1
    DEF RowFollowsPayment, BoughtOnce, Purchases, ReviewedIsPaid, Entered, Others
  <2>6. ReviewedIsPaid'
    BY <1>i, <1>f, <2>1
    DEF ReviewedIsPaid, RowFollowsPayment, Entered, Others
  <2>7. RefundFollows'
    BY <1>i, <1>f, <2>1
    DEF RefundFollows, RowFollowsPayment, ReviewedIsPaid, Alone, Apart, Idle, Entered, Others
  <2>8. PromiseKept'
    BY <1>i, <1>p, <2>l, <2>1
    DEF PromiseKept, Spared, Entered, Others
  <2>9. CreditFollows'
    BY <1>i, <2>1
    DEF CreditFollows, Crediting, Alone, Apart, Idle, Spared, Entered, Others
  <2> QED
    BY <2>2, <2>3, <2>4, <2>5, <2>6, <2>7, <2>8, <2>9
<1>18. ASSUME NEW w \in Workers, LogTotal(w)
      PROVE  SponsorsTyped' /\ Rest'
  <2>1. /\ task' \in [Workers -> SponsorTasks] /\ task[w].step = "log" /\ task'[w].step = "idle"
        /\ Others(w) /\ befell' = befell
        /\ promised \in Nat /\ promised' = promised + 1
        /\ UNCHANGED <<sponsor, sponsorship, deliveries, waitlist, credited>>
    <3>0. Becomes(w, Resting) /\ befell' = befell
      BY <1>18 DEF LogTotal, Finish
    <3>1. task' \in [Workers -> SponsorTasks] /\ task'[w].step = "idle" /\ Others(w) /\ befell' = befell
      BY <1>k, <1>r, <3>0, BecomesEffect
    <3>2. promised \in Nat
      BY <1>18, <1>i, <1>p DEF LogTotal, PromiseKept, Logging
    <3> QED
      BY <1>18, <3>2, <1>i, <1>s, <1>p, <3>1
      DEF LogTotal, Logos, Sponsorships, LogoIs, ChargeIs, fulfilled, counted, SponsorsTyped
  <2>2. SponsorsTyped'
    BY <1>i, <2>1 DEF SponsorsTyped, Others
  <2>l. /\ IsFiniteSet(Logging') /\ Cardinality(Logging) \in Nat
        /\ task[w].step = "log" /\ task'[w].step # "log" =>
             Cardinality(Logging') = Cardinality(Logging) - 1 /\ Logging # {}
        /\ task[w].step # "log" /\ task'[w].step = "log" =>
             Cardinality(Logging') = Cardinality(Logging) + 1
        /\ (task[w].step = "log" <=> task'[w].step = "log") => Logging' = Logging
    BY <1>i, <2>1, LoggingStep DEF PromiseKept
  <2>3. Alone'
    BY <1>i, <2>1
    DEF Alone, Apart, Idle, Others
  <2>4. BoughtOnce'
    BY <1>i, <1>f, <2>1
    DEF BoughtOnce, Purchases, RowFollowsPayment, ReviewedIsPaid, Others
  <2>5. RowFollowsPayment'
    BY <1>i, <1>f, <2>1
    DEF RowFollowsPayment, BoughtOnce, Purchases, ReviewedIsPaid, Others
  <2>6. ReviewedIsPaid'
    BY <1>i, <1>f, <2>1
    DEF ReviewedIsPaid, RowFollowsPayment, Others
  <2>7. RefundFollows'
    BY <1>i, <1>f, <2>1
    DEF RefundFollows, RowFollowsPayment, ReviewedIsPaid, Alone, Apart, Idle, Others
  <2>8. PromiseKept'
    BY <1>i, <1>p, <2>l, <2>1
    DEF PromiseKept, Spared, Others
  <2>9. CreditFollows'
    BY <1>i, <2>1
    DEF CreditFollows, Crediting, Alone, Apart, Idle, Spared, Others
  <2> QED
    BY <2>2, <2>3, <2>4, <2>5, <2>6, <2>7, <2>8, <2>9
<1>19. ASSUME NEW w \in Workers, NEW e \in Emails, PreregisterCredit(w, e)
      PROVE  SponsorsTyped' /\ Rest'
  <2>1. /\ task' \in [Workers -> SponsorTasks] /\ task[w].step = "idle"
        /\ task'[w].step = "prereg" /\ task'[w].e = e /\ task'[w].ours = sponsor.active
        /\ Others(w) /\ Entered(w)
        /\ "again" \in befell' \/ e \notin waitlist.ours \cup waitlist.others
        /\ credited' = IF sponsor.active THEN credited + 1 ELSE credited
        /\ UNCHANGED <<sponsor, sponsorship, promised, deliveries, waitlist>>
    <3> DEFINE t == [step |-> "prereg", e |-> e, ours |-> sponsor.active]
    <3>1. t \in SponsorTasks /\ t.step = "prereg" /\ t.e = e /\ t.ours = sponsor.active
      BY <1>s DEF SponsorTasks, Logos
    <3>2. \/ Begin(w, t) /\ e \notin waitlist.ours \cup waitlist.others
          \/ BeginAmid(w, t, "again")
      BY <1>19 DEF PreregisterCredit
    <3> HIDE DEF t
    <3>3. task' \in [Workers -> SponsorTasks] /\ task'[w] = t /\ Others(w) /\ Entered(w)
      BY <1>k, <3>1, <3>2, BeginEffect DEF BeginAmid, Others, Entered, Idle
    <3>4. "again" \in befell' \/ e \notin waitlist.ours \cup waitlist.others
      BY <3>2 DEF BeginAmid
    <3> QED
      BY <1>19, <3>1, <3>3, <3>4 DEF PreregisterCredit, fulfilled, Entered
  <2>2. SponsorsTyped'
    BY <1>i, <2>1 DEF SponsorsTyped, Entered, Others
  <2>l. /\ IsFiniteSet(Logging') /\ Cardinality(Logging) \in Nat
        /\ task[w].step = "log" /\ task'[w].step # "log" =>
             Cardinality(Logging') = Cardinality(Logging) - 1 /\ Logging # {}
        /\ task[w].step # "log" /\ task'[w].step = "log" =>
             Cardinality(Logging') = Cardinality(Logging) + 1
        /\ (task[w].step = "log" <=> task'[w].step = "log") => Logging' = Logging
    BY <1>i, <2>1, LoggingStep DEF PromiseKept
  <2>3. Alone'
    BY <1>i, <2>1
    DEF Alone, Apart, Idle, Entered, Others
  <2>4. BoughtOnce'
    BY <1>i, <1>f, <2>1
    DEF BoughtOnce, Purchases, RowFollowsPayment, ReviewedIsPaid, Entered, Others
  <2>5. RowFollowsPayment'
    BY <1>i, <1>f, <2>1
    DEF RowFollowsPayment, BoughtOnce, Purchases, ReviewedIsPaid, Entered, Others
  <2>6. ReviewedIsPaid'
    BY <1>i, <1>f, <2>1
    DEF ReviewedIsPaid, RowFollowsPayment, Entered, Others
  <2>7. RefundFollows'
    BY <1>i, <1>f, <2>1
    DEF RefundFollows, RowFollowsPayment, ReviewedIsPaid, Alone, Apart, Idle, Entered, Others
  <2>8. PromiseKept'
    BY <1>i, <1>p, <2>l, <2>1
    DEF PromiseKept, Spared, Entered, Others
  <2>9. CreditFollows'
    BY <1>i, <2>1
    DEF CreditFollows, Crediting, Alone, Apart, Idle, Spared, Entered, Others
  <2> QED
    BY <2>2, <2>3, <2>4, <2>5, <2>6, <2>7, <2>8, <2>9
<1>20. ASSUME NEW w \in Workers, PreregisterRow(w)
      PROVE  SponsorsTyped' /\ Rest'
  <2>1. /\ task' \in [Workers -> SponsorTasks] /\ task[w].step = "prereg" /\ task'[w].step = "idle"
        /\ Others(w) /\ befell' = befell
        /\ waitlist' \in [ours : SUBSET Emails, others : SUBSET Emails]
        /\ \/ waitlist' = waitlist /\ task[w].e \in waitlist.ours \cup waitlist.others
           \/ /\ task[w].ours /\ task[w].e \notin waitlist.ours \cup waitlist.others
              /\ waitlist'.ours = waitlist.ours \cup {task[w].e} /\ waitlist'.others = waitlist.others
           \/ /\ ~task[w].ours /\ task[w].e \notin waitlist.ours \cup waitlist.others
              /\ waitlist'.ours = waitlist.ours /\ waitlist'.others = waitlist.others \cup {task[w].e}
        /\ UNCHANGED <<sponsor, sponsorship, promised, deliveries, credited>>
    <3>1. task' \in [Workers -> SponsorTasks] /\ task'[w].step = "idle" /\ Others(w) /\ befell' = befell
      BY <1>20, <1>k, <1>r, BecomesEffect DEF PreregisterRow, Finish
    <3>2. task[w].step = "prereg" /\ task[w].e \in Emails /\ task[w].ours \in BOOLEAN
      BY <1>20, <1>i, SponsorFields DEF PreregisterRow
    <3>3. waitlist \in [ours : SUBSET Emails, others : SUBSET Emails]
      BY <1>i DEF SponsorsTyped
    <3> DEFINE e == task[w].e
               ours == task[w].ours
    <3>4. waitlist' = IF e \in waitlist.ours \cup waitlist.others THEN waitlist
                     ELSE IF ours THEN [waitlist EXCEPT !.ours = @ \cup {e}]
                     ELSE [waitlist EXCEPT !.others = @ \cup {e}]
      BY <1>20 DEF PreregisterRow
    <3>5. e \in Emails /\ ours \in BOOLEAN
      BY <3>2
    <3> HIDE DEF e, ours
    <3>6. /\ waitlist' \in [ours : SUBSET Emails, others : SUBSET Emails]
          /\ \/ waitlist' = waitlist /\ e \in waitlist.ours \cup waitlist.others
             \/ /\ ours /\ e \notin waitlist.ours \cup waitlist.others
                /\ waitlist'.ours = waitlist.ours \cup {e} /\ waitlist'.others = waitlist.others
             \/ /\ ~ours /\ e \notin waitlist.ours \cup waitlist.others
                /\ waitlist'.ours = waitlist.ours /\ waitlist'.others = waitlist.others \cup {e}
      BY <3>3, <3>4, <3>5
    <3>7. UNCHANGED <<sponsor, sponsorship, promised, deliveries, credited>>
      BY <1>20 DEF PreregisterRow, fulfilled
    <3> QED
      BY <3>1, <3>2, <3>6, <3>7 DEF e, ours
  <2>2. SponsorsTyped'
    BY <1>i, <2>1 DEF SponsorsTyped, Others
  <2>l. /\ IsFiniteSet(Logging') /\ Cardinality(Logging) \in Nat
        /\ task[w].step = "log" /\ task'[w].step # "log" =>
             Cardinality(Logging') = Cardinality(Logging) - 1 /\ Logging # {}
        /\ task[w].step # "log" /\ task'[w].step = "log" =>
             Cardinality(Logging') = Cardinality(Logging) + 1
        /\ (task[w].step = "log" <=> task'[w].step = "log") => Logging' = Logging
    BY <1>i, <2>1, LoggingStep DEF PromiseKept
  <2>3. Alone'
    BY <1>i, <2>1
    DEF Alone, Apart, Idle, Others
  <2>4. BoughtOnce'
    BY <1>i, <1>f, <2>1
    DEF BoughtOnce, Purchases, RowFollowsPayment, ReviewedIsPaid, Others
  <2>5. RowFollowsPayment'
    BY <1>i, <1>f, <2>1
    DEF RowFollowsPayment, BoughtOnce, Purchases, ReviewedIsPaid, Others
  <2>6. ReviewedIsPaid'
    BY <1>i, <1>f, <2>1
    DEF ReviewedIsPaid, RowFollowsPayment, Others
  <2>7. RefundFollows'
    BY <1>i, <1>f, <2>1
    DEF RefundFollows, RowFollowsPayment, ReviewedIsPaid, Alone, Apart, Idle, Others
  <2>8. PromiseKept'
    BY <1>i, <1>p, <2>l, <2>1
    DEF PromiseKept, Spared, Others
  <2>9. CreditFollows'
    <3>1. IsFiniteSet(waitlist'.ours)
      <4>1. IsFiniteSet(waitlist.ours)
        BY <1>i DEF CreditFollows
      <4> QED
        BY <2>1, <4>1, FS_AddElement
    <3>2. ASSUME Spared({"again", "crash", "overlap"})
          PROVE  /\ \A v \in Workers : task'[v].step # "prereg"
                 /\ credited' = Cardinality(waitlist'.ours)
      <4>1. \A v \in Workers : task[v].step = "prereg" => v = w
        BY <1>i, <2>1, <3>2 DEF Alone, Apart, Idle, Spared
      <4>2. \A v \in Workers : task'[v].step # "prereg"
        BY <2>1, <4>1 DEF Others
      <4>3. task[w].e \notin waitlist.ours \cup waitlist.others
        BY <1>i, <2>1, <3>2 DEF CreditFollows
      <4>4. CASE task[w].ours
        <5>1. credited = Cardinality(waitlist.ours) + 1 /\ IsFiniteSet(waitlist.ours)
          BY <1>i, <2>1, <3>2, <4>4 DEF CreditFollows, Crediting
        <5>2. waitlist'.ours = waitlist.ours \cup {task[w].e} /\ credited' = credited
          BY <2>1, <4>3, <4>4
        <5>3. Cardinality(waitlist.ours \cup {task[w].e}) = Cardinality(waitlist.ours) + 1
          BY <4>3, <5>1, FS_AddElement
        <5> QED
          BY <4>2, <5>1, <5>2, <5>3
      <4>5. CASE ~task[w].ours
        <5>1. \A v \in Workers : ~Crediting(v)
          BY <4>1, <4>5 DEF Crediting
        <5>2. credited = Cardinality(waitlist.ours)
          BY <1>i, <3>2, <5>1 DEF CreditFollows
        <5>3. waitlist'.ours = waitlist.ours /\ credited' = credited
          BY <2>1, <4>3, <4>5
        <5> QED
          BY <4>2, <5>2, <5>3
      <4> QED
        BY <4>4, <4>5
    <3>3. Spared({"again", "crash", "overlap"})' => Spared({"again", "crash", "overlap"})
      BY <2>1 DEF Spared
    <3> QED
      BY <3>1, <3>2, <3>3 DEF CreditFollows, Crediting
  <2> QED
    BY <2>2, <2>3, <2>4, <2>5, <2>6, <2>7, <2>8, <2>9
<1>21. ASSUME NEW w \in Workers, SponsorHandlerDies(w)
      PROVE  SponsorsTyped' /\ Rest'
  <2>1. /\ task' \in [Workers -> SponsorTasks] /\ task[w].step # "idle" /\ task'[w].step = "idle"
        /\ Others(w) /\ befell \subseteq befell' /\ "crash" \in befell'
        /\ UNCHANGED <<sponsor, sponsorship, promised, deliveries, waitlist, credited>>
    <3>1. task' \in [Workers -> SponsorTasks] /\ task'[w] = Resting /\ Others(w)
      BY <1>21, <1>k, <1>r, BecomesEffect DEF SponsorHandlerDies, Dies, FinishAfter
    <3> QED
      BY <1>21, <1>r, <3>1 DEF SponsorHandlerDies, Dies, FinishAfter, Befalls, Idle, fulfilled, counted
  <2>2. SponsorsTyped'
    BY <1>i, <2>1 DEF SponsorsTyped, Others
  <2>l. /\ IsFiniteSet(Logging') /\ Cardinality(Logging) \in Nat
        /\ task[w].step = "log" /\ task'[w].step # "log" =>
             Cardinality(Logging') = Cardinality(Logging) - 1 /\ Logging # {}
        /\ task[w].step # "log" /\ task'[w].step = "log" =>
             Cardinality(Logging') = Cardinality(Logging) + 1
        /\ (task[w].step = "log" <=> task'[w].step = "log") => Logging' = Logging
    BY <1>i, <2>1, LoggingStep DEF PromiseKept
  <2>3. Alone'
    BY <1>i, <2>1
    DEF Alone, Apart, Idle, Others
  <2>4. BoughtOnce'
    BY <1>i, <1>f, <2>1
    DEF BoughtOnce, Purchases, RowFollowsPayment, ReviewedIsPaid, Others
  <2>5. RowFollowsPayment'
    BY <1>i, <1>f, <2>1
    DEF RowFollowsPayment, BoughtOnce, Purchases, ReviewedIsPaid, Others
  <2>6. ReviewedIsPaid'
    BY <1>i, <1>f, <2>1
    DEF ReviewedIsPaid, RowFollowsPayment, Others
  <2>7. RefundFollows'
    BY <1>i, <1>f, <2>1
    DEF RefundFollows, RowFollowsPayment, ReviewedIsPaid, Alone, Apart, Idle, Others
  <2>8. PromiseKept'
    BY <1>i, <1>p, <2>l, <2>1
    DEF PromiseKept, Spared, Others
  <2>9. CreditFollows'
    BY <1>i, <2>1
    DEF CreditFollows, Crediting, Alone, Apart, Idle, Spared, Others
  <2> QED
    BY <2>2, <2>3, <2>4, <2>5, <2>6, <2>7, <2>8, <2>9
<1> QED
  BY <1>1, <1>2, <1>3, <1>4, <1>5, <1>6, <1>7, <1>8, <1>9, <1>10, <1>11, <1>12, <1>13, <1>14,
     <1>15, <1>16, <1>17, <1>18, <1>19, <1>20, <1>21 DEF SponsorsNext, SponsorsIInv

(***************************************************************************)
(* Paid placements.                                                        *)
(***************************************************************************)

Spots ==
  [status : {"none", "pending_payment", "active", "paused", "ended", "exhausted"},
   ref : BOOLEAN, paid : BOOLEAN, over : BOOLEAN, spent : 0..Budget, unbilled : Nat]

AdTasks ==
  {Resting}
    \cup [step : {"place", "ad_charge", "ad_ref", "reconcile_ad"}, p : Placements]
    \cup [step : {"serve"}, p : Placements \ Featured]
    \cup [step : {"bill"}, p : Placements \ Featured, spent : 0..Budget]

AdsTyped ==
  /\ placement \in [Placements -> Spots]
  /\ adCharge \in [Placements -> [status : {"none", "open", "paid"}, told : BOOLEAN]]
  /\ served \in [Placements -> Nat]
  /\ task \in [Workers -> AdTasks]

\* A placement is created once, and until then it was neither charged, nor paid, nor shown.
PlacedOnce ==
  /\ \A p \in Placements : placement[p].status = "none" =>
       /\ ~placement[p].ref /\ ~placement[p].paid
       /\ adCharge[p].status = "none" /\ served[p] = 0
  /\ \A w \in Workers : ~Idle(w) =>
       (placement[task[w].p].status = "none" <=> task[w].step = "place")
  /\ \A v, w \in Workers :
       task[v].step = "place" /\ task[w].step = "place" /\ task[v].p = task[w].p => v = w

\* What is called paid was paid for at Stripe.
PaidAtStripe ==
  /\ \A p \in Placements : placement[p].paid \/ ~adCharge[p].told => adCharge[p].status = "paid"
  /\ \A w \in Workers : task[w].step = "reconcile_ad" => adCharge[task[w].p].status = "paid"

\* Unless an advertiser acts out of turn, what runs, was shown or is billed was paid for, and ends
\* with its budget; and what was paid for waits, reported or not, to be started.
RunsWhenPaid ==
  "out_of_turn" \notin befell =>
    /\ \A p \in Placements :
         /\ placement[p].status \in {"active", "paused", "exhausted"} => placement[p].paid
         /\ placement[p].unbilled > 0 => placement[p].paid
         /\ placement[p].spent = Budget => placement[p].status = "exhausted"
         /\ "paid_late" \notin befell /\ adCharge[p].status = "paid" /\ ~placement[p].paid =>
              placement[p].status = "pending_payment" /\ ~adCharge[p].told
    /\ \A w \in Workers : task[w].step \in {"serve", "bill"} => placement[task[w].p].paid

\* Unless handlers overlap or an advertiser acts out of turn, a spot is sold while there is one.
SpotsLeft ==
  Apart /\ "out_of_turn" \notin befell =>
    /\ Cardinality(SpotsTaken) <= SpotsInCity
    /\ \A w \in Workers : task[w].step = "place" /\ task[w].p \in Featured =>
         Cardinality(SpotsTaken) < SpotsInCity

\* What is billed, or about to be, was served; unless handlers overlap, it is all that was.
BilledFollows ==
  /\ \A p \in Placements :
       /\ placement[p].spent + placement[p].unbilled <= served[p]
       /\ Apart => placement[p].spent = Budget \/ placement[p].spent + placement[p].unbilled = served[p]
  /\ \A w \in Workers : task[w].step = "bill" =>
       /\ task[w].spent <= served[task[w].p]
       /\ Apart => task[w].spent = Budget \/ task[w].spent = served[task[w].p]

AdsIInv ==
  AdsTyped /\ Alone /\ PlacedOnce /\ PaidAtStripe /\ RunsWhenPaid /\ SpotsLeft /\ BilledFollows

\* Placement p becomes one of this status, charged and paid or not, with this much spent and this
\* much to bill; the others stay.
SpotIs(p, s, r, d, n, u) ==
  /\ placement' \in [Placements -> Spots]
  /\ placement'[p].status = s /\ placement'[p].ref = r /\ placement'[p].paid = d
  /\ placement'[p].spent = n /\ placement'[p].unbilled = u
  /\ \A q \in Placements \ {p} : placement'[q] = placement[q]

\* Stripe's payment for p gets this status, and its event is told or not; the others stay.
PaymentIs(p, s, t) ==
  /\ adCharge' \in [Placements -> [status : {"none", "open", "paid"}, told : BOOLEAN]]
  /\ adCharge'[p].status = s /\ adCharge'[p].told = t
  /\ \A q \in Placements \ {p} : adCharge'[q] = adCharge[q]

\* What a handler of the placements remembers.
LEMMA AdFields ==
  ASSUME AdsTyped, NEW w \in Workers, ~Idle(w)
  PROVE  /\ task[w].p \in Placements
         /\ task[w].step \in {"serve", "bill"} => task[w].p \notin Featured
         /\ task[w].step = "bill" => task[w].spent \in 0..Budget
         /\ \A s \in {"ad_charge", "ad_ref"} : task[w].step \in {"place", "ad_charge"} =>
              /\ [task[w] EXCEPT !.step = s] \in AdTasks
              /\ [task[w] EXCEPT !.step = s].step = s /\ [task[w] EXCEPT !.step = s].p = task[w].p
<1>1. task[w] \in AdTasks /\ task[w].step # "idle"
  BY DEF AdsTyped, Idle
<1> DEFINE t == task[w]
<1>2. t \in AdTasks /\ t.step # "idle"
  BY <1>1
<1> HIDE DEF t
<1>3. /\ t.p \in Placements
      /\ t.step \in {"serve", "bill"} => t.p \notin Featured
      /\ t.step = "bill" => t.spent \in 0..Budget
  BY <1>2 DEF AdTasks, Resting
<1>4. ASSUME t.step \in {"place", "ad_charge"}, NEW s \in {"ad_charge", "ad_ref"}
      PROVE  [t EXCEPT !.step = s] \in AdTasks /\ [t EXCEPT !.step = s].step = s /\ [t EXCEPT !.step = s].p = t.p
  <2>1. t \in [step : {"place", "ad_charge", "ad_ref", "reconcile_ad"}, p : Placements]
    BY <1>2, <1>4 DEF AdTasks, Resting
  <2> QED
    BY <2>1, <1>4 DEF AdTasks
<1> QED
  BY <1>3, <1>4 DEF t

\* How many spots are taken, after placement p alone changed.
LEMMA SpotsStep ==
  ASSUME NEW p \in Placements, \A q \in Placements \ {p} : placement'[q] = placement[q]
  PROVE  /\ Cardinality(SpotsTaken) \in Nat /\ Cardinality(SpotsTaken') \in Nat
         /\ Cardinality(SpotsTaken') <= Cardinality(SpotsTaken) + 1
         /\ \/ p \notin Featured
            \/ placement'[p].status \notin {"active", "pending_payment"}
            \/ placement[p].status \in {"active", "pending_payment"}
            => Cardinality(SpotsTaken') <= Cardinality(SpotsTaken)
<1>1. IsFiniteSet(SpotsTaken) /\ IsFiniteSet(SpotsTaken')
  <2>1. SpotsTaken \subseteq Featured /\ SpotsTaken' \subseteq Featured
    BY DEF SpotsTaken
  <2> QED
    BY <2>1, AdsAssumption, FS_Subset
<1>2. Cardinality(SpotsTaken) \in Nat /\ Cardinality(SpotsTaken') \in Nat
  BY <1>1, FS_CardinalityType
<1>3. SpotsTaken' \subseteq SpotsTaken \cup {p}
  BY AdsAssumption DEF SpotsTaken
<1>4. Cardinality(SpotsTaken') <= Cardinality(SpotsTaken) + 1
  <2>1. /\ IsFiniteSet(SpotsTaken \cup {p})
        /\ Cardinality(SpotsTaken \cup {p}) \in {Cardinality(SpotsTaken), Cardinality(SpotsTaken) + 1}
    BY <1>1, FS_AddElement
  <2>2. Cardinality(SpotsTaken') <= Cardinality(SpotsTaken \cup {p})
    BY <1>3, <2>1, FS_Subset
  <2> QED
    BY <1>2, <2>1, <2>2
<1>5. ASSUME \/ p \notin Featured
             \/ placement'[p].status \notin {"active", "pending_payment"}
             \/ placement[p].status \in {"active", "pending_payment"}
      PROVE  Cardinality(SpotsTaken') <= Cardinality(SpotsTaken)
  <2>1. SpotsTaken' \subseteq SpotsTaken
    BY <1>5, AdsAssumption DEF SpotsTaken
  <2> QED
    BY <1>1, <2>1, FS_Subset
<1> QED
  BY <1>2, <1>4, <1>5

\* The placement that a payment starts.
LEMMA ActivatedSpot ==
  ASSUME NEW p, placement[p] \in Spots
  PROVE  /\ Activated(p) \in Spots
         /\ Activated(p).ref = placement[p].ref
         /\ Activated(p).spent = placement[p].spent /\ Activated(p).unbilled = placement[p].unbilled
         /\ IF placement[p].status = "pending_payment"
              THEN Activated(p).status = "active" /\ Activated(p).paid = TRUE
              ELSE Activated(p).status = placement[p].status /\ Activated(p).paid = placement[p].paid
BY DEF Activated, Spots

\* Every step of a placement keeps the invariant.
LEMMA AdsSteps ==
  ASSUME AdsIInv, AdsNext
  PROVE  AdsIInv'
<1> DEFINE Rest == Alone /\ PlacedOnce /\ PaidAtStripe /\ RunsWhenPaid /\ SpotsLeft /\ BilledFollows
<1> USE DEF At
<1>i. AdsTyped /\ Rest
  BY DEF AdsIInv
<1>s. /\ placement \in [Placements -> Spots] /\ served \in [Placements -> Nat]
      /\ adCharge \in [Placements -> [status : {"none", "open", "paid"}, told : BOOLEAN]]
  BY <1>i DEF AdsTyped
<1>b. Budget \in Nat \ {0} /\ Batch \in Nat \ {0} /\ SpotsInCity \in Nat
  BY AdsAssumption
<1>f. /\ Budget \in Nat \ {0} /\ Batch \in Nat \ {0}
      /\ \A q \in Placements :
           /\ placement[q].spent \in 0..Budget /\ placement[q].unbilled \in Nat /\ served[q] \in Nat
           /\ placement[q].status \in {"none", "pending_payment", "active", "paused", "ended", "exhausted"}
  BY <1>s, <1>b DEF Spots
<1>k. task \in [Workers -> AdTasks]
  BY <1>i DEF AdsTyped
<1>r. Resting \in AdTasks /\ Resting.step = "idle"
  BY DEF AdTasks, Resting
<1>t. \A v \in Workers : task[v].step # "idle" =>
        /\ task[v].p \in Placements
        /\ task[v].step \in {"serve", "bill"} => task[v].p \notin Featured
        /\ task[v].step = "bill" => task[v].spent \in 0..Budget
  BY <1>i, AdFields DEF Idle
<1>1. ASSUME NEW p \in Placements, AdPays(p)
      PROVE  AdsTyped' /\ Rest'
  <2>1. /\ adCharge[p].status = "open" /\ placement[p].ref /\ PaymentIs(p, "paid", FALSE)
        /\ befell \subseteq befell' /\ (placement[p].status = "ended" => "paid_late" \in befell')
        /\ UNCHANGED <<task, placement, served>>
    <3>1. [status |-> "paid", told |-> FALSE] \in [status : {"none", "open", "paid"}, told : BOOLEAN]
      OBVIOUS
    <3> QED
      BY <1>1, <1>s, <3>1 DEF AdPays, PaymentIs, Befalls
  <2>2. AdsTyped'
    BY <1>i, <2>1 DEF AdsTyped, PaymentIs
  <2>l. SpotsTaken' = SpotsTaken
    BY <2>1 DEF SpotsTaken
  <2>3. Alone'
    BY <1>i, <2>1
    DEF Alone, Apart, Idle, PaymentIs
  <2>4. PlacedOnce'
    BY <1>i, <1>t, <2>1
    DEF PlacedOnce, Idle, PaymentIs
  <2>5. PaidAtStripe'
    BY <1>i, <1>t, <2>1
    DEF PaidAtStripe, PlacedOnce, Idle, PaymentIs
  <2>6. RunsWhenPaid'
    BY <1>i, <1>t, <1>f, <2>1
    DEF RunsWhenPaid, PaidAtStripe, PlacedOnce, Idle, PaymentIs
  <2>7. SpotsLeft'
    BY <1>i, <1>t, <1>b, <2>l, <2>1
    DEF SpotsLeft, Alone, Apart, Idle, PaymentIs
  <2>8. BilledFollows'
    BY <1>i, <1>t, <1>f, <2>1
    DEF BilledFollows, PlacedOnce, Alone, Apart, Idle, PaymentIs
  <2> QED
    BY <2>2, <2>3, <2>4, <2>5, <2>6, <2>7, <2>8
<1>2. ASSUME NEW p \in Placements, ActivateAd(p)
      PROVE  AdsTyped' /\ Rest'
  <2>1. /\ Undisturbed /\ ~adCharge[p].told /\ PaymentIs(p, adCharge[p].status, TRUE)
        /\ \/ placement[p].status = "pending_payment" /\ SpotIs(p, "active", placement[p].ref, TRUE,
                placement[p].spent, placement[p].unbilled)
           \/ placement[p].status # "pending_payment" /\ SpotIs(p, placement[p].status,
                   placement[p].ref, placement[p].paid, placement[p].spent, placement[p].unbilled)
        /\ UNCHANGED served
    <3>1. Undisturbed
      BY <1>2, AtOnceEffect DEF ActivateAd
    <3>2. ~adCharge[p].told /\ PaymentIs(p, adCharge[p].status, TRUE)
      <4>1. adCharge[p] \in [status : {"none", "open", "paid"}, told : BOOLEAN]
        BY <1>s
      <4> DEFINE c == [adCharge[p] EXCEPT !.told = TRUE]
      <4>2. /\ c \in [status : {"none", "open", "paid"}, told : BOOLEAN]
            /\ c.status = adCharge[p].status /\ c.told = TRUE
        BY <4>1
      <4>3. adCharge' = [adCharge EXCEPT ![p] = c] /\ ~adCharge[p].told
        BY <1>2 DEF ActivateAd
      <4> HIDE DEF c
      <4> QED
        BY <1>s, <4>2, <4>3 DEF PaymentIs
    <3>3. placement' = [placement EXCEPT ![p] = Activated(p)]
      BY <1>2 DEF ActivateAd, SetPlacement
    <3> QED
      BY <1>2, <1>s, <3>1, <3>2, <3>3, ActivatedSpot DEF ActivateAd, SpotIs
  <2>2. AdsTyped'
    BY <1>i, <2>1 DEF AdsTyped, Undisturbed, SpotIs, PaymentIs
  <2>l. /\ Cardinality(SpotsTaken) \in Nat /\ Cardinality(SpotsTaken') \in Nat
        /\ Cardinality(SpotsTaken') <= Cardinality(SpotsTaken) + 1
        /\ \/ p \notin Featured
           \/ placement'[p].status \notin {"active", "pending_payment"}
           \/ placement[p].status \in {"active", "pending_payment"}
           => Cardinality(SpotsTaken') <= Cardinality(SpotsTaken)
    BY <2>1, SpotsStep DEF SpotIs
  <2>3. Alone'
    BY <1>i, <2>1
    DEF Alone, Apart, Idle, Undisturbed, SpotIs, PaymentIs
  <2>4. PlacedOnce'
    BY <1>i, <1>t, <2>1
    DEF PlacedOnce, Idle, Undisturbed, SpotIs, PaymentIs
  <2>5. PaidAtStripe'
    BY <1>i, <1>t, <2>1
    DEF PaidAtStripe, PlacedOnce, Idle, Undisturbed, SpotIs, PaymentIs
  <2>6. RunsWhenPaid'
    BY <1>i, <1>t, <1>f, <2>1
    DEF RunsWhenPaid, PaidAtStripe, PlacedOnce, Idle, Undisturbed, SpotIs, PaymentIs
  <2>7. SpotsLeft'
    BY <1>i, <1>t, <1>b, <2>l, <2>1
    DEF SpotsLeft, Alone, Apart, Idle, Undisturbed, SpotIs, PaymentIs
  <2>8. BilledFollows'
    BY <1>i, <1>t, <1>f, <2>1
    DEF BilledFollows, PlacedOnce, Alone, Apart, Idle, Undisturbed, SpotIs, PaymentIs
  <2> QED
    BY <2>2, <2>3, <2>4, <2>5, <2>6, <2>7, <2>8
<1>3. ASSUME NEW p \in Placements, AdLapses(p)
      PROVE  AdsTyped' /\ Rest'
  <2>1. /\ SpotIs(p, placement[p].status, placement[p].ref, placement[p].paid, placement[p].spent,
          placement[p].unbilled)
        /\ UNCHANGED <<task, befell, adCharge, served>>
    <3> DEFINE r == [placement[p] EXCEPT !.over = TRUE]
    <3>2. placement[p] \in Spots
      BY <1>s
    <3>3. /\ r \in Spots
          /\ r.status = placement[p].status /\ r.ref = placement[p].ref /\ r.paid = placement[p].paid
          /\ r.spent = placement[p].spent /\ r.unbilled = placement[p].unbilled
      BY <3>2 DEF Spots
    <3>4. placement' = [placement EXCEPT ![p] = r]
      BY <1>3 DEF AdLapses, SetPlacement
    <3> HIDE DEF r
    <3>5. SpotIs(p, placement[p].status, placement[p].ref, placement[p].paid, placement[p].spent,
            placement[p].unbilled)
      BY <1>s, <3>3, <3>4 DEF SpotIs
    <3> QED
      BY <1>3, <3>5 DEF AdLapses, Running, Outside, Befalls
  <2>2. AdsTyped'
    BY <1>i, <2>1 DEF AdsTyped, SpotIs
  <2>l. /\ Cardinality(SpotsTaken) \in Nat /\ Cardinality(SpotsTaken') \in Nat
        /\ Cardinality(SpotsTaken') <= Cardinality(SpotsTaken) + 1
        /\ \/ p \notin Featured
           \/ placement'[p].status \notin {"active", "pending_payment"}
           \/ placement[p].status \in {"active", "pending_payment"}
           => Cardinality(SpotsTaken') <= Cardinality(SpotsTaken)
    BY <2>1, SpotsStep DEF SpotIs
  <2>3. Alone'
    BY <1>i, <2>1
    DEF Alone, Apart, Idle, SpotIs
  <2>4. PlacedOnce'
    BY <1>i, <1>t, <2>1
    DEF PlacedOnce, Idle, SpotIs
  <2>5. PaidAtStripe'
    BY <1>i, <1>t, <2>1
    DEF PaidAtStripe, PlacedOnce, Idle, SpotIs
  <2>6. RunsWhenPaid'
    BY <1>i, <1>t, <1>f, <2>1
    DEF RunsWhenPaid, PaidAtStripe, PlacedOnce, Idle, SpotIs
  <2>7. SpotsLeft'
    BY <1>i, <1>t, <1>b, <2>l, <2>1
    DEF SpotsLeft, Alone, Apart, Idle, SpotIs
  <2>8. BilledFollows'
    BY <1>i, <1>t, <1>f, <2>1
    DEF BilledFollows, PlacedOnce, Alone, Apart, Idle, SpotIs
  <2> QED
    BY <2>2, <2>3, <2>4, <2>5, <2>6, <2>7, <2>8
<1>4. ASSUME NEW p \in Placements, EndLapsed(p)
      PROVE  AdsTyped' /\ Rest'
  <2>1. /\ Undisturbed /\ placement[p].status = "active"
        /\ SpotIs(p, "ended", placement[p].ref, placement[p].paid, placement[p].spent,
                placement[p].unbilled)
        /\ UNCHANGED <<adCharge, served>>
    <3>1. Undisturbed
      BY <1>4, AtOnceEffect DEF EndLapsed
    <3> DEFINE r == [placement[p] EXCEPT !.status = "ended"]
    <3>2. placement[p] \in Spots
      BY <1>s
    <3>3. /\ r \in Spots
          /\ r.status = "ended" /\ r.ref = placement[p].ref /\ r.paid = placement[p].paid
          /\ r.spent = placement[p].spent /\ r.unbilled = placement[p].unbilled
      BY <3>2 DEF Spots
    <3>4. placement' = [placement EXCEPT ![p] = r]
      BY <1>4 DEF EndLapsed, SetPlacement
    <3> HIDE DEF r
    <3>5. SpotIs(p, "ended", placement[p].ref, placement[p].paid, placement[p].spent, placement[p].unbilled)
      BY <1>s, <3>3, <3>4 DEF SpotIs
    <3> QED
      BY <1>4, <3>5, <3>1 DEF EndLapsed, Running, Outside, Befalls
  <2>2. AdsTyped'
    BY <1>i, <2>1 DEF AdsTyped, Undisturbed, SpotIs
  <2>l. /\ Cardinality(SpotsTaken) \in Nat /\ Cardinality(SpotsTaken') \in Nat
        /\ Cardinality(SpotsTaken') <= Cardinality(SpotsTaken) + 1
        /\ \/ p \notin Featured
           \/ placement'[p].status \notin {"active", "pending_payment"}
           \/ placement[p].status \in {"active", "pending_payment"}
           => Cardinality(SpotsTaken') <= Cardinality(SpotsTaken)
    BY <2>1, SpotsStep DEF SpotIs
  <2>3. Alone'
    BY <1>i, <2>1
    DEF Alone, Apart, Idle, Undisturbed, SpotIs
  <2>4. PlacedOnce'
    BY <1>i, <1>t, <2>1
    DEF PlacedOnce, Idle, Undisturbed, SpotIs
  <2>5. PaidAtStripe'
    BY <1>i, <1>t, <2>1
    DEF PaidAtStripe, PlacedOnce, Idle, Undisturbed, SpotIs
  <2>6. RunsWhenPaid'
    BY <1>i, <1>t, <1>f, <2>1
    DEF RunsWhenPaid, PaidAtStripe, PlacedOnce, Idle, Undisturbed, SpotIs
  <2>7. SpotsLeft'
    BY <1>i, <1>t, <1>b, <2>l, <2>1
    DEF SpotsLeft, Alone, Apart, Idle, Undisturbed, SpotIs
  <2>8. BilledFollows'
    BY <1>i, <1>t, <1>f, <2>1
    DEF BilledFollows, PlacedOnce, Alone, Apart, Idle, Undisturbed, SpotIs
  <2> QED
    BY <2>2, <2>3, <2>4, <2>5, <2>6, <2>7, <2>8
<1>5. ASSUME NEW p \in Placements, EndAbandoned(p)
      PROVE  AdsTyped' /\ Rest'
  <2>1. /\ placement[p].status = "pending_payment" /\ SpotIs(p, "ended", placement[p].ref,
          placement[p].paid, placement[p].spent, placement[p].unbilled)
        /\ task' = task /\ befell \subseteq befell'
        /\ \/ adCharge[p].status = "paid" /\ "paid_late" \in befell'
           \/ adCharge[p].status # "paid" /\ ("overlap" \in befell' \/ \A v \in Workers : Idle(v))
        /\ UNCHANGED <<adCharge, served>>
    <3> DEFINE r == [placement[p] EXCEPT !.status = "ended"]
    <3>2. placement[p] \in Spots
      BY <1>s
    <3>3. /\ r \in Spots
          /\ r.status = "ended" /\ r.ref = placement[p].ref /\ r.paid = placement[p].paid
          /\ r.spent = placement[p].spent /\ r.unbilled = placement[p].unbilled
      BY <3>2 DEF Spots
    <3>4. placement' = [placement EXCEPT ![p] = r]
      BY <1>5 DEF EndAbandoned, SetPlacement
    <3> HIDE DEF r
    <3>5. SpotIs(p, "ended", placement[p].ref, placement[p].paid, placement[p].spent, placement[p].unbilled)
      BY <1>s, <3>3, <3>4 DEF SpotIs
    <3> QED
      BY <1>5, <3>5 DEF EndAbandoned, Running, Outside, Befalls, AtOnce, Overlaps
  <2>2. AdsTyped'
    BY <1>i, <2>1 DEF AdsTyped, SpotIs
  <2>l. /\ Cardinality(SpotsTaken) \in Nat /\ Cardinality(SpotsTaken') \in Nat
        /\ Cardinality(SpotsTaken') <= Cardinality(SpotsTaken) + 1
        /\ \/ p \notin Featured
           \/ placement'[p].status \notin {"active", "pending_payment"}
           \/ placement[p].status \in {"active", "pending_payment"}
           => Cardinality(SpotsTaken') <= Cardinality(SpotsTaken)
    BY <2>1, SpotsStep DEF SpotIs
  <2>3. Alone'
    BY <1>i, <2>1
    DEF Alone, Apart, Idle, SpotIs
  <2>4. PlacedOnce'
    BY <1>i, <1>t, <2>1
    DEF PlacedOnce, Idle, SpotIs
  <2>5. PaidAtStripe'
    BY <1>i, <1>t, <2>1
    DEF PaidAtStripe, PlacedOnce, Idle, SpotIs
  <2>6. RunsWhenPaid'
    BY <1>i, <1>t, <1>f, <2>1
    DEF RunsWhenPaid, PaidAtStripe, PlacedOnce, Idle, SpotIs
  <2>7. SpotsLeft'
    BY <1>i, <1>t, <1>b, <2>l, <2>1
    DEF SpotsLeft, Alone, Apart, Idle, SpotIs
  <2>8. BilledFollows'
    BY <1>i, <1>t, <1>f, <2>1
    DEF BilledFollows, PlacedOnce, Alone, Apart, Idle, SpotIs
  <2> QED
    BY <2>2, <2>3, <2>4, <2>5, <2>6, <2>7, <2>8
<1>6. ASSUME NEW p \in Placements, NEW paused \in BOOLEAN, PauseAd(p, paused)
      PROVE  AdsTyped' /\ Rest'
  <2>1. /\ placement[p].status # "none"
        /\ SpotIs(p, IF paused THEN "paused" ELSE "active", placement[p].ref, placement[p].paid,
                placement[p].spent, placement[p].unbilled)
        /\ task' = task /\ befell \subseteq befell'
        /\ \/ "out_of_turn" \in befell'
           \/ /\ "overlap" \in befell' \/ \A v \in Workers : Idle(v)
              /\ placement[p].status = IF paused THEN "active" ELSE "paused"
              /\ paused \/ p \notin Featured
        /\ UNCHANGED <<adCharge, served>>
    <3> DEFINE r == [placement[p] EXCEPT !.status = IF paused THEN "paused" ELSE "active"]
    <3>2. placement[p] \in Spots
      BY <1>s
    <3>3. /\ r \in Spots
          /\ r.status = (IF paused THEN "paused" ELSE "active") /\ r.ref = placement[p].ref
          /\ r.paid = placement[p].paid
          /\ r.spent = placement[p].spent /\ r.unbilled = placement[p].unbilled
      BY <3>2 DEF Spots
    <3>4. placement' = [placement EXCEPT ![p] = r]
      BY <1>6 DEF PauseAd, SetPlacement
    <3> HIDE DEF r
    <3>5. SpotIs(p, IF paused THEN "paused" ELSE "active", placement[p].ref, placement[p].paid,
            placement[p].spent, placement[p].unbilled)
      BY <1>s, <3>3, <3>4 DEF SpotIs
    <3> QED
      BY <1>6, <3>5 DEF PauseAd, Running, Outside, Befalls, AtOnce, Overlaps
  <2>2. AdsTyped'
    BY <1>i, <2>1 DEF AdsTyped, SpotIs
  <2>l. /\ Cardinality(SpotsTaken) \in Nat /\ Cardinality(SpotsTaken') \in Nat
        /\ Cardinality(SpotsTaken') <= Cardinality(SpotsTaken) + 1
        /\ \/ p \notin Featured
           \/ placement'[p].status \notin {"active", "pending_payment"}
           \/ placement[p].status \in {"active", "pending_payment"}
           => Cardinality(SpotsTaken') <= Cardinality(SpotsTaken)
    BY <2>1, SpotsStep DEF SpotIs
  <2>3. Alone'
    BY <1>i, <2>1
    DEF Alone, Apart, Idle, SpotIs
  <2>4. PlacedOnce'
    BY <1>i, <1>t, <2>1
    DEF PlacedOnce, Idle, SpotIs
  <2>5. PaidAtStripe'
    BY <1>i, <1>t, <2>1
    DEF PaidAtStripe, PlacedOnce, Idle, SpotIs
  <2>6. RunsWhenPaid'
    BY <1>i, <1>t, <1>f, <2>1
    DEF RunsWhenPaid, PaidAtStripe, PlacedOnce, Idle, SpotIs
  <2>7. SpotsLeft'
    BY <1>i, <1>t, <1>b, <2>l, <2>1
    DEF SpotsLeft, Alone, Apart, Idle, SpotIs
  <2>8. BilledFollows'
    BY <1>i, <1>t, <1>f, <2>1
    DEF BilledFollows, PlacedOnce, Alone, Apart, Idle, SpotIs
  <2> QED
    BY <2>2, <2>3, <2>4, <2>5, <2>6, <2>7, <2>8
<1>7. ASSUME NEW w \in Workers, NEW p \in Placements, PlaceRead(w, p)
      PROVE  AdsTyped' /\ Rest'
  <2>1. /\ task' \in [Workers -> AdTasks] /\ task'[w].step = "place" /\ task'[w].p = p
        /\ Others(w) /\ Entered(w)
        /\ placement[p].status = "none" /\ (p \in Featured => Cardinality(SpotsTaken) < SpotsInCity)
        /\ \A v \in Workers : ~(task[v].step = "place" /\ task[v].p = p)
        /\ UNCHANGED <<placement, adCharge, served>>
    <3> DEFINE t == [step |-> "place", p |-> p]
    <3>1. t \in AdTasks /\ t.step = "place" /\ t.p = p
      BY <1>7 DEF PlaceRead, AdTasks
    <3>2. Begin(w, t)
      BY <1>7 DEF PlaceRead
    <3> HIDE DEF t
    <3>3. task' \in [Workers -> AdTasks] /\ task'[w] = t /\ Others(w) /\ Entered(w)
      BY <1>k, <3>1, <3>2, BeginEffect
    <3> QED
      BY <1>7, <3>1, <3>3 DEF PlaceRead, Running, SpotLeft
  <2>2. AdsTyped'
    BY <1>i, <2>1 DEF AdsTyped, Entered, Others
  <2>l. SpotsTaken' = SpotsTaken
    BY <2>1 DEF SpotsTaken
  <2>3. Alone'
    BY <1>i, <2>1
    DEF Alone, Apart, Idle, Entered, Others
  <2>4. PlacedOnce'
    BY <1>i, <1>t, <2>1
    DEF PlacedOnce, Idle, Entered, Others
  <2>5. PaidAtStripe'
    BY <1>i, <1>t, <2>1
    DEF PaidAtStripe, PlacedOnce, Idle, Entered, Others
  <2>6. RunsWhenPaid'
    BY <1>i, <1>t, <1>f, <2>1
    DEF RunsWhenPaid, PaidAtStripe, PlacedOnce, Idle, Entered, Others
  <2>7. SpotsLeft'
    BY <1>i, <1>t, <1>b, <2>l, <2>1
    DEF SpotsLeft, Alone, Apart, Idle, Entered, Others
  <2>8. BilledFollows'
    BY <1>i, <1>t, <1>f, <2>1
    DEF BilledFollows, PlacedOnce, Alone, Apart, Idle, Entered, Others
  <2> QED
    BY <2>2, <2>3, <2>4, <2>5, <2>6, <2>7, <2>8
<1>8. ASSUME NEW w \in Workers, NEW p \in Placements, ResumePayment(w, p)
      PROVE  AdsTyped' /\ Rest'
  <2>1. /\ task' \in [Workers -> AdTasks] /\ task'[w].step = "ad_charge" /\ task'[w].p = p
        /\ Others(w) /\ Entered(w)
        /\ placement[p].status = "pending_payment"
        /\ UNCHANGED <<placement, adCharge, served>>
    <3> DEFINE t == [step |-> "ad_charge", p |-> p]
    <3>1. t \in AdTasks /\ t.step = "ad_charge" /\ t.p = p
      BY <1>8 DEF ResumePayment, AdTasks
    <3>2. Begin(w, t)
      BY <1>8 DEF ResumePayment
    <3> HIDE DEF t
    <3>3. task' \in [Workers -> AdTasks] /\ task'[w] = t /\ Others(w) /\ Entered(w)
      BY <1>k, <3>1, <3>2, BeginEffect
    <3> QED
      BY <1>8, <3>1, <3>3 DEF ResumePayment, Running, SpotLeft
  <2>2. AdsTyped'
    BY <1>i, <2>1 DEF AdsTyped, Entered, Others
  <2>l. SpotsTaken' = SpotsTaken
    BY <2>1 DEF SpotsTaken
  <2>3. Alone'
    BY <1>i, <2>1
    DEF Alone, Apart, Idle, Entered, Others
  <2>4. PlacedOnce'
    BY <1>i, <1>t, <2>1
    DEF PlacedOnce, Idle, Entered, Others
  <2>5. PaidAtStripe'
    BY <1>i, <1>t, <2>1
    DEF PaidAtStripe, PlacedOnce, Idle, Entered, Others
  <2>6. RunsWhenPaid'
    BY <1>i, <1>t, <1>f, <2>1
    DEF RunsWhenPaid, PaidAtStripe, PlacedOnce, Idle, Entered, Others
  <2>7. SpotsLeft'
    BY <1>i, <1>t, <1>b, <2>l, <2>1
    DEF SpotsLeft, Alone, Apart, Idle, Entered, Others
  <2>8. BilledFollows'
    BY <1>i, <1>t, <1>f, <2>1
    DEF BilledFollows, PlacedOnce, Alone, Apart, Idle, Entered, Others
  <2> QED
    BY <2>2, <2>3, <2>4, <2>5, <2>6, <2>7, <2>8
<1>9. ASSUME NEW w \in Workers, NEW p \in Placements, ReconcileRead(w, p)
      PROVE  AdsTyped' /\ Rest'
  <2>1. /\ task' \in [Workers -> AdTasks] /\ task'[w].step = "reconcile_ad" /\ task'[w].p = p
        /\ Others(w) /\ Entered(w)
        /\ placement[p].status = "pending_payment" /\ adCharge[p].status = "paid"
        /\ UNCHANGED <<placement, adCharge, served>>
    <3> DEFINE t == [step |-> "reconcile_ad", p |-> p]
    <3>1. t \in AdTasks /\ t.step = "reconcile_ad" /\ t.p = p
      BY <1>9 DEF ReconcileRead, AdTasks
    <3>2. Begin(w, t)
      BY <1>9 DEF ReconcileRead
    <3> HIDE DEF t
    <3>3. task' \in [Workers -> AdTasks] /\ task'[w] = t /\ Others(w) /\ Entered(w)
      BY <1>k, <3>1, <3>2, BeginEffect
    <3> QED
      BY <1>9, <3>1, <3>3 DEF ReconcileRead, Running, SpotLeft
  <2>2. AdsTyped'
    BY <1>i, <2>1 DEF AdsTyped, Entered, Others
  <2>l. SpotsTaken' = SpotsTaken
    BY <2>1 DEF SpotsTaken
  <2>3. Alone'
    BY <1>i, <2>1
    DEF Alone, Apart, Idle, Entered, Others
  <2>4. PlacedOnce'
    BY <1>i, <1>t, <2>1
    DEF PlacedOnce, Idle, Entered, Others
  <2>5. PaidAtStripe'
    BY <1>i, <1>t, <2>1
    DEF PaidAtStripe, PlacedOnce, Idle, Entered, Others
  <2>6. RunsWhenPaid'
    BY <1>i, <1>t, <1>f, <2>1
    DEF RunsWhenPaid, PaidAtStripe, PlacedOnce, Idle, Entered, Others
  <2>7. SpotsLeft'
    BY <1>i, <1>t, <1>b, <2>l, <2>1
    DEF SpotsLeft, Alone, Apart, Idle, Entered, Others
  <2>8. BilledFollows'
    BY <1>i, <1>t, <1>f, <2>1
    DEF BilledFollows, PlacedOnce, Alone, Apart, Idle, Entered, Others
  <2> QED
    BY <2>2, <2>3, <2>4, <2>5, <2>6, <2>7, <2>8
<1>10. ASSUME NEW w \in Workers, NEW p \in Placements, ServeRead(w, p)
      PROVE  AdsTyped' /\ Rest'
  <2>1. /\ task' \in [Workers -> AdTasks] /\ task'[w].step = "serve" /\ task'[w].p = p
        /\ Others(w) /\ Entered(w)
        /\ p \notin Featured /\ placement[p].status = "active"
        /\ UNCHANGED <<placement, adCharge, served>>
    <3> DEFINE t == [step |-> "serve", p |-> p]
    <3>1. t \in AdTasks /\ t.step = "serve" /\ t.p = p
      BY <1>10 DEF ServeRead, AdTasks
    <3>2. Begin(w, t)
      BY <1>10 DEF ServeRead
    <3> HIDE DEF t
    <3>3. task' \in [Workers -> AdTasks] /\ task'[w] = t /\ Others(w) /\ Entered(w)
      BY <1>k, <3>1, <3>2, BeginEffect
    <3> QED
      BY <1>10, <3>1, <3>3 DEF ServeRead, Running, SpotLeft
  <2>2. AdsTyped'
    BY <1>i, <2>1 DEF AdsTyped, Entered, Others
  <2>l. SpotsTaken' = SpotsTaken
    BY <2>1 DEF SpotsTaken
  <2>3. Alone'
    BY <1>i, <2>1
    DEF Alone, Apart, Idle, Entered, Others
  <2>4. PlacedOnce'
    BY <1>i, <1>t, <2>1
    DEF PlacedOnce, Idle, Entered, Others
  <2>5. PaidAtStripe'
    BY <1>i, <1>t, <2>1
    DEF PaidAtStripe, PlacedOnce, Idle, Entered, Others
  <2>6. RunsWhenPaid'
    BY <1>i, <1>t, <1>f, <2>1
    DEF RunsWhenPaid, PaidAtStripe, PlacedOnce, Idle, Entered, Others
  <2>7. SpotsLeft'
    BY <1>i, <1>t, <1>b, <2>l, <2>1
    DEF SpotsLeft, Alone, Apart, Idle, Entered, Others
  <2>8. BilledFollows'
    BY <1>i, <1>t, <1>f, <2>1
    DEF BilledFollows, PlacedOnce, Alone, Apart, Idle, Entered, Others
  <2> QED
    BY <2>2, <2>3, <2>4, <2>5, <2>6, <2>7, <2>8
<1>11. ASSUME NEW w \in Workers, NEW p \in Placements, BillRead(w, p)
      PROVE  AdsTyped' /\ Rest'
  <2>1. /\ task' \in [Workers -> AdTasks] /\ task'[w].step = "bill" /\ task'[w].p = p
        /\ Others(w) /\ Entered(w) /\ p \notin Featured /\ placement[p].unbilled > 0
        /\ task'[w].spent \in 0..Budget
        /\ \/ task'[w].spent = placement[p].spent + placement[p].unbilled
           \/ /\ task'[w].spent = Budget
              /\ Budget <= placement[p].spent + placement[p].unbilled
        /\ UNCHANGED <<placement, adCharge, served>>
    <3> DEFINE n == IF placement[p].spent + placement[p].unbilled < Budget
                     THEN placement[p].spent + placement[p].unbilled ELSE Budget
               t == [step |-> "bill", p |-> p, spent |-> n]
    <3>1. /\ n \in 0..Budget /\ placement[p].unbilled > 0
          /\ \/ n = placement[p].spent + placement[p].unbilled
             \/ n = Budget /\ Budget <= placement[p].spent + placement[p].unbilled
      BY <1>11, <1>f DEF BillRead
    <3>2. Begin(w, t)
      BY <1>11 DEF BillRead
    <3>3. p \notin Featured /\ UNCHANGED <<placement, adCharge, served>>
      BY <1>11 DEF BillRead
    <3> HIDE DEF n
    <3>4. t \in AdTasks /\ t.step = "bill" /\ t.p = p /\ t.spent = n
      BY <3>1, <3>3 DEF AdTasks
    <3> HIDE DEF t
    <3>5. task' \in [Workers -> AdTasks] /\ task'[w] = t /\ Others(w) /\ Entered(w)
      BY <1>k, <3>2, <3>4, BeginEffect
    <3> QED
      BY <3>1, <3>3, <3>4, <3>5
  <2>2. AdsTyped'
    BY <1>i, <2>1 DEF AdsTyped, Entered, Others
  <2>l. SpotsTaken' = SpotsTaken
    BY <2>1 DEF SpotsTaken
  <2>3. Alone'
    BY <1>i, <2>1
    DEF Alone, Apart, Idle, Entered, Others
  <2>4. PlacedOnce'
    BY <1>i, <1>t, <1>f, <2>1
    DEF PlacedOnce, Idle, Entered, Others, BilledFollows
  <2>5. PaidAtStripe'
    BY <1>i, <1>t, <2>1
    DEF PaidAtStripe, PlacedOnce, Idle, Entered, Others
  <2>6. RunsWhenPaid'
    BY <1>i, <1>t, <1>f, <2>1
    DEF RunsWhenPaid, PaidAtStripe, PlacedOnce, Idle, Entered, Others
  <2>7. SpotsLeft'
    BY <1>i, <1>t, <1>b, <2>l, <2>1
    DEF SpotsLeft, Alone, Apart, Idle, Entered, Others
  <2>8. BilledFollows'
    BY <1>i, <1>t, <1>f, <2>1
    DEF BilledFollows, PlacedOnce, Alone, Apart, Idle, Entered, Others
  <2> QED
    BY <2>2, <2>3, <2>4, <2>5, <2>6, <2>7, <2>8
<1>12. ASSUME NEW w \in Workers, PlaceCreate(w)
      PROVE  AdsTyped' /\ Rest'
  <2> DEFINE p == task[w].p
  <2>0. task[w].step = "place" /\ p = task[w].p /\ p \in Placements
    BY <1>12, <1>t DEF PlaceCreate
  <2>1. /\ task[w].step = "place" /\ p = task[w].p /\ p \in Placements
        /\ task' \in [Workers -> AdTasks] /\ task'[w].step = "ad_charge" /\ task'[w].p = p
        /\ Others(w) /\ befell' = befell
        /\ SpotIs(p, "pending_payment", FALSE, FALSE, 0, 0)
        /\ UNCHANGED <<adCharge, served>>
    <3> DEFINE t == [task[w] EXCEPT !.step = "ad_charge"]
    <3>0. Becomes(w, t) /\ befell' = befell
      BY <1>12 DEF PlaceCreate, Goto
    <3>9. t \in AdTasks /\ t.step = "ad_charge" /\ t.p = p
      BY <2>0, <1>i, AdFields DEF Idle
    <3> HIDE DEF t
    <3>1. task' \in [Workers -> AdTasks] /\ task'[w].step = "ad_charge" /\ task'[w].p = p /\ Others(w)
          /\ befell' = befell
      BY <1>k, <3>0, <3>9, BecomesEffect
    <3> DEFINE m == NoPlacement
               r == [m EXCEPT !.status = "pending_payment"]
    <3>2. m \in Spots /\ m.ref = FALSE /\ m.paid = FALSE /\ m.spent = 0 /\ m.unbilled = 0
      BY <1>b DEF Spots, NoPlacement
    <3> HIDE DEF m
    <3>3. /\ r \in Spots
          /\ r.status = "pending_payment" /\ r.ref = FALSE /\ r.paid = FALSE
          /\ r.spent = 0 /\ r.unbilled = 0
      BY <3>2 DEF Spots
    <3>4. placement' = [placement EXCEPT ![p] = r]
      BY <1>12 DEF PlaceCreate, SetPlacement, m
    <3> HIDE DEF r
    <3>5. SpotIs(p, "pending_payment", FALSE, FALSE, 0, 0)
      BY <1>s, <2>0, <3>3, <3>4 DEF SpotIs
    <3> QED
      BY <1>12, <1>s, <2>0, <3>1, <3>5 DEF PlaceCreate
  <2> HIDE DEF p
  <2>2. AdsTyped'
    BY <1>i, <2>1 DEF AdsTyped, Others, SpotIs
  <2>l. /\ Cardinality(SpotsTaken) \in Nat /\ Cardinality(SpotsTaken') \in Nat
        /\ Cardinality(SpotsTaken') <= Cardinality(SpotsTaken) + 1
        /\ \/ p \notin Featured
           \/ placement'[p].status \notin {"active", "pending_payment"}
           \/ placement[p].status \in {"active", "pending_payment"}
           => Cardinality(SpotsTaken') <= Cardinality(SpotsTaken)
    BY <2>1, SpotsStep DEF SpotIs
  <2>3. Alone'
    BY <1>i, <2>1
    DEF Alone, Apart, Idle, Others, SpotIs
  <2>4. PlacedOnce'
    BY <1>i, <1>t, <2>1
    DEF PlacedOnce, Idle, Others, SpotIs
  <2>5. PaidAtStripe'
    BY <1>i, <1>t, <2>1
    DEF PaidAtStripe, PlacedOnce, Idle, Others, SpotIs
  <2>6. RunsWhenPaid'
    BY <1>i, <1>t, <1>f, <2>1
    DEF RunsWhenPaid, PaidAtStripe, PlacedOnce, Idle, Others, SpotIs
  <2>7. SpotsLeft'
    BY <1>i, <1>t, <1>b, <2>l, <2>1
    DEF SpotsLeft, Alone, Apart, Idle, Others, SpotIs
  <2>8. BilledFollows'
    BY <1>i, <1>t, <1>f, <2>1
    DEF BilledFollows, PlacedOnce, Alone, Apart, Idle, Others, SpotIs
  <2> QED
    BY <2>2, <2>3, <2>4, <2>5, <2>6, <2>7, <2>8
<1>13. ASSUME NEW w \in Workers, OpenAdCharge(w)
      PROVE  AdsTyped' /\ Rest'
  <2> DEFINE p == task[w].p
  <2>0. task[w].step = "ad_charge" /\ p = task[w].p /\ p \in Placements
    BY <1>13, <1>t DEF OpenAdCharge
  <2>1. /\ task[w].step = "ad_charge" /\ p = task[w].p /\ p \in Placements
        /\ task' \in [Workers -> AdTasks] /\ task'[w].step = "ad_ref" /\ task'[w].p = p
        /\ Others(w) /\ befell' = befell
        /\ PaymentIs(p, IF adCharge[p].status = "none" THEN "open" ELSE adCharge[p].status,
                adCharge[p].told)
        /\ UNCHANGED <<placement, served>>
    <3> DEFINE t == [task[w] EXCEPT !.step = "ad_ref"]
    <3>0. Becomes(w, t) /\ befell' = befell
      BY <1>13 DEF OpenAdCharge, Goto
    <3>9. t \in AdTasks /\ t.step = "ad_ref" /\ t.p = p
      BY <2>0, <1>i, AdFields DEF Idle
    <3> HIDE DEF t
    <3>1. task' \in [Workers -> AdTasks] /\ task'[w].step = "ad_ref" /\ task'[w].p = p /\ Others(w)
          /\ befell' = befell
      BY <1>k, <3>0, <3>9, BecomesEffect
    <3> DEFINE c == [adCharge[p] EXCEPT !.status = IF @ = "none" THEN "open" ELSE @]
    <3>2. adCharge[p] \in [status : {"none", "open", "paid"}, told : BOOLEAN]
      BY <1>s, <2>0
    <3>3. /\ c \in [status : {"none", "open", "paid"}, told : BOOLEAN] /\ c.told = adCharge[p].told
          /\ c.status = IF adCharge[p].status = "none" THEN "open" ELSE adCharge[p].status
      BY <3>2
    <3>4. adCharge' = [adCharge EXCEPT ![p] = c]
      BY <1>13 DEF OpenAdCharge
    <3> HIDE DEF c
    <3>5. PaymentIs(p, IF adCharge[p].status = "none" THEN "open" ELSE adCharge[p].status, adCharge[p].told)
      BY <1>s, <2>0, <3>3, <3>4 DEF PaymentIs
    <3> QED
      BY <1>13, <2>0, <3>1, <3>5 DEF OpenAdCharge
  <2> HIDE DEF p
  <2>2. AdsTyped'
    BY <1>i, <2>1 DEF AdsTyped, Others, PaymentIs
  <2>l. SpotsTaken' = SpotsTaken
    BY <2>1 DEF SpotsTaken
  <2>3. Alone'
    BY <1>i, <2>1
    DEF Alone, Apart, Idle, Others, PaymentIs
  <2>4. PlacedOnce'
    BY <1>i, <1>t, <2>1
    DEF PlacedOnce, Idle, Others, PaymentIs
  <2>5. PaidAtStripe'
    BY <1>i, <1>t, <2>1
    DEF PaidAtStripe, PlacedOnce, Idle, Others, PaymentIs
  <2>6. RunsWhenPaid'
    BY <1>i, <1>t, <1>f, <2>1
    DEF RunsWhenPaid, PaidAtStripe, PlacedOnce, Idle, Others, PaymentIs
  <2>7. SpotsLeft'
    BY <1>i, <1>t, <1>b, <2>l, <2>1
    DEF SpotsLeft, Alone, Apart, Idle, Others, PaymentIs
  <2>8. BilledFollows'
    BY <1>i, <1>t, <1>f, <2>1
    DEF BilledFollows, PlacedOnce, Alone, Apart, Idle, Others, PaymentIs
  <2> QED
    BY <2>2, <2>3, <2>4, <2>5, <2>6, <2>7, <2>8
<1>14. ASSUME NEW w \in Workers, AdRef(w)
      PROVE  AdsTyped' /\ Rest'
  <2> DEFINE p == task[w].p
  <2>0. task[w].step = "ad_ref" /\ p = task[w].p /\ p \in Placements
    BY <1>14, <1>t DEF AdRef
  <2>1. /\ task[w].step = "ad_ref" /\ p = task[w].p /\ p \in Placements
        /\ task' \in [Workers -> AdTasks] /\ task'[w].step = "idle"
        /\ Others(w) /\ befell' = befell
        /\ SpotIs(p, placement[p].status, TRUE, placement[p].paid, placement[p].spent,
                placement[p].unbilled)
        /\ UNCHANGED <<adCharge, served>>
    <3>0. Becomes(w, Resting) /\ befell' = befell
      BY <1>14 DEF AdRef, Finish
    <3>1. task' \in [Workers -> AdTasks] /\ task'[w].step = "idle" /\ Others(w) /\ befell' = befell
      BY <1>k, <1>r, <3>0, BecomesEffect
    <3> DEFINE r == [placement[p] EXCEPT !.ref = TRUE]
    <3>2. placement[p] \in Spots
      BY <1>s, <2>0
    <3>3. /\ r \in Spots
          /\ r.status = placement[p].status /\ r.ref = TRUE /\ r.paid = placement[p].paid
          /\ r.spent = placement[p].spent /\ r.unbilled = placement[p].unbilled
      BY <3>2 DEF Spots
    <3>4. placement' = [placement EXCEPT ![p] = r]
      BY <1>14 DEF AdRef, SetPlacement
    <3> HIDE DEF r
    <3>5. SpotIs(p, placement[p].status, TRUE, placement[p].paid, placement[p].spent, placement[p].unbilled)
      BY <1>s, <2>0, <3>3, <3>4 DEF SpotIs
    <3> QED
      BY <1>14, <1>s, <2>0, <3>1, <3>5 DEF AdRef
  <2> HIDE DEF p
  <2>2. AdsTyped'
    BY <1>i, <2>1 DEF AdsTyped, Others, SpotIs
  <2>l. /\ Cardinality(SpotsTaken) \in Nat /\ Cardinality(SpotsTaken') \in Nat
        /\ Cardinality(SpotsTaken') <= Cardinality(SpotsTaken) + 1
        /\ \/ p \notin Featured
           \/ placement'[p].status \notin {"active", "pending_payment"}
           \/ placement[p].status \in {"active", "pending_payment"}
           => Cardinality(SpotsTaken') <= Cardinality(SpotsTaken)
    BY <2>1, SpotsStep DEF SpotIs
  <2>3. Alone'
    BY <1>i, <2>1
    DEF Alone, Apart, Idle, Others, SpotIs
  <2>4. PlacedOnce'
    BY <1>i, <1>t, <2>1
    DEF PlacedOnce, Idle, Others, SpotIs
  <2>5. PaidAtStripe'
    BY <1>i, <1>t, <2>1
    DEF PaidAtStripe, PlacedOnce, Idle, Others, SpotIs
  <2>6. RunsWhenPaid'
    BY <1>i, <1>t, <1>f, <2>1
    DEF RunsWhenPaid, PaidAtStripe, PlacedOnce, Idle, Others, SpotIs
  <2>7. SpotsLeft'
    BY <1>i, <1>t, <1>b, <2>l, <2>1
    DEF SpotsLeft, Alone, Apart, Idle, Others, SpotIs
  <2>8. BilledFollows'
    BY <1>i, <1>t, <1>f, <2>1
    DEF BilledFollows, PlacedOnce, Alone, Apart, Idle, Others, SpotIs
  <2> QED
    BY <2>2, <2>3, <2>4, <2>5, <2>6, <2>7, <2>8
<1>15. ASSUME NEW w \in Workers, ReconcileAd(w)
      PROVE  AdsTyped' /\ Rest'
  <2> DEFINE p == task[w].p
  <2>0. task[w].step = "reconcile_ad" /\ p = task[w].p /\ p \in Placements
    BY <1>15, <1>t DEF ReconcileAd
  <2>1. /\ task[w].step = "reconcile_ad" /\ p = task[w].p /\ p \in Placements
        /\ task' \in [Workers -> AdTasks] /\ task'[w].step = "idle"
        /\ Others(w) /\ befell' = befell
        /\ \/ placement[p].status = "pending_payment" /\ SpotIs(p, "active", placement[p].ref, TRUE,
                placement[p].spent, placement[p].unbilled)
           \/ placement[p].status # "pending_payment" /\ SpotIs(p, placement[p].status,
                   placement[p].ref, placement[p].paid, placement[p].spent, placement[p].unbilled)
        /\ UNCHANGED <<adCharge, served>>
    <3>0. Becomes(w, Resting) /\ befell' = befell
      BY <1>15 DEF ReconcileAd, Finish
    <3>1. task' \in [Workers -> AdTasks] /\ task'[w].step = "idle" /\ Others(w) /\ befell' = befell
      BY <1>k, <1>r, <3>0, BecomesEffect
    <3>2. placement' = [placement EXCEPT ![p] = Activated(p)]
      BY <1>15 DEF ReconcileAd, SetPlacement
    <3> QED
      BY <1>15, <1>s, <2>0, <3>1, <3>2, ActivatedSpot DEF ReconcileAd, SpotIs
  <2> HIDE DEF p
  <2>2. AdsTyped'
    BY <1>i, <2>1 DEF AdsTyped, Others, SpotIs
  <2>l. /\ Cardinality(SpotsTaken) \in Nat /\ Cardinality(SpotsTaken') \in Nat
        /\ Cardinality(SpotsTaken') <= Cardinality(SpotsTaken) + 1
        /\ \/ p \notin Featured
           \/ placement'[p].status \notin {"active", "pending_payment"}
           \/ placement[p].status \in {"active", "pending_payment"}
           => Cardinality(SpotsTaken') <= Cardinality(SpotsTaken)
    BY <2>1, SpotsStep DEF SpotIs
  <2>3. Alone'
    BY <1>i, <2>1
    DEF Alone, Apart, Idle, Others, SpotIs
  <2>4. PlacedOnce'
    BY <1>i, <1>t, <2>1
    DEF PlacedOnce, Idle, Others, SpotIs
  <2>5. PaidAtStripe'
    BY <1>i, <1>t, <2>1
    DEF PaidAtStripe, PlacedOnce, Idle, Others, SpotIs
  <2>6. RunsWhenPaid'
    BY <1>i, <1>t, <1>f, <2>1
    DEF RunsWhenPaid, PaidAtStripe, PlacedOnce, Idle, Others, SpotIs
  <2>7. SpotsLeft'
    BY <1>i, <1>t, <1>b, <2>l, <2>1
    DEF SpotsLeft, Alone, Apart, Idle, Others, SpotIs
  <2>8. BilledFollows'
    BY <1>i, <1>t, <1>f, <2>1
    DEF BilledFollows, PlacedOnce, Alone, Apart, Idle, Others, SpotIs
  <2> QED
    BY <2>2, <2>3, <2>4, <2>5, <2>6, <2>7, <2>8
<1>16. ASSUME NEW w \in Workers, ServeCount(w)
      PROVE  AdsTyped' /\ Rest'
  <2> DEFINE p == task[w].p
  <2>0. task[w].step = "serve" /\ p = task[w].p /\ p \in Placements
    BY <1>16, <1>t DEF ServeCount
  <2>1. /\ task[w].step = "serve" /\ p = task[w].p /\ p \in Placements
        /\ task' \in [Workers -> AdTasks] /\ task'[w].step = "idle"
        /\ Others(w) /\ befell' = befell
        /\ SpotIs(p, placement[p].status, placement[p].ref, placement[p].paid, placement[p].spent,
                placement[p].unbilled + 1)
        /\ served' \in [Placements -> Nat] /\ served'[p] = served[p] + 1
        /\ \A q \in Placements \ {p} : served'[q] = served[q]
        /\ UNCHANGED <<adCharge>>
    <3>0. Becomes(w, Resting) /\ befell' = befell
      BY <1>16 DEF ServeCount, Finish
    <3>1. task' \in [Workers -> AdTasks] /\ task'[w].step = "idle" /\ Others(w) /\ befell' = befell
      BY <1>k, <1>r, <3>0, BecomesEffect
    <3> DEFINE r == [placement[p] EXCEPT !.unbilled = @ + 1]
    <3>2. placement[p] \in Spots
      BY <1>s, <2>0
    <3>3. /\ r \in Spots
          /\ r.status = placement[p].status /\ r.ref = placement[p].ref /\ r.paid = placement[p].paid
          /\ r.spent = placement[p].spent /\ r.unbilled = placement[p].unbilled + 1
      BY <3>2 DEF Spots
    <3>4. placement' = [placement EXCEPT ![p] = r]
      BY <1>16 DEF ServeCount, SetPlacement
    <3> HIDE DEF r
    <3>5. SpotIs(p, placement[p].status, placement[p].ref, placement[p].paid, placement[p].spent,
            placement[p].unbilled + 1)
      BY <1>s, <2>0, <3>3, <3>4 DEF SpotIs
    <3> QED
      BY <1>16, <1>s, <2>0, <3>1, <3>5 DEF ServeCount
  <2> HIDE DEF p
  <2>2. AdsTyped'
    BY <1>i, <2>1 DEF AdsTyped, Others, SpotIs
  <2>l. /\ Cardinality(SpotsTaken) \in Nat /\ Cardinality(SpotsTaken') \in Nat
        /\ Cardinality(SpotsTaken') <= Cardinality(SpotsTaken) + 1
        /\ \/ p \notin Featured
           \/ placement'[p].status \notin {"active", "pending_payment"}
           \/ placement[p].status \in {"active", "pending_payment"}
           => Cardinality(SpotsTaken') <= Cardinality(SpotsTaken)
    BY <2>1, SpotsStep DEF SpotIs
  <2>3. Alone'
    BY <1>i, <2>1
    DEF Alone, Apart, Idle, Others, SpotIs
  <2>4. PlacedOnce'
    BY <1>i, <1>t, <2>1
    DEF PlacedOnce, Idle, Others, SpotIs
  <2>5. PaidAtStripe'
    BY <1>i, <1>t, <2>1
    DEF PaidAtStripe, PlacedOnce, Idle, Others, SpotIs
  <2>6. RunsWhenPaid'
    BY <1>i, <1>t, <1>f, <2>1
    DEF RunsWhenPaid, PaidAtStripe, PlacedOnce, Idle, Others, SpotIs
  <2>7. SpotsLeft'
    BY <1>i, <1>t, <1>b, <2>l, <2>1
    DEF SpotsLeft, Alone, Apart, Idle, Others, SpotIs
  <2>8. BilledFollows'
    BY <1>i, <1>t, <1>f, <2>1
    DEF BilledFollows, PlacedOnce, Alone, Apart, Idle, Others, SpotIs
  <2> QED
    BY <2>2, <2>3, <2>4, <2>5, <2>6, <2>7, <2>8
<1>17. ASSUME NEW w \in Workers, BillWrite(w)
      PROVE  AdsTyped' /\ Rest'
  <2> DEFINE p == task[w].p
             n == task[w].spent
  <2>0. task[w].step = "bill" /\ p = task[w].p /\ p \in Placements
    BY <1>17, <1>t DEF BillWrite
  <2>n. n = task[w].spent /\ n \in 0..Budget
    BY <2>0, <1>t
  <2>1. /\ task[w].step = "bill" /\ p = task[w].p /\ p \in Placements
        /\ task' \in [Workers -> AdTasks] /\ task'[w].step = "idle"
        /\ Others(w) /\ befell' = befell
        /\ n = task[w].spent /\ n \in 0..Budget /\ SpotIs(p,
                IF n >= Budget THEN "exhausted" ELSE placement[p].status, placement[p].ref,
                        placement[p].paid, n, 0)
        /\ UNCHANGED <<adCharge, served>>
    <3>0. Becomes(w, Resting) /\ befell' = befell
      BY <1>17 DEF BillWrite, Finish
    <3>1. task' \in [Workers -> AdTasks] /\ task'[w].step = "idle" /\ Others(w) /\ befell' = befell
      BY <1>k, <1>r, <3>0, BecomesEffect
    <3> HIDE DEF n
    <3> DEFINE r == [placement[p] EXCEPT !.spent = n, !.unbilled = 0,
                                   !.status = IF n >= Budget THEN "exhausted" ELSE @]
    <3>2. placement[p] \in Spots
      BY <1>s, <2>0
    <3>3. /\ r \in Spots
          /\ r.status = (IF n >= Budget THEN "exhausted" ELSE placement[p].status)
          /\ r.ref = placement[p].ref /\ r.paid = placement[p].paid
          /\ r.spent = n /\ r.unbilled = 0
      BY <3>2, <2>n DEF Spots
    <3>4. placement' = [placement EXCEPT ![p] = r]
      BY <1>17 DEF BillWrite, SetPlacement, n
    <3> HIDE DEF r
    <3>5. SpotIs(p, IF n >= Budget THEN "exhausted" ELSE placement[p].status, placement[p].ref,
            placement[p].paid, n, 0)
      BY <1>s, <2>0, <3>3, <3>4 DEF SpotIs
    <3> QED
      BY <1>17, <1>s, <2>0, <2>n, <3>1, <3>5 DEF BillWrite
  <2> HIDE DEF p, n
  <2>2. AdsTyped'
    BY <1>i, <2>1 DEF AdsTyped, Others, SpotIs
  <2>l. /\ Cardinality(SpotsTaken) \in Nat /\ Cardinality(SpotsTaken') \in Nat
        /\ Cardinality(SpotsTaken') <= Cardinality(SpotsTaken) + 1
        /\ \/ p \notin Featured
           \/ placement'[p].status \notin {"active", "pending_payment"}
           \/ placement[p].status \in {"active", "pending_payment"}
           => Cardinality(SpotsTaken') <= Cardinality(SpotsTaken)
    BY <2>1, SpotsStep DEF SpotIs
  <2>3. Alone'
    BY <1>i, <2>1
    DEF Alone, Apart, Idle, Others, SpotIs
  <2>4. PlacedOnce'
    BY <1>i, <1>t, <2>1
    DEF PlacedOnce, Idle, Others, SpotIs
  <2>5. PaidAtStripe'
    BY <1>i, <1>t, <2>1
    DEF PaidAtStripe, PlacedOnce, Idle, Others, SpotIs
  <2>6. RunsWhenPaid'
    BY <1>i, <1>t, <1>f, <2>1
    DEF RunsWhenPaid, PaidAtStripe, PlacedOnce, Idle, Others, SpotIs
  <2>7. SpotsLeft'
    BY <1>i, <1>t, <1>b, <2>l, <2>1
    DEF SpotsLeft, Alone, Apart, Idle, Others, SpotIs
  <2>8. BilledFollows'
    BY <1>i, <1>t, <1>f, <2>1
    DEF BilledFollows, PlacedOnce, Alone, Apart, Idle, Others, SpotIs
  <2> QED
    BY <2>2, <2>3, <2>4, <2>5, <2>6, <2>7, <2>8
<1>18. ASSUME NEW w \in Workers, AdHandlerDies(w)
      PROVE  AdsTyped' /\ Rest'
  <2>1. /\ task' \in [Workers -> AdTasks] /\ task'[w].step = "idle" /\ Others(w) /\ befell \subseteq befell'
        /\ UNCHANGED <<placement, adCharge, served>>
    <3>1. task' \in [Workers -> AdTasks] /\ task'[w] = Resting /\ Others(w)
      BY <1>18, <1>k, <1>r, BecomesEffect DEF AdHandlerDies, Dies, FinishAfter
    <3> QED
      BY <1>18, <1>r, <3>1 DEF AdHandlerDies, Dies, FinishAfter, Befalls
  <2>2. AdsTyped'
    BY <1>i, <2>1 DEF AdsTyped, Others
  <2>l. SpotsTaken' = SpotsTaken
    BY <2>1 DEF SpotsTaken
  <2>3. Alone'
    BY <1>i, <2>1
    DEF Alone, Apart, Idle, Others
  <2>4. PlacedOnce'
    BY <1>i, <1>t, <2>1
    DEF PlacedOnce, Idle, Others
  <2>5. PaidAtStripe'
    BY <1>i, <1>t, <2>1
    DEF PaidAtStripe, PlacedOnce, Idle, Others
  <2>6. RunsWhenPaid'
    BY <1>i, <1>t, <1>f, <2>1
    DEF RunsWhenPaid, PaidAtStripe, PlacedOnce, Idle, Others
  <2>7. SpotsLeft'
    BY <1>i, <1>t, <1>b, <2>l, <2>1
    DEF SpotsLeft, Alone, Apart, Idle, Others
  <2>8. BilledFollows'
    BY <1>i, <1>t, <1>f, <2>1
    DEF BilledFollows, PlacedOnce, Alone, Apart, Idle, Others
  <2> QED
    BY <2>2, <2>3, <2>4, <2>5, <2>6, <2>7, <2>8
<1> QED
  BY <1>1, <1>2, <1>3, <1>4, <1>5, <1>6, <1>7, <1>8, <1>9, <1>10, <1>11, <1>12, <1>13, <1>14,
     <1>15, <1>16, <1>17, <1>18 DEF AdsNext, AdsIInv

\* The invariant says what a sponsorship promises, ...
LEMMA LogoRight == SponsorsIInv => SponsorsRight
<1> SUFFICES ASSUME SponsorsIInv
             PROVE  SponsorsRight
  OBVIOUS
<1> USE DEF SponsorsIInv
<1>0. /\ sponsor.status \in {"none", "pending_payment", "pending_review", "active", "rejected", "expired"}
      /\ sponsor.ref \in {"none", "pending", "dropped", "paid"} /\ sponsor.paid \in BOOLEAN
      /\ sponsorship.refunded \in BOOLEAN
  BY DEF SponsorsTyped, Logos, Sponsorships
<1>1. LogoIsPaid
  BY <1>0 DEF LogoIsPaid, ReviewedIsPaid, RowFollowsPayment, RefundFollows, Apart, AllIdle, Idle, Spared
<1>2. RejectedIsRefunded
  BY <1>0 DEF RejectedIsRefunded, RefundFollows, Apart, AllIdle, Idle, Spared
<1>3. PaidIsReviewed
  BY DEF PaidIsReviewed, RowFollowsPayment, Spared
<1>4. LiveIsPromised
  BY DEF LiveIsPromised, PromiseKept, AllIdle, Idle, Spared
<1>5. DeliveredIsLogged
  <2> SUFFICES ASSUME AllIdle, Spared({"crash"}), promised # None
               PROVE  promised = deliveries
    BY DEF DeliveredIsLogged
  <2>1. Logging = {} /\ Cardinality({}) = 0
    BY FS_EmptySet DEF AllIdle, Idle, Logging
  <2> QED
    BY <2>1 DEF PromiseKept, Spared, SponsorsTyped
<1>6. CreditIsEarned
  BY DEF CreditIsEarned, CreditFollows, Crediting, AllIdle, Idle, Spared
<1> QED
  BY <1>1, <1>2, <1>3, <1>4, <1>5, <1>6 DEF SponsorsRight

\* ... and what a paid placement does.
LEMMA SpotRight == AdsIInv => AdsRight
<1> SUFFICES ASSUME AdsIInv
             PROVE  AdsRight
  OBVIOUS
<1> USE DEF AdsIInv
<1>1. RunsArePaid
  BY DEF RunsArePaid, RunsWhenPaid, PaidAtStripe, Spared
<1>2. PaidRuns
  BY DEF PaidRuns, RunsWhenPaid, Spared
<1>3. SpotsHeld
  BY DEF SpotsHeld, SpotsLeft, Apart, Spared
<1>4. BilledIsServed
  <2>1. \A p \in Placements : placement[p].spent \in 0..Budget
    BY DEF AdsTyped, Spots
  <2> QED
    BY <2>1, AdsAssumption DEF BilledIsServed, BilledFollows, Apart, Spared
<1>5. ExhaustedStops
  BY DEF ExhaustedStops, RunsWhenPaid, Spared
<1> QED
  BY <1>1, <1>2, <1>3, <1>4, <1>5 DEF AdsRight

(***************************************************************************)
(* Stamps and referrals.                                                   *)
(***************************************************************************)

LoyaltyTasks ==
  {Resting}
    \cup [step : {"stamp", "consume", "reward"}, f : Friends, required : CardSizes]
    \cup [step : {"convert", "capped"}, f : Friends, required : CardSizes \cup {0}]
    \cup [step : {"credit", "count"}, f : Friends, earned : Nat]

LoyaltyTyped ==
  /\ program \in [active : BOOLEAN, required : CardSizes \cup {0}]
  /\ trips \in [Friends -> [done : Nat, stamped : Nat]]
  /\ card \in [Friends -> [stamps : Nat, lifetime : Nat]]
  /\ rewards \in [Friends -> [made : Nat, redeemed : Nat, cost : Nat]]
  /\ referral \in [Friends -> {"none", "pending", "lapsed", "converted"}]
  /\ lapsing \subseteq Friends
  /\ credits \subseteq Friends \X {"referrer", "friend"}
  /\ earned \in Nat \cup {None}
  /\ task \in [Workers -> LoyaltyTasks]

\* What each handler is about to do to f's card: to stamp it, to find it full, and the stamps it
\* took off and has not rewarded yet.
Stamping(f) == [w \in Workers |-> IF task[w].step = "stamp" /\ task[w].f = f THEN 1 ELSE 0]
Checking(f) == [w \in Workers |-> IF task[w].step = "consume" /\ task[w].f = f THEN 1 ELSE 0]
Spending(f) == [w \in Workers |-> IF task[w].step = "reward" /\ task[w].f = f THEN task[w].required ELSE 0]

ToStamp(f) == SumFunctionOnSet(Stamping(f), Workers)
ToCheck(f) == SumFunctionOnSet(Checking(f), Workers)
ToSpend(f) == SumFunctionOnSet(Spending(f), Workers)

\* Every stamp is on the card, spent, or in the hands of a handler that makes the reward; and
\* every completed trip is stamped or about to be.
StampsFollow ==
  /\ \A f \in Friends : card[f].stamps + rewards[f].cost + ToSpend(f) <= card[f].lifetime
  /\ "crash" \notin befell =>
       \A f \in Friends :
         /\ card[f].stamps + rewards[f].cost + ToSpend(f) = card[f].lifetime
         /\ card[f].lifetime + ToStamp(f) = trips[f].stamped

\* Without a programme nothing is stamped.  With one that stays, a card holds no more than a full
\* card's stamps less one, and one for every handler that is about to look.
CardsFollow ==
  /\ program.required = 0 =>
       /\ ~program.active
       /\ \A f \in Friends : card[f].stamps = 0
       /\ \A w \in Workers : task[w].step \notin {"stamp", "consume", "reward"}
  /\ "reprogrammed" \notin befell =>
       \A w \in Workers : task[w].step \in {"stamp", "consume"} => task[w].required = program.required
  /\ program.required > 0 /\ Spared({"crash", "reprogrammed"}) =>
       \A f \in Friends : card[f].stamps <= program.required - 1 + ToCheck(f)

\* A referral names a code; it is credited once it converted, to both or by a handler on its way.
CreditsFollow ==
  /\ \A f \in Friends : referral[f] # "none" => earned # None
  /\ \A f \in Rewarded : referral[f] = "converted"
  /\ \A w \in Workers : task[w].step \in {"capped", "credit", "count"} =>
       referral[task[w].f] = "converted"
  /\ "crash" \notin befell =>
       \A f \in Rewarded :
         \/ <<f, "friend">> \in credits
         \/ \E w \in Workers : task[w].step = "credit" /\ task[w].f = f

\* Unless handlers overlap or die, the count on the code is the number of the rewarded, or one
\* handler is about to make it so; it ends at the cap, and only the cap leaves somebody out.
CountFollows ==
  Spared({"crash", "overlap"}) =>
    /\ \A w \in Workers : task[w].step = "capped" => task[w].f \notin Rewarded
    /\ \A w \in Workers : task[w].step \in {"credit", "count"} =>
         earned = task[w].earned /\ earned < LifetimeCap
    /\ \A w \in Workers : task[w].step = "credit" =>
         Cardinality(Rewarded) = earned + (IF task[w].f \in Rewarded THEN 1 ELSE 0)
    /\ \A w \in Workers : task[w].step = "count" => Cardinality(Rewarded) = earned + 1
    /\ earned = None => Rewarded = {}
    /\ earned # None => earned <= LifetimeCap
    /\ earned # None /\ (\A w \in Workers : task[w].step \notin {"credit", "count"}) =>
         earned = Cardinality(Rewarded)
    /\ \A f \in Friends : referral[f] = "converted" /\ f \notin Rewarded =>
         \/ earned = LifetimeCap
         \/ \E w \in Workers : task[w].step \in {"capped", "credit"} /\ task[w].f = f

LoyaltyIInv == LoyaltyTyped /\ Alone /\ StampsFollow /\ CardsFollow /\ CreditsFollow /\ CountFollows

\* Friend f's card gets these stamps, on it and in all; the other cards stay.
CardIs(f, n, m) ==
  /\ card' \in [Friends -> [stamps : Nat, lifetime : Nat]]
  /\ card'[f].stamps = n /\ card'[f].lifetime = m
  /\ \A g \in Friends \ {f} : card'[g] = card[g]

\* The rewards friend f redeemed or was made come to have cost n stamps; the others' stay.
CostIs(f, n) ==
  /\ rewards' \in [Friends -> [made : Nat, redeemed : Nat, cost : Nat]]
  /\ rewards'[f].cost = n
  /\ \A g \in Friends \ {f} : rewards'[g] = rewards[g]

\* Friend f's referral gets this status; the others stay.
ReferralIs(f, s) ==
  /\ referral' \in [Friends -> {"none", "pending", "lapsed", "converted"}]
  /\ referral'[f] = s
  /\ \A g \in Friends \ {f} : referral'[g] = referral[g]

\* What writing the fields of a row leaves alone.
LEMMA LoyaltyEdits ==
  /\ \A t \in [done : Nat, stamped : Nat] : \A active \in BOOLEAN :
       LET d == [t EXCEPT !.done = @ + 1, !.stamped = IF active THEN @ + 1 ELSE @] IN
         /\ d \in [done : Nat, stamped : Nat]
         /\ d.stamped = IF active THEN t.stamped + 1 ELSE t.stamped
  /\ \A c \in [stamps : Nat, lifetime : Nat] :
       LET d == [c EXCEPT !.stamps = @ + 1, !.lifetime = @ + 1] IN
         /\ d \in [stamps : Nat, lifetime : Nat]
         /\ d.stamps = c.stamps + 1 /\ d.lifetime = c.lifetime + 1
  /\ \A r \in [made : Nat, redeemed : Nat, cost : Nat] : \A n \in Nat :
       LET d == [r EXCEPT !.made = @ + 1, !.cost = @ + n] IN
         d \in [made : Nat, redeemed : Nat, cost : Nat] /\ d.cost = r.cost + n
<1>1. ASSUME NEW t \in [done : Nat, stamped : Nat], NEW active \in BOOLEAN
      PROVE  LET d == [t EXCEPT !.done = @ + 1, !.stamped = IF active THEN @ + 1 ELSE @] IN
               /\ d \in [done : Nat, stamped : Nat]
               /\ d.stamped = IF active THEN t.stamped + 1 ELSE t.stamped
  <2>1. ASSUME NEW x \in Nat, NEW y \in Nat
        PROVE  LET d == [t EXCEPT !.done = x, !.stamped = y] IN
                 d \in [done : Nat, stamped : Nat] /\ d.stamped = y
    OBVIOUS
  <2>2. t.done + 1 \in Nat /\ (IF active THEN t.stamped + 1 ELSE t.stamped) \in Nat
    OBVIOUS
  <2> QED
    BY <2>1, <2>2
<1>2. ASSUME NEW c \in [stamps : Nat, lifetime : Nat]
      PROVE  LET d == [c EXCEPT !.stamps = @ + 1, !.lifetime = @ + 1] IN
               /\ d \in [stamps : Nat, lifetime : Nat]
               /\ d.stamps = c.stamps + 1 /\ d.lifetime = c.lifetime + 1
  <2>1. ASSUME NEW x \in Nat, NEW y \in Nat
        PROVE  LET d == [c EXCEPT !.stamps = x, !.lifetime = y] IN
                 d \in [stamps : Nat, lifetime : Nat] /\ d.stamps = x /\ d.lifetime = y
    OBVIOUS
  <2>2. c.stamps + 1 \in Nat /\ c.lifetime + 1 \in Nat
    OBVIOUS
  <2> QED
    BY <2>1, <2>2
<1>3. ASSUME NEW r \in [made : Nat, redeemed : Nat, cost : Nat], NEW n \in Nat
      PROVE  LET d == [r EXCEPT !.made = @ + 1, !.cost = @ + n] IN
               d \in [made : Nat, redeemed : Nat, cost : Nat] /\ d.cost = r.cost + n
  <2>1. ASSUME NEW x \in Nat, NEW y \in Nat
        PROVE  LET d == [r EXCEPT !.made = x, !.cost = y] IN
                 d \in [made : Nat, redeemed : Nat, cost : Nat] /\ d.cost = y
    OBVIOUS
  <2>2. r.made + 1 \in Nat /\ r.cost + n \in Nat
    OBVIOUS
  <2> QED
    BY <2>1, <2>2
<1> QED
  BY <1>1, <1>2, <1>3

OnTheCard == {"stamp", "consume", "reward"}

\* What a handler of a completed trip remembers.
LEMMA LoyaltyFields ==
  ASSUME LoyaltyTyped, NEW w \in Workers, ~Idle(w)
  PROVE  /\ task[w].f \in Friends
         /\ task[w].step \in {"stamp", "consume", "reward", "convert", "capped", "credit", "count"}
         /\ task[w].step \in OnTheCard => task[w].required \in CardSizes
         /\ task[w].step \in {"credit", "count"} => task[w].earned \in Nat
         /\ \A s \in {"consume", "reward", "convert"} : task[w].step \in OnTheCard =>
              /\ [task[w] EXCEPT !.step = s] \in LoyaltyTasks
              /\ [task[w] EXCEPT !.step = s].step = s
              /\ [task[w] EXCEPT !.step = s].f = task[w].f
              /\ [task[w] EXCEPT !.step = s].required = task[w].required
         /\ task[w].step = "convert" =>
              /\ [task[w] EXCEPT !.step = "capped"] \in LoyaltyTasks
              /\ [task[w] EXCEPT !.step = "capped"].step = "capped"
              /\ [task[w] EXCEPT !.step = "capped"].f = task[w].f
         /\ \A s \in {"credit", "count"} : task[w].step = "credit" =>
              /\ [task[w] EXCEPT !.step = s] \in LoyaltyTasks
              /\ [task[w] EXCEPT !.step = s].step = s
              /\ [task[w] EXCEPT !.step = s].f = task[w].f
              /\ [task[w] EXCEPT !.step = s].earned = task[w].earned
<1>1. task[w] \in LoyaltyTasks /\ task[w].step # "idle"
  BY DEF LoyaltyTyped, Idle
<1> DEFINE t == task[w]
<1>2. t \in LoyaltyTasks /\ t.step # "idle"
  BY <1>1
<1> HIDE DEF t
<1>3. \/ t \in [step : OnTheCard, f : Friends, required : CardSizes]
      \/ t \in [step : {"convert", "capped"}, f : Friends, required : CardSizes \cup {0}]
      \/ t \in [step : {"credit", "count"}, f : Friends, earned : Nat]
  BY <1>2 DEF LoyaltyTasks, Resting, OnTheCard
<1>4. /\ t.f \in Friends
      /\ t.step \in {"stamp", "consume", "reward", "convert", "capped", "credit", "count"}
      /\ t.step \in OnTheCard => t.required \in CardSizes
      /\ t.step \in {"credit", "count"} => t.earned \in Nat
  BY <1>3 DEF OnTheCard
<1>5. ASSUME t.step \in OnTheCard, NEW s \in {"consume", "reward", "convert"}
      PROVE  /\ [t EXCEPT !.step = s] \in LoyaltyTasks /\ [t EXCEPT !.step = s].step = s
             /\ [t EXCEPT !.step = s].f = t.f /\ [t EXCEPT !.step = s].required = t.required
  <2>1. t \in [step : OnTheCard, f : Friends, required : CardSizes]
    BY <1>3, <1>5 DEF OnTheCard
  <2> QED
    BY <2>1, <1>5 DEF LoyaltyTasks, OnTheCard
<1>6. ASSUME t.step = "convert"
      PROVE  /\ [t EXCEPT !.step = "capped"] \in LoyaltyTasks
             /\ [t EXCEPT !.step = "capped"].step = "capped" /\ [t EXCEPT !.step = "capped"].f = t.f
  <2>1. t \in [step : {"convert", "capped"}, f : Friends, required : CardSizes \cup {0}]
    BY <1>3, <1>6 DEF OnTheCard
  <2> QED
    BY <2>1 DEF LoyaltyTasks
<1>7. ASSUME t.step = "credit", NEW s \in {"credit", "count"}
      PROVE  /\ [t EXCEPT !.step = s] \in LoyaltyTasks /\ [t EXCEPT !.step = s].step = s
             /\ [t EXCEPT !.step = s].f = t.f /\ [t EXCEPT !.step = s].earned = t.earned
  <2>1. t \in [step : {"credit", "count"}, f : Friends, earned : Nat]
    BY <1>3, <1>7 DEF OnTheCard
  <2> QED
    BY <2>1, <1>7 DEF LoyaltyTasks
<1> QED
  BY <1>4, <1>5, <1>6, <1>7 DEF t

\* What a handler takes off a card is a number.
LEMMA Weights ==
  ASSUME NEW t \in LoyaltyTasks, t.step = "reward"
  PROVE  t.required \in Nat
<1>1. t \in [step : {"stamp", "consume", "reward"}, f : Friends, required : CardSizes]
  BY DEF LoyaltyTasks, Resting
<1> QED
  BY <1>1, LoyaltyAssumption

\* The sums, after handler w took a step.
LEMMA CardSums ==
  ASSUME LoyaltyTyped, LoyaltyTyped', NEW w \in Workers, Others(w), NEW f \in Friends
  PROVE  /\ ToStamp(f) \in Nat /\ ToCheck(f) \in Nat /\ ToSpend(f) \in Nat /\ ToCheck(f)' \in Nat
         /\ ToStamp(f)' = ToStamp(f) - Stamping(f)[w] + Stamping(f)'[w]
         /\ ToCheck(f)' = ToCheck(f) - Checking(f)[w] + Checking(f)'[w]
         /\ ToSpend(f)' = ToSpend(f) - Spending(f)[w] + Spending(f)'[w]
<1>1. \A v \in Workers : Stamping(f)[v] \in Nat /\ Checking(f)[v] \in Nat /\ Spending(f)[v] \in Nat
  <2>1. \A v \in Workers : task[v].step = "reward" => task[v].required \in Nat
    BY Weights DEF LoyaltyTyped
  <2> QED
    BY <2>1 DEF Stamping, Checking, Spending
<1>2. \A v \in Workers : Stamping(f)'[v] \in Nat /\ Checking(f)'[v] \in Nat /\ Spending(f)'[v] \in Nat
  <2>1. \A v \in Workers : task'[v].step = "reward" => task'[v].required \in Nat
    BY Weights DEF LoyaltyTyped
  <2> QED
    BY <2>1 DEF Stamping, Checking, Spending
<1>3. \A v \in Workers \ {w} :
        Stamping(f)'[v] = Stamping(f)[v] /\ Checking(f)'[v] = Checking(f)[v] /\ Spending(f)'[v] = Spending(f)[v]
  BY DEF Others, Stamping, Checking, Spending
<1>4. ToStamp(f) \in Nat /\ ToCheck(f) \in Nat /\ ToSpend(f) \in Nat /\ ToCheck(f)' \in Nat
  BY <1>1, <1>2, SumNotNegative, LoyaltyAssumption DEF ToStamp, ToCheck, ToSpend
<1>5. /\ ChangesAt(Stamping(f), Stamping(f)', Workers, w)
      /\ ChangesAt(Checking(f), Checking(f)', Workers, w)
      /\ ChangesAt(Spending(f), Spending(f)', Workers, w)
  BY <1>1, <1>2, <1>3 DEF ChangesAt
<1>6. ToStamp(f)' = ToStamp(f) - Stamping(f)[w] + Stamping(f)'[w]
  BY <1>5, SumChange, LoyaltyAssumption DEF ToStamp
<1>7. ToCheck(f)' = ToCheck(f) - Checking(f)[w] + Checking(f)'[w]
  BY <1>5, SumChange, LoyaltyAssumption DEF ToCheck
<1>8. ToSpend(f)' = ToSpend(f) - Spending(f)[w] + Spending(f)'[w]
  BY <1>5, SumChange, LoyaltyAssumption DEF ToSpend
<1> QED
  BY <1>4, <1>6, <1>7, <1>8

\* ... and when no handler is half way.
LEMMA NothingInHand ==
  ASSUME \A w \in Workers : task[w].step = "idle", NEW f \in Friends
  PROVE  ToStamp(f) = 0 /\ ToCheck(f) = 0 /\ ToSpend(f) = 0
<1>1. \A w \in Workers : Stamping(f)[w] = 0 /\ Checking(f)[w] = 0 /\ Spending(f)[w] = 0
  BY DEF Stamping, Checking, Spending
<1> QED
  BY <1>1, SumNothing, LoyaltyAssumption DEF ToStamp, ToCheck, ToSpend

\* Who is rewarded, after friend f's credit.
LEMMA RewardedStep ==
  ASSUME LoyaltyTyped
  PROVE  /\ Rewarded \subseteq Friends /\ IsFiniteSet(Rewarded) /\ Cardinality(Rewarded) \in Nat
         /\ \A f \in Friends \ Rewarded : Cardinality(Rewarded \cup {f}) = Cardinality(Rewarded) + 1
<1>1. Rewarded \subseteq Friends
  BY DEF Rewarded
<1>2. IsFiniteSet(Rewarded)
  BY <1>1, FS_Subset, LoyaltyAssumption
<1> QED
  BY <1>1, <1>2, FS_CardinalityType, FS_AddElement

\* Every step of a programme and of a referral keeps the invariant.
LEMMA LoyaltySteps ==
  ASSUME LoyaltyIInv, LoyaltyNext
  PROVE  LoyaltyIInv'
<1> DEFINE Rest == Alone /\ StampsFollow /\ CardsFollow /\ CreditsFollow /\ CountFollows
<1> USE DEF At
<1>i. LoyaltyTyped /\ Rest
  BY DEF LoyaltyIInv
<1>s. /\ program \in [active : BOOLEAN, required : CardSizes \cup {0}]
      /\ trips \in [Friends -> [done : Nat, stamped : Nat]]
      /\ card \in [Friends -> [stamps : Nat, lifetime : Nat]]
      /\ rewards \in [Friends -> [made : Nat, redeemed : Nat, cost : Nat]]
      /\ referral \in [Friends -> {"none", "pending", "lapsed", "converted"}]
  BY <1>i DEF LoyaltyTyped
<1>b. CardSizes \subseteq Nat \ {0} /\ LifetimeCap \in Nat
  BY LoyaltyAssumption
<1>n. /\ CardSizes \subseteq Nat \ {0}
      /\ program.required \in Nat
      /\ \A g \in Friends : /\ card[g].stamps \in Nat /\ card[g].lifetime \in Nat
                            /\ rewards[g].cost \in Nat /\ trips[g].stamped \in Nat
  <2>1. ASSUME NEW g \in Friends
        PROVE  /\ card[g] \in [stamps : Nat, lifetime : Nat]
               /\ rewards[g] \in [made : Nat, redeemed : Nat, cost : Nat]
               /\ trips[g] \in [done : Nat, stamped : Nat]
    BY <1>s
  <2>2. program.required \in Nat
    <3>1. program.required \in CardSizes \cup {0}
      BY <1>s
    <3>2. CardSizes \cup {0} \subseteq Nat
      BY <1>b
    <3> QED
      BY <3>1, <3>2
  <2> QED
    BY <1>b, <2>1, <2>2
<1>e. earned \in Nat \cup {None} /\ None \notin Nat /\ LifetimeCap \in Nat
  BY <1>i, <1>b, SponsorsAssumption DEF LoyaltyTyped
<1>c. Rewarded \subseteq Friends /\ IsFiniteSet(Rewarded) /\ Cardinality(Rewarded) \in Nat
  BY <1>i, RewardedStep
<1>k. task \in [Workers -> LoyaltyTasks]
  BY <1>i DEF LoyaltyTyped
<1>r. Resting \in LoyaltyTasks /\ Resting.step = "idle"
  BY DEF LoyaltyTasks, Resting
<1>t. \A v \in Workers : task[v].step # "idle" =>
        /\ task[v].f \in Friends
        /\ task[v].step \in {"credit", "count"} => task[v].earned \in Nat
        /\ task[v].step \in OnTheCard => task[v].required \in CardSizes
  BY <1>i, LoyaltyFields DEF Idle
<1>l. \A g \in Friends : ToStamp(g) \in Nat /\ ToCheck(g) \in Nat /\ ToSpend(g) \in Nat
  <2>1. \A v \in Workers : task[v].step = "reward" => task[v].required \in Nat
    BY <1>k, Weights
  <2>2. ASSUME NEW g \in Friends, NEW v \in Workers
        PROVE  Stamping(g)[v] \in Nat /\ Checking(g)[v] \in Nat /\ Spending(g)[v] \in Nat
    BY <2>1 DEF Stamping, Checking, Spending
  <2> QED
    BY <2>2, SumNotNegative, LoyaltyAssumption DEF ToStamp, ToCheck, ToSpend
<1>1. ASSUME NEW n \in CardSizes, NEW active \in BOOLEAN, SetProgram(n, active)
      PROVE  LoyaltyTyped' /\ Rest'
  <2>1. /\ program' \in [active : BOOLEAN, required : CardSizes \cup {0}]
        /\ program'.required = n /\ program'.active = active
        /\ task' = task /\ befell \subseteq befell'
        /\ program.required # 0 => "reprogrammed" \in befell'
        /\ UNCHANGED <<trips, card, rewards, referral, lapsing, credits, earned>>
    <3> DEFINE p == [active |-> active, required |-> n]
    <3>1. p \in [active : BOOLEAN, required : CardSizes \cup {0}] /\ p.required = n /\ p.active = active
      OBVIOUS
    <3>2. program' = p /\ UNCHANGED <<trips, card, rewards, referral, lapsing, credits, earned>>
      BY <1>1 DEF SetProgram, stamps, referrals
    <3>3. IF program.required = 0 THEN AtOnce ELSE Befalls("reprogrammed") /\ UNCHANGED task
      BY <1>1 DEF SetProgram
    <3> HIDE DEF p
    <3>4. task' = task /\ befell \subseteq befell' /\ (program.required # 0 => "reprogrammed" \in befell')
      BY <3>3, AtOnceEffect DEF Undisturbed, Befalls
    <3> QED
      BY <3>1, <3>2, <3>4
  <2>2. LoyaltyTyped'
    BY <1>i, <2>1 DEF LoyaltyTyped
  <2>l. \A g \in Friends :
          /\ ToStamp(g) \in Nat /\ ToCheck(g) \in Nat /\ ToSpend(g) \in Nat
          /\ ToStamp(g)' = ToStamp(g) /\ ToCheck(g)' = ToCheck(g) /\ ToSpend(g)' = ToSpend(g)
    BY <1>l, <2>1 DEF ToStamp, Stamping, ToCheck, Checking, ToSpend, Spending
  <2>c. Rewarded' = Rewarded
    BY <2>1 DEF Rewarded
  <2>3. Alone'
    BY <1>i, <2>1
    DEF Alone, Apart, Idle
  <2>4. StampsFollow'
    BY <1>i, <1>n, <1>t, <2>l, <2>1
    DEF StampsFollow, OnTheCard
  <2>5. CardsFollow'
    BY <1>i, <1>n, <2>l, <2>1
    DEF CardsFollow, Spared
  <2>6. CreditsFollow'
    BY <1>i, <1>t, <1>c, <1>e, <2>c, <2>1
    DEF CreditsFollow
  <2>7. CountFollows'
    BY <1>i, <1>t, <1>e, <1>c, <2>c, <2>1
    DEF CountFollows, CreditsFollow, Alone, Apart, Idle, Spared
  <2> QED
    BY <2>2, <2>3, <2>4, <2>5, <2>6, <2>7
<1>2. ASSUME MyCode
      PROVE  LoyaltyTyped' /\ Rest'
  <2>1. /\ Undisturbed /\ earned = None /\ earned' = 0
        /\ UNCHANGED <<program, trips, card, rewards, referral, lapsing, credits>>
    <3>1. Undisturbed
      BY <1>2, AtOnceEffect DEF MyCode
    <3> QED
      BY <1>2, <1>s, <3>1 DEF MyCode, stamps, referrals, CostIs, ReferralIs
  <2>2. LoyaltyTyped'
    BY <1>i, <2>1 DEF LoyaltyTyped, Undisturbed
  <2>l. \A g \in Friends :
          /\ ToStamp(g) \in Nat /\ ToCheck(g) \in Nat /\ ToSpend(g) \in Nat
          /\ ToStamp(g)' = ToStamp(g) /\ ToCheck(g)' = ToCheck(g) /\ ToSpend(g)' = ToSpend(g)
    BY <1>l, <2>1 DEF ToStamp, Stamping, ToCheck, Checking, ToSpend, Spending, Undisturbed
  <2>c. Rewarded' = Rewarded
    BY <2>1 DEF Rewarded
  <2>3. Alone'
    BY <1>i, <2>1
    DEF Alone, Apart, Idle, Undisturbed
  <2>4. StampsFollow'
    BY <1>i, <1>n, <1>t, <2>l, <2>1
    DEF StampsFollow, OnTheCard, Undisturbed
  <2>5. CardsFollow'
    BY <1>i, <1>n, <2>l, <2>1
    DEF CardsFollow, Spared, Undisturbed
  <2>6. CreditsFollow'
    BY <1>i, <1>t, <1>c, <1>e, <2>c, <2>1
    DEF CreditsFollow, Undisturbed
  <2>7. CountFollows'
    BY <1>i, <1>t, <1>e, <1>c, <2>c, FS_EmptySet, <2>1
    DEF CountFollows, CreditsFollow, Alone, Apart, Idle, Spared, Undisturbed
  <2> QED
    BY <2>2, <2>3, <2>4, <2>5, <2>6, <2>7
<1>3. ASSUME LapseReferrals
      PROVE  LoyaltyTyped' /\ Rest'
  <2>1. /\ Undisturbed
        /\ referral' \in [Friends -> {"none", "pending", "lapsed", "converted"}]
        /\ \A g \in Friends : /\ referral'[g] = "converted" <=> referral[g] = "converted"
                              /\ referral'[g] = "none" <=> referral[g] = "none"
        /\ UNCHANGED <<program, trips, card, rewards, lapsing, credits, earned>>
    <3>1. Undisturbed
      BY <1>3, AtOnceEffect DEF LapseReferrals
    <3> DEFINE over == {f \in lapsing : referral[f] = "pending"}
    <3>2. referral' = [f \in Friends |-> IF f \in over THEN "lapsed" ELSE referral[f]]
      BY <1>3 DEF LapseReferrals
    <3>3. \A f \in over : referral[f] = "pending"
      OBVIOUS
    <3> HIDE DEF over
    <3> QED
      BY <1>3, <1>s, <3>1, <3>2, <3>3 DEF LapseReferrals, stamps
  <2>2. LoyaltyTyped'
    BY <1>i, <2>1 DEF LoyaltyTyped, Undisturbed
  <2>l. \A g \in Friends :
          /\ ToStamp(g) \in Nat /\ ToCheck(g) \in Nat /\ ToSpend(g) \in Nat
          /\ ToStamp(g)' = ToStamp(g) /\ ToCheck(g)' = ToCheck(g) /\ ToSpend(g)' = ToSpend(g)
    BY <1>l, <2>1 DEF ToStamp, Stamping, ToCheck, Checking, ToSpend, Spending, Undisturbed
  <2>c. Rewarded' = Rewarded
    BY <2>1 DEF Rewarded
  <2>3. Alone'
    BY <1>i, <2>1
    DEF Alone, Apart, Idle, Undisturbed
  <2>4. StampsFollow'
    BY <1>i, <1>n, <1>t, <2>l, <2>1
    DEF StampsFollow, OnTheCard, Undisturbed
  <2>5. CardsFollow'
    BY <1>i, <1>n, <2>l, <2>1
    DEF CardsFollow, Spared, Undisturbed
  <2>6. CreditsFollow'
    BY <1>i, <1>t, <1>c, <1>e, <2>c, <2>1
    DEF CreditsFollow, Undisturbed
  <2>7. CountFollows'
    BY <1>i, <1>t, <1>e, <1>c, <2>c, <2>1
    DEF CountFollows, CreditsFollow, Alone, Apart, Idle, Spared, Undisturbed
  <2> QED
    BY <2>2, <2>3, <2>4, <2>5, <2>6, <2>7
<1>4. ASSUME NEW f \in Friends, Redeem(f)
      PROVE  LoyaltyTyped' /\ Rest'
  <2>1. /\ Undisturbed /\ CostIs(f, rewards[f].cost)
        /\ UNCHANGED <<program, trips, card, referral, lapsing, credits, earned>>
    <3>1. Undisturbed
      BY <1>4, AtOnceEffect DEF Redeem
    <3> DEFINE r == [rewards[f] EXCEPT !.redeemed = @ + 1]
    <3>2. r \in [made : Nat, redeemed : Nat, cost : Nat] /\ r.cost = rewards[f].cost
      BY <1>s
    <3>3. rewards' = [rewards EXCEPT ![f] = r]
      BY <1>4 DEF Redeem
    <3> HIDE DEF r
    <3> QED
      BY <1>4, <1>s, <3>1, <3>2, <3>3 DEF Redeem, referrals, CostIs
  <2>2. LoyaltyTyped'
    BY <1>i, <2>1 DEF LoyaltyTyped, Undisturbed, CostIs
  <2>l. \A g \in Friends :
          /\ ToStamp(g) \in Nat /\ ToCheck(g) \in Nat /\ ToSpend(g) \in Nat
          /\ ToStamp(g)' = ToStamp(g) /\ ToCheck(g)' = ToCheck(g) /\ ToSpend(g)' = ToSpend(g)
    BY <1>l, <2>1 DEF ToStamp, Stamping, ToCheck, Checking, ToSpend, Spending, Undisturbed
  <2>c. Rewarded' = Rewarded
    BY <2>1 DEF Rewarded
  <2>3. Alone'
    BY <1>i, <2>1
    DEF Alone, Apart, Idle, Undisturbed, CostIs
  <2>4. StampsFollow'
    BY <1>i, <1>n, <1>t, <2>l, <2>1
    DEF StampsFollow, OnTheCard, Undisturbed, CostIs
  <2>5. CardsFollow'
    BY <1>i, <1>n, <2>l, <2>1
    DEF CardsFollow, Spared, Undisturbed, CostIs
  <2>6. CreditsFollow'
    BY <1>i, <1>t, <1>c, <1>e, <2>c, <2>1
    DEF CreditsFollow, Undisturbed, CostIs
  <2>7. CountFollows'
    BY <1>i, <1>t, <1>e, <1>c, <2>c, <2>1
    DEF CountFollows, CreditsFollow, Alone, Apart, Idle, Spared, Undisturbed, CostIs
  <2> QED
    BY <2>2, <2>3, <2>4, <2>5, <2>6, <2>7
<1>5. ASSUME NEW f \in Friends, ClaimReferral(f)
      PROVE  LoyaltyTyped' /\ Rest'
  <2>1. /\ Undisturbed /\ earned # None /\ referral[f] = "none" /\ ReferralIs(f, "pending")
        /\ UNCHANGED <<program, trips, card, rewards, lapsing, credits, earned>>
    <3>1. Undisturbed
      BY <1>5, AtOnceEffect DEF ClaimReferral
    <3> QED
      BY <1>5, <1>s, <3>1 DEF ClaimReferral, stamps, referrals, CostIs, ReferralIs
  <2>2. LoyaltyTyped'
    BY <1>i, <2>1 DEF LoyaltyTyped, Undisturbed, ReferralIs
  <2>l. \A g \in Friends :
          /\ ToStamp(g) \in Nat /\ ToCheck(g) \in Nat /\ ToSpend(g) \in Nat
          /\ ToStamp(g)' = ToStamp(g) /\ ToCheck(g)' = ToCheck(g) /\ ToSpend(g)' = ToSpend(g)
    BY <1>l, <2>1 DEF ToStamp, Stamping, ToCheck, Checking, ToSpend, Spending, Undisturbed
  <2>c. Rewarded' = Rewarded
    BY <2>1 DEF Rewarded
  <2>3. Alone'
    BY <1>i, <2>1
    DEF Alone, Apart, Idle, Undisturbed, ReferralIs
  <2>4. StampsFollow'
    BY <1>i, <1>n, <1>t, <2>l, <2>1
    DEF StampsFollow, OnTheCard, Undisturbed, ReferralIs
  <2>5. CardsFollow'
    BY <1>i, <1>n, <2>l, <2>1
    DEF CardsFollow, Spared, Undisturbed, ReferralIs
  <2>6. CreditsFollow'
    BY <1>i, <1>t, <1>c, <1>e, <2>c, <2>1
    DEF CreditsFollow, Undisturbed, ReferralIs
  <2>7. CountFollows'
    BY <1>i, <1>t, <1>e, <1>c, <2>c, <2>1
    DEF CountFollows, CreditsFollow, Alone, Apart, Idle, Spared, Undisturbed, ReferralIs
  <2> QED
    BY <2>2, <2>3, <2>4, <2>5, <2>6, <2>7
<1>6. ASSUME NEW f \in Friends, WindowPasses(f)
      PROVE  LoyaltyTyped' /\ Rest'
  <2>1. /\ lapsing' = lapsing \cup {f} /\ UNCHANGED <<task, befell>>
        /\ UNCHANGED <<program, trips, card, rewards, referral, credits, earned>>
    BY <1>6 DEF WindowPasses, Outside, stamps
  <2>2. LoyaltyTyped'
    BY <1>i, <2>1 DEF LoyaltyTyped
  <2>l. \A g \in Friends :
          /\ ToStamp(g) \in Nat /\ ToCheck(g) \in Nat /\ ToSpend(g) \in Nat
          /\ ToStamp(g)' = ToStamp(g) /\ ToCheck(g)' = ToCheck(g) /\ ToSpend(g)' = ToSpend(g)
    BY <1>l, <2>1 DEF ToStamp, Stamping, ToCheck, Checking, ToSpend, Spending
  <2>c. Rewarded' = Rewarded
    BY <2>1 DEF Rewarded
  <2>3. Alone'
    BY <1>i, <2>1
    DEF Alone, Apart, Idle
  <2>4. StampsFollow'
    BY <1>i, <1>n, <1>t, <2>l, <2>1
    DEF StampsFollow, OnTheCard
  <2>5. CardsFollow'
    BY <1>i, <1>n, <2>l, <2>1
    DEF CardsFollow, Spared
  <2>6. CreditsFollow'
    BY <1>i, <1>t, <1>c, <1>e, <2>c, <2>1
    DEF CreditsFollow
  <2>7. CountFollows'
    BY <1>i, <1>t, <1>e, <1>c, <2>c, <2>1
    DEF CountFollows, CreditsFollow, Alone, Apart, Idle, Spared
  <2> QED
    BY <2>2, <2>3, <2>4, <2>5, <2>6, <2>7
<1>7. ASSUME NEW w \in Workers, NEW f \in Friends, CompleteTrip(w, f)
      PROVE  LoyaltyTyped' /\ Rest'
  <2>1. /\ task' \in [Workers -> LoyaltyTasks] /\ Others(w) /\ Entered(w) /\ task'[w].f = f
        /\ IF program.active
             THEN task'[w].step = "stamp" /\ task'[w].required = program.required
             ELSE task'[w].step = "convert"
        /\ trips' \in [Friends -> [done : Nat, stamped : Nat]]
        /\ trips'[f].stamped = IF program.active THEN trips[f].stamped + 1 ELSE trips[f].stamped
        /\ \A g \in Friends \ {f} : trips'[g] = trips[g]
        /\ UNCHANGED <<program, card, rewards, referral, lapsing, credits, earned>>
    <3> DEFINE t == [step |-> IF program.active THEN "stamp" ELSE "convert", f |-> f,
                     required |-> program.required]
               r == [trips[f] EXCEPT !.done = @ + 1,
                                     !.stamped = IF program.active THEN @ + 1 ELSE @]
    <3>1. /\ t \in LoyaltyTasks /\ t.f = f /\ t.required = program.required
          /\ t.step = IF program.active THEN "stamp" ELSE "convert"
      <4>1. program.required \in CardSizes \cup {0} /\ program.active \in BOOLEAN
        BY <1>s
      <4>2. program.active => program.required \in CardSizes
        BY <1>i, <4>1 DEF CardsFollow
      <4>3. CASE program.active
        BY <4>2, <4>3 DEF LoyaltyTasks
      <4>4. CASE ~program.active
        BY <4>1, <4>4 DEF LoyaltyTasks
      <4> QED
        BY <4>3, <4>4
    <3>2. /\ r \in [done : Nat, stamped : Nat]
          /\ r.stamped = IF program.active THEN trips[f].stamped + 1 ELSE trips[f].stamped
      <4>1. trips[f] \in [done : Nat, stamped : Nat] /\ program.active \in BOOLEAN
        BY <1>s
      <4> QED
        BY <4>1, LoyaltyEdits
    <3>3. Begin(w, t) /\ trips' = [trips EXCEPT ![f] = r]
      BY <1>7 DEF CompleteTrip
    <3> HIDE DEF t, r
    <3>4. task' \in [Workers -> LoyaltyTasks] /\ task'[w] = t /\ Others(w) /\ Entered(w)
      BY <1>k, <3>1, <3>3, BeginEffect
    <3>5. /\ trips' \in [Friends -> [done : Nat, stamped : Nat]]
          /\ trips'[f].stamped = IF program.active THEN trips[f].stamped + 1 ELSE trips[f].stamped
          /\ \A g \in Friends \ {f} : trips'[g] = trips[g]
      BY <1>s, <3>2, <3>3
    <3> QED
      BY <1>7, <3>1, <3>4, <3>5 DEF CompleteTrip, stamps, referrals
  <2>2. LoyaltyTyped'
    BY <1>i, <2>1 DEF LoyaltyTyped, Entered, Others
  <2>l. \A g \in Friends :
          /\ ToStamp(g) \in Nat /\ ToCheck(g) \in Nat /\ ToSpend(g) \in Nat /\ ToCheck(g)' \in Nat
          /\ ToStamp(g)' = ToStamp(g) - (IF task[w].step = "stamp" /\ task[w].f = g THEN 1 ELSE 0)
                                      + (IF task'[w].step = "stamp" /\ task'[w].f = g THEN 1 ELSE 0)
          /\ ToCheck(g)' = ToCheck(g) - (IF task[w].step = "consume" /\ task[w].f = g THEN 1 ELSE 0)
                                      + (IF task'[w].step = "consume" /\ task'[w].f = g THEN 1 ELSE 0)
          /\ ToSpend(g)' = ToSpend(g)
               - (IF task[w].step = "reward" /\ task[w].f = g THEN task[w].required ELSE 0)
               + (IF task'[w].step = "reward" /\ task'[w].f = g THEN task'[w].required ELSE 0)
    BY <1>i, <2>1, <2>2, CardSums DEF Stamping, Checking, Spending
  <2>c. Rewarded' = Rewarded
    BY <2>1 DEF Rewarded
  <2>3. Alone'
    BY <1>i, <2>1
    DEF Alone, Apart, Idle, Entered, Others
  <2>4. StampsFollow'
    BY <1>i, <1>n, <1>t, <2>l, <2>1
    DEF StampsFollow, OnTheCard, Entered, Others
  <2>5. CardsFollow'
    BY <1>i, <1>n, <2>l, <2>1
    DEF CardsFollow, Spared, Entered, Others
  <2>6. CreditsFollow'
    BY <1>i, <1>t, <1>c, <1>e, <2>c, <2>1
    DEF CreditsFollow, Entered, Others
  <2>7. CountFollows'
    BY <1>i, <1>t, <1>e, <1>c, <2>c, <2>1
    DEF CountFollows, CreditsFollow, Alone, Apart, Idle, Spared, Entered, Others
  <2> QED
    BY <2>2, <2>3, <2>4, <2>5, <2>6, <2>7
<1>8. ASSUME NEW w \in Workers, Stamp(w)
      PROVE  LoyaltyTyped' /\ Rest'
  <2>1. /\ task' \in [Workers -> LoyaltyTasks] /\ task[w].step = "stamp" /\ Others(w) /\ befell' = befell
        /\ task[w].f \in Friends
        /\ task[w].required \in CardSizes /\ task'[w].f = task[w].f /\ task'[w].required = task[w].required
        /\ task'[w].step = IF card[task[w].f].stamps + 1 < task[w].required THEN "convert" ELSE "consume"
        /\ CardIs(task[w].f, card[task[w].f].stamps + 1, card[task[w].f].lifetime + 1)
        /\ UNCHANGED <<program, trips, rewards, referral, lapsing, credits, earned>>
    <3>0. task[w].step = "stamp" /\ ~Idle(w) /\ task[w].f \in Friends
      BY <1>8, <1>t DEF Stamp, Idle
    <3> DEFINE f == task[w].f
               s == IF card[f].stamps + 1 < task[w].required THEN "convert" ELSE "consume"
               t == [task[w] EXCEPT !.step = s]
               c == [card[f] EXCEPT !.stamps = @ + 1, !.lifetime = @ + 1]
    <3>1. t \in LoyaltyTasks /\ t.step = s /\ t.f = f /\ t.required = task[w].required
      <4>1. s \in {"consume", "reward", "convert"} /\ task[w].step \in OnTheCard
        BY <3>0 DEF OnTheCard
      <4> HIDE DEF s
      <4> QED
        BY <1>i, <3>0, <4>1, LoyaltyFields
    <3>2. /\ c \in [stamps : Nat, lifetime : Nat]
          /\ c.stamps = card[f].stamps + 1 /\ c.lifetime = card[f].lifetime + 1
      <4>1. card[f] \in [stamps : Nat, lifetime : Nat]
        BY <1>s, <3>0
      <4> QED
        BY <4>1, LoyaltyEdits
    <3>3. Becomes(w, t) /\ befell' = befell /\ card' = [card EXCEPT ![f] = c]
      BY <1>8 DEF Stamp, Goto
    <3>4. task[w].required \in CardSizes
      BY <1>t, <3>0 DEF OnTheCard
    <3> HIDE DEF t, c
    <3>5. task' \in [Workers -> LoyaltyTasks] /\ task'[w] = t /\ Others(w)
      BY <1>k, <3>1, <3>3, BecomesEffect
    <3>6. CardIs(f, card[f].stamps + 1, card[f].lifetime + 1)
      BY <1>s, <3>0, <3>2, <3>3 DEF CardIs
    <3>z. /\ task' \in [Workers -> LoyaltyTasks] /\ Others(w) /\ befell' = befell
          /\ task'[w].step = s /\ task'[w].f = f /\ task'[w].required = task[w].required
          /\ task[w].required \in CardSizes
          /\ CardIs(f, card[f].stamps + 1, card[f].lifetime + 1)
      BY <3>1, <3>3, <3>4, <3>5, <3>6
    <3> QED
      BY <1>8, <1>s, <3>0, <3>z DEF Stamp, referrals
  <2>2. LoyaltyTyped'
    BY <1>i, <2>1 DEF LoyaltyTyped, Others, CardIs
  <2>l. \A g \in Friends :
          /\ ToStamp(g) \in Nat /\ ToCheck(g) \in Nat /\ ToSpend(g) \in Nat /\ ToCheck(g)' \in Nat
          /\ ToStamp(g)' = ToStamp(g) - (IF task[w].step = "stamp" /\ task[w].f = g THEN 1 ELSE 0)
                                      + (IF task'[w].step = "stamp" /\ task'[w].f = g THEN 1 ELSE 0)
          /\ ToCheck(g)' = ToCheck(g) - (IF task[w].step = "consume" /\ task[w].f = g THEN 1 ELSE 0)
                                      + (IF task'[w].step = "consume" /\ task'[w].f = g THEN 1 ELSE 0)
          /\ ToSpend(g)' = ToSpend(g)
               - (IF task[w].step = "reward" /\ task[w].f = g THEN task[w].required ELSE 0)
               + (IF task'[w].step = "reward" /\ task'[w].f = g THEN task'[w].required ELSE 0)
    BY <1>i, <2>1, <2>2, CardSums DEF Stamping, Checking, Spending
  <2>c. Rewarded' = Rewarded
    BY <2>1 DEF Rewarded
  <2>3. Alone'
    BY <1>i, <2>1
    DEF Alone, Apart, Idle, Others, CardIs
  <2>4. StampsFollow'
    <3>1. ASSUME NEW g \in Friends
          PROVE  /\ ToSpend(g)' = ToSpend(g) /\ ToSpend(g) \in Nat /\ ToStamp(g) \in Nat
                 /\ rewards'[g] = rewards[g] /\ trips'[g] = trips[g]
                 /\ \/ /\ card'[g].stamps = card[g].stamps + 1 /\ card'[g].lifetime = card[g].lifetime + 1
                       /\ ToStamp(g)' = ToStamp(g) - 1
                    \/ card'[g] = card[g] /\ ToStamp(g)' = ToStamp(g)
      <4>1. ToSpend(g)' = ToSpend(g) /\ ToSpend(g) \in Nat /\ ToStamp(g) \in Nat
        BY <2>1, <2>l
      <4>2. rewards'[g] = rewards[g] /\ trips'[g] = trips[g]
        BY <2>1
      <4>3. CASE g = task[w].f
        BY <2>1, <2>l, <4>1, <4>2, <4>3 DEF CardIs
      <4>4. CASE g # task[w].f
        BY <2>1, <2>l, <4>1, <4>2, <4>4 DEF CardIs
      <4> QED
        BY <4>3, <4>4
    <3> QED
      BY <1>i, <1>n, <2>1, <3>1 DEF StampsFollow
  <2>5. CardsFollow'
    BY <1>i, <1>n, <2>l, <2>1
    DEF CardsFollow, Spared, Others, CardIs
  <2>6. CreditsFollow'
    BY <1>i, <1>t, <1>c, <1>e, <2>c, <2>1
    DEF CreditsFollow, Others, CardIs
  <2>7. CountFollows'
    BY <1>i, <1>t, <1>e, <1>c, <2>c, <2>1
    DEF CountFollows, CreditsFollow, Alone, Apart, Idle, Spared, Others, CardIs
  <2> QED
    BY <2>2, <2>3, <2>4, <2>5, <2>6, <2>7
<1>9. ASSUME NEW w \in Workers, Consume(w)
      PROVE  LoyaltyTyped' /\ Rest'
  <2>1. /\ task' \in [Workers -> LoyaltyTasks] /\ task[w].step = "consume" /\ Others(w) /\ befell' = befell
        /\ task[w].f \in Friends
        /\ task[w].required \in CardSizes /\ task'[w].f = task[w].f /\ task'[w].required = task[w].required
        /\ \/ /\ card[task[w].f].stamps >= task[w].required /\ task'[w].step = "reward"
              /\ CardIs(task[w].f, card[task[w].f].stamps - task[w].required, card[task[w].f].lifetime)
           \/ /\ card[task[w].f].stamps < task[w].required /\ task'[w].step = "convert"
              /\ card' = card
        /\ UNCHANGED <<program, trips, rewards, referral, lapsing, credits, earned>>
    <3>0. task[w].step = "consume" /\ ~Idle(w) /\ task[w].f \in Friends
      BY <1>9, <1>t DEF Consume, Idle
    <3> DEFINE f == task[w].f
               s == IF Full(f, task[w].required) THEN "reward" ELSE "convert"
               t == [task[w] EXCEPT !.step = s]
               c == [card[f] EXCEPT !.stamps = @ - task[w].required]
    <3>1. t \in LoyaltyTasks /\ t.step = s /\ t.f = f /\ t.required = task[w].required
      <4>1. s \in {"consume", "reward", "convert"} /\ task[w].step \in OnTheCard
        BY <3>0 DEF OnTheCard
      <4> HIDE DEF s
      <4> QED
        BY <1>i, <3>0, <4>1, LoyaltyFields
    <3>4. task[w].required \in CardSizes
      BY <1>t, <3>0 DEF OnTheCard
    <3>2. Full(f, task[w].required) =>
            /\ c \in [stamps : Nat, lifetime : Nat]
            /\ c.stamps = card[f].stamps - task[w].required /\ c.lifetime = card[f].lifetime
      BY <1>s, <1>b, <3>0, <3>4 DEF Full
    <3>3. /\ Becomes(w, t) /\ befell' = befell
          /\ IF Full(f, task[w].required) THEN card' = [card EXCEPT ![f] = c] ELSE card' = card
      BY <1>9 DEF Consume, Goto
    <3> HIDE DEF t, c
    <3>5. task' \in [Workers -> LoyaltyTasks] /\ task'[w] = t /\ Others(w)
      BY <1>k, <3>1, <3>3, BecomesEffect
    <3>6. Full(f, task[w].required) =>
            CardIs(f, card[f].stamps - task[w].required, card[f].lifetime)
      BY <1>s, <3>0, <3>2, <3>3 DEF CardIs
    <3>7. Full(f, task[w].required) <=> card[f].stamps >= task[w].required
      BY DEF Full
    <3>8. card[f].stamps \in Nat /\ task[w].required \in Nat
      BY <1>n, <3>0, <3>4
    <3>z. /\ task' \in [Workers -> LoyaltyTasks] /\ Others(w) /\ befell' = befell
          /\ task'[w].f = f /\ task'[w].required = task[w].required
          /\ task[w].required \in CardSizes
          /\ \/ /\ card[f].stamps >= task[w].required /\ task'[w].step = "reward"
                /\ CardIs(f, card[f].stamps - task[w].required, card[f].lifetime)
             \/ /\ card[f].stamps < task[w].required /\ task'[w].step = "convert"
                /\ card' = card
      BY <3>1, <3>3, <3>4, <3>5, <3>6, <3>7, <3>8
    <3> QED
      BY <1>9, <1>s, <3>0, <3>z DEF Consume, referrals
  <2>2. LoyaltyTyped'
    BY <1>i, <2>1 DEF LoyaltyTyped, Others, CardIs
  <2>l. \A g \in Friends :
          /\ ToStamp(g) \in Nat /\ ToCheck(g) \in Nat /\ ToSpend(g) \in Nat /\ ToCheck(g)' \in Nat
          /\ ToStamp(g)' = ToStamp(g) - (IF task[w].step = "stamp" /\ task[w].f = g THEN 1 ELSE 0)
                                      + (IF task'[w].step = "stamp" /\ task'[w].f = g THEN 1 ELSE 0)
          /\ ToCheck(g)' = ToCheck(g) - (IF task[w].step = "consume" /\ task[w].f = g THEN 1 ELSE 0)
                                      + (IF task'[w].step = "consume" /\ task'[w].f = g THEN 1 ELSE 0)
          /\ ToSpend(g)' = ToSpend(g)
               - (IF task[w].step = "reward" /\ task[w].f = g THEN task[w].required ELSE 0)
               + (IF task'[w].step = "reward" /\ task'[w].f = g THEN task'[w].required ELSE 0)
    BY <1>i, <2>1, <2>2, CardSums DEF Stamping, Checking, Spending
  <2>c. Rewarded' = Rewarded
    BY <2>1 DEF Rewarded
  <2>3. Alone'
    BY <1>i, <2>1
    DEF Alone, Apart, Idle, Others, CardIs
  <2>4. StampsFollow'
    BY <1>i, <1>n, <1>t, <2>l, <2>1
    DEF StampsFollow, OnTheCard, Others, CardIs
  <2>5. CardsFollow'
    <3> DEFINE f == task[w].f
    <3>1. f \in Friends /\ task[w].step = "consume" /\ card[f].stamps \in Nat
          /\ task[w].required \in Nat \ {0}
      BY <1>n, <2>1
    <3>2. program.required # 0
      BY <1>i, <3>1 DEF CardsFollow
    <3>3. "reprogrammed" \notin befell =>
            \A v \in Workers : task'[v].step \in {"stamp",
                    "consume"} => task'[v].required = program.required
      BY <1>i, <2>1 DEF CardsFollow, Others
    <3>4. ASSUME Spared({"crash", "reprogrammed"}), NEW g \in Friends
          PROVE  card'[g].stamps <= program.required - 1 + ToCheck(g)'
      <4>1. task[w].required = program.required /\ card[g].stamps <= program.required - 1 + ToCheck(g)
        BY <1>i, <1>n, <3>1, <3>2, <3>4 DEF CardsFollow, Spared
      <4>2. CASE g = f
        <5>1. ToCheck(g)' = ToCheck(g) - 1 /\ ToCheck(g) \in Nat /\ ToCheck(g)' \in Nat
          BY <2>1, <2>l, <3>1, <4>2
        <5>2. \/ card'[g].stamps = card[g].stamps - task[w].required
              \/ card[g].stamps < task[w].required /\ card'[g].stamps = card[g].stamps
          BY <2>1, <4>2 DEF CardIs
        <5> QED
          BY <1>n, <3>1, <4>1, <4>2, <5>1, <5>2
      <4>3. CASE g # f
        BY <2>1, <2>l, <4>1, <4>3 DEF CardIs
      <4> QED
        BY <4>2, <4>3
    <3> QED
      BY <2>1, <3>2, <3>3, <3>4 DEF CardsFollow, Spared
  <2>6. CreditsFollow'
    BY <1>i, <1>t, <1>c, <1>e, <2>c, <2>1
    DEF CreditsFollow, Others, CardIs
  <2>7. CountFollows'
    BY <1>i, <1>t, <1>e, <1>c, <2>c, <2>1
    DEF CountFollows, CreditsFollow, Alone, Apart, Idle, Spared, Others, CardIs
  <2> QED
    BY <2>2, <2>3, <2>4, <2>5, <2>6, <2>7
<1>10. ASSUME NEW w \in Workers, Reward(w)
      PROVE  LoyaltyTyped' /\ Rest'
  <2>1. /\ task' \in [Workers -> LoyaltyTasks] /\ task[w].step = "reward" /\ Others(w) /\ befell' = befell
        /\ task[w].f \in Friends
        /\ task[w].required \in CardSizes /\ task'[w].f = task[w].f /\ task'[w].step = "convert"
        /\ CostIs(task[w].f, rewards[task[w].f].cost + task[w].required)
        /\ UNCHANGED <<program, trips, card, referral, lapsing, credits, earned>>
    <3>0. task[w].step = "reward" /\ ~Idle(w) /\ task[w].f \in Friends
      BY <1>10, <1>t DEF Reward, Idle
    <3> DEFINE f == task[w].f
               t == [task[w] EXCEPT !.step = "convert"]
               r == [rewards[f] EXCEPT !.made = @ + 1, !.cost = @ + task[w].required]
    <3>1. t \in LoyaltyTasks /\ t.step = "convert" /\ t.f = f
      BY <1>i, <3>0, LoyaltyFields DEF OnTheCard
    <3>4. task[w].required \in CardSizes
      BY <1>t, <3>0 DEF OnTheCard
    <3>2. /\ r \in [made : Nat, redeemed : Nat, cost : Nat]
          /\ r.cost = rewards[f].cost + task[w].required
      <4>1. rewards[f] \in [made : Nat, redeemed : Nat, cost : Nat] /\ task[w].required \in Nat
        BY <1>s, <1>b, <3>0, <3>4
      <4> QED
        BY <4>1, LoyaltyEdits
    <3>3. Becomes(w, t) /\ befell' = befell /\ rewards' = [rewards EXCEPT ![f] = r]
      BY <1>10 DEF Reward, Goto
    <3> HIDE DEF t, r
    <3>5. task' \in [Workers -> LoyaltyTasks] /\ task'[w] = t /\ Others(w)
      BY <1>k, <3>1, <3>3, BecomesEffect
    <3>6. CostIs(f, rewards[f].cost + task[w].required)
      BY <1>s, <3>0, <3>2, <3>3 DEF CostIs
    <3>z. /\ task' \in [Workers -> LoyaltyTasks] /\ Others(w) /\ befell' = befell
          /\ task'[w].step = "convert" /\ task'[w].f = f /\ task[w].required \in CardSizes
          /\ CostIs(f, rewards[f].cost + task[w].required)
      BY <3>1, <3>3, <3>4, <3>5, <3>6
    <3> QED
      BY <1>10, <1>s, <3>0, <3>z DEF Reward, referrals
  <2>2. LoyaltyTyped'
    BY <1>i, <2>1 DEF LoyaltyTyped, Others, CostIs
  <2>l. \A g \in Friends :
          /\ ToStamp(g) \in Nat /\ ToCheck(g) \in Nat /\ ToSpend(g) \in Nat /\ ToCheck(g)' \in Nat
          /\ ToStamp(g)' = ToStamp(g) - (IF task[w].step = "stamp" /\ task[w].f = g THEN 1 ELSE 0)
                                      + (IF task'[w].step = "stamp" /\ task'[w].f = g THEN 1 ELSE 0)
          /\ ToCheck(g)' = ToCheck(g) - (IF task[w].step = "consume" /\ task[w].f = g THEN 1 ELSE 0)
                                      + (IF task'[w].step = "consume" /\ task'[w].f = g THEN 1 ELSE 0)
          /\ ToSpend(g)' = ToSpend(g)
               - (IF task[w].step = "reward" /\ task[w].f = g THEN task[w].required ELSE 0)
               + (IF task'[w].step = "reward" /\ task'[w].f = g THEN task'[w].required ELSE 0)
    BY <1>i, <2>1, <2>2, CardSums DEF Stamping, Checking, Spending
  <2>c. Rewarded' = Rewarded
    BY <2>1 DEF Rewarded
  <2>3. Alone'
    BY <1>i, <2>1
    DEF Alone, Apart, Idle, Others, CostIs
  <2>4. StampsFollow'
    <3>1. ASSUME NEW g \in Friends
          PROVE  /\ card'[g] = card[g] /\ rewards'[g].cost + ToSpend(g)' = rewards[g].cost + ToSpend(g)
                 /\ ToStamp(g)' = ToStamp(g) /\ trips'[g] = trips[g]
      <4>1. task[w].required \in Nat /\ ToSpend(g) \in Nat /\ ToStamp(g) \in Nat /\ rewards[g].cost \in Nat
        BY <1>n, <2>1, <2>l
      <4>2. ToStamp(g)' = ToStamp(g) /\ card'[g] = card[g] /\ trips'[g] = trips[g]
        BY <2>1, <2>l, <4>1
      <4>3. CASE g = task[w].f
        <5>1. ToSpend(g)' = ToSpend(g) - task[w].required
          BY <2>1, <2>l, <4>1, <4>3
        <5>2. rewards'[g].cost = rewards[g].cost + task[w].required
          BY <2>1, <4>3 DEF CostIs
        <5> QED
          BY <4>1, <4>2, <5>1, <5>2
      <4>4. CASE g # task[w].f
        BY <2>1, <2>l, <4>1, <4>2, <4>4 DEF CostIs
      <4> QED
        BY <4>3, <4>4
    <3>2. ASSUME NEW g \in Friends
          PROVE  /\ rewards'[g].cost \in Nat /\ ToSpend(g) \in Nat /\ ToSpend(g)' \in Int
                 /\ rewards[g].cost \in Nat /\ card[g].stamps \in Nat /\ card[g].lifetime \in Nat
      <4>1. rewards'[g] \in [made : Nat, redeemed : Nat, cost : Nat]
        BY <2>1 DEF CostIs
      <4>2. ToSpend(g)' \in Int
        <5>1. task[w].required \in Nat
          BY <1>b, <2>1
        <5> QED
          BY <2>1, <2>l, <5>1
      <4> QED
        BY <1>n, <2>l, <4>1, <4>2
    <3> QED
      BY <1>i, <2>1, <3>1, <3>2 DEF StampsFollow
  <2>5. CardsFollow'
    BY <1>i, <1>n, <2>l, <2>1
    DEF CardsFollow, Spared, Others, CostIs
  <2>6. CreditsFollow'
    BY <1>i, <1>t, <1>c, <1>e, <2>c, <2>1
    DEF CreditsFollow, Others, CostIs
  <2>7. CountFollows'
    BY <1>i, <1>t, <1>e, <1>c, <2>c, <2>1
    DEF CountFollows, CreditsFollow, Alone, Apart, Idle, Spared, Others, CostIs
  <2> QED
    BY <2>2, <2>3, <2>4, <2>5, <2>6, <2>7
<1>11. ASSUME NEW w \in Workers, Convert(w)
      PROVE  LoyaltyTyped' /\ Rest'
  <2>1. /\ task' \in [Workers -> LoyaltyTasks] /\ task[w].step = "convert" /\ Others(w) /\ befell' = befell
        /\ task[w].f \in Friends
        /\ \/ /\ referral[task[w].f] = "pending" /\ ReferralIs(task[w].f, "converted")
              /\ task'[w].step = "capped" /\ task'[w].f = task[w].f
           \/ task'[w].step = "idle" /\ referral' = referral
        /\ UNCHANGED <<program, trips, card, rewards, lapsing, credits, earned>>
    <3>0. task[w].step = "convert" /\ ~Idle(w) /\ task[w].f \in Friends
      BY <1>11, <1>t DEF Convert, Idle
    <3> DEFINE f == task[w].f
               t == IF referral[f] = "pending" /\ f \notin lapsing
                      THEN [task[w] EXCEPT !.step = "capped"] ELSE Resting
    <3>1. /\ t \in LoyaltyTasks
          /\ IF referral[f] = "pending" /\ f \notin lapsing
               THEN t.step = "capped" /\ t.f = f ELSE t.step = "idle"
      BY <1>i, <1>r, <3>0, LoyaltyFields
    <3>3. /\ Becomes(w, t) /\ befell' = befell
          /\ IF referral[f] = "pending" /\ f \notin lapsing
               THEN referral' = [referral EXCEPT ![f] = "converted"] ELSE referral' = referral
      BY <1>11 DEF Convert, Goto, Finish
    <3> HIDE DEF t
    <3>5. task' \in [Workers -> LoyaltyTasks] /\ task'[w] = t /\ Others(w)
      BY <1>k, <3>1, <3>3, BecomesEffect
    <3>z. /\ task' \in [Workers -> LoyaltyTasks] /\ Others(w) /\ befell' = befell
          /\ \/ /\ referral[f] = "pending" /\ ReferralIs(f, "converted")
                /\ task'[w].step = "capped" /\ task'[w].f = f
             \/ task'[w].step = "idle" /\ referral' = referral
      <4>1. CASE referral[f] = "pending" /\ f \notin lapsing
        <5>1. ReferralIs(f, "converted")
          BY <1>s, <3>0, <3>3, <4>1 DEF ReferralIs
        <5> QED
          BY <3>1, <3>3, <3>5, <4>1, <5>1
      <4>2. CASE ~(referral[f] = "pending" /\ f \notin lapsing)
        BY <3>1, <3>3, <3>5, <4>2
      <4> QED
        BY <4>1, <4>2
    <3> QED
      BY <1>11, <1>s, <3>0, <3>z DEF Convert, stamps
  <2>2. LoyaltyTyped'
    BY <1>i, <2>1 DEF LoyaltyTyped, Others, ReferralIs
  <2>l. \A g \in Friends :
          /\ ToStamp(g) \in Nat /\ ToCheck(g) \in Nat /\ ToSpend(g) \in Nat /\ ToCheck(g)' \in Nat
          /\ ToStamp(g)' = ToStamp(g) - (IF task[w].step = "stamp" /\ task[w].f = g THEN 1 ELSE 0)
                                      + (IF task'[w].step = "stamp" /\ task'[w].f = g THEN 1 ELSE 0)
          /\ ToCheck(g)' = ToCheck(g) - (IF task[w].step = "consume" /\ task[w].f = g THEN 1 ELSE 0)
                                      + (IF task'[w].step = "consume" /\ task'[w].f = g THEN 1 ELSE 0)
          /\ ToSpend(g)' = ToSpend(g)
               - (IF task[w].step = "reward" /\ task[w].f = g THEN task[w].required ELSE 0)
               + (IF task'[w].step = "reward" /\ task'[w].f = g THEN task'[w].required ELSE 0)
    BY <1>i, <2>1, <2>2, CardSums DEF Stamping, Checking, Spending
  <2>c. Rewarded' = Rewarded
    BY <2>1 DEF Rewarded
  <2>3. Alone'
    BY <1>i, <2>1
    DEF Alone, Apart, Idle, Others, ReferralIs
  <2>4. StampsFollow'
    BY <1>i, <1>n, <1>t, <2>l, <2>1
    DEF StampsFollow, OnTheCard, Others, ReferralIs
  <2>5. CardsFollow'
    BY <1>i, <1>n, <2>l, <2>1
    DEF CardsFollow, Spared, Others, ReferralIs
  <2>6. CreditsFollow'
    BY <1>i, <1>t, <1>c, <1>e, <2>c, <2>1
    DEF CreditsFollow, Others, ReferralIs
  <2>7. CountFollows'
    BY <1>i, <1>t, <1>e, <1>c, <2>c, <2>1
    DEF CountFollows, CreditsFollow, Alone, Apart, Idle, Spared, Others, ReferralIs
  <2> QED
    BY <2>2, <2>3, <2>4, <2>5, <2>6, <2>7
<1>12. ASSUME NEW w \in Workers, CapRead(w)
      PROVE  LoyaltyTyped' /\ Rest'
  <2>1. /\ task' \in [Workers -> LoyaltyTasks] /\ task[w].step = "capped" /\ Others(w) /\ befell' = befell
        /\ task[w].f \in Friends
        /\ \/ earned >= LifetimeCap /\ task'[w].step = "idle"
           \/ /\ ~(earned >= LifetimeCap) /\ earned \in Nat
              /\ task'[w].step = "credit" /\ task'[w].f = task[w].f /\ task'[w].earned = earned
        /\ UNCHANGED <<program, trips, card, rewards, referral, lapsing, credits, earned>>
    <3>0. task[w].step = "capped" /\ ~Idle(w) /\ task[w].f \in Friends
      BY <1>12, <1>t DEF CapRead, Idle
    <3> DEFINE f == task[w].f
               t == IF earned >= LifetimeCap THEN Resting
                      ELSE [step |-> "credit", f |-> f, earned |-> earned]
    <3>1. earned \in Nat
      BY <1>i, <1>e, <3>0 DEF CreditsFollow
    <3>2. /\ t \in LoyaltyTasks
          /\ IF earned >= LifetimeCap THEN t.step = "idle"
               ELSE t.step = "credit" /\ t.f = f /\ t.earned = earned
      BY <1>r, <3>0, <3>1 DEF LoyaltyTasks
    <3>3. Becomes(w, t) /\ befell' = befell
      BY <1>12 DEF CapRead, Finish
    <3> HIDE DEF t
    <3>5. task' \in [Workers -> LoyaltyTasks] /\ task'[w] = t /\ Others(w)
      BY <1>k, <3>2, <3>3, BecomesEffect
    <3>z. /\ task' \in [Workers -> LoyaltyTasks] /\ Others(w) /\ befell' = befell /\ earned \in Nat
          /\ IF earned >= LifetimeCap THEN task'[w].step = "idle"
               ELSE task'[w].step = "credit" /\ task'[w].f = f /\ task'[w].earned = earned
      BY <3>1, <3>2, <3>3, <3>5
    <3> QED
      BY <1>12, <1>s, <3>0, <3>z DEF CapRead, stamps, referrals
  <2>2. LoyaltyTyped'
    BY <1>i, <2>1 DEF LoyaltyTyped, Others
  <2>l. \A g \in Friends :
          /\ ToStamp(g) \in Nat /\ ToCheck(g) \in Nat /\ ToSpend(g) \in Nat /\ ToCheck(g)' \in Nat
          /\ ToStamp(g)' = ToStamp(g) - (IF task[w].step = "stamp" /\ task[w].f = g THEN 1 ELSE 0)
                                      + (IF task'[w].step = "stamp" /\ task'[w].f = g THEN 1 ELSE 0)
          /\ ToCheck(g)' = ToCheck(g) - (IF task[w].step = "consume" /\ task[w].f = g THEN 1 ELSE 0)
                                      + (IF task'[w].step = "consume" /\ task'[w].f = g THEN 1 ELSE 0)
          /\ ToSpend(g)' = ToSpend(g)
               - (IF task[w].step = "reward" /\ task[w].f = g THEN task[w].required ELSE 0)
               + (IF task'[w].step = "reward" /\ task'[w].f = g THEN task'[w].required ELSE 0)
    BY <1>i, <2>1, <2>2, CardSums DEF Stamping, Checking, Spending
  <2>c. Rewarded' = Rewarded
    BY <2>1 DEF Rewarded
  <2>3. Alone'
    BY <1>i, <2>1
    DEF Alone, Apart, Idle, Others
  <2>4. StampsFollow'
    BY <1>i, <1>n, <1>t, <2>l, <2>1
    DEF StampsFollow, OnTheCard, Others
  <2>5. CardsFollow'
    BY <1>i, <1>n, <2>l, <2>1
    DEF CardsFollow, Spared, Others
  <2>6. CreditsFollow'
    BY <1>i, <1>t, <1>c, <1>e, <2>c, <2>1
    DEF CreditsFollow, Others
  <2>7. CountFollows'
    BY <1>i, <1>t, <1>e, <1>c, <2>c, <2>1
    DEF CountFollows, CreditsFollow, Alone, Apart, Idle, Spared, Others
  <2> QED
    BY <2>2, <2>3, <2>4, <2>5, <2>6, <2>7
<1>13. ASSUME NEW w \in Workers, Credit(w)
      PROVE  LoyaltyTyped' /\ Rest'
  <2>1. /\ task' \in [Workers -> LoyaltyTasks] /\ task[w].step = "credit" /\ Others(w) /\ befell' = befell
        /\ task[w].f \in Friends
        /\ task'[w].f = task[w].f /\ task'[w].earned = task[w].earned
        /\ task'[w].step = IF task[w].f \in Rewarded THEN "count" ELSE "credit"
        /\ credits' \subseteq Friends \X {"referrer", "friend"}
        /\ credits' = credits \cup {<<task[w].f, IF task[w].f \in Rewarded THEN "friend" ELSE "referrer">>}
        /\ UNCHANGED <<program, trips, card, rewards, referral, lapsing, earned>>
    <3>0. task[w].step = "credit" /\ ~Idle(w) /\ task[w].f \in Friends
      BY <1>13, <1>t DEF Credit, Idle
    <3> DEFINE f == task[w].f
               next == IF f \in Rewarded THEN "friend" ELSE "referrer"
               s == IF f \in Rewarded THEN "count" ELSE "credit"
               t == [task[w] EXCEPT !.step = s]
    <3>1. t \in LoyaltyTasks /\ t.step = s /\ t.f = f /\ t.earned = task[w].earned
      <4>1. s \in {"credit", "count"}
        OBVIOUS
      <4> HIDE DEF s
      <4> QED
        BY <1>i, <3>0, <4>1, LoyaltyFields
    <3>2. <<f, "referrer">> \in credits <=> f \in Rewarded
      BY <3>0 DEF Rewarded
    <3>3. Becomes(w, t) /\ befell' = befell /\ credits' = credits \cup {<<f, next>>}
      BY <1>13, <3>2 DEF Credit, Goto
    <3>4. credits' \subseteq Friends \X {"referrer", "friend"}
      BY <1>i, <3>0, <3>3 DEF LoyaltyTyped
    <3> HIDE DEF t
    <3>5. task' \in [Workers -> LoyaltyTasks] /\ task'[w] = t /\ Others(w)
      BY <1>k, <3>1, <3>3, BecomesEffect
    <3>z. /\ task' \in [Workers -> LoyaltyTasks] /\ Others(w) /\ befell' = befell
          /\ task'[w].step = s /\ task'[w].f = f /\ task'[w].earned = task[w].earned
          /\ credits' \subseteq Friends \X {"referrer", "friend"}
          /\ credits' = credits \cup {<<f, next>>}
      BY <3>1, <3>3, <3>4, <3>5
    <3> QED
      BY <1>13, <1>s, <3>0, <3>z DEF Credit, stamps
  <2>2. LoyaltyTyped'
    BY <1>i, <2>1 DEF LoyaltyTyped, Others
  <2>l. \A g \in Friends :
          /\ ToStamp(g) \in Nat /\ ToCheck(g) \in Nat /\ ToSpend(g) \in Nat /\ ToCheck(g)' \in Nat
          /\ ToStamp(g)' = ToStamp(g) - (IF task[w].step = "stamp" /\ task[w].f = g THEN 1 ELSE 0)
                                      + (IF task'[w].step = "stamp" /\ task'[w].f = g THEN 1 ELSE 0)
          /\ ToCheck(g)' = ToCheck(g) - (IF task[w].step = "consume" /\ task[w].f = g THEN 1 ELSE 0)
                                      + (IF task'[w].step = "consume" /\ task'[w].f = g THEN 1 ELSE 0)
          /\ ToSpend(g)' = ToSpend(g)
               - (IF task[w].step = "reward" /\ task[w].f = g THEN task[w].required ELSE 0)
               + (IF task'[w].step = "reward" /\ task'[w].f = g THEN task'[w].required ELSE 0)
    BY <1>i, <2>1, <2>2, CardSums DEF Stamping, Checking, Spending
  <2>c. /\ task[w].f \in Rewarded => Rewarded' = Rewarded
        /\ task[w].f \notin Rewarded =>
             Rewarded' = Rewarded \cup {task[w].f} /\ Cardinality(Rewarded') = Cardinality(Rewarded) + 1
    <3>1. Rewarded' = Rewarded \cup (IF task[w].f \in Rewarded THEN {} ELSE {task[w].f})
      BY <2>1 DEF Rewarded
    <3> QED
      BY <1>i, <2>1, <3>1, RewardedStep
  <2>3. Alone'
    BY <1>i, <2>1
    DEF Alone, Apart, Idle, Others
  <2>4. StampsFollow'
    BY <1>i, <1>n, <1>t, <2>l, <2>1
    DEF StampsFollow, OnTheCard, Others
  <2>5. CardsFollow'
    BY <1>i, <1>n, <2>l, <2>1
    DEF CardsFollow, Spared, Others
  <2>6. CreditsFollow'
    BY <1>i, <1>t, <1>c, <1>e, <2>c, <2>1
    DEF CreditsFollow, Others
  <2>7. CountFollows'
    BY <1>i, <1>t, <1>e, <1>c, <2>c, <2>1
    DEF CountFollows, CreditsFollow, Alone, Apart, Idle, Spared, Others
  <2> QED
    BY <2>2, <2>3, <2>4, <2>5, <2>6, <2>7
<1>14. ASSUME NEW w \in Workers, Count(w)
      PROVE  LoyaltyTyped' /\ Rest'
  <2>1. /\ task' \in [Workers -> LoyaltyTasks] /\ task[w].step = "count" /\ Others(w) /\ befell' = befell
        /\ task[w].f \in Friends
        /\ task'[w].step = "idle" /\ task[w].earned \in Nat /\ earned' = task[w].earned + 1
        /\ UNCHANGED <<program, trips, card, rewards, referral, lapsing, credits>>
    <3>0. task[w].step = "count" /\ ~Idle(w) /\ task[w].f \in Friends
      BY <1>14, <1>t DEF Count, Idle
    <3>3. Becomes(w, Resting) /\ befell' = befell
      BY <1>14 DEF Count, Finish
    <3>z. /\ task' \in [Workers -> LoyaltyTasks] /\ task'[w].step = "idle" /\ Others(w) /\ befell' = befell
          /\ task[w].earned \in Nat
      BY <1>k, <1>r, <1>t, <3>0, <3>3, BecomesEffect
    <3> QED
      BY <1>14, <1>s, <3>0, <3>z DEF Count, stamps
  <2>2. LoyaltyTyped'
    BY <1>i, <2>1 DEF LoyaltyTyped, Others
  <2>l. \A g \in Friends :
          /\ ToStamp(g) \in Nat /\ ToCheck(g) \in Nat /\ ToSpend(g) \in Nat /\ ToCheck(g)' \in Nat
          /\ ToStamp(g)' = ToStamp(g) - (IF task[w].step = "stamp" /\ task[w].f = g THEN 1 ELSE 0)
                                      + (IF task'[w].step = "stamp" /\ task'[w].f = g THEN 1 ELSE 0)
          /\ ToCheck(g)' = ToCheck(g) - (IF task[w].step = "consume" /\ task[w].f = g THEN 1 ELSE 0)
                                      + (IF task'[w].step = "consume" /\ task'[w].f = g THEN 1 ELSE 0)
          /\ ToSpend(g)' = ToSpend(g)
               - (IF task[w].step = "reward" /\ task[w].f = g THEN task[w].required ELSE 0)
               + (IF task'[w].step = "reward" /\ task'[w].f = g THEN task'[w].required ELSE 0)
    BY <1>i, <2>1, <2>2, CardSums DEF Stamping, Checking, Spending
  <2>c. Rewarded' = Rewarded
    BY <2>1 DEF Rewarded
  <2>3. Alone'
    BY <1>i, <2>1
    DEF Alone, Apart, Idle, Others
  <2>4. StampsFollow'
    BY <1>i, <1>n, <1>t, <2>l, <2>1
    DEF StampsFollow, OnTheCard, Others
  <2>5. CardsFollow'
    BY <1>i, <1>n, <2>l, <2>1
    DEF CardsFollow, Spared, Others
  <2>6. CreditsFollow'
    BY <1>i, <1>t, <1>c, <1>e, <2>c, <2>1
    DEF CreditsFollow, Others
  <2>7. CountFollows'
    BY <1>i, <1>t, <1>e, <1>c, <2>c, <2>1
    DEF CountFollows, CreditsFollow, Alone, Apart, Idle, Spared, Others
  <2> QED
    BY <2>2, <2>3, <2>4, <2>5, <2>6, <2>7
<1>15. ASSUME NEW w \in Workers, LoyaltyHandlerDies(w)
      PROVE  LoyaltyTyped' /\ Rest'
  <2>1. /\ task' \in [Workers -> LoyaltyTasks] /\ task'[w].step = "idle" /\ Others(w)
        /\ task[w].step # "idle"
        /\ befell \subseteq befell' /\ "crash" \in befell'
        /\ UNCHANGED <<program, trips, card, rewards, referral, lapsing, credits, earned>>
    <3>1. task' \in [Workers -> LoyaltyTasks] /\ task'[w].step = "idle" /\ Others(w)
      BY <1>15, <1>k, <1>r, BecomesEffect DEF LoyaltyHandlerDies, Dies, FinishAfter
    <3> QED
      BY <1>15, <3>1 DEF LoyaltyHandlerDies, Dies, FinishAfter, Befalls, Idle, stamps, referrals
  <2>2. LoyaltyTyped'
    BY <1>i, <2>1 DEF LoyaltyTyped, Others
  <2>l. \A g \in Friends :
          /\ ToStamp(g) \in Nat /\ ToCheck(g) \in Nat /\ ToSpend(g) \in Nat /\ ToCheck(g)' \in Nat
          /\ ToStamp(g)' = ToStamp(g) - (IF task[w].step = "stamp" /\ task[w].f = g THEN 1 ELSE 0)
                                      + (IF task'[w].step = "stamp" /\ task'[w].f = g THEN 1 ELSE 0)
          /\ ToCheck(g)' = ToCheck(g) - (IF task[w].step = "consume" /\ task[w].f = g THEN 1 ELSE 0)
                                      + (IF task'[w].step = "consume" /\ task'[w].f = g THEN 1 ELSE 0)
          /\ ToSpend(g)' = ToSpend(g)
               - (IF task[w].step = "reward" /\ task[w].f = g THEN task[w].required ELSE 0)
               + (IF task'[w].step = "reward" /\ task'[w].f = g THEN task'[w].required ELSE 0)
    BY <1>i, <2>1, <2>2, CardSums DEF Stamping, Checking, Spending
  <2>c. Rewarded' = Rewarded
    BY <2>1 DEF Rewarded
  <2>3. Alone'
    BY <1>i, <2>1
    DEF Alone, Apart, Idle, Others
  <2>4. StampsFollow'
    <3>1. ASSUME NEW g \in Friends
          PROVE  ToSpend(g)' <= ToSpend(g) /\ ToSpend(g) \in Nat /\ ToSpend(g)' \in Int
      <4>1. task[w].step = "reward" => task[w].required \in Nat
        BY <1>t, <1>b DEF OnTheCard
      <4> QED
        BY <2>1, <2>l, <4>1
    <3> QED
      BY <1>i, <1>n, <2>1, <3>1 DEF StampsFollow
  <2>5. CardsFollow'
    BY <1>i, <1>n, <2>l, <2>1
    DEF CardsFollow, Spared, Others
  <2>6. CreditsFollow'
    BY <1>i, <1>t, <1>c, <1>e, <2>c, <2>1
    DEF CreditsFollow, Others
  <2>7. CountFollows'
    BY <1>i, <1>t, <1>e, <1>c, <2>c, <2>1
    DEF CountFollows, CreditsFollow, Alone, Apart, Idle, Spared, Others
  <2> QED
    BY <2>2, <2>3, <2>4, <2>5, <2>6, <2>7
<1> QED
  BY <1>1, <1>2, <1>3, <1>4, <1>5, <1>6, <1>7, <1>8, <1>9, <1>10, <1>11, <1>12, <1>13, <1>14,
     <1>15 DEF LoyaltyNext, LoyaltyIInv

(***************************************************************************)
(* A plan and the subscriptions it is paid by.                             *)
(***************************************************************************)

Standings == {"none", "incomplete", "incomplete_expired", "active", "past_due", "canceled"}

Dates == {"never", "recent", "old"}

Plans == [status : Standings, sub : Keys \cup {None}, created : Dates, activated : Dates]

SubscriptionTasks ==
  {Resting}
    \cup [step : {"sub_create", "sub_row"}, k : Keys]
    \cup [step : {"confirm", "apply_read", "apply"}, k : Keys, status : Standings]
    \cup [step : {"cancel"}]
    \cup [step : {"loss"}, l : Losses, cover : {c \in Int : c <= Liability}, waited : BOOLEAN]
    \cup [step : {"loss_debt"}, l : Losses, waited : BOOLEAN, rest : Nat]

SubscriptionsTyped ==
  /\ row \in Plans
  /\ held \in [Keys -> Standings]
  /\ since \in [Keys -> Dates]
  /\ shown \subseteq Keys
  /\ events \in [Keys -> Seq(Standings)]
  /\ waived \in [Losses -> Nat \cup {None}]
  /\ owed \in [Losses -> Nat \cup {None}]
  /\ task \in [Workers -> SubscriptionTasks]

\* What Stripe is about to tell of subscription k: whether nothing, what, and what last.
Quiet(k) == events[k] = <<>>
Coming(k) == {events[k][i] : i \in 1..Len(events[k])}
Latest(k) == events[k][Len(events[k])]

Subscribes(w) == task[w].step \in {"sub_create", "sub_row"}

\* The handler brings news of a subscription for the row.
Brings(w) == task[w].step \in {"confirm", "apply_read", "apply"}

\* What is active was paid for, what was never paid has no date, of what was never created there is
\* nothing to tell, and what is over stays over.
HeldFollows ==
  /\ \A k \in Keys : IF held[k] \in {"none", "incomplete", "incomplete_expired"}
                       THEN since[k] = "never"
                       ELSE held[k] \in {"active", "past_due"} => since[k] # "never"
  /\ \A k \in Keys : held[k] = "none" => Quiet(k)
  /\ \A k \in Keys : "canceled" \in Coming(k) => held[k] = "canceled"
  /\ \A w \in Workers : Brings(w) /\ task[w].status = "canceled" => held[task[w].k] = "canceled"
  /\ \A w \in Workers : task[w].step = "confirm" /\ task[w].status = "active" =>
       since[task[w].k] # "never"
  /\ row.sub = None => row.status = "none" /\ row.activated = "never"
  /\ \A w \in Workers : task[w].step = "cancel" => row.sub # None

\* Unless somebody subscribes anew beside it, or handlers overlap, one subscription is alive.
OneAlive ==
  Spared({"again", "overlap"}) =>
    /\ \A j, k \in Alive : j = k
    /\ \A w \in Workers : Subscribes(w) => Alive \subseteq {task[w].k}

\* Unless handlers overlap, what a handler writes to the row is about the row's subscription, and
\* who cancels it has done so at Stripe.
RowFollows ==
  Apart =>
    /\ \A w \in Workers : task[w].step \in {"confirm", "apply"} => row.sub = task[w].k
    /\ \A w \in Workers : task[w].step = "cancel" => held[row.sub] = "canceled"
    /\ row.status = "canceled" => held[row.sub] = "canceled"

Astray == {"lost", "reordered", "again", "overlap", "crash"}

\* When nothing goes astray, the subscription that is alive is the row's, or about to be; the last
\* of a subscription's events tells its standing, and so does what a handler brings when there is
\* none left; and the row is active with it then, unless a handler is about to say.
StandingFollows ==
  Spared(Astray) =>
    /\ \A k \in Alive : row.sub = k \/ \E w \in Workers : task[w].step = "sub_row" /\ task[w].k = k
    /\ \A k \in Keys : ~Quiet(k) => Latest(k) = held[k]
    /\ \A w \in Workers : \A k \in Keys :
         /\ Brings(w) /\ task[w].k = k /\ Quiet(k) => task[w].status = held[k]
         /\ Subscribes(w) /\ task[w].k = k /\ Quiet(k) => held[k] # "active"
    /\ \A w \in Workers : \A k \in Keys : task[w].step = "cancel" /\ row.sub = k => ~Quiet(k)
    /\ \A k \in Keys : row.sub = k /\ Quiet(k) =>
         \/ row.status = "active" <=> held[k] = "active"
         \/ \E w \in Workers : Brings(w) /\ task[w].k = k

Loses(w) == task[w].step \in {"loss", "loss_debt"}

\* As long as it is the same subscription, the plan's date is no older than its first payment.
DatesFollow ==
  Spared({"again", "resubscribed", "unconfirmed", "overlap"}) =>
    /\ \A w \in Workers : Subscribes(w) => row.sub \in {task[w].k, None}
    /\ row.activated = "recent" => since[row.sub] # "never"
    /\ row.activated = "old" => since[row.sub] = "old"
    /\ \A w \in Workers : Loses(w) => task[w].waited

\* Unless handlers overlap, what a handler is about to waive is within what the cap leaves.
WaiverFollows ==
  Apart =>
    /\ Used <= PeriodCap
    /\ \A w \in Workers : task[w].step = "loss" => task[w].cover <= PeriodCap - Used

\* A loss is one handler's, and what it did not waive it will record as owed.
DebtFollows ==
  /\ \A w \in Workers : Loses(w) => owed[task[w].l] = None
  /\ \A v, w \in Workers : Loses(v) /\ Loses(w) /\ task[v].l = task[w].l => v = w
  /\ "crash" \notin befell =>
       /\ \A w \in Workers : task[w].step = "loss" => waived[task[w].l] = None
       /\ \A w \in Workers : task[w].step = "loss_debt" =>
            task[w].rest + Waiver[task[w].l] = Liability
       /\ \A l \in Losses : owed[l] # None => owed[l] + Waiver[l] = Liability
       /\ \A l \in Losses : waived[l] # None =>
            \/ owed[l] # None
            \/ \E w \in Workers : task[w].step = "loss_debt" /\ task[w].l = l

SubscriptionsIInv ==
  /\ SubscriptionsTyped /\ Alone /\ HeldFollows /\ OneAlive /\ RowFollows /\ StandingFollows
  /\ DatesFollow /\ WaiverFollows /\ DebtFollows

\* The row gets this status, this subscription and this date of activation.
PlanIs(s, k, a) == row' \in Plans /\ row'.status = s /\ row'.sub = k /\ row'.activated = a

\* Stripe holds this of subscription k; the others stay.
HeldIs(k, s) ==
  /\ held' \in [Keys -> Standings] /\ held'[k] = s
  /\ \A j \in Keys \ {k} : held'[j] = held[j]

\* What is about to be told of the subscriptions other than k stays.
OthersTold(k) ==
  /\ events' \in [Keys -> Seq(Standings)]
  /\ \A j \in Keys \ {k} : (Quiet(j)' <=> Quiet(j)) /\ Latest(j)' = Latest(j) /\ Coming(j)' = Coming(j)

\* Stripe will tell s of subscription k, after what it is about to tell.
WillTell(k, s) ==
  OthersTold(k) /\ ~Quiet(k)' /\ Latest(k)' = s /\ Coming(k)' = Coming(k) \cup {s}

\* Nothing changes in what it will tell.
SameTold ==
  \A j \in Keys : (Quiet(j)' <=> Quiet(j)) /\ Latest(j)' = Latest(j) /\ Coming(j)' = Coming(j)

\* Beginning a handler in circumstances that are a mishap.
LEMMA BeginAmidEffect ==
  ASSUME NEW T, task \in [Workers -> T], NEW w \in Workers, NEW t \in T, NEW m, BeginAmid(w, t, m)
  PROVE  task' \in [Workers -> T] /\ task'[w] = t /\ Others(w) /\ Entered(w) /\ m \in befell'
BY DEF BeginAmid, Idle, Others, Entered

\* What telling one thing more changes.
LEMMA Telling ==
  ASSUME SubscriptionsTyped, NEW k \in Keys, NEW s \in Standings,
         events' = [events EXCEPT ![k] = Append(@, s)]
  PROVE  WillTell(k, s)
<1>1. events \in [Keys -> Seq(Standings)]
  BY DEF SubscriptionsTyped
<1>2. events[k] \in Seq(Standings) /\ events'[k] = Append(events[k], s)
  BY <1>1
<1>3. \A j \in Keys \ {k} : events'[j] = events[j]
  BY <1>1
<1>4. OthersTold(k)
  BY <1>1, <1>2, <1>3 DEF OthersTold, Quiet, Latest, Coming
<1> DEFINE e == events[k]
           n == Len(e)
<1>5. n \in Nat /\ Len(Append(e, s)) = n + 1 /\ Append(e, s)[n + 1] = s
      /\ \A i \in 1..n : Append(e, s)[i] = e[i]
  BY <1>2
<1>6. ~Quiet(k)' /\ Latest(k)' = s
  BY <1>2, <1>5 DEF Quiet, Latest
<1>7. {Append(e, s)[i] : i \in 1..(n + 1)} = {e[i] : i \in 1..n} \cup {s}
  <2> HIDE DEF e, n
  <2>1. 1..(n + 1) = 1..n \cup {n + 1}
    BY <1>5
  <2> QED
    BY <1>5, <2>1
<1>8. Coming(k)' = Coming(k) \cup {s}
  BY <1>2, <1>5, <1>7 DEF Coming
<1> QED
  BY <1>4, <1>6, <1>8 DEF WillTell

\* What is told is told no more.
LEMMA Shorter ==
  ASSUME SubscriptionsTyped, NEW k \in Keys, NEW i \in 1..Len(events[k]),
         NEW r \in Seq(Standings), Len(r) = Len(events[k]) - 1,
         \A j \in 1..(Len(events[k]) - 1) : r[j] = events[k][IF j < i THEN j ELSE j + 1],
         events' = [events EXCEPT ![k] = r]
  PROVE  /\ OthersTold(k) /\ Coming(k)' \subseteq Coming(k)
         /\ ~Quiet(k) /\ events[k][i] \in Standings /\ events[k][i] \in Coming(k)
         /\ i = 1 => IF Quiet(k)' THEN events[k][i] = Latest(k) ELSE Latest(k)' = Latest(k)
<1>1. events \in [Keys -> Seq(Standings)]
  BY DEF SubscriptionsTyped
<1>2. events[k] \in Seq(Standings) /\ events'[k] = r
  BY <1>1
<1>3. \A j \in Keys \ {k} : events'[j] = events[j]
  BY <1>1
<1> DEFINE e == events[k]
           n == Len(e)
<1>4. n \in Nat /\ i \in 1..n /\ e \in Seq(Standings)
  BY <1>2
<1>5. Len(r) = n - 1 /\ \A j \in 1..(n - 1) : r[j] = e[IF j < i THEN j ELSE j + 1]
  OBVIOUS
<1> HIDE DEF e
<1>6. OthersTold(k)
  BY <1>1, <1>2, <1>3 DEF OthersTold, Quiet, Latest, Coming
<1>7. Coming(k)' \subseteq Coming(k)
  <2>1. {r[j] : j \in 1..Len(r)} \subseteq {e[j] : j \in 1..n}
    <3>1. ASSUME NEW j \in 1..(n - 1)
          PROVE  \E m \in 1..n : r[j] = e[m]
      BY <1>4, <1>5, <3>1
    <3> QED
      BY <1>5, <3>1
  <2> QED
    BY <1>2, <2>1 DEF Coming, e, n
<1>8. ~Quiet(k) /\ events[k][i] \in Standings /\ events[k][i] \in Coming(k)
  BY <1>4 DEF Quiet, Coming, e
<1>9. i = 1 => IF Quiet(k)' THEN events[k][i] = Latest(k) ELSE Latest(k)' = Latest(k)
  <2> SUFFICES ASSUME i = 1
               PROVE  IF r = <<>> THEN e[1] = e[n] ELSE r[Len(r)] = e[n]
    BY <1>2 DEF Quiet, Latest, e, n
  <2>1. CASE r = <<>>
    <3>1. Len(r) = 0
      BY <2>1
    <3>2. n = 1
      BY <1>4, <1>5, <3>1
    <3> QED
      BY <2>1, <3>2
  <2>2. CASE r # <<>>
    <3>1. Len(r) \in 1..(n - 1) /\ Len(r) = n - 1
      BY <1>4, <1>5, <2>2
    <3> QED
      BY <1>4, <1>5, <2>2, <3>1
  <2> QED
    BY <2>1, <2>2
<1> QED
  BY <1>6, <1>7, <1>8, <1>9

LEMMA Told ==
  ASSUME SubscriptionsTyped, NEW k \in Keys, NEW i \in 1..Len(events[k]),
         events' = [events EXCEPT ![k] = RemoveAt(@, i)]
  PROVE  /\ OthersTold(k) /\ Coming(k)' \subseteq Coming(k)
         /\ ~Quiet(k) /\ events[k][i] \in Standings /\ events[k][i] \in Coming(k)
         /\ i = 1 => IF Quiet(k)' THEN events[k][i] = Latest(k) ELSE Latest(k)' = Latest(k)
<1> DEFINE e == events[k]
           n == Len(e)
           r == RemoveAt(e, i)
           a == SubSeq(e, 1, i - 1)
           b == SubSeq(e, i + 1, n)
<1>1. n \in Nat /\ i \in 1..n /\ e \in Seq(Standings) /\ events' = [events EXCEPT ![k] = r]
  BY DEF SubscriptionsTyped
<1> HIDE DEF e
<1>2. a \in Seq(Standings) /\ Len(a) = i - 1 /\ \A j \in 1..(i - 1) : a[j] = e[j]
  BY <1>1
<1>3. b \in Seq(Standings) /\ Len(b) = n - i /\ \A j \in 1..(n - i) : b[j] = e[i + j]
  BY <1>1
<1>4. r = a \o b
  BY DEF RemoveAt
<1> HIDE DEF a, b, r
<1>5. r \in Seq(Standings) /\ Len(r) = n - 1
  <2>1. a \in Seq(Standings) /\ b \in Seq(Standings)
    BY <1>2, <1>3
  <2>2. a \o b \in Seq(Standings)
    BY <2>1
  <2>3. Len(a \o b) = Len(a) + Len(b)
    BY <2>1
  <2>4. Len(a) + Len(b) = n - 1
    BY <1>1, <1>2, <1>3
  <2> QED
    BY <1>4, <2>2, <2>3, <2>4
<1>6. ASSUME NEW j \in 1..(n - 1)
      PROVE  r[j] = e[IF j < i THEN j ELSE j + 1]
  <2>1. CASE j < i
    BY <1>1, <1>2, <1>3, <1>4, <2>1
  <2>2. CASE j >= i
    <3>1. r[j] = b[j - (i - 1)] /\ j - (i - 1) \in 1..(n - i)
      BY <1>1, <1>2, <1>3, <1>4, <2>2
    <3>2. i + (j - (i - 1)) = j + 1
      BY <1>1
    <3> QED
      BY <1>1, <1>3, <2>2, <3>1, <3>2
  <2> QED
    BY <1>1, <2>1, <2>2
<1> QED
  BY <1>1, <1>5, <1>6, Shorter DEF e

\* ... or lost.
LEMMA Lost ==
  ASSUME SubscriptionsTyped, NEW k \in Keys, events[k] # <<>>,
         events' = [events EXCEPT ![k] = Tail(@)]
  PROVE  OthersTold(k) /\ Coming(k)' \subseteq Coming(k) /\ ~Quiet(k)
<1> DEFINE e == events[k]
           n == Len(e)
           r == Tail(e)
<1>1. n \in Nat /\ 1 \in 1..n /\ e \in Seq(Standings) /\ events' = [events EXCEPT ![k] = r]
  BY DEF SubscriptionsTyped
<1> HIDE DEF e
<1>2. r \in Seq(Standings) /\ Len(r) = n - 1
      /\ \A j \in 1..(n - 1) : r[j] = e[IF j < 1 THEN j ELSE j + 1]
  <2>1. e # <<>>
    BY DEF e
  <2> QED
    BY <1>1, <2>1
<1> HIDE DEF r
<1> QED
  BY <1>1, <1>2, Shorter DEF e

\* What a handler of a plan remembers.
LEMMA SubscriptionFields ==
  ASSUME SubscriptionsTyped, NEW w \in Workers
  PROVE  /\ Subscribes(w) \/ Brings(w) => task[w].k \in Keys
         /\ Brings(w) => task[w].status \in Standings
         /\ Loses(w) => task[w].l \in Losses /\ task[w].waited \in BOOLEAN
         /\ task[w].step = "loss" => task[w].cover \in Int /\ task[w].cover <= Liability
         /\ task[w].step = "loss_debt" => task[w].rest \in Nat
         /\ task[w].step = "sub_create" =>
              /\ [task[w] EXCEPT !.step = "sub_row"] \in SubscriptionTasks
              /\ [task[w] EXCEPT !.step = "sub_row"].step = "sub_row"
              /\ [task[w] EXCEPT !.step = "sub_row"].k = task[w].k
         /\ task[w].step = "apply_read" =>
              /\ [task[w] EXCEPT !.step = "apply"] \in SubscriptionTasks
              /\ [task[w] EXCEPT !.step = "apply"].step = "apply"
              /\ [task[w] EXCEPT !.step = "apply"].k = task[w].k
              /\ [task[w] EXCEPT !.step = "apply"].status = task[w].status
<1>1. task[w] \in SubscriptionTasks
  BY DEF SubscriptionsTyped
<1> DEFINE t == task[w]
<1>2. t \in SubscriptionTasks
  BY <1>1
<1> HIDE DEF t
<1>3. /\ t.step \in {"sub_create", "sub_row"} => t.k \in Keys
      /\ t.step \in {"confirm", "apply_read", "apply"} => t.k \in Keys /\ t.status \in Standings
      /\ t.step \in {"loss", "loss_debt"} => t.l \in Losses /\ t.waited \in BOOLEAN
      /\ t.step = "loss" => t.cover \in Int /\ t.cover <= Liability
      /\ t.step = "loss_debt" => t.rest \in Nat
  BY <1>2 DEF SubscriptionTasks, Resting
<1>4. ASSUME t.step = "sub_create"
      PROVE  /\ [t EXCEPT !.step = "sub_row"] \in SubscriptionTasks
             /\ [t EXCEPT !.step = "sub_row"].step = "sub_row"
             /\ [t EXCEPT !.step = "sub_row"].k = t.k
  <2>1. t \in [step : {"sub_create", "sub_row"}, k : Keys]
    BY <1>2, <1>4 DEF SubscriptionTasks, Resting
  <2> QED
    BY <2>1 DEF SubscriptionTasks
<1>5. ASSUME t.step = "apply_read"
      PROVE  /\ [t EXCEPT !.step = "apply"] \in SubscriptionTasks
             /\ [t EXCEPT !.step = "apply"].step = "apply"
             /\ [t EXCEPT !.step = "apply"].k = t.k /\ [t EXCEPT !.step = "apply"].status = t.status
  <2>1. t \in [step : {"confirm", "apply_read", "apply"}, k : Keys, status : Standings]
    BY <1>2, <1>5 DEF SubscriptionTasks, Resting
  <2> QED
    BY <2>1 DEF SubscriptionTasks
<1> QED
  BY <1>3, <1>4, <1>5 DEF t, Subscribes, Brings, Loses

\* What writing the row leaves alone.
LEMMA PlanEdits ==
  ASSUME row \in Plans
  PROVE  /\ \A k \in Keys : \A s \in Standings :
              /\ Upserted(k, s) \in Plans
              /\ Upserted(k, s).status = s /\ Upserted(k, s).sub = k
              /\ Upserted(k, s).activated =
                   IF s = "active" /\ row.activated = "never" THEN "recent" ELSE row.activated
         /\ \A s \in Standings : LET d == [row EXCEPT !.status = s] IN
              d \in Plans /\ d.status = s /\ d.sub = row.sub /\ d.activated = row.activated
         /\ LET d == [row EXCEPT !.created = Aged(@), !.activated = Aged(@)] IN
              d \in Plans /\ d.status = row.status /\ d.sub = row.sub /\ d.activated = Aged(row.activated)
<1>1. ASSUME NEW k \in Keys, NEW s \in Standings
      PROVE  /\ Upserted(k, s) \in Plans
             /\ Upserted(k, s).status = s /\ Upserted(k, s).sub = k
             /\ Upserted(k, s).activated =
                  IF s = "active" /\ row.activated = "never" THEN "recent" ELSE row.activated
  BY DEF Plans, Upserted, Entitled, Standings, Dates
<1>2. ASSUME NEW s \in Standings
      PROVE  LET d == [row EXCEPT !.status = s] IN
               d \in Plans /\ d.status = s /\ d.sub = row.sub /\ d.activated = row.activated
  BY DEF Plans
<1>3. ASSUME NEW x \in Dates, NEW y \in Dates
      PROVE  LET d == [row EXCEPT !.created = x, !.activated = y] IN
               d \in Plans /\ d.status = row.status /\ d.sub = row.sub /\ d.activated = y
  BY DEF Plans
<1>4. Aged(row.created) \in Dates /\ Aged(row.activated) \in Dates
  BY DEF Plans, Aged, Dates
<1> QED
  BY <1>1, <1>2, <1>3, <1>4

\* What each loss was waived.
LEMMA WaiverAmounts ==
  ASSUME SubscriptionsTyped
  PROVE  /\ Used \in Int
         /\ \A l \in Losses : /\ Waiver[l] \in Nat
                              /\ Waiver[l] = IF waived[l] = None THEN 0 ELSE waived[l]
<1>1. \A l \in Losses : Waiver[l] \in Nat /\ Waiver[l] = IF waived[l] = None THEN 0 ELSE waived[l]
  BY SponsorsAssumption DEF SubscriptionsTyped, Waiver
<1> QED
  BY <1>1, SumTakeOut, SubscriptionsAssumption DEF Used

\* The sum of what was waived, when c more is.
LEMMA WaiverStep ==
  ASSUME SubscriptionsTyped, NEW l \in Losses, NEW c \in Nat, waived[l] = None,
         waived' = [waived EXCEPT ![l] = c]
  PROVE  Used' = Used + c
<1>1. \A m \in Losses : Waiver[m] \in Nat
  BY WaiverAmounts
<1>2. waived \in [Losses -> Nat \cup {None}] /\ None \notin Nat
  BY SponsorsAssumption DEF SubscriptionsTyped
<1>3. Waiver[l] = 0 /\ Waiver'[l] = c /\ \A m \in Losses \ {l} : Waiver'[m] = Waiver[m]
  BY <1>2 DEF Waiver
<1>4. ChangesAt(Waiver, Waiver', Losses, l)
  BY <1>1, <1>3 DEF ChangesAt
<1>5. Used' = Used - Waiver[l] + Waiver'[l]
  BY <1>4, SumChange, SubscriptionsAssumption DEF Used
<1>6. Used \in Int
  BY WaiverAmounts
<1> QED
  BY <1>3, <1>5, <1>6

\* What a plan covers of a loss.
LEMMA CoverBounds ==
  ASSUME Used \in Int
  PROVE  Cover \in Int /\ Cover <= Liability /\ Cover <= PeriodCap - Used
BY SubscriptionsAssumption DEF Cover, Smaller

\* Every step of a plan keeps the invariant.
LEMMA SubscriptionsSteps ==
  ASSUME SubscriptionsIInv, SubscriptionsNext
  PROVE  SubscriptionsIInv'
<1> DEFINE Rest ==
             /\ Alone /\ HeldFollows /\ OneAlive /\ RowFollows /\ StandingFollows
             /\ DatesFollow /\ WaiverFollows /\ DebtFollows
<1> USE DEF At
<1>i. SubscriptionsTyped /\ Rest
  BY DEF SubscriptionsIInv
<1>s. row \in Plans /\ held \in [Keys -> Standings] /\ since \in [Keys -> Dates]
  BY <1>i DEF SubscriptionsTyped
<1>f. /\ row.status \in Standings /\ row.sub \in Keys \cup {None} /\ row.activated \in Dates
      /\ None \notin Keys
      /\ \A j \in Keys : held[j] \in Standings /\ since[j] \in Dates
  BY <1>s, SubscriptionsAssumption DEF Plans
<1>w. /\ Liability \in Nat /\ PeriodCap \in Nat /\ Used \in Int /\ None \notin Nat
      /\ \A m \in Losses : /\ waived[m] \in Nat \cup {None} /\ owed[m] \in Nat \cup {None}
                           /\ Waiver[m] \in Nat
                           /\ Waiver[m] = IF waived[m] = None THEN 0 ELSE waived[m]
  BY <1>i, WaiverAmounts, SubscriptionsAssumption, SponsorsAssumption DEF SubscriptionsTyped
<1>e. Entitled(row.status) <=> row.status = "active"
  BY <1>f DEF Entitled, Standings
<1>k. task \in [Workers -> SubscriptionTasks]
  BY <1>i DEF SubscriptionsTyped
<1>r. Resting \in SubscriptionTasks /\ Resting.step = "idle"
  BY DEF SubscriptionTasks, Resting
<1>t. \A v \in Workers :
        /\ task[v].step \in {"sub_create", "sub_row"} => task[v].k \in Keys
        /\ task[v].step \in {"confirm", "apply_read",
                "apply"} => task[v].k \in Keys /\ task[v].status \in Standings
        /\ task[v].step \in {"loss", "loss_debt"} => task[v].l \in Losses /\ task[v].waited \in BOOLEAN
        /\ task[v].step = "loss" => task[v].cover \in Int /\ task[v].cover <= Liability
        /\ task[v].step = "loss_debt" => task[v].rest \in Nat
  BY <1>i, SubscriptionFields DEF Subscribes, Brings, Loses
<1>a. events \in [Keys -> Seq(Standings)]
  BY <1>i DEF SubscriptionsTyped
<1>1. ASSUME WaitingPeriodPasses
      PROVE  SubscriptionsTyped' /\ Rest'
  <2>1. /\ task' = task /\ befell' = befell /\ SameTold
        /\ row' \in Plans /\ row'.status = row.status /\ row'.sub = row.sub
        /\ row'.activated = Aged(row.activated)
        /\ since' \in [Keys -> Dates] /\ \A j \in Keys : since'[j] = Aged(since[j])
        /\ UNCHANGED <<held, shown, events, waived, owed>>
    <3>s. events' = events
      BY <1>1 DEF WaitingPeriodPasses, stripe
    <3>m. SameTold
      BY <3>s DEF SameTold, Quiet, Latest, Coming
    <3>1. /\ row' \in Plans /\ row'.status = row.status /\ row'.sub = row.sub
          /\ row'.activated = Aged(row.activated)
      BY <1>1, <1>s, PlanEdits DEF WaitingPeriodPasses
    <3>2. since' \in [Keys -> Dates] /\ \A j \in Keys : since'[j] = Aged(since[j])
      BY <1>1, <1>s DEF WaitingPeriodPasses, Aged, Dates
    <3> QED
      BY <1>1, <3>m, <3>1, <3>2 DEF WaitingPeriodPasses, Outside, losses
  <2>2. SubscriptionsTyped'
    BY <1>i, <2>1 DEF SubscriptionsTyped, SameTold, Aged, Dates
  <2>u. Used' = Used /\ Waiver' = Waiver
    BY <2>1 DEF Used, Waiver
  <2>3. Alone'
    BY <1>i, <2>1
    DEF Alone, Apart, Idle, SameTold, Aged, Dates
  <2>4. HeldFollows'
    BY <1>i, <1>f, <1>t, <2>1
    DEF HeldFollows, Brings, SameTold, Aged, Dates
  <2>5. OneAlive'
    BY <1>i, <1>f, <1>t, <2>1
    DEF OneAlive, Alive, Subscribes, Alone, Apart, Idle, Spared, SameTold, Aged, Dates
  <2>6. RowFollows'
    BY <1>i, <1>f, <1>t, <2>1
    DEF RowFollows, HeldFollows, Brings, Alone, Apart, Idle, SameTold, Aged, Dates
  <2>7. StandingFollows'
    BY <1>i, <1>f, <1>t, <2>1
    DEF StandingFollows, HeldFollows, OneAlive, RowFollows, Alive, Astray, Subscribes, Brings,
      Alone, Apart, Idle, Spared, SameTold, Aged, Dates
  <2>8. DatesFollow'
    BY <1>i, <1>f, <1>t, <2>1
    DEF DatesFollow, HeldFollows, RowFollows, Subscribes, Loses, Alone, Apart, Idle, Spared,
      SameTold, Aged, Dates
  <2>9. WaiverFollows'
    BY <1>i, <1>t, <1>w, <2>u, <2>1
    DEF WaiverFollows, Alone, Apart, Idle, SameTold, Aged, Dates
  <2>10. DebtFollows'
    BY <1>i, <1>t, <1>w, <2>u, <2>1
    DEF DebtFollows, Loses, SameTold, Aged, Dates
  <2> QED
    BY <2>2, <2>3, <2>4, <2>5, <2>6, <2>7, <2>8, <2>9, <2>10
<1>2. ASSUME NEW k \in Keys, FirstPayment(k)
      PROVE  SubscriptionsTyped' /\ Rest'
  <2>1. /\ task' = task /\ befell' = befell
        /\ held[k] = "incomplete" /\ HeldIs(k, "active") /\ WillTell(k, "active")
        /\ since' \in [Keys -> Dates] /\ since'[k] = "recent"
        /\ \A j \in Keys \ {k} : since'[j] = since[j]
        /\ UNCHANGED <<row, shown, waived, owed>>
    <3>1. "active" \in Standings /\ "recent" \in Dates
      BY DEF Standings, Dates
    <3>2. /\ held' = [held EXCEPT ![k] = "active"] /\ events' = [events EXCEPT ![k] = Append(@, "active")]
          /\ UNCHANGED <<task, befell, row, shown, waived, owed>>
      BY <1>2 DEF FirstPayment, Reports, Outside, losses
    <3>3. WillTell(k, "active")
      BY <1>i, <3>1, <3>2, Telling
    <3> QED
      BY <1>2, <1>s, <3>1, <3>2, <3>3 DEF FirstPayment, HeldIs
  <2>2. SubscriptionsTyped'
    BY <1>i, <2>1 DEF SubscriptionsTyped, HeldIs, WillTell, OthersTold
  <2>u. Used' = Used /\ Waiver' = Waiver
    BY <2>1 DEF Used, Waiver
  <2>3. Alone'
    BY <1>i, <2>1
    DEF Alone, Apart, Idle, HeldIs, WillTell, OthersTold
  <2>4. HeldFollows'
    <3>1. \A j \in Keys :
            IF held'[j] \in {"none", "incomplete", "incomplete_expired"} THEN since'[j] = "never"
            ELSE held'[j] \in {"active", "past_due"} => since'[j] # "never"
      BY <1>i, <1>f, <1>t, <2>1 DEF HeldFollows, HeldIs
    <3>2. \A j \in Keys : held'[j] = "none" => Quiet(j)'
      BY <1>i, <1>f, <1>t, <2>1 DEF HeldFollows, HeldIs, WillTell, OthersTold
    <3>3. \A j \in Keys : "canceled" \in Coming(j)' => held'[j] = "canceled"
      <4>1. \A j \in Keys \ {k} : Coming(j)' = Coming(j) /\ held'[j] = held[j]
        BY <2>1 DEF HeldIs, WillTell, OthersTold
      <4>2. Coming(k)' = Coming(k) \cup {"active"} /\ held'[k] = "active" /\ held[k] # "canceled"
        BY <2>1 DEF HeldIs, WillTell
      <4> QED
        BY <1>i, <4>1, <4>2 DEF HeldFollows
    <3>4. \A v \in Workers : Brings(v)' /\ task'[v].status = "canceled" =>
            held'[task'[v].k] = "canceled"
      BY <1>i, <1>f, <1>t, <2>1 DEF HeldFollows, Brings, HeldIs
    <3>5. \A v \in Workers : task'[v].step = "confirm" /\ task'[v].status = "active" =>
            since'[task'[v].k] # "never"
      BY <1>i, <1>f, <1>t, <2>1 DEF HeldFollows, HeldIs
    <3>6. row'.sub = None => row'.status = "none" /\ row'.activated = "never"
      BY <1>i, <1>f, <1>t, <2>1 DEF HeldFollows, Brings
    <3>7. \A v \in Workers : task'[v].step = "cancel" => row'.sub # None
      BY <1>i, <1>f, <1>t, <2>1 DEF HeldFollows, Brings
    <3> QED
      BY <3>1, <3>2, <3>3, <3>4, <3>5, <3>6, <3>7 DEF HeldFollows

  <2>5. OneAlive'
    <3>1. Alive' \subseteq Alive
      BY <2>1 DEF Alive, HeldIs
    <3>2. Spared({"again", "overlap"})' => Spared({"again", "overlap"})
      BY <2>1 DEF Spared
    <3>3. \A v \in Workers : Subscribes(v)' => Subscribes(v) /\ task'[v] = task[v]
      BY <2>1 DEF Subscribes
    <3> QED
      BY <1>i, <3>1, <3>2, <3>3 DEF OneAlive
  <2>6. RowFollows'
    BY <1>i, <1>f, <1>t, <2>1
    DEF RowFollows, HeldFollows, Brings, Alone, Apart, Idle, HeldIs, WillTell, OthersTold
  <2>7. StandingFollows'
    <3>0. Spared(Astray)' => Spared(Astray) /\ Apart /\ Apart'
      BY <2>1 DEF Spared, Astray, Apart
    <3>1. ASSUME Spared(Astray)'
          PROVE  \A j \in Alive' : row'.sub = j \/ \E v \in Workers : task'[v].step = "sub_row" /\ task'[v].k = j
      BY <1>i, <1>f, <1>t, <2>1, <3>0, <3>1 DEF StandingFollows, Alive, HeldIs, OthersTold
    <3>2. ASSUME Spared(Astray)'
          PROVE  \A j \in Keys : ~Quiet(j)' => Latest(j)' = held'[j]
      <4>1. \A j \in Keys : ~Quiet(j) => Latest(j) = held[j]
        BY <1>i, <3>0, <3>2 DEF StandingFollows
      <4>2. \A j \in Keys \ {k} : (Quiet(j)' <=> Quiet(j)) /\ Latest(j)' = Latest(j) /\ held'[j] = held[j]
        BY <2>1 DEF HeldIs, WillTell, OthersTold
      <4>3. Latest(k)' = held'[k]
        BY <2>1 DEF HeldIs, WillTell
      <4> QED
        BY <4>1, <4>2, <4>3
    <3>3. ASSUME Spared(Astray)'
          PROVE  \A v \in Workers : \A j \in Keys :
            /\ Brings(v)' /\ task'[v].k = j /\ Quiet(j)' =>
                 task'[v].status = held'[j]
            /\ Subscribes(v)' /\ task'[v].k = j /\ Quiet(j)' => held'[j] # "active"
      BY <1>i, <1>f, <1>t, <2>1, <3>0, <3>3 DEF StandingFollows, Brings, Subscribes, HeldIs, WillTell,
              OthersTold
    <3>4. ASSUME Spared(Astray)'
          PROVE  \A v \in Workers : \A j \in Keys : task'[v].step = "cancel" /\ row'.sub = j => ~Quiet(j)'
      BY <1>i, <1>f, <1>t, <2>1, <3>0, <3>4 DEF StandingFollows, HeldIs, WillTell, OthersTold
    <3>5. ASSUME Spared(Astray)'
          PROVE  \A j \in Keys : row'.sub = j /\ Quiet(j)' =>
            \/ row'.status = "active" <=> held'[j] = "active"
            \/ \E v \in Workers : Brings(v)' /\ task'[v].k = j
      BY <1>i, <1>f, <1>t, <2>1, <3>0, <3>5 DEF StandingFollows, Brings, HeldIs, WillTell, OthersTold
    <3> QED
      BY <3>1, <3>2, <3>3, <3>4, <3>5 DEF StandingFollows

  <2>8. DatesFollow'
    BY <1>i, <1>f, <1>t, <2>1
    DEF DatesFollow, HeldFollows, RowFollows, Subscribes, Loses, Alone, Apart, Idle, Spared,
      HeldIs, WillTell, OthersTold
  <2>9. WaiverFollows'
    BY <1>i, <1>t, <1>w, <2>u, <2>1
    DEF WaiverFollows, Alone, Apart, Idle, HeldIs, WillTell, OthersTold
  <2>10. DebtFollows'
    BY <1>i, <1>t, <1>w, <2>u, <2>1
    DEF DebtFollows, Loses, HeldIs, WillTell, OthersTold
  <2> QED
    BY <2>2, <2>3, <2>4, <2>5, <2>6, <2>7, <2>8, <2>9, <2>10
<1>3. ASSUME NEW k \in Keys, Turn(k)
      PROVE  SubscriptionsTyped' /\ Rest'
  <2>0. PICK s \in Standings :
          /\ \/ held[k] = "active" /\ s = "past_due"
             \/ held[k] = "past_due" /\ s \in {"active", "canceled"}
             \/ held[k] = "incomplete" /\ s = "incomplete_expired"
          /\ Reports(k, s)
    BY <1>3 DEF Turn, Standings
  <2>1. /\ task' = task /\ befell' = befell
        /\ HeldIs(k, s) /\ WillTell(k, s)
        /\ \/ held[k] = "active" /\ s = "past_due"
           \/ held[k] = "past_due" /\ s \in {"active", "canceled"}
           \/ held[k] = "incomplete" /\ s = "incomplete_expired"
        /\ UNCHANGED <<row, since, shown, waived, owed>>
    <3>2. /\ held' = [held EXCEPT ![k] = s] /\ events' = [events EXCEPT ![k] = Append(@, s)]
          /\ UNCHANGED <<task, befell, row, shown, waived, owed>>
      BY <2>0 DEF Reports, Outside, losses
    <3>3. WillTell(k, s)
      BY <1>i, <3>2, Telling
    <3> QED
      BY <1>3, <1>s, <2>0, <3>2, <3>3 DEF Turn, HeldIs
  <2>2. SubscriptionsTyped'
    BY <1>i, <2>1 DEF SubscriptionsTyped, HeldIs, WillTell, OthersTold
  <2>u. Used' = Used /\ Waiver' = Waiver
    BY <2>1 DEF Used, Waiver
  <2>3. Alone'
    BY <1>i, <2>1
    DEF Alone, Apart, Idle, HeldIs, WillTell, OthersTold
  <2>4. HeldFollows'
    <3>1. \A j \in Keys :
            IF held'[j] \in {"none", "incomplete", "incomplete_expired"} THEN since'[j] = "never"
            ELSE held'[j] \in {"active", "past_due"} => since'[j] # "never"
      BY <1>i, <1>f, <1>t, <2>1 DEF HeldFollows, HeldIs
    <3>2. \A j \in Keys : held'[j] = "none" => Quiet(j)'
      BY <1>i, <1>f, <1>t, <2>1 DEF HeldFollows, HeldIs, WillTell, OthersTold
    <3>3. \A j \in Keys : "canceled" \in Coming(j)' => held'[j] = "canceled"
      <4>1. \A j \in Keys \ {k} : Coming(j)' = Coming(j) /\ held'[j] = held[j]
        BY <2>1 DEF HeldIs, WillTell, OthersTold
      <4>2. Coming(k)' = Coming(k) \cup {s} /\ held'[k] = s /\ held[k] # "canceled"
        BY <2>1 DEF HeldIs, WillTell
      <4> QED
        BY <1>i, <4>1, <4>2 DEF HeldFollows
    <3>4. \A v \in Workers : Brings(v)' /\ task'[v].status = "canceled" =>
            held'[task'[v].k] = "canceled"
      BY <1>i, <1>f, <1>t, <2>1 DEF HeldFollows, Brings, HeldIs
    <3>5. \A v \in Workers : task'[v].step = "confirm" /\ task'[v].status = "active" =>
            since'[task'[v].k] # "never"
      BY <1>i, <1>f, <1>t, <2>1 DEF HeldFollows, HeldIs
    <3>6. row'.sub = None => row'.status = "none" /\ row'.activated = "never"
      BY <1>i, <1>f, <1>t, <2>1 DEF HeldFollows, Brings
    <3>7. \A v \in Workers : task'[v].step = "cancel" => row'.sub # None
      BY <1>i, <1>f, <1>t, <2>1 DEF HeldFollows, Brings
    <3> QED
      BY <3>1, <3>2, <3>3, <3>4, <3>5, <3>6, <3>7 DEF HeldFollows
  <2>5. OneAlive'
    <3>1. Alive' \subseteq Alive
      BY <2>1 DEF Alive, HeldIs
    <3>2. Spared({"again", "overlap"})' => Spared({"again", "overlap"})
      BY <2>1 DEF Spared
    <3>3. \A v \in Workers : Subscribes(v)' => Subscribes(v) /\ task'[v] = task[v]
      BY <2>1 DEF Subscribes
    <3> QED
      BY <1>i, <3>1, <3>2, <3>3 DEF OneAlive
  <2>6. RowFollows'
    BY <1>i, <1>f, <1>t, <2>1
    DEF RowFollows, HeldFollows, Brings, Alone, Apart, Idle, HeldIs, WillTell, OthersTold
  <2>7. StandingFollows'
    <3>0. Spared(Astray)' => Spared(Astray) /\ Apart /\ Apart'
      BY <2>1 DEF Spared, Astray, Apart
    <3>1. ASSUME Spared(Astray)'
          PROVE  \A j \in Alive' : row'.sub = j \/ \E v \in Workers : task'[v].step = "sub_row" /\ task'[v].k = j
      BY <1>i, <1>f, <1>t, <2>1, <3>0, <3>1 DEF StandingFollows, Alive, HeldIs, OthersTold
    <3>2. ASSUME Spared(Astray)'
          PROVE  \A j \in Keys : ~Quiet(j)' => Latest(j)' = held'[j]
      <4>1. \A j \in Keys : ~Quiet(j) => Latest(j) = held[j]
        BY <1>i, <3>0, <3>2 DEF StandingFollows
      <4>2. \A j \in Keys \ {k} : (Quiet(j)' <=> Quiet(j)) /\ Latest(j)' = Latest(j) /\ held'[j] = held[j]
        BY <2>1 DEF HeldIs, WillTell, OthersTold
      <4>3. Latest(k)' = held'[k]
        BY <2>1 DEF HeldIs, WillTell
      <4> QED
        BY <4>1, <4>2, <4>3
    <3>3. ASSUME Spared(Astray)'
          PROVE  \A v \in Workers : \A j \in Keys :
            /\ Brings(v)' /\ task'[v].k = j /\ Quiet(j)' =>
                 task'[v].status = held'[j]
            /\ Subscribes(v)' /\ task'[v].k = j /\ Quiet(j)' => held'[j] # "active"
      BY <1>i, <1>f, <1>t, <2>1, <3>0, <3>3 DEF StandingFollows, Brings, Subscribes, HeldIs, WillTell,
              OthersTold
    <3>4. ASSUME Spared(Astray)'
          PROVE  \A v \in Workers : \A j \in Keys : task'[v].step = "cancel" /\ row'.sub = j => ~Quiet(j)'
      BY <1>i, <1>f, <1>t, <2>1, <3>0, <3>4 DEF StandingFollows, HeldIs, WillTell, OthersTold
    <3>5. ASSUME Spared(Astray)'
          PROVE  \A j \in Keys : row'.sub = j /\ Quiet(j)' =>
            \/ row'.status = "active" <=> held'[j] = "active"
            \/ \E v \in Workers : Brings(v)' /\ task'[v].k = j
      BY <1>i, <1>f, <1>t, <2>1, <3>0, <3>5 DEF StandingFollows, Brings, HeldIs, WillTell, OthersTold
    <3> QED
      BY <3>1, <3>2, <3>3, <3>4, <3>5 DEF StandingFollows

  <2>8. DatesFollow'
    BY <1>i, <1>f, <1>t, <2>1
    DEF DatesFollow, HeldFollows, RowFollows, Subscribes, Loses, Alone, Apart, Idle, Spared,
      HeldIs, WillTell, OthersTold
  <2>9. WaiverFollows'
    BY <1>i, <1>t, <1>w, <2>u, <2>1
    DEF WaiverFollows, Alone, Apart, Idle, HeldIs, WillTell, OthersTold
  <2>10. DebtFollows'
    BY <1>i, <1>t, <1>w, <2>u, <2>1
    DEF DebtFollows, Loses, HeldIs, WillTell, OthersTold
  <2> QED
    BY <2>2, <2>3, <2>4, <2>5, <2>6, <2>7, <2>8, <2>9, <2>10
<1>4. ASSUME NEW k \in Keys, EventLost(k)
      PROVE  SubscriptionsTyped' /\ Rest'
  <2>1. /\ task' = task /\ befell \subseteq befell' /\ "lost" \in befell'
        /\ OthersTold(k) /\ Coming(k)' \subseteq Coming(k) /\ ~Quiet(k)
        /\ UNCHANGED <<row, held, since, shown, waived, owed>>
    <3>1. /\ events[k] # <<>> /\ events' = [events EXCEPT ![k] = Tail(@)]
          /\ task' = task /\ befell \subseteq befell' /\ "lost" \in befell'
          /\ UNCHANGED <<row, held, since, shown, waived, owed>>
      BY <1>4 DEF EventLost, Befalls, losses
    <3> QED
      BY <1>i, <3>1, Lost
  <2>2. SubscriptionsTyped'
    BY <1>i, <2>1 DEF SubscriptionsTyped, OthersTold
  <2>u. Used' = Used /\ Waiver' = Waiver
    BY <2>1 DEF Used, Waiver
  <2>3. Alone'
    BY <1>i, <2>1
    DEF Alone, Apart, Idle, OthersTold
  <2>4. HeldFollows'
    BY <1>i, <1>f, <1>t, <2>1
    DEF HeldFollows, Brings, OthersTold
  <2>5. OneAlive'
    BY <1>i, <1>f, <1>t, <2>1
    DEF OneAlive, Alive, Subscribes, Alone, Apart, Idle, Spared, OthersTold
  <2>6. RowFollows'
    BY <1>i, <1>f, <1>t, <2>1
    DEF RowFollows, HeldFollows, Brings, Alone, Apart, Idle, OthersTold
  <2>7. StandingFollows'
    BY <1>i, <1>f, <1>t, <2>1
    DEF StandingFollows, HeldFollows, OneAlive, RowFollows, Alive, Astray, Subscribes, Brings,
      Alone, Apart, Idle, Spared, OthersTold
  <2>8. DatesFollow'
    BY <1>i, <1>f, <1>t, <2>1
    DEF DatesFollow, HeldFollows, RowFollows, Subscribes, Loses, Alone, Apart, Idle, Spared,
      OthersTold
  <2>9. WaiverFollows'
    BY <1>i, <1>t, <1>w, <2>u, <2>1
    DEF WaiverFollows, Alone, Apart, Idle, OthersTold
  <2>10. DebtFollows'
    BY <1>i, <1>t, <1>w, <2>u, <2>1
    DEF DebtFollows, Loses, OthersTold
  <2> QED
    BY <2>2, <2>3, <2>4, <2>5, <2>6, <2>7, <2>8, <2>9, <2>10
<1>5. ASSUME NEW w \in Workers, NEW k \in Keys, SubscribeRead(w, k)
      PROVE  SubscriptionsTyped' /\ Rest'
  <2>1. /\ task' \in [Workers -> SubscriptionTasks] /\ Others(w) /\ Entered(w)
        /\ task'[w].step = "sub_create" /\ task'[w].k = k /\ SameTold
        /\ row.status # "active"
        /\ "again" \in befell' \/ Alive \subseteq {k}
        /\ Spared({"again", "resubscribed"})' => row.sub \in {k, None}
        /\ UNCHANGED <<row, held, since, shown, events, waived, owed>>
    <3>s. events' = events
      BY <1>5 DEF SubscribeRead, stripe
    <3>m. SameTold
      BY <3>s DEF SameTold, Quiet, Latest, Coming
    <3> DEFINE t == [step |-> "sub_create", k |-> k]
    <3>1. t \in SubscriptionTasks /\ t.step = "sub_create" /\ t.k = k
      BY DEF SubscriptionTasks
    <3>2. \/ BeginAmid(w, t, "again")
          \/ BeginAmid(w, t, "resubscribed") /\ Alive \subseteq {k}
          \/ Begin(w, t) /\ Alive \subseteq {k} /\ row.sub \in {k, None}
      BY <1>5 DEF SubscribeRead
    <3> HIDE DEF t
    <3>3. task' \in [Workers -> SubscriptionTasks] /\ task'[w] = t /\ Others(w) /\ Entered(w)
      <4>1. ASSUME NEW m, BeginAmid(w, t, m)
            PROVE  task' \in [Workers -> SubscriptionTasks] /\ task'[w] = t /\ Others(w) /\ Entered(w)
        BY <1>k, <3>1, <4>1, BeginAmidEffect
      <4>2. ASSUME Begin(w, t)
            PROVE  task' \in [Workers -> SubscriptionTasks] /\ task'[w] = t /\ Others(w) /\ Entered(w)
        BY <1>k, <3>1, <4>2, BeginEffect
      <4> QED
        BY <3>2, <4>1, <4>2
    <3>4. /\ "again" \in befell' \/ Alive \subseteq {k}
          /\ "again" \in befell' \/ "resubscribed" \in befell' \/ row.sub \in {k, None}
      BY <1>k, <3>1, <3>2, BeginAmidEffect
    <3> QED
      BY <1>5, <1>e, <3>m, <3>1, <3>3, <3>4 DEF SubscribeRead, stripe, losses, Spared
  <2>2. SubscriptionsTyped'
    BY <1>i, <2>1 DEF SubscriptionsTyped, Entered, Others, SameTold
  <2>u. Used' = Used /\ Waiver' = Waiver
    BY <2>1 DEF Used, Waiver
  <2>3. Alone'
    BY <1>i, <2>1
    DEF Alone, Apart, Idle, Entered, Others, SameTold
  <2>4. HeldFollows'
    BY <1>i, <1>f, <1>t, <2>1
    DEF HeldFollows, Brings, Entered, Others, SameTold
  <2>5. OneAlive'
    BY <1>i, <1>f, <1>t, <2>1
    DEF OneAlive, Alive, Subscribes, Alone, Apart, Idle, Spared, Entered, Others, SameTold
  <2>6. RowFollows'
    BY <1>i, <1>f, <1>t, <2>1
    DEF RowFollows, HeldFollows, Brings, Alone, Apart, Idle, Entered, Others, SameTold
  <2>7. StandingFollows'
    BY <1>i, <1>f, <1>t, <2>1
    DEF StandingFollows, HeldFollows, OneAlive, RowFollows, Alive, Astray, Subscribes, Brings,
      Alone, Apart, Idle, Spared, Entered, Others, SameTold
  <2>8. DatesFollow'
    BY <1>i, <1>f, <1>t, <2>1
    DEF DatesFollow, HeldFollows, RowFollows, Subscribes, Loses, Alone, Apart, Idle, Spared,
      Entered, Others, SameTold
  <2>9. WaiverFollows'
    BY <1>i, <1>t, <1>w, <2>u, <2>1
    DEF WaiverFollows, Alone, Apart, Idle, Entered, Others, SameTold
  <2>10. DebtFollows'
    BY <1>i, <1>t, <1>w, <2>u, <2>1
    DEF DebtFollows, Loses, Entered, Others, SameTold
  <2> QED
    BY <2>2, <2>3, <2>4, <2>5, <2>6, <2>7, <2>8, <2>9, <2>10
<1>6. ASSUME NEW w \in Workers, NEW k \in Keys, EventArrives(w, k)
      PROVE  SubscriptionsTyped' /\ Rest'
  <2>1. /\ task' \in [Workers -> SubscriptionTasks] /\ Others(w) /\ Entered(w)
        /\ task'[w].step = "apply_read" /\ task'[w].k = k
        /\ task'[w].status \in Standings /\ task'[w].status \in Coming(k)
        /\ OthersTold(k) /\ Coming(k)' \subseteq Coming(k) /\ ~Quiet(k)
        /\ \/ "reordered" \in befell'
           \/ IF Quiet(k)' THEN task'[w].status = Latest(k) ELSE Latest(k)' = Latest(k)
        /\ UNCHANGED <<row, held, since, shown, waived, owed>>
    <3>1. PICK i \in 1..Len(events[k]) :
            /\ events' = [events EXCEPT ![k] = RemoveAt(@, i)]
            /\ IF i = 1 THEN Begin(w, Applies(k, events[k][i]))
                        ELSE BeginAmid(w, Applies(k, events[k][i]), "reordered")
            /\ UNCHANGED <<row, held, since, shown, turns, losses>>
      BY <1>6 DEF EventArrives
    <3> DEFINE s == events[k][i]
               t == Applies(k, s)
    <3>2. /\ OthersTold(k) /\ Coming(k)' \subseteq Coming(k) /\ ~Quiet(k)
          /\ s \in Standings /\ s \in Coming(k)
          /\ i = 1 => IF Quiet(k)' THEN s = Latest(k) ELSE Latest(k)' = Latest(k)
      BY <1>i, <3>1, Told
    <3>3. IF i = 1 THEN Begin(w, t) ELSE BeginAmid(w, t, "reordered")
      BY <3>1
    <3> HIDE DEF s
    <3>4. t \in SubscriptionTasks /\ t.step = "apply_read" /\ t.k = k /\ t.status = s
      BY <3>2 DEF SubscriptionTasks, Applies
    <3> HIDE DEF t
    <3>5. task' \in [Workers -> SubscriptionTasks] /\ task'[w] = t /\ Others(w) /\ Entered(w)
      BY <1>k, <3>3, <3>4, BeginEffect, BeginAmidEffect
    <3>6. i = 1 \/ "reordered" \in befell'
      BY <1>k, <3>3, <3>4, BeginAmidEffect
    <3> QED
      BY <3>1, <3>2, <3>4, <3>5, <3>6 DEF losses
  <2>2. SubscriptionsTyped'
    BY <1>i, <2>1 DEF SubscriptionsTyped, Entered, Others, OthersTold
  <2>u. Used' = Used /\ Waiver' = Waiver
    BY <2>1 DEF Used, Waiver
  <2>3. Alone'
    BY <1>i, <2>1
    DEF Alone, Apart, Idle, Entered, Others, OthersTold
  <2>4. HeldFollows'
    <3>1. \A j \in Keys :
            IF held'[j] \in {"none", "incomplete", "incomplete_expired"} THEN since'[j] = "never"
            ELSE held'[j] \in {"active", "past_due"} => since'[j] # "never"
      BY <1>i, <1>f, <1>t, <2>1 DEF HeldFollows, HeldIs
    <3>2. \A j \in Keys : held'[j] = "none" => Quiet(j)'
      BY <1>i, <1>f, <1>t, <2>1 DEF HeldFollows, HeldIs, WillTell, OthersTold
    <3>3. \A j \in Keys : "canceled" \in Coming(j)' => held'[j] = "canceled"
      BY <1>i, <1>f, <1>t, <2>1 DEF HeldFollows, HeldIs, WillTell, OthersTold
    <3>4. \A v \in Workers : Brings(v)' /\ task'[v].status = "canceled" =>
            held'[task'[v].k] = "canceled"
      BY <1>i, <1>f, <1>t, <2>1 DEF HeldFollows, Entered, Others, Brings, HeldIs
    <3>5. \A v \in Workers : task'[v].step = "confirm" /\ task'[v].status = "active" =>
            since'[task'[v].k] # "never"
      BY <1>i, <1>f, <1>t, <2>1 DEF HeldFollows, Entered, Others, HeldIs
    <3>6. row'.sub = None => row'.status = "none" /\ row'.activated = "never"
      BY <1>i, <1>f, <1>t, <2>1 DEF HeldFollows, Brings
    <3>7. \A v \in Workers : task'[v].step = "cancel" => row'.sub # None
      BY <1>i, <1>f, <1>t, <2>1 DEF HeldFollows, Entered, Others, Brings
    <3> QED
      BY <3>1, <3>2, <3>3, <3>4, <3>5, <3>6, <3>7 DEF HeldFollows

  <2>5. OneAlive'
    BY <1>i, <1>f, <1>t, <2>1
    DEF OneAlive, Alive, Subscribes, Alone, Apart, Idle, Spared, Entered, Others, OthersTold
  <2>6. RowFollows'
    BY <1>i, <1>f, <1>t, <2>1
    DEF RowFollows, HeldFollows, Brings, Alone, Apart, Idle, Entered, Others, OthersTold
  <2>7. StandingFollows'
    <3>0. Spared(Astray)' => Spared(Astray) /\ Apart /\ Apart'
      BY <2>1 DEF Spared, Astray, Apart, Entered
    <3>1. ASSUME Spared(Astray)'
          PROVE  \A j \in Alive' : row'.sub = j \/ \E v \in Workers : task'[v].step = "sub_row" /\ task'[v].k = j
      BY <1>i, <1>f, <1>t, <2>1, <3>0, <3>1 DEF StandingFollows, Entered, Others, Apart, Idle, Alive,
              HeldIs, OthersTold
    <3>2. ASSUME Spared(Astray)'
          PROVE  \A j \in Keys : ~Quiet(j)' => Latest(j)' = held'[j]
      BY <1>i, <1>f, <1>t, <2>1, <3>0, <3>2 DEF StandingFollows, Entered, Others, Apart, Idle, HeldIs,
              WillTell, OthersTold, Spared, Astray
    <3>3. ASSUME Spared(Astray)'
          PROVE  \A v \in Workers : \A j \in Keys :
            /\ Brings(v)' /\ task'[v].k = j /\ Quiet(j)' =>
                 task'[v].status = held'[j]
            /\ Subscribes(v)' /\ task'[v].k = j /\ Quiet(j)' => held'[j] # "active"
      BY <1>i, <1>f, <1>t, <2>1, <3>0, <3>3 DEF StandingFollows, Entered, Others, Apart, Idle, Brings,
              Subscribes, HeldIs, WillTell, OthersTold, Spared, Astray
    <3>4. ASSUME Spared(Astray)'
          PROVE  \A v \in Workers : \A j \in Keys : task'[v].step = "cancel" /\ row'.sub = j => ~Quiet(j)'
      BY <1>i, <1>f, <1>t, <2>1, <3>0, <3>4 DEF StandingFollows, Entered, Others, Apart, Idle, HeldIs,
              WillTell, OthersTold
    <3>5. ASSUME Spared(Astray)'
          PROVE  \A j \in Keys : row'.sub = j /\ Quiet(j)' =>
            \/ row'.status = "active" <=> held'[j] = "active"
            \/ \E v \in Workers : Brings(v)' /\ task'[v].k = j
      BY <1>i, <1>f, <1>t, <2>1, <3>0, <3>5 DEF StandingFollows, Entered, Others, Apart, Idle, Brings,
              HeldIs, WillTell, OthersTold
    <3> QED
      BY <3>1, <3>2, <3>3, <3>4, <3>5 DEF StandingFollows

  <2>8. DatesFollow'
    <3>0. ASSUME Spared({"again", "resubscribed", "unconfirmed", "overlap"})'
          PROVE  Spared({"again", "resubscribed", "unconfirmed", "overlap"})
      BY <2>1, <3>0 DEF Spared, Entered
    <3>1. \A v \in Workers : (Subscribes(v)' => Subscribes(v) /\ task'[v] = task[v])
                           /\ (Loses(v)' => Loses(v) /\ task'[v] = task[v])
      BY <2>1 DEF Subscribes, Loses, Others, Entered
    <3>2. row' = row /\ since' = since
      BY <2>1
    <3> QED
      BY <1>i, <3>0, <3>1, <3>2 DEF DatesFollow
  <2>9. WaiverFollows'
    BY <1>i, <1>t, <1>w, <2>u, <2>1
    DEF WaiverFollows, Alone, Apart, Idle, Entered, Others, OthersTold
  <2>10. DebtFollows'
    <3>1. /\ \A v \in Workers : task'[v].step \in {"loss", "loss_debt"} => task'[v] = task[v]
          /\ \A v \in Workers : task[v].step \in {"loss", "loss_debt"} => task'[v] = task[v]
          /\ befell \subseteq befell' /\ waived' = waived /\ owed' = owed
      BY <2>1 DEF Others, Entered
    <3> QED
      BY <1>i, <1>t, <1>w, <2>u, <3>1 DEF DebtFollows, Loses

  <2> QED
    BY <2>2, <2>3, <2>4, <2>5, <2>6, <2>7, <2>8, <2>9, <2>10
<1>7. ASSUME NEW w \in Workers, NEW l \in Losses, LossRead(w, l)
      PROVE  SubscriptionsTyped' /\ Rest'
  <2>1. /\ task' \in [Workers -> SubscriptionTasks] /\ Others(w) /\ Entered(w)
        /\ task'[w].step = "loss" /\ task'[w].l = l /\ SameTold
        /\ task'[w].cover \in Int /\ task'[w].cover <= Liability
        /\ Used <= PeriodCap => task'[w].cover <= PeriodCap - Used
        /\ \/ "unconfirmed" \in befell'
           \/ (row.activated = "old" => since[row.sub] = "old") => task'[w].waited
        /\ owed[l] = None
        /\ \A v \in Workers : task[v].step \in {"loss", "loss_debt"} => task[v].l # l
        /\ UNCHANGED <<row, held, since, shown, events, waived, owed>>
    <3>s. events' = events
      BY <1>7 DEF LossRead, stripe
    <3>m. SameTold
      BY <3>s DEF SameTold, Quiet, Latest, Coming
    <3> DEFINE covered == row.status = "active" /\ Started = "old"
               waited == covered => since[row.sub] = "old"
               cover == IF covered THEN Cover ELSE 0
               t == [step |-> "loss", l |-> l, cover |-> cover, waited |-> waited]
    <3>1. cover \in Int /\ cover <= Liability /\ (Used <= PeriodCap => cover <= PeriodCap - Used)
      BY <1>w, CoverBounds
    <3>2. IF covered /\ row.activated = "never" THEN BeginAmid(w, t, "unconfirmed") ELSE Begin(w, t)
      BY <1>7 DEF LossRead
    <3>3. covered /\ row.activated # "never" => row.activated = "old"
      BY DEF Started
    <3>4. waited \in BOOLEAN
      OBVIOUS
    <3> HIDE DEF cover, waited
    <3>5. t \in SubscriptionTasks /\ t.step = "loss" /\ t.l = l /\ t.cover = cover /\ t.waited = waited
      BY <3>1, <3>4 DEF SubscriptionTasks
    <3> HIDE DEF t
    <3>6. task' \in [Workers -> SubscriptionTasks] /\ task'[w] = t /\ Others(w) /\ Entered(w)
      BY <1>k, <3>2, <3>5, BeginEffect, BeginAmidEffect
    <3>7. "unconfirmed" \in befell' \/ ((row.activated = "old" => since[row.sub] = "old") => waited)
      <4>1. covered /\ row.activated = "never" => "unconfirmed" \in befell'
        BY <1>k, <3>2, <3>5, BeginAmidEffect
      <4> QED
        BY <3>3, <4>1 DEF waited
    <3>8. owed[l] = None /\ \A v \in Workers : task[v].step \in {"loss", "loss_debt"} => task[v].l # l
      BY <1>7 DEF LossRead
    <3> QED
      BY <1>7, <3>m, <3>1, <3>5, <3>6, <3>7, <3>8 DEF LossRead, stripe, losses
  <2>2. SubscriptionsTyped'
    BY <1>i, <2>1 DEF SubscriptionsTyped, Entered, Others, SameTold
  <2>u. Used' = Used /\ Waiver' = Waiver
    BY <2>1 DEF Used, Waiver
  <2>3. Alone'
    BY <1>i, <2>1
    DEF Alone, Apart, Idle, Entered, Others, SameTold
  <2>4. HeldFollows'
    BY <1>i, <1>f, <1>t, <2>1
    DEF HeldFollows, Brings, Entered, Others, SameTold
  <2>5. OneAlive'
    BY <1>i, <1>f, <1>t, <2>1
    DEF OneAlive, Alive, Subscribes, Alone, Apart, Idle, Spared, Entered, Others, SameTold
  <2>6. RowFollows'
    BY <1>i, <1>f, <1>t, <2>1
    DEF RowFollows, HeldFollows, Brings, Alone, Apart, Idle, Entered, Others, SameTold
  <2>7. StandingFollows'
    BY <1>i, <1>f, <1>t, <2>1
    DEF StandingFollows, HeldFollows, OneAlive, RowFollows, Alive, Astray, Subscribes, Brings,
      Alone, Apart, Idle, Spared, Entered, Others, SameTold
  <2>8. DatesFollow'
    BY <1>i, <1>f, <1>t, <2>1
    DEF DatesFollow, HeldFollows, RowFollows, Subscribes, Loses, Alone, Apart, Idle, Spared,
      Entered, Others, SameTold
  <2>9. WaiverFollows'
    BY <1>i, <1>t, <1>w, <2>u, <2>1
    DEF WaiverFollows, Alone, Apart, Idle, Entered, Others, SameTold
  <2>10. DebtFollows'
    BY <1>i, <1>t, <1>w, <2>u, <2>1
    DEF DebtFollows, Loses, Entered, Others, SameTold
  <2> QED
    BY <2>2, <2>3, <2>4, <2>5, <2>6, <2>7, <2>8, <2>9, <2>10
<1>8. ASSUME NEW w \in Workers, SubscribeCreate(w)
      PROVE  SubscriptionsTyped' /\ Rest'
  <2>0. PICK k \in Keys : task[w].k = k
    BY <1>8, <1>t DEF SubscribeCreate
  <2>1. /\ task' \in [Workers -> SubscriptionTasks] /\ Others(w) /\ befell' = befell
        /\ task[w].step = "sub_create" /\ task[w].k = k
        /\ task'[w].step = "sub_row" /\ task'[w].k = k /\ SameTold
        /\ \/ held[k] = "none" /\ HeldIs(k, "incomplete")
           \/ held[k] # "none" /\ held' = held
        /\ UNCHANGED <<row, since, shown, events, waived, owed>>
    <3>s. events' = events
      BY <1>8 DEF SubscribeCreate, stripe
    <3>m. SameTold
      BY <3>s DEF SameTold, Quiet, Latest, Coming
    <3> DEFINE t == [task[w] EXCEPT !.step = "sub_row"]
    <3>1. t \in SubscriptionTasks /\ t.step = "sub_row" /\ t.k = k
      BY <1>8, <1>i, <2>0, SubscriptionFields DEF SubscribeCreate
    <3>2. Becomes(w, t) /\ befell' = befell
      BY <1>8 DEF SubscribeCreate, Goto
    <3> HIDE DEF t
    <3>3. task' \in [Workers -> SubscriptionTasks] /\ task'[w] = t /\ Others(w)
      BY <1>k, <3>1, <3>2, BecomesEffect
    <3>4. held' = IF held[k] = "none" THEN [held EXCEPT ![k] = "incomplete"] ELSE held
      BY <1>8, <2>0 DEF SubscribeCreate
    <3>5. \/ held[k] = "none" /\ HeldIs(k, "incomplete")
          \/ held[k] # "none" /\ held' = held
      BY <1>s, <3>4 DEF HeldIs, Standings
    <3> QED
      BY <1>8, <2>0, <3>m, <3>1, <3>2, <3>3, <3>5 DEF SubscribeCreate, losses
  <2>2. SubscriptionsTyped'
    BY <1>i, <2>1, <1>s DEF SubscriptionsTyped, Others, HeldIs, SameTold
  <2>u. Used' = Used /\ Waiver' = Waiver
    BY <2>1 DEF Used, Waiver
  <2>3. Alone'
    BY <1>i, <2>1
    DEF Alone, Apart, Idle, Others, HeldIs, SameTold
  <2>4. HeldFollows'
    BY <1>i, <1>f, <1>t, <2>1
    DEF HeldFollows, Brings, Others, HeldIs, SameTold
  <2>5. OneAlive'
    BY <1>i, <1>f, <1>t, <2>1
    DEF OneAlive, Alive, Subscribes, Alone, Apart, Idle, Spared, Others, HeldIs, SameTold
  <2>6. RowFollows'
    BY <1>i, <1>f, <1>t, <2>1
    DEF RowFollows, HeldFollows, Brings, Alone, Apart, Idle, Others, HeldIs, SameTold
  <2>7. StandingFollows'
    BY <1>i, <1>f, <1>t, <2>1
    DEF StandingFollows, HeldFollows, OneAlive, RowFollows, Alive, Astray, Subscribes, Brings,
      Alone, Apart, Idle, Spared, Others, HeldIs, SameTold
  <2>8. DatesFollow'
    BY <1>i, <1>f, <1>t, <2>1
    DEF DatesFollow, HeldFollows, RowFollows, Subscribes, Loses, Alone, Apart, Idle, Spared,
      Others, HeldIs, SameTold
  <2>9. WaiverFollows'
    BY <1>i, <1>t, <1>w, <2>u, <2>1
    DEF WaiverFollows, Alone, Apart, Idle, Others, HeldIs, SameTold
  <2>10. DebtFollows'
    BY <1>i, <1>t, <1>w, <2>u, <2>1
    DEF DebtFollows, Loses, Others, HeldIs, SameTold
  <2> QED
    BY <2>2, <2>3, <2>4, <2>5, <2>6, <2>7, <2>8, <2>9, <2>10
<1>9. ASSUME NEW w \in Workers, SubscribeRow(w)
      PROVE  SubscriptionsTyped' /\ Rest'
  <2>0. PICK k \in Keys : task[w].k = k
    BY <1>9, <1>t DEF SubscribeRow
  <2>1. /\ task' \in [Workers -> SubscriptionTasks] /\ task'[w].step = "idle" /\ Others(w)
        /\ befell' = befell
        /\ task[w].step = "sub_row" /\ task[w].k = k /\ SameTold
        /\ PlanIs("incomplete", k, row.activated) /\ shown' \subseteq Keys
        /\ UNCHANGED <<held, since, events, waived, owed>>
    <3>s. events' = events
      BY <1>9 DEF SubscribeRow, stripe
    <3>m. SameTold
      BY <3>s DEF SameTold, Quiet, Latest, Coming
    <3>1. Becomes(w, Resting) /\ befell' = befell
      BY <1>9 DEF SubscribeRow, Finish
    <3>2. task' \in [Workers -> SubscriptionTasks] /\ task'[w].step = "idle" /\ Others(w)
      BY <1>k, <1>r, <3>1, BecomesEffect
    <3>3. "incomplete" \in Standings /\ row' = Upserted(k, "incomplete") /\ shown' = shown \cup {k}
      BY <1>9, <2>0 DEF SubscribeRow, Standings
    <3>4. PlanIs("incomplete", k, row.activated)
      BY <1>s, <3>3, PlanEdits DEF PlanIs
    <3>5. shown' \subseteq Keys
      BY <1>i, <3>3 DEF SubscriptionsTyped
    <3> QED
      BY <1>9, <2>0, <3>m, <3>1, <3>2, <3>4, <3>5 DEF SubscribeRow, stripe, losses
  <2>2. SubscriptionsTyped'
    BY <1>i, <2>1 DEF SubscriptionsTyped, Others, PlanIs, SameTold
  <2>u. Used' = Used /\ Waiver' = Waiver
    BY <2>1 DEF Used, Waiver
  <2>3. Alone'
    BY <1>i, <2>1
    DEF Alone, Apart, Idle, Others, PlanIs, SameTold
  <2>4. HeldFollows'
    BY <1>i, <1>f, <1>t, <2>1
    DEF HeldFollows, Brings, Others, PlanIs, SameTold
  <2>5. OneAlive'
    BY <1>i, <1>f, <1>t, <2>1
    DEF OneAlive, Alive, Subscribes, Alone, Apart, Idle, Spared, Others, PlanIs, SameTold
  <2>6. RowFollows'
    BY <1>i, <1>f, <1>t, <2>1
    DEF RowFollows, HeldFollows, Brings, Alone, Apart, Idle, Others, PlanIs, SameTold
  <2>7. StandingFollows'
    BY <1>i, <1>f, <1>t, <2>1
    DEF StandingFollows, HeldFollows, OneAlive, RowFollows, Alive, Astray, Subscribes, Brings,
      Alone, Apart, Idle, Spared, Others, PlanIs, SameTold
  <2>8. DatesFollow'
    BY <1>i, <1>f, <1>t, <2>1
    DEF DatesFollow, HeldFollows, RowFollows, Subscribes, Loses, Alone, Apart, Idle, Spared,
      Others, PlanIs, SameTold
  <2>9. WaiverFollows'
    BY <1>i, <1>t, <1>w, <2>u, <2>1
    DEF WaiverFollows, Alone, Apart, Idle, Others, PlanIs, SameTold
  <2>10. DebtFollows'
    BY <1>i, <1>t, <1>w, <2>u, <2>1
    DEF DebtFollows, Loses, Others, PlanIs, SameTold
  <2> QED
    BY <2>2, <2>3, <2>4, <2>5, <2>6, <2>7, <2>8, <2>9, <2>10
<1>10. ASSUME NEW w \in Workers, ConfirmRead(w)
      PROVE  SubscriptionsTyped' /\ Rest'
  <2>0. PICK k \in Keys : row.sub = k
    BY <1>10, <1>i, <1>f DEF ConfirmRead
  <2>1. /\ task' \in [Workers -> SubscriptionTasks] /\ Others(w) /\ Entered(w)
        /\ task'[w].step = "confirm" /\ task'[w].k = k /\ task'[w].status = held[k]
        /\ row.sub = k /\ SameTold
        /\ UNCHANGED <<row, held, since, shown, events, waived, owed>>
    <3>s. events' = events
      BY <1>10 DEF ConfirmRead, stripe
    <3>m. SameTold
      BY <3>s DEF SameTold, Quiet, Latest, Coming
    <3> DEFINE t == [step |-> "confirm", k |-> k, status |-> held[k]]
    <3>1. t \in SubscriptionTasks /\ t.step = "confirm" /\ t.k = k /\ t.status = held[k]
      BY <1>f DEF SubscriptionTasks, Applies
    <3>2. Begin(w, t)
      BY <1>10, <2>0 DEF ConfirmRead
    <3> HIDE DEF t
    <3>3. task' \in [Workers -> SubscriptionTasks] /\ task'[w] = t /\ Others(w) /\ Entered(w)
      BY <1>k, <3>1, <3>2, BeginEffect
    <3> QED
      BY <1>10, <1>e, <2>0, <3>m, <3>1, <3>3 DEF ConfirmRead, stripe, losses
  <2>2. SubscriptionsTyped'
    BY <1>i, <2>1 DEF SubscriptionsTyped, Entered, Others, SameTold
  <2>u. Used' = Used /\ Waiver' = Waiver
    BY <2>1 DEF Used, Waiver
  <2>3. Alone'
    BY <1>i, <2>1
    DEF Alone, Apart, Idle, Entered, Others, SameTold
  <2>4. HeldFollows'
    BY <1>i, <1>f, <1>t, <2>1
    DEF HeldFollows, Brings, Entered, Others, SameTold
  <2>5. OneAlive'
    BY <1>i, <1>f, <1>t, <2>1
    DEF OneAlive, Alive, Subscribes, Alone, Apart, Idle, Spared, Entered, Others, SameTold
  <2>6. RowFollows'
    BY <1>i, <1>f, <1>t, <2>1
    DEF RowFollows, HeldFollows, Brings, Alone, Apart, Idle, Entered, Others, SameTold
  <2>7. StandingFollows'
    BY <1>i, <1>f, <1>t, <2>1
    DEF StandingFollows, HeldFollows, OneAlive, RowFollows, Alive, Astray, Subscribes, Brings,
      Alone, Apart, Idle, Spared, Entered, Others, SameTold
  <2>8. DatesFollow'
    BY <1>i, <1>f, <1>t, <2>1
    DEF DatesFollow, HeldFollows, RowFollows, Subscribes, Loses, Alone, Apart, Idle, Spared,
      Entered, Others, SameTold
  <2>9. WaiverFollows'
    BY <1>i, <1>t, <1>w, <2>u, <2>1
    DEF WaiverFollows, Alone, Apart, Idle, Entered, Others, SameTold
  <2>10. DebtFollows'
    BY <1>i, <1>t, <1>w, <2>u, <2>1
    DEF DebtFollows, Loses, Entered, Others, SameTold
  <2> QED
    BY <2>2, <2>3, <2>4, <2>5, <2>6, <2>7, <2>8, <2>9, <2>10
<1>11. ASSUME NEW w \in Workers, ConfirmRow(w)
      PROVE  SubscriptionsTyped' /\ Rest'
  <2>0. PICK k \in Keys, s \in Standings : task[w].k = k /\ task[w].status = s
    BY <1>11, <1>t DEF ConfirmRow
  <2>1. /\ task' \in [Workers -> SubscriptionTasks] /\ task'[w].step = "idle" /\ Others(w)
        /\ befell' = befell
        /\ task[w].step = "confirm" /\ task[w].k = k /\ task[w].status = s /\ SameTold
        /\ PlanIs(s, k, IF s = "active" /\ row.activated = "never" THEN "recent" ELSE row.activated)
        /\ UNCHANGED <<held, since, shown, events, waived, owed>>
    <3>s. events' = events
      BY <1>11 DEF ConfirmRow, stripe
    <3>m. SameTold
      BY <3>s DEF SameTold, Quiet, Latest, Coming
    <3>1. Becomes(w, Resting) /\ befell' = befell
      BY <1>11 DEF ConfirmRow, Finish
    <3>2. task' \in [Workers -> SubscriptionTasks] /\ task'[w].step = "idle" /\ Others(w)
      BY <1>k, <1>r, <3>1, BecomesEffect
    <3>3. row' = Upserted(k, s)
      BY <1>11, <2>0 DEF ConfirmRow
    <3>4. PlanIs(s, k, IF s = "active" /\ row.activated = "never" THEN "recent" ELSE row.activated)
      BY <1>s, <3>3, PlanEdits DEF PlanIs
    <3> QED
      BY <1>11, <2>0, <3>m, <3>1, <3>2, <3>4 DEF ConfirmRow, stripe, losses
  <2>2. SubscriptionsTyped'
    BY <1>i, <2>1 DEF SubscriptionsTyped, Others, PlanIs, SameTold
  <2>u. Used' = Used /\ Waiver' = Waiver
    BY <2>1 DEF Used, Waiver
  <2>3. Alone'
    BY <1>i, <2>1
    DEF Alone, Apart, Idle, Others, PlanIs, SameTold
  <2>4. HeldFollows'
    BY <1>i, <1>f, <1>t, <2>1
    DEF HeldFollows, Brings, Others, PlanIs, SameTold
  <2>5. OneAlive'
    BY <1>i, <1>f, <1>t, <2>1
    DEF OneAlive, Alive, Subscribes, Alone, Apart, Idle, Spared, Others, PlanIs, SameTold
  <2>6. RowFollows'
    BY <1>i, <1>f, <1>t, <2>1
    DEF RowFollows, HeldFollows, Brings, Alone, Apart, Idle, Others, PlanIs, SameTold
  <2>7. StandingFollows'
    BY <1>i, <1>f, <1>t, <2>1
    DEF StandingFollows, HeldFollows, OneAlive, RowFollows, Alive, Astray, Subscribes, Brings,
      Alone, Apart, Idle, Spared, Others, PlanIs, SameTold
  <2>8. DatesFollow'
    BY <1>i, <1>f, <1>t, <2>1
    DEF DatesFollow, HeldFollows, RowFollows, Subscribes, Loses, Alone, Apart, Idle, Spared,
      Others, PlanIs, SameTold
  <2>9. WaiverFollows'
    BY <1>i, <1>t, <1>w, <2>u, <2>1
    DEF WaiverFollows, Alone, Apart, Idle, Others, PlanIs, SameTold
  <2>10. DebtFollows'
    BY <1>i, <1>t, <1>w, <2>u, <2>1
    DEF DebtFollows, Loses, Others, PlanIs, SameTold
  <2> QED
    BY <2>2, <2>3, <2>4, <2>5, <2>6, <2>7, <2>8, <2>9, <2>10
<1>12. ASSUME NEW w \in Workers, CancelRead(w)
      PROVE  SubscriptionsTyped' /\ Rest'
  <2>0. PICK k \in Keys : row.sub = k
    BY <1>12, <1>i, <1>f DEF CancelRead, Alive
  <2>1. /\ task' \in [Workers -> SubscriptionTasks] /\ Others(w) /\ Entered(w)
        /\ task'[w].step = "cancel"
        /\ row.sub = k /\ HeldIs(k, "canceled") /\ WillTell(k, "canceled")
        /\ held[k] \in {"incomplete", "active", "past_due"}
        /\ UNCHANGED <<row, since, shown, waived, owed>>
    <3>4. /\ held' = [held EXCEPT ![k] = "canceled"]
          /\ events' = [events EXCEPT ![k] = Append(@, "canceled")]
          /\ held[k] \in {"incomplete", "active", "past_due"} /\ "canceled" \in Standings
      BY <1>12, <2>0 DEF CancelRead, CancelledAtStripe, Alive, Standings
    <3>5. WillTell(k, "canceled")
      BY <1>i, <3>4, Telling
    <3>m. HeldIs(k, "canceled") /\ WillTell(k, "canceled")
          /\ held[k] \in {"incomplete", "active", "past_due"}
      BY <1>s, <3>4, <3>5 DEF HeldIs
    <3> DEFINE t == [step |-> "cancel"]
    <3>1. t \in SubscriptionTasks /\ t.step = "cancel"
      BY <1>f DEF SubscriptionTasks, Applies
    <3>2. Begin(w, t)
      BY <1>12, <2>0 DEF CancelRead
    <3> HIDE DEF t
    <3>3. task' \in [Workers -> SubscriptionTasks] /\ task'[w] = t /\ Others(w) /\ Entered(w)
      BY <1>k, <3>1, <3>2, BeginEffect
    <3> QED
      BY <1>12, <1>e, <2>0, <3>m, <3>1, <3>3 DEF CancelRead, stripe, losses
  <2>2. SubscriptionsTyped'
    BY <1>i, <2>1 DEF SubscriptionsTyped, Entered, Others, HeldIs, WillTell, OthersTold
  <2>u. Used' = Used /\ Waiver' = Waiver
    BY <2>1 DEF Used, Waiver
  <2>3. Alone'
    BY <1>i, <2>1
    DEF Alone, Apart, Idle, Entered, Others, HeldIs, WillTell, OthersTold
  <2>4. HeldFollows'
    <3>1. \A j \in Keys :
            IF held'[j] \in {"none", "incomplete", "incomplete_expired"} THEN since'[j] = "never"
            ELSE held'[j] \in {"active", "past_due"} => since'[j] # "never"
      BY <1>i, <1>f, <1>t, <2>1 DEF HeldFollows, HeldIs
    <3>2. \A j \in Keys : held'[j] = "none" => Quiet(j)'
      BY <1>i, <1>f, <1>t, <2>1 DEF HeldFollows, HeldIs, WillTell, OthersTold
    <3>3. \A j \in Keys : "canceled" \in Coming(j)' => held'[j] = "canceled"
      BY <1>i, <1>f, <1>t, <2>1 DEF HeldFollows, HeldIs, WillTell, OthersTold
    <3>4. \A v \in Workers : Brings(v)' /\ task'[v].status = "canceled" =>
            held'[task'[v].k] = "canceled"
      BY <1>i, <1>f, <1>t, <2>1 DEF HeldFollows, Entered, Others, Brings, HeldIs
    <3>5. \A v \in Workers : task'[v].step = "confirm" /\ task'[v].status = "active" =>
            since'[task'[v].k] # "never"
      BY <1>i, <1>f, <1>t, <2>1 DEF HeldFollows, Entered, Others, HeldIs
    <3>6. row'.sub = None => row'.status = "none" /\ row'.activated = "never"
      BY <1>i, <1>f, <1>t, <2>1 DEF HeldFollows, Brings
    <3>7. \A v \in Workers : task'[v].step = "cancel" => row'.sub # None
      BY <1>i, <1>f, <1>t, <2>1 DEF HeldFollows, Entered, Others, Brings
    <3> QED
      BY <3>1, <3>2, <3>3, <3>4, <3>5, <3>6, <3>7 DEF HeldFollows

  <2>5. OneAlive'
    <3>1. Alive' \subseteq Alive
      BY <2>1 DEF Alive, HeldIs
    <3>2. Spared({"again", "overlap"})' => Spared({"again", "overlap"})
      BY <2>1 DEF Spared, Entered
    <3>3. \A v \in Workers : Subscribes(v)' => Subscribes(v) /\ task'[v] = task[v]
      BY <2>1 DEF Subscribes, Others
    <3> QED
      BY <1>i, <3>1, <3>2, <3>3 DEF OneAlive
  <2>6. RowFollows'
    BY <1>i, <1>f, <1>t, <2>1
    DEF RowFollows, HeldFollows, Brings, Alone, Apart, Idle, Entered, Others, HeldIs, WillTell,
      OthersTold
  <2>7. StandingFollows'
    <3>0. Spared(Astray)' => Spared(Astray) /\ Apart /\ Apart'
      BY <2>1 DEF Spared, Astray, Apart, Entered
    <3>1. ASSUME Spared(Astray)'
          PROVE  \A j \in Alive' : row'.sub = j \/ \E v \in Workers : task'[v].step = "sub_row" /\ task'[v].k = j
      BY <1>i, <1>f, <1>t, <2>1, <3>0, <3>1 DEF StandingFollows, Entered, Others, Apart, Idle, Alive,
              HeldIs, OthersTold
    <3>2. ASSUME Spared(Astray)'
          PROVE  \A j \in Keys : ~Quiet(j)' => Latest(j)' = held'[j]
      BY <1>i, <1>f, <1>t, <2>1, <3>0, <3>2 DEF StandingFollows, Entered, Others, Apart, Idle, HeldIs,
              WillTell, OthersTold, Spared, Astray
    <3>3. ASSUME Spared(Astray)'
          PROVE  \A v \in Workers : \A j \in Keys :
            /\ Brings(v)' /\ task'[v].k = j /\ Quiet(j)' =>
                 task'[v].status = held'[j]
            /\ Subscribes(v)' /\ task'[v].k = j /\ Quiet(j)' => held'[j] # "active"
      BY <1>i, <1>f, <1>t, <2>1, <3>0, <3>3 DEF StandingFollows, Entered, Others, Apart, Idle, Brings,
              Subscribes, HeldIs, WillTell, OthersTold, Spared, Astray
    <3>4. ASSUME Spared(Astray)'
          PROVE  \A v \in Workers : \A j \in Keys : task'[v].step = "cancel" /\ row'.sub = j => ~Quiet(j)'
      BY <1>i, <1>f, <1>t, <2>1, <3>0, <3>4 DEF StandingFollows, Entered, Others, Apart, Idle, HeldIs,
              WillTell, OthersTold
    <3>5. ASSUME Spared(Astray)'
          PROVE  \A j \in Keys : row'.sub = j /\ Quiet(j)' =>
            \/ row'.status = "active" <=> held'[j] = "active"
            \/ \E v \in Workers : Brings(v)' /\ task'[v].k = j
      BY <1>i, <1>f, <1>t, <2>1, <3>0, <3>5 DEF StandingFollows, Entered, Others, Apart, Idle, Brings,
              HeldIs, WillTell, OthersTold
    <3> QED
      BY <3>1, <3>2, <3>3, <3>4, <3>5 DEF StandingFollows

  <2>8. DatesFollow'
    <3>0. ASSUME Spared({"again", "resubscribed", "unconfirmed", "overlap"})'
          PROVE  Spared({"again", "resubscribed", "unconfirmed", "overlap"})
      BY <2>1, <3>0 DEF Spared, Entered
    <3>1. \A v \in Workers : (Subscribes(v)' => Subscribes(v) /\ task'[v] = task[v])
                           /\ (Loses(v)' => Loses(v) /\ task'[v] = task[v])
      BY <2>1 DEF Subscribes, Loses, Others, Entered
    <3>2. row' = row /\ since' = since
      BY <2>1
    <3> QED
      BY <1>i, <3>0, <3>1, <3>2 DEF DatesFollow
  <2>9. WaiverFollows'
    BY <1>i, <1>t, <1>w, <2>u, <2>1
    DEF WaiverFollows, Alone, Apart, Idle, Entered, Others, HeldIs, WillTell, OthersTold
  <2>10. DebtFollows'
    <3>1. /\ \A v \in Workers : task'[v].step \in {"loss", "loss_debt"} => task'[v] = task[v]
          /\ \A v \in Workers : task[v].step \in {"loss", "loss_debt"} => task'[v] = task[v]
          /\ befell \subseteq befell' /\ waived' = waived /\ owed' = owed
      BY <2>1 DEF Others, Entered
    <3> QED
      BY <1>i, <1>t, <1>w, <2>u, <3>1 DEF DebtFollows, Loses

  <2> QED
    BY <2>2, <2>3, <2>4, <2>5, <2>6, <2>7, <2>8, <2>9, <2>10
<1>13. ASSUME NEW w \in Workers, CancelRow(w)
      PROVE  SubscriptionsTyped' /\ Rest'
  <2>1. /\ task' \in [Workers -> SubscriptionTasks] /\ task'[w].step = "idle" /\ Others(w)
        /\ befell' = befell
        /\ task[w].step = "cancel" /\ PlanIs("canceled", row.sub, row.activated) /\ SameTold
        /\ UNCHANGED <<held, since, shown, events, waived, owed>>
    <3>s. events' = events
      BY <1>13 DEF CancelRow, stripe
    <3>m. SameTold
      BY <3>s DEF SameTold, Quiet, Latest, Coming
    <3>1. Becomes(w, Resting) /\ befell' = befell
      BY <1>13 DEF CancelRow, Finish
    <3>2. task' \in [Workers -> SubscriptionTasks] /\ task'[w].step = "idle" /\ Others(w)
      BY <1>k, <1>r, <3>1, BecomesEffect
    <3>3. "canceled" \in Standings /\ row' = [row EXCEPT !.status = "canceled"]
      BY <1>13 DEF CancelRow, Standings
    <3>4. PlanIs("canceled", row.sub, row.activated)
      BY <1>s, <3>3, PlanEdits DEF PlanIs
    <3> QED
      BY <1>13, <3>m, <3>1, <3>2, <3>4 DEF CancelRow, stripe, losses
  <2>2. SubscriptionsTyped'
    BY <1>i, <2>1 DEF SubscriptionsTyped, Others, PlanIs, SameTold
  <2>u. Used' = Used /\ Waiver' = Waiver
    BY <2>1 DEF Used, Waiver
  <2>3. Alone'
    BY <1>i, <2>1
    DEF Alone, Apart, Idle, Others, PlanIs, SameTold
  <2>4. HeldFollows'
    BY <1>i, <1>f, <1>t, <2>1
    DEF HeldFollows, Brings, Others, PlanIs, SameTold
  <2>5. OneAlive'
    BY <1>i, <1>f, <1>t, <2>1
    DEF OneAlive, Alive, Subscribes, Alone, Apart, Idle, Spared, Others, PlanIs, SameTold
  <2>6. RowFollows'
    BY <1>i, <1>f, <1>t, <2>1
    DEF RowFollows, HeldFollows, Brings, Alone, Apart, Idle, Others, PlanIs, SameTold
  <2>7. StandingFollows'
    BY <1>i, <1>f, <1>t, <2>1
    DEF StandingFollows, HeldFollows, OneAlive, RowFollows, Alive, Astray, Subscribes, Brings,
      Alone, Apart, Idle, Spared, Others, PlanIs, SameTold
  <2>8. DatesFollow'
    BY <1>i, <1>f, <1>t, <2>1
    DEF DatesFollow, HeldFollows, RowFollows, Subscribes, Loses, Alone, Apart, Idle, Spared,
      Others, PlanIs, SameTold
  <2>9. WaiverFollows'
    BY <1>i, <1>t, <1>w, <2>u, <2>1
    DEF WaiverFollows, Alone, Apart, Idle, Others, PlanIs, SameTold
  <2>10. DebtFollows'
    BY <1>i, <1>t, <1>w, <2>u, <2>1
    DEF DebtFollows, Loses, Others, PlanIs, SameTold
  <2> QED
    BY <2>2, <2>3, <2>4, <2>5, <2>6, <2>7, <2>8, <2>9, <2>10
<1>14. ASSUME NEW w \in Workers, Reconcile(w)
      PROVE  SubscriptionsTyped' /\ Rest'
  <2>0. PICK k \in Keys : row.sub = k
    BY <1>14, <1>i, <1>f, <1>e DEF Reconcile, HeldFollows
  <2>1. /\ task' \in [Workers -> SubscriptionTasks] /\ Others(w) /\ Entered(w)
        /\ task'[w].step = "apply_read" /\ task'[w].k = k /\ task'[w].status = held[k]
        /\ row.sub = k /\ SameTold
        /\ UNCHANGED <<row, held, since, shown, events, waived, owed>>
    <3>s. events' = events
      BY <1>14 DEF Reconcile, stripe
    <3>m. SameTold
      BY <3>s DEF SameTold, Quiet, Latest, Coming
    <3> DEFINE t == Applies(k, held[k])
    <3>1. t \in SubscriptionTasks /\ t.step = "apply_read" /\ t.k = k /\ t.status = held[k]
      BY <1>f DEF SubscriptionTasks, Applies
    <3>2. Begin(w, t)
      BY <1>14, <2>0 DEF Reconcile
    <3> HIDE DEF t
    <3>3. task' \in [Workers -> SubscriptionTasks] /\ task'[w] = t /\ Others(w) /\ Entered(w)
      BY <1>k, <3>1, <3>2, BeginEffect
    <3> QED
      BY <1>14, <1>e, <2>0, <3>m, <3>1, <3>3 DEF Reconcile, stripe, losses
  <2>2. SubscriptionsTyped'
    BY <1>i, <2>1 DEF SubscriptionsTyped, Entered, Others, SameTold
  <2>u. Used' = Used /\ Waiver' = Waiver
    BY <2>1 DEF Used, Waiver
  <2>3. Alone'
    BY <1>i, <2>1
    DEF Alone, Apart, Idle, Entered, Others, SameTold
  <2>4. HeldFollows'
    BY <1>i, <1>f, <1>t, <2>1
    DEF HeldFollows, Brings, Entered, Others, SameTold
  <2>5. OneAlive'
    BY <1>i, <1>f, <1>t, <2>1
    DEF OneAlive, Alive, Subscribes, Alone, Apart, Idle, Spared, Entered, Others, SameTold
  <2>6. RowFollows'
    BY <1>i, <1>f, <1>t, <2>1
    DEF RowFollows, HeldFollows, Brings, Alone, Apart, Idle, Entered, Others, SameTold
  <2>7. StandingFollows'
    BY <1>i, <1>f, <1>t, <2>1
    DEF StandingFollows, HeldFollows, OneAlive, RowFollows, Alive, Astray, Subscribes, Brings,
      Alone, Apart, Idle, Spared, Entered, Others, SameTold
  <2>8. DatesFollow'
    BY <1>i, <1>f, <1>t, <2>1
    DEF DatesFollow, HeldFollows, RowFollows, Subscribes, Loses, Alone, Apart, Idle, Spared,
      Entered, Others, SameTold
  <2>9. WaiverFollows'
    BY <1>i, <1>t, <1>w, <2>u, <2>1
    DEF WaiverFollows, Alone, Apart, Idle, Entered, Others, SameTold
  <2>10. DebtFollows'
    BY <1>i, <1>t, <1>w, <2>u, <2>1
    DEF DebtFollows, Loses, Entered, Others, SameTold
  <2> QED
    BY <2>2, <2>3, <2>4, <2>5, <2>6, <2>7, <2>8, <2>9, <2>10
<1>15. ASSUME NEW w \in Workers, StateRead(w)
      PROVE  SubscriptionsTyped' /\ Rest'
  <2>0. PICK k \in Keys, s \in Standings : task[w].k = k /\ task[w].status = s
    BY <1>15, <1>t DEF StateRead
  <2>1. /\ task' \in [Workers -> SubscriptionTasks] /\ Others(w) /\ befell' = befell
        /\ task[w].step = "apply_read" /\ task[w].k = k /\ task[w].status = s /\ SameTold
        /\ \/ /\ row.sub = k
              /\ task'[w].step = "apply" /\ task'[w].k = k /\ task'[w].status = s
           \/ (row.sub # k \/ row.status = s) /\ task'[w].step = "idle"
        /\ UNCHANGED <<row, held, since, shown, events, waived, owed>>
    <3>s. events' = events
      BY <1>15 DEF StateRead, stripe
    <3>m. SameTold
      BY <3>s DEF SameTold, Quiet, Latest, Coming
    <3> DEFINE t == IF row.sub = k /\ row.status # s THEN [task[w] EXCEPT !.step = "apply"] ELSE Resting
    <3>1. /\ t \in SubscriptionTasks
          /\ \/ row.sub = k /\ t.step = "apply" /\ t.k = k /\ t.status = s
             \/ (row.sub # k \/ row.status = s) /\ t.step = "idle"
      BY <1>15, <1>i, <1>r, <2>0, SubscriptionFields DEF StateRead
    <3>2. Becomes(w, t) /\ befell' = befell
      BY <1>15, <2>0 DEF StateRead, Goto, Finish
    <3> HIDE DEF t
    <3>3. task' \in [Workers -> SubscriptionTasks] /\ task'[w] = t /\ Others(w)
      BY <1>k, <3>1, <3>2, BecomesEffect
    <3> QED
      BY <1>15, <2>0, <3>m, <3>1, <3>2, <3>3 DEF StateRead, stripe, losses
  <2>2. SubscriptionsTyped'
    BY <1>i, <2>1 DEF SubscriptionsTyped, Others, SameTold
  <2>u. Used' = Used /\ Waiver' = Waiver
    BY <2>1 DEF Used, Waiver
  <2>3. Alone'
    BY <1>i, <2>1
    DEF Alone, Apart, Idle, Others, SameTold
  <2>4. HeldFollows'
    BY <1>i, <1>f, <1>t, <2>1
    DEF HeldFollows, Brings, Others, SameTold
  <2>5. OneAlive'
    BY <1>i, <1>f, <1>t, <2>1
    DEF OneAlive, Alive, Subscribes, Alone, Apart, Idle, Spared, Others, SameTold
  <2>6. RowFollows'
    BY <1>i, <1>f, <1>t, <2>1
    DEF RowFollows, HeldFollows, Brings, Alone, Apart, Idle, Others, SameTold
  <2>7. StandingFollows'
    BY <1>i, <1>f, <1>t, <2>1
    DEF StandingFollows, HeldFollows, OneAlive, RowFollows, Alive, Astray, Subscribes, Brings,
      Alone, Apart, Idle, Spared, Others, SameTold
  <2>8. DatesFollow'
    BY <1>i, <1>f, <1>t, <2>1
    DEF DatesFollow, HeldFollows, RowFollows, Subscribes, Loses, Alone, Apart, Idle, Spared,
      Others, SameTold
  <2>9. WaiverFollows'
    BY <1>i, <1>t, <1>w, <2>u, <2>1
    DEF WaiverFollows, Alone, Apart, Idle, Others, SameTold
  <2>10. DebtFollows'
    BY <1>i, <1>t, <1>w, <2>u, <2>1
    DEF DebtFollows, Loses, Others, SameTold
  <2> QED
    BY <2>2, <2>3, <2>4, <2>5, <2>6, <2>7, <2>8, <2>9, <2>10
<1>16. ASSUME NEW w \in Workers, StateRow(w)
      PROVE  SubscriptionsTyped' /\ Rest'
  <2>0. PICK k \in Keys, s \in Standings : task[w].k = k /\ task[w].status = s
    BY <1>16, <1>t DEF StateRow
  <2>1. /\ task' \in [Workers -> SubscriptionTasks] /\ task'[w].step = "idle" /\ Others(w)
        /\ befell' = befell
        /\ task[w].step = "apply" /\ task[w].k = k /\ task[w].status = s /\ SameTold
        /\ \/ row.sub = k /\ PlanIs(s, k, row.activated)
           \/ row.sub # k /\ row' = row
        /\ UNCHANGED <<held, since, shown, events, waived, owed>>
    <3>s. events' = events
      BY <1>16 DEF StateRow, stripe
    <3>m. SameTold
      BY <3>s DEF SameTold, Quiet, Latest, Coming
    <3>1. Becomes(w, Resting) /\ befell' = befell
      BY <1>16 DEF StateRow, Finish
    <3>2. task' \in [Workers -> SubscriptionTasks] /\ task'[w].step = "idle" /\ Others(w)
      BY <1>k, <1>r, <3>1, BecomesEffect
    <3>3. row' = IF row.sub = k THEN [row EXCEPT !.status = s] ELSE row
      BY <1>16, <2>0 DEF StateRow
    <3>4. \/ row.sub = k /\ PlanIs(s, k, row.activated)
          \/ row.sub # k /\ row' = row
      BY <1>s, <3>3, PlanEdits DEF PlanIs
    <3> QED
      BY <1>16, <2>0, <3>m, <3>1, <3>2, <3>4 DEF StateRow, stripe, losses
  <2>2. SubscriptionsTyped'
    BY <1>i, <2>1 DEF SubscriptionsTyped, Others, PlanIs, SameTold
  <2>u. Used' = Used /\ Waiver' = Waiver
    BY <2>1 DEF Used, Waiver
  <2>3. Alone'
    BY <1>i, <2>1
    DEF Alone, Apart, Idle, Others, PlanIs, SameTold
  <2>4. HeldFollows'
    BY <1>i, <1>f, <1>t, <2>1
    DEF HeldFollows, Brings, Others, PlanIs, SameTold
  <2>5. OneAlive'
    BY <1>i, <1>f, <1>t, <2>1
    DEF OneAlive, Alive, Subscribes, Alone, Apart, Idle, Spared, Others, PlanIs, SameTold
  <2>6. RowFollows'
    BY <1>i, <1>f, <1>t, <2>1
    DEF RowFollows, HeldFollows, Brings, Alone, Apart, Idle, Others, PlanIs, SameTold
  <2>7. StandingFollows'
    BY <1>i, <1>f, <1>t, <2>1
    DEF StandingFollows, HeldFollows, OneAlive, RowFollows, Alive, Astray, Subscribes, Brings,
      Alone, Apart, Idle, Spared, Others, PlanIs, SameTold
  <2>8. DatesFollow'
    BY <1>i, <1>f, <1>t, <2>1
    DEF DatesFollow, HeldFollows, RowFollows, Subscribes, Loses, Alone, Apart, Idle, Spared,
      Others, PlanIs, SameTold
  <2>9. WaiverFollows'
    BY <1>i, <1>t, <1>w, <2>u, <2>1
    DEF WaiverFollows, Alone, Apart, Idle, Others, PlanIs, SameTold
  <2>10. DebtFollows'
    BY <1>i, <1>t, <1>w, <2>u, <2>1
    DEF DebtFollows, Loses, Others, PlanIs, SameTold
  <2> QED
    BY <2>2, <2>3, <2>4, <2>5, <2>6, <2>7, <2>8, <2>9, <2>10
<1>17. ASSUME NEW w \in Workers, LossWaive(w)
      PROVE  SubscriptionsTyped' /\ Rest'
  <2>0. PICK l \in Losses : task[w].l = l
    BY <1>17, <1>t DEF LossWaive
  <2>1. /\ task' \in [Workers -> SubscriptionTasks] /\ Others(w) /\ befell' = befell
        /\ task[w].step = "loss" /\ task[w].l = l /\ SameTold
        /\ task'[w].step = "loss_debt" /\ task'[w].l = l /\ task'[w].waited = task[w].waited
        /\ waived' \in [Losses -> Nat \cup {None}] /\ \A m \in Losses \ {l} : waived'[m] = waived[m]
        /\ \/ /\ waived[l] = None /\ task[w].cover \in Nat \ {0} /\ waived' = [waived EXCEPT ![l] = task[w].cover]
              /\ waived'[l] = task[w].cover /\ task'[w].rest = Liability - task[w].cover
           \/ /\ waived[l] # None \/ task[w].cover <= 0
              /\ waived' = waived /\ task'[w].rest = Liability
        /\ UNCHANGED <<row, held, since, shown, events, owed>>
    <3>s. events' = events
      BY <1>17 DEF LossWaive, stripe
    <3>m. SameTold
      BY <3>s DEF SameTold, Quiet, Latest, Coming
    <3> DEFINE c == task[w].cover
               used == c > 0 /\ waived[l] = None
               rest == Liability - (IF used THEN c ELSE 0)
               t == [step |-> "loss_debt", l |-> l, waited |-> task[w].waited, rest |-> rest]
    <3>0. task[w].step = "loss" /\ c \in Int /\ c <= Liability /\ task[w].waited \in BOOLEAN
      BY <1>17, <1>t DEF LossWaive
    <3>1. rest \in Nat
      BY <1>w, <3>0
    <3>2. Becomes(w, t) /\ befell' = befell /\ waived' = IF used THEN [waived EXCEPT ![l] = c] ELSE waived
      BY <1>17, <2>0 DEF LossWaive
    <3>3. waived \in [Losses -> Nat \cup {None}]
      BY <1>i DEF SubscriptionsTyped
    <3>4. \/ /\ waived[l] = None /\ c \in Nat \ {0} /\ waived' = [waived EXCEPT ![l] = c]
             /\ rest = Liability - c
          \/ /\ waived[l] # None \/ c <= 0
             /\ waived' = waived /\ rest = Liability
      BY <1>w, <3>0, <3>2
    <3> HIDE DEF rest, c, used
    <3>5. /\ t \in SubscriptionTasks /\ t.step = "loss_debt" /\ t.l = l
          /\ t.waited = task[w].waited /\ t.rest = rest
      BY <3>0, <3>1 DEF SubscriptionTasks
    <3> HIDE DEF t
    <3>6. task' \in [Workers -> SubscriptionTasks] /\ task'[w] = t /\ Others(w)
      BY <1>k, <3>2, <3>5, BecomesEffect
    <3>7. waived' \in [Losses -> Nat \cup {None}] /\ (\A m \in Losses \ {l} : waived'[m] = waived[m])
          /\ (waived' = [waived EXCEPT ![l] = c] => waived'[l] = c)
      BY <3>3, <3>4
    <3> QED
      BY <1>17, <2>0, <3>m, <3>0, <3>2, <3>4, <3>5, <3>6, <3>7 DEF LossWaive, stripe, c
  <2>2. SubscriptionsTyped'
    BY <1>i, <2>1 DEF SubscriptionsTyped, Others, SameTold
  <2>u. /\ Used' \in Int
        /\ \A m \in Losses : Waiver'[m] = IF waived'[m] = None THEN 0 ELSE waived'[m]
        /\ \/ waived' = waived /\ Used' = Used
           \/ task[w].cover \in Nat \ {0} /\ Used' = Used + task[w].cover
    <3>1. \A m \in Losses : Waiver'[m] = IF waived'[m] = None THEN 0 ELSE waived'[m]
      BY DEF Waiver
    <3>2. waived' = waived => Used' = Used
      BY DEF Used, Waiver
    <3>3. waived[l] = None /\ task[w].cover \in Nat \ {0} /\ waived' = [waived EXCEPT ![l] = task[w].cover] =>
            Used' = Used + task[w].cover
      BY <1>i, WaiverStep
    <3> QED
      BY <1>w, <2>1, <3>1, <3>2, <3>3
  <2>3. Alone'
    BY <1>i, <2>1
    DEF Alone, Apart, Idle, Others, SameTold
  <2>4. HeldFollows'
    BY <1>i, <1>f, <1>t, <2>1
    DEF HeldFollows, Brings, Others, SameTold
  <2>5. OneAlive'
    BY <1>i, <1>f, <1>t, <2>1
    DEF OneAlive, Alive, Subscribes, Alone, Apart, Idle, Spared, Others, SameTold
  <2>6. RowFollows'
    BY <1>i, <1>f, <1>t, <2>1
    DEF RowFollows, HeldFollows, Brings, Alone, Apart, Idle, Others, SameTold
  <2>7. StandingFollows'
    BY <1>i, <1>f, <1>t, <2>1
    DEF StandingFollows, HeldFollows, OneAlive, RowFollows, Alive, Astray, Subscribes, Brings,
      Alone, Apart, Idle, Spared, Others, SameTold
  <2>8. DatesFollow'
    BY <1>i, <1>f, <1>t, <2>1
    DEF DatesFollow, HeldFollows, RowFollows, Subscribes, Loses, Alone, Apart, Idle, Spared,
      Others, SameTold
  <2>9. WaiverFollows'
    BY <1>i, <1>t, <1>w, <2>u, <2>1
    DEF WaiverFollows, Alone, Apart, Idle, Others, SameTold
  <2>10. DebtFollows'
    BY <1>i, <1>t, <1>w, <2>u, <2>1
    DEF DebtFollows, Loses, Others, SameTold
  <2> QED
    BY <2>2, <2>3, <2>4, <2>5, <2>6, <2>7, <2>8, <2>9, <2>10
<1>18. ASSUME NEW w \in Workers, LossDebt(w)
      PROVE  SubscriptionsTyped' /\ Rest'
  <2>0. PICK l \in Losses : task[w].l = l
    BY <1>18, <1>t DEF LossDebt
  <2>1. /\ task' \in [Workers -> SubscriptionTasks] /\ task'[w].step = "idle" /\ Others(w)
        /\ befell' = befell
        /\ task[w].step = "loss_debt" /\ task[w].l = l /\ task[w].rest \in Nat /\ SameTold
        /\ owed' \in [Losses -> Nat \cup {None}] /\ owed'[l] = task[w].rest
        /\ \A m \in Losses \ {l} : owed'[m] = owed[m]
        /\ UNCHANGED <<row, held, since, shown, events, waived>>
    <3>s. events' = events
      BY <1>18 DEF LossDebt, stripe
    <3>m. SameTold
      BY <3>s DEF SameTold, Quiet, Latest, Coming
    <3>1. Becomes(w, Resting) /\ befell' = befell
      BY <1>18 DEF LossDebt, Finish
    <3>2. task' \in [Workers -> SubscriptionTasks] /\ task'[w].step = "idle" /\ Others(w)
      BY <1>k, <1>r, <3>1, BecomesEffect
    <3>3. task[w].step = "loss_debt" /\ task[w].rest \in Nat /\ owed \in [Losses -> Nat \cup {None}]
      BY <1>18, <1>i, <1>t DEF LossDebt, SubscriptionsTyped
    <3>4. owed' = [owed EXCEPT ![l] = task[w].rest]
      BY <1>18, <2>0 DEF LossDebt
    <3>5. /\ owed' \in [Losses -> Nat \cup {None}] /\ owed'[l] = task[w].rest
          /\ \A m \in Losses \ {l} : owed'[m] = owed[m]
      BY <3>3, <3>4
    <3> QED
      BY <1>18, <2>0, <3>m, <3>1, <3>2, <3>3, <3>5 DEF LossDebt, stripe
  <2>2. SubscriptionsTyped'
    BY <1>i, <2>1 DEF SubscriptionsTyped, Others, SameTold
  <2>u. Used' = Used /\ Waiver' = Waiver
    BY <2>1 DEF Used, Waiver
  <2>3. Alone'
    BY <1>i, <2>1
    DEF Alone, Apart, Idle, Others, SameTold
  <2>4. HeldFollows'
    BY <1>i, <1>f, <1>t, <2>1
    DEF HeldFollows, Brings, Others, SameTold
  <2>5. OneAlive'
    BY <1>i, <1>f, <1>t, <2>1
    DEF OneAlive, Alive, Subscribes, Alone, Apart, Idle, Spared, Others, SameTold
  <2>6. RowFollows'
    BY <1>i, <1>f, <1>t, <2>1
    DEF RowFollows, HeldFollows, Brings, Alone, Apart, Idle, Others, SameTold
  <2>7. StandingFollows'
    BY <1>i, <1>f, <1>t, <2>1
    DEF StandingFollows, HeldFollows, OneAlive, RowFollows, Alive, Astray, Subscribes, Brings,
      Alone, Apart, Idle, Spared, Others, SameTold
  <2>8. DatesFollow'
    BY <1>i, <1>f, <1>t, <2>1
    DEF DatesFollow, HeldFollows, RowFollows, Subscribes, Loses, Alone, Apart, Idle, Spared,
      Others, SameTold
  <2>9. WaiverFollows'
    BY <1>i, <1>t, <1>w, <2>u, <2>1
    DEF WaiverFollows, Alone, Apart, Idle, Others, SameTold
  <2>10. DebtFollows'
    BY <1>i, <1>t, <1>w, <2>u, <2>1
    DEF DebtFollows, Loses, Others, SameTold
  <2> QED
    BY <2>2, <2>3, <2>4, <2>5, <2>6, <2>7, <2>8, <2>9, <2>10
<1>19. ASSUME NEW w \in Workers, SubscriptionHandlerDies(w)
      PROVE  SubscriptionsTyped' /\ Rest'
  <2>1. /\ task' \in [Workers -> SubscriptionTasks] /\ task'[w].step = "idle" /\ Others(w)
        /\ befell \subseteq befell' /\ "crash" \in befell' /\ SameTold
        /\ UNCHANGED <<row, held, since, shown, events, waived, owed>>
    <3>s. events' = events
      BY <1>19 DEF SubscriptionHandlerDies, stripe
    <3>m. SameTold
      BY <3>s DEF SameTold, Quiet, Latest, Coming
    <3>1. task' \in [Workers -> SubscriptionTasks] /\ task'[w].step = "idle" /\ Others(w)
      BY <1>19, <1>k, <1>r, BecomesEffect DEF SubscriptionHandlerDies, Dies, FinishAfter
    <3> QED
      BY <1>19, <3>m, <3>1 DEF SubscriptionHandlerDies, Dies, FinishAfter, Befalls, stripe, losses
  <2>2. SubscriptionsTyped'
    BY <1>i, <2>1 DEF SubscriptionsTyped, Others, SameTold
  <2>u. Used' = Used /\ Waiver' = Waiver
    BY <2>1 DEF Used, Waiver
  <2>3. Alone'
    BY <1>i, <2>1
    DEF Alone, Apart, Idle, Others, SameTold
  <2>4. HeldFollows'
    BY <1>i, <1>f, <1>t, <2>1
    DEF HeldFollows, Brings, Others, SameTold
  <2>5. OneAlive'
    BY <1>i, <1>f, <1>t, <2>1
    DEF OneAlive, Alive, Subscribes, Alone, Apart, Idle, Spared, Others, SameTold
  <2>6. RowFollows'
    BY <1>i, <1>f, <1>t, <2>1
    DEF RowFollows, HeldFollows, Brings, Alone, Apart, Idle, Others, SameTold
  <2>7. StandingFollows'
    BY <1>i, <1>f, <1>t, <2>1
    DEF StandingFollows, HeldFollows, OneAlive, RowFollows, Alive, Astray, Subscribes, Brings,
      Alone, Apart, Idle, Spared, Others, SameTold
  <2>8. DatesFollow'
    BY <1>i, <1>f, <1>t, <2>1
    DEF DatesFollow, HeldFollows, RowFollows, Subscribes, Loses, Alone, Apart, Idle, Spared,
      Others, SameTold
  <2>9. WaiverFollows'
    BY <1>i, <1>t, <1>w, <2>u, <2>1
    DEF WaiverFollows, Alone, Apart, Idle, Others, SameTold
  <2>10. DebtFollows'
    BY <1>i, <1>t, <1>w, <2>u, <2>1
    DEF DebtFollows, Loses, Others, SameTold
  <2> QED
    BY <2>2, <2>3, <2>4, <2>5, <2>6, <2>7, <2>8, <2>9, <2>10
<1> QED
  BY <1>1, <1>2, <1>3, <1>4, <1>5, <1>6, <1>7, <1>8, <1>9, <1>10, <1>11, <1>12, <1>13, <1>14,
     <1>15, <1>16, <1>17, <1>18, <1>19 DEF SubscriptionsNext, SubscriptionsIInv

\* The invariant says what a plan is honoured for and what it waives, ...
LEMMA PlanRight == SubscriptionsIInv => SubscriptionsRight
<1> SUFFICES ASSUME SubscriptionsIInv
             PROVE  SubscriptionsRight
  OBVIOUS
<1> USE DEF SubscriptionsIInv
<1>0. row.status \in Standings /\ row.sub \in Keys \cup {None} /\ None \notin Keys
  BY SubscriptionsAssumption DEF SubscriptionsTyped, Plans
<1>1. EntitledIsPaid
  <2> SUFFICES ASSUME AllDelivered, Spared(Astray)
               PROVE  Entitled(row.status) <=> \E k \in Keys : held[k] = "active"
    BY DEF EntitledIsPaid, Astray
  <2>1. /\ Entitled(row.status) <=> row.status = "active"
        /\ \A k \in Keys : Quiet(k)
        /\ \A w \in Workers : task[w].step = "idle"
    BY <1>0 DEF Entitled, Standings, AllDelivered, AllIdle, Idle, Quiet
  <2>2. \A k \in Keys : held[k] = "active" => row.sub = k
    BY <2>1 DEF StandingFollows, Alive
  <2>3. \A k \in Keys : row.sub = k => (row.status = "active" <=> held[k] = "active")
    BY <2>1 DEF StandingFollows, Brings
  <2>4. row.sub = None => row.status # "active"
    BY DEF HeldFollows
  <2> QED
    BY <1>0, <2>1, <2>2, <2>3, <2>4
<1>2. PaidOnce
  <2> DEFINE paid == {k \in Keys : held[k] \in {"active", "past_due"}}
  <2>1. Spared({"again", "overlap"}) => \A j, k \in paid : j = k
    BY DEF OneAlive, Alive
  <2>2. Spared({"again", "overlap"}) => Cardinality(paid) <= 1
    <3> HIDE DEF paid
    <3> QED
      BY <2>1, AllTheSame
  <2> QED
    BY <2>2 DEF PaidOnce
<1>3. CancelledIsOver
  BY DEF CancelledIsOver, RowFollows, Apart, Spared
<1>4. WaivedWithinCap
  BY DEF WaivedWithinCap, WaiverFollows, Apart, Spared
<1>5. CoverWaits
  BY DEF CoverWaits, DatesFollow, Loses, At
<1>6. RestIsOwed
  BY DEF RestIsOwed, DebtFollows, AllIdle, Idle, Spared
<1> QED
  BY <1>1, <1>2, <1>3, <1>4, <1>5, <1>6 DEF SubscriptionsRight

\* ... and what stamps and referrals earn.
LEMMA CardRight == LoyaltyIInv => LoyaltyRight
<1> SUFFICES ASSUME LoyaltyIInv
             PROVE  LoyaltyRight
  OBVIOUS
<1> USE DEF LoyaltyIInv
<1>0. /\ \A f \in Friends : /\ card[f].stamps \in Nat /\ card[f].lifetime \in Nat
                            /\ rewards[f].cost \in Nat /\ trips[f].stamped \in Nat
      /\ program.required \in Nat
  <2>1. CardSizes \cup {0} \subseteq Nat
    BY LoyaltyAssumption
  <2>2. program.required \in CardSizes \cup {0}
    BY DEF LoyaltyTyped
  <2> QED
    BY <2>1, <2>2 DEF LoyaltyTyped
<1>1. StampsAddUp
  <2>1. \A f \in Friends : ToSpend(f) \in Nat
    <3>1. \A w \in Workers : task[w].step = "reward" => task[w].required \in Nat
      BY Weights DEF LoyaltyTyped
    <3> QED
      BY <3>1, SumNotNegative, LoyaltyAssumption DEF ToSpend, Spending
  <2>2. \A f \in Friends : card[f].stamps >= 0 /\ card[f].stamps + rewards[f].cost <= card[f].lifetime
    BY <1>0, <2>1 DEF StampsFollow
  <2>3. AllIdle => \A f \in Friends : ToStamp(f) = 0 /\ ToSpend(f) = 0
    BY NothingInHand DEF AllIdle, Idle
  <2>4. AllIdle /\ Spared({"crash"}) =>
          \A f \in Friends : /\ card[f].stamps + rewards[f].cost = card[f].lifetime
                             /\ card[f].lifetime = trips[f].stamped
    BY <1>0, <2>3 DEF StampsFollow, Spared
  <2> QED
    BY <2>2, <2>4 DEF StampsAddUp
<1>2. FullCardRewarded
  <2>1. AllIdle => \A f \in Friends : ToCheck(f) = 0
    BY NothingInHand DEF AllIdle, Idle
  <2> QED
    BY <1>0, <2>1 DEF FullCardRewarded, CardsFollow
<1>3. BothAreCredited
  BY DEF BothAreCredited, CreditsFollow, AllIdle, Idle, Spared
<1>4. CapHolds
  <2>1. Cardinality(Rewarded) \in Nat /\ Cardinality({}) = 0
    BY RewardedStep, FS_EmptySet
  <2>2. Spared({"crash", "overlap"}) => Cardinality(Rewarded) <= LifetimeCap
    <3> SUFFICES ASSUME Spared({"crash", "overlap"})
                 PROVE  Cardinality(Rewarded) <= LifetimeCap
      OBVIOUS
    <3>1. CASE earned = None
      BY <2>1, <3>1, LoyaltyAssumption DEF CountFollows
    <3>2. CASE earned \in Nat
      <4>1. \A w \in Workers : task[w].step = "credit" => Cardinality(Rewarded) <= LifetimeCap
        BY <2>1, <3>2, LoyaltyAssumption DEF CountFollows
      <4>2. \A w \in Workers : task[w].step = "count" => Cardinality(Rewarded) <= LifetimeCap
        BY <2>1, <3>2, LoyaltyAssumption DEF CountFollows
      <4>3. CASE \A w \in Workers : task[w].step \notin {"credit", "count"}
        BY <3>2, <4>3, SponsorsAssumption DEF CountFollows
      <4> QED
        BY <4>1, <4>2, <4>3
    <3> QED
      BY <3>1, <3>2 DEF LoyaltyTyped
  <2>3. AllIdle /\ Spared({"crash", "overlap"}) =>
          /\ earned # None => earned = Cardinality(Rewarded)
          /\ \A f \in Friends : referral[f] = "converted" /\ f \notin Rewarded => earned = LifetimeCap
    BY DEF CountFollows, AllIdle, Idle
  <2> QED
    BY <2>2, <2>3 DEF CapHolds
<1> QED
  BY <1>1, <1>2, <1>3, <1>4 DEF LoyaltyRight

=============================================================================
