------------------------------- MODULE Queue -------------------------------
(***************************************************************************)
(* One vendor's line (src/modules/queue/queue.service.ts over              *)
(* queue.repository.ts): customers wave the vendor down, stand in line     *)
(* with a discount locked at the place they joined at, are served, leave,  *)
(* lose their place when its hold runs out, or pay, which also collects    *)
(* the fees of the trip they waved for.                                    *)
(*                                                                         *)
(* Nothing is written in one transaction: a place is counted, then         *)
(* written; a trip's fees are claimed, then charged.  A place's number is  *)
(* its server timestamp (joined_at).                                       *)
(***************************************************************************)
EXTENDS Naturals, Sequences, FiniteSets

CONSTANTS
  Customers,
  Waves,      \* wave-downs
  Caller,     \* Caller[v]: who raised v
  Keys,       \* idempotency keys of checkouts
  Payer,      \* Payer[k]: whose checkout k is
  MaxJoins,   \* bound: how many places are ever taken
  Schedules,  \* discount schedules a vendor may try to set
  Workers,
  Again,      \* bound: may a second process die, or a second charge be refused?
  None

Places == 1..MaxJoins

MaxDiscountPercent == 90

ASSUME QueueAssumption ==
  /\ MaxJoins \in Nat
  /\ Caller \in [Waves -> Customers]
  /\ Payer \in [Keys -> Customers]
  /\ \A s \in Schedules : s.tiers \in Seq(0..101) /\ s.cap \in 0..101
  /\ IsFiniteSet(Workers)
  /\ None \notin Customers \cup Waves \cup Keys \cup Places

VARIABLES
  schedule,  \* discount_schedules: what each place in line is worth
  wave,      \* wave_downs.status
  travel,    \* the waves with a travel fee; the others carry the platform's request fee alone
  claimed,   \* the waves with travel_fee_charged_at
  place,     \* queue_entries
  stamp,     \* the joined_at last handed out
  used,      \* external: idempotency keys with a transaction
  billed,    \* external: how many charges carried each wave's fees
  spent,     \* how many charges carried each place's discount
  task,      \* what each worker is about to do
  befell     \* history: what out of the ordinary happened so far

vars == <<schedule, wave, travel, claimed, place, stamp, used, billed, spent, task, befell>>

line == <<place, stamp>>
trips == <<wave, travel, claimed>>
money == <<used, billed, spent>>

Resting == [step |-> "idle", who |-> None, wave |-> None, place |-> None, key |-> None]

Idle(w) == task[w].step = "idle"

At(w, s) == task[w].step = s

\* A request begins; others may be half way.
Begin(w, t) ==
  /\ Idle(w)
  /\ task' = [task EXCEPT ![w] = t]
  /\ befell' = IF \A v \in Workers : Idle(v) THEN befell ELSE befell \cup {"overlap"}

GoOn(w, t) == task' = [task EXCEPT ![w] = t] /\ UNCHANGED befell

Finish(w) == GoOn(w, Resting)

FinishAfter(w, mishap) ==
  task' = [task EXCEPT ![w] = Resting] /\ befell' = befell \cup {mishap}

\* Entries with left_at = null, and one customer's.
InLine == {p \in Places : place[p].state = "in_line"}

PlacesOf(c) == {p \in InLine : place[p].who = c}

\* countActiveBefore
Ahead(p) == {q \in InLine : q < p}

Leave(p) == place' = [place EXCEPT ![p].state = "left"]

(***************************************************************************)
(* The discount schedule                                                   *)
(***************************************************************************)

\* setDiscountSchedule's rules; tiers are sorted and numbered 1..n.
Valid(s) ==
  /\ \A i \in DOMAIN s.tiers : s.tiers[i] \in 0..100
  /\ \A i \in DOMAIN s.tiers : i > 1 => s.tiers[i] > s.tiers[i - 1]
  /\ s.cap \in 0..100
  /\ s.tiers # <<>> => s.cap >= s.tiers[Len(s.tiers)]

SetDiscountSchedule(s) ==
  /\ Valid(s)
  /\ schedule # s
  /\ schedule' = s
  /\ UNCHANGED <<line, trips, money, task, befell>>

\* discountForPosition, through resolveDiscount's ceiling.
PercentAt(s, rank) ==
  LET raw == IF s.tiers = <<>> THEN 0
             ELSE IF rank \in DOMAIN s.tiers THEN s.tiers[rank] ELSE s.cap
  IN  IF raw > MaxDiscountPercent THEN MaxDiscountPercent ELSE raw

(***************************************************************************)
(* Wave-downs                                                              *)
(***************************************************************************)

\* The fees are fixed now, at what the customer is shown.
CreateWaveDown(v, fee) ==
  /\ wave[v] = "none"
  /\ wave' = [wave EXCEPT ![v] = "pending"]
  /\ travel' = IF fee THEN travel \cup {v} ELSE travel
  /\ UNCHANGED <<schedule, claimed, line, money, task, befell>>

\* transitionWaveDown from pending: whoever is second finds another status and is refused.
Close(v, to) ==
  /\ wave[v] = "pending"
  /\ wave' = [wave EXCEPT ![v] = to]
  /\ UNCHANGED <<schedule, travel, claimed, line, money, task, befell>>

DeclineWaveDown(v) == Close(v, "declined")

CancelWaveDown(v) == Close(v, "cancelled")

\* expires_at has passed: the sweep, or a vendor who accepts too late.
ExpireWaveDown(v) == Close(v, "expired")

\* The bound: a join begins only if a place is left for it.
JoinsLeft ==
  MaxJoins - stamp > Cardinality({w \in Workers : task[w].step \in {"accept", "join"}})

\* acceptWaveDown reads the request ...
AcceptRead(w, v) ==
  /\ JoinsLeft
  /\ wave[v] = "pending"
  /\ Begin(w, [Resting EXCEPT !.step = "accept", !.wave = v, !.who = Caller[v]])
  /\ UNCHANGED <<schedule, trips, line, money>>

\* Mutant: the customer is told the vendor is coming and never put in line.
AcceptOnly(w) ==
  LET v == task[w].wave IN
    /\ At(w, "accept")
    /\ wave' = [wave EXCEPT ![v] = IF @ = "pending" THEN "accepted" ELSE @]
    /\ Finish(w)
    /\ UNCHANGED <<schedule, travel, claimed, line, money>>

\* ... and moves it, if it is still pending; the customer then joins the line.
Accept(w) ==
  LET v == task[w].wave IN
    /\ At(w, "accept")
    /\ \/ /\ wave[v] = "pending"
          /\ wave' = [wave EXCEPT ![v] = "accepted"]
          /\ GoOn(w, [task[w] EXCEPT !.step = "join"])
       \/ /\ wave[v] # "pending"
          /\ Finish(w)
          /\ UNCHANGED wave
    /\ UNCHANGED <<schedule, travel, claimed, line, money>>

(***************************************************************************)
(* The line                                                                *)
(***************************************************************************)

\* Mutant: an entry the customer left is found and opened again.
JoinReopens(w, c) ==
  /\ Idle(w)
  /\ \/ /\ \E p \in Places :
             place[p].who = c /\ place' = [place EXCEPT ![p].state = "in_line"]
        /\ UNCHANGED <<stamp, task, befell>>
     \/ /\ JoinsLeft
        /\ \A p \in Places : place[p].who # c
        /\ stamp' = stamp + 1
        /\ Begin(w, [Resting EXCEPT !.step = "join_write", !.who = c, !.place = stamp + 1])
        /\ UNCHANGED place
  /\ UNCHANGED <<schedule, trips, money>>

\* joinQueueInternal: a customer who is in line keeps his place and is given no other; his
\* request changes nothing.
JoinQueue(w, c) ==
  /\ JoinsLeft
  /\ PlacesOf(c) = {}
  /\ stamp' = stamp + 1
  /\ Begin(w, [Resting EXCEPT !.step = "join_write", !.who = c, !.place = stamp + 1])
  /\ UNCHANGED <<schedule, trips, place, money>>

\* The same for the customer of an accepted wave.
JoinRead(w) ==
  LET c == task[w].who IN
    /\ At(w, "join")
    /\ \/ /\ PlacesOf(c) # {}
          /\ Finish(w)
          /\ UNCHANGED stamp
       \/ /\ PlacesOf(c) = {}
          /\ stamp' = stamp + 1
          /\ GoOn(w, [task[w] EXCEPT !.step = "join_write", !.place = stamp + 1])
    /\ UNCHANGED <<schedule, trips, place, money>>

\* The places ahead are counted, and the discount of that rank, PercentAt, locked with the
\* place: no property below tells two discounts apart, so it is not kept.
JoinWrite(w) ==
  /\ At(w, "join_write")
  /\ place' = [place EXCEPT ![task[w].place] = [state |-> "in_line", who |-> task[w].who]]
  /\ Finish(w)
  /\ UNCHANGED <<schedule, trips, stamp, money>>

\* leaveEntry takes whichever of the customer's places it meets.
LeaveQueue(c) ==
  /\ \E p \in PlacesOf(c) : Leave(p)
  /\ UNCHANGED <<schedule, trips, stamp, money, task, befell>>

\* hold_expires_at has passed: the sweep expireHolds takes the place away (markLeft).
ExpireHold(p) ==
  /\ p \in InLine
  /\ Leave(p)
  /\ UNCHANGED <<schedule, trips, stamp, money, task, befell>>

\* serveNext: the front is read, then its customer taken out.
ServeRead(w) ==
  /\ \E p \in InLine :
       /\ Ahead(p) = {}
       /\ Begin(w, [Resting EXCEPT !.step = "serve", !.who = place[p].who, !.place = p])
  /\ UNCHANGED <<schedule, trips, line, money>>

\* leaveEntry's answer is not looked at: the customer is told all the same.
ServeLeave(w) ==
  /\ At(w, "serve")
  /\ IF PlacesOf(task[w].who) = {}
       THEN UNCHANGED place
       ELSE \E p \in PlacesOf(task[w].who) : Leave(p)
  /\ Finish(w)
  /\ UNCHANGED <<schedule, trips, stamp, money>>

\* Processes die, and charges are refused.
FaultsLeft == befell \cap {"crash", "charge_failed"} = {} \/ Again

(***************************************************************************)
(* checkout()                                                              *)
(***************************************************************************)

CheckoutRead(w, k) ==
  LET c == Payer[k] IN
    /\ \/ \E p \in PlacesOf(c) :
            Begin(w, [Resting EXCEPT !.step = "wave", !.who = c, !.key = k, !.place = p])
       \/ /\ PlacesOf(c) = {}
          /\ Begin(w, [Resting EXCEPT !.step = "wave", !.who = c, !.key = k])
    /\ UNCHANGED <<schedule, trips, line, money>>

\* findChargeableWaveDown
CheckoutWave(w) ==
  LET due == {v \in Waves \ claimed : wave[v] = "accepted" /\ Caller[v] = task[w].who}
  IN  /\ At(w, "wave")
      /\ \/ due = {} /\ GoOn(w, [task[w] EXCEPT !.step = "look"])
         \/ \E v \in due : GoOn(w, [task[w] EXCEPT !.step = "claim", !.wave = v])
      /\ UNCHANGED <<schedule, trips, line, money>>

\* Mutant: the claim is a plain write.
CheckoutClaimBlind(w) ==
  /\ At(w, "claim")
  /\ claimed' = claimed \cup {task[w].wave}
  /\ GoOn(w, [task[w] EXCEPT !.step = "look"])
  /\ UNCHANGED <<schedule, wave, travel, line, money>>

\* markTravelFeeCharged: whoever loses the race pays for the food alone.
CheckoutClaim(w) ==
  LET v == task[w].wave IN
    /\ At(w, "claim")
    /\ claimed' = claimed \cup {v}
    /\ GoOn(w, [task[w] EXCEPT !.step = "look", !.wave = IF v \in claimed THEN None ELSE v])
    /\ UNCHANGED <<schedule, wave, travel, line, money>>

\* charge() answers a used key with its old transaction; the claim of a trip with a travel
\* fee is then taken back.
CheckoutLook(w) ==
  LET v == task[w].wave IN
    /\ At(w, "look")
    /\ \/ /\ task[w].key \notin used
          /\ GoOn(w, [task[w] EXCEPT !.step = "charge"])
       \/ /\ task[w].key \in used /\ v \in travel
          /\ GoOn(w, [task[w] EXCEPT !.step = "unclaim"])
       \/ /\ task[w].key \in used /\ v \in Waves \ travel
          /\ FinishAfter(w, "free_trip_replayed")
       \/ /\ task[w].key \in used /\ v = None
          /\ Finish(w)
    /\ UNCHANGED <<schedule, trips, line, money>>

\* Mutant: a claim is not taken back.
CheckoutUnclaimForgets(w) ==
  /\ At(w, "unclaim")
  /\ Finish(w)
  /\ UNCHANGED <<schedule, trips, line, money>>

\* releaseTravelFeeClaim
CheckoutUnclaim(w) ==
  /\ At(w, "unclaim")
  /\ claimed' = claimed \ {task[w].wave}
  /\ Finish(w)
  /\ UNCHANGED <<schedule, wave, travel, line, money>>

\* createTransaction; the unique index on the key throws at the second of two requests.
CheckoutCharge(w) ==
  /\ At(w, "charge")
  /\ \/ /\ task[w].key \notin used
        /\ used' = used \cup {task[w].key}
        /\ GoOn(w, [task[w] EXCEPT !.step = "pay"])
     \/ /\ task[w].key \in used
        /\ FinishAfter(w, "charge_failed")
        /\ UNCHANGED used
  /\ UNCHANGED <<schedule, trips, line, billed, spent>>

\* createDestinationCharge: one charge, with the fees and the discount in hand.
CheckoutPay(w) ==
  LET v == task[w].wave
      p == task[w].place
  IN  /\ At(w, "pay")
      /\ billed' = [u \in Waves |-> IF u = v THEN billed[u] + 1 ELSE billed[u]]
      /\ spent' = [q \in Places |-> IF q = p THEN spent[q] + 1 ELSE spent[q]]
      /\ IF p = None THEN Finish(w) ELSE GoOn(w, [task[w] EXCEPT !.step = "leave"])
      /\ UNCHANGED <<schedule, trips, line, used>>

\* The vendor cannot take charges, or Stripe refuses this one, its transaction left pending:
\* checkout() throws.
CheckoutFails(w) ==
  /\ task[w].step \in {"charge", "pay"} /\ FaultsLeft
  /\ FinishAfter(w, "charge_failed")
  /\ UNCHANGED <<schedule, trips, line, money>>

\* Served: out of the line.
CheckoutLeave(w) ==
  /\ At(w, "leave")
  /\ Leave(task[w].place)
  /\ Finish(w)
  /\ UNCHANGED <<schedule, trips, stamp, money>>

\* The process dies between two awaits.
Crash(w) ==
  /\ ~Idle(w) /\ FaultsLeft
  /\ FinishAfter(w, "crash")
  /\ UNCHANGED <<schedule, trips, line, money>>

(***************************************************************************)
(* The specification                                                       *)
(***************************************************************************)

Empty == [state |-> "none", who |-> None]

Init ==
  /\ schedule = [tiers |-> <<>>, cap |-> 0]
  /\ wave = [v \in Waves |-> "none"]
  /\ travel = {}
  /\ claimed = {}
  /\ place = [p \in Places |-> Empty]
  /\ stamp = 0
  /\ used = {}
  /\ billed = [v \in Waves |-> 0]
  /\ spent = [p \in Places |-> 0]
  /\ task = [w \in Workers |-> Resting]
  /\ befell = {}

\* The next await of the request a worker is in.
Continue(w) ==
  \/ Accept(w) \/ JoinRead(w) \/ JoinWrite(w) \/ ServeLeave(w)
  \/ CheckoutWave(w) \/ CheckoutClaim(w) \/ CheckoutLook(w) \/ CheckoutUnclaim(w)
  \/ CheckoutCharge(w) \/ CheckoutPay(w) \/ CheckoutFails(w) \/ CheckoutLeave(w)

Next ==
  \/ \E s \in Schedules : SetDiscountSchedule(s)
  \/ \E v \in Waves, fee \in BOOLEAN : CreateWaveDown(v, fee)
  \/ \E v \in Waves : DeclineWaveDown(v)
  \/ \E v \in Waves : CancelWaveDown(v)
  \/ \E v \in Waves : ExpireWaveDown(v)
  \/ \E w \in Workers, v \in Waves : AcceptRead(w, v)
  \/ \E w \in Workers, c \in Customers : JoinQueue(w, c)
  \/ \E c \in Customers : LeaveQueue(c)
  \/ \E p \in Places : ExpireHold(p)
  \/ \E w \in Workers : ServeRead(w)
  \/ \E w \in Workers, k \in Keys : CheckoutRead(w, k)
  \/ \E w \in Workers : Continue(w)
  \/ \E w \in Workers : Crash(w)

Spec == Init /\ [][Next]_vars

(***************************************************************************)
(* Properties                                                              *)
(***************************************************************************)

Steps == {"idle", "accept", "join", "join_write", "serve", "wave", "claim",
          "look", "unclaim", "charge", "pay", "leave"}

\* Every document keeps its type, and no schedule that breaks the rules is ever stored.
TypeOK ==
  /\ Valid(schedule)
  /\ wave \in [Waves -> {"none", "pending", "accepted", "declined", "expired", "cancelled"}]
  /\ travel \subseteq Waves /\ claimed \subseteq Waves
  /\ place \in [Places -> [state : {"none", "in_line", "left"}, who : Customers \cup {None}]]
  /\ stamp \in 0..MaxJoins
  /\ used \subseteq Keys
  /\ billed \in [Waves -> Nat] /\ spent \in [Places -> Nat]
  /\ task \in [Workers -> [step : Steps, who : Customers \cup {None}, wave : Waves \cup {None},
                           place : Places \cup {None}, key : Keys \cup {None}]]
  /\ befell \subseteq {"overlap", "crash", "charge_failed", "free_trip_replayed"}

Settled(mishaps) == (\A w \in Workers : Idle(w)) /\ befell \cap mishaps = {}

\* "a retried checkout can never bill the trip twice" (markTravelFeeCharged): whatever
\* overlaps, dies or is retried.
TripBilledOnce == \A v \in Waves : billed[v] <= 1

\* A trip marked as charged was charged: a claim whose charge came to nothing is taken back.
ClaimedIsBilled ==
  Settled({"crash", "charge_failed", "free_trip_replayed"}) => \A v \in claimed : billed[v] = 1

\* A customer stands in a line once.
OnePlaceEach == "overlap" \notin befell => \A c \in Customers : Cardinality(PlacesOf(c)) <= 1

\* A place's discount (discount_percent_locked) is used for one checkout() of the line, which
\* ends the place.
DiscountUsedOnce == befell \cap {"overlap", "crash"} = {} => \A p \in Places : spent[p] <= 1

\* "the customer joins the line-up automatically on acceptance" (acceptWaveDown).
AcceptedJoins ==
  Settled({"crash"}) => \A v \in Waves : wave[v] = "accepted" =>
    \E p \in Places : place[p].who = Caller[v]

\* The further back, the more a place is worth (setDiscountSchedule's rules and
\* discountForPosition).
FurtherBackSavesMore ==
  \A p, q \in 1..(Len(schedule.tiers) + 2) :
    p <= q => PercentAt(schedule, p) <= PercentAt(schedule, q)

\* The line is fair: one place each, its discount spent once and never smaller further back,
\* and whoever was accepted stands in it (joinQueue, checkout, acceptWaveDown).
LineFair == OnePlaceEach /\ DiscountUsedOnce /\ AcceptedJoins /\ FurtherBackSavesMore

\* "Queue position is derived from server-timestamped join order" (queue.model.ts): nobody
\* gets in front of a customer who stands in line.
NobodyOvertakes ==
  [][\A p \in InLine \cap InLine' : "overlap" \in befell' \/ Ahead(p)' \subseteq Ahead(p)]_vars

=============================================================================
