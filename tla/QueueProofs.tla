---------------------------- MODULE QueueProofs ----------------------------
(***************************************************************************)
(* For every number of customers, waves, keys, places and workers: no trip *)
(* is billed twice, whatever dies, fails, overlaps or is retried; claims   *)
(* come to charges; and the line is fair, and in the order it was joined.  *)
(***************************************************************************)
EXTENDS Queue, SumTheorems, SequenceTheorems

\* A checkout has no trip before it looked for one, and has one when it claims.
Task == {t \in [step : Steps, who : Customers \cup {None}, wave : Waves \cup {None},
                place : Nat \cup {None}, key : Keys \cup {None}] :
           /\ t.step = "wave" => t.wave = None
           /\ t.step = "claim" => t.wave \in Waves}

\* The types the argument needs.
Typed ==
  /\ task \in [Workers -> Task]
  /\ billed \in [Waves -> Nat]
  /\ claimed \subseteq Waves
  /\ place \in [Places -> [state : {"none", "in_line", "left"}, who : Customers \cup {None}]]
  /\ stamp \in Nat

\* The worker whose checkout is to collect the fees of trip v, or to give them up.
Collecting(w, v) == task[w].wave = v /\ task[w].step \in {"look", "unclaim", "charge", "pay"}

\* A trip that is being collected, or was, is claimed; one that is being collected was not
\* billed before, and has one collector.
OneCollector ==
  /\ \A v \in Waves : billed[v] > 0 => v \in claimed
  /\ \A v \in Waves : \A w \in Workers : Collecting(w, v) =>
       /\ v \in claimed
       /\ billed[v] = 0
       /\ \A u \in Workers : Collecting(u, v) => u = w

IInv == Typed /\ OneCollector /\ TripBilledOnce

\* Nobody has waved, and every worker rests.
LEMMA InitIInv == Init => IInv
BY QueueAssumption
DEF Init, IInv, Typed, Task, Steps, Resting, Empty, OneCollector, Collecting, TripBilledOnce, Places

\* A resting task is a task that collects nothing.
LEMMA RestingIsTask == Resting \in Task /\ Resting.step = "idle"
BY DEF Resting, Task, Steps

\* One worker's task changes, to one that collects nothing, and no trip is touched.
LEMMA CollectsNothing ==
  ASSUME IInv, NEW w \in Workers, NEW t \in Task, task' = [task EXCEPT ![w] = t],
         t.step \notin {"look", "unclaim", "charge", "pay"},
         Typed', UNCHANGED <<billed, claimed>>
  PROVE  IInv'
<1>1. \A u \in Workers, v \in Waves : Collecting(u, v)' => Collecting(u, v)
  BY DEF IInv, Typed, Collecting
<1>2. OneCollector' BY <1>1 DEF IInv, OneCollector
<1> QED BY <1>2 DEF IInv, TripBilledOnce

\* A request moves to a task of its type, and nothing else that the argument types changes.
LEMMA TypedStays ==
  ASSUME Typed, NEW w \in Workers, NEW t \in Task, task' = [task EXCEPT ![w] = t],
         UNCHANGED <<billed, claimed, place, stamp>>
  PROVE  Typed'
BY DEF Typed

\* One worker's checkout goes on with the trip it has, and no trip is touched.
LEMMA CollectsTheSame ==
  ASSUME IInv, NEW w \in Workers, NEW t \in Task, task' = [task EXCEPT ![w] = t],
         task[w].step \in {"look", "unclaim", "charge", "pay"}, t.wave = task[w].wave,
         Typed', UNCHANGED <<billed, claimed>>
  PROVE  IInv'
<1>1. \A u \in Workers, v \in Waves : Collecting(u, v)' => Collecting(u, v)
  BY DEF IInv, Typed, Collecting
<1>2. OneCollector' BY <1>1 DEF IInv, OneCollector
<1> QED BY <1>2 DEF IInv, TripBilledOnce

\* What touches no request and no trip.
LEMMA Elsewhere ==
  ASSUME IInv, Typed', UNCHANGED <<task, billed, claimed>>
  PROVE  IInv'
BY DEF IInv, OneCollector, Collecting, TripBilledOnce

\* A request's first step.
LEMMA BeginKeeps ==
  ASSUME IInv, NEW w \in Workers,
         \/ \E v \in Waves : AcceptRead(w, v)
         \/ \E c \in Customers : JoinQueue(w, c)
         \/ ServeRead(w)
         \/ \E k \in Keys : CheckoutRead(w, k)
  PROVE  IInv'
<1> USE QueueAssumption, RestingIsTask DEF IInv, Begin
<1>1. ASSUME NEW v \in Waves, AcceptRead(w, v) PROVE IInv'
  <2> DEFINE t == [Resting EXCEPT !.step = "accept", !.wave = v, !.who = Caller[v]]
  <2>1. t \in Task /\ t.step = "accept" BY DEF Task, Steps, Resting
  <2>2. Typed' BY <1>1, <2>1 DEF AcceptRead, Typed, trips, line, money
  <2> QED BY <1>1, <2>1, <2>2, CollectsNothing DEF AcceptRead, trips, money
<1>2. ASSUME NEW c \in Customers, JoinQueue(w, c) PROVE IInv'
  <2> DEFINE t == [Resting EXCEPT !.step = "join_write", !.who = c, !.place = stamp + 1]
  <2>0. stamp + 1 \in Nat BY DEF Typed
  <2>1. t \in Task /\ t.step = "join_write" BY <2>0 DEF Task, Steps, Resting
  <2>2. Typed' BY <1>2, <2>0, <2>1 DEF JoinQueue, Typed, trips, money
  <2> QED BY <1>2, <2>1, <2>2, CollectsNothing DEF JoinQueue, trips, money
<1>3. CASE ServeRead(w)
  <2>1. PICK p \in InLine :
          Begin(w, [Resting EXCEPT !.step = "serve", !.who = place[p].who, !.place = p])
    BY <1>3 DEF ServeRead
  <2> DEFINE t == [Resting EXCEPT !.step = "serve", !.who = place[p].who, !.place = p]
  <2>0. p \in Nat /\ place[p].who \in Customers \cup {None} BY DEF Typed, InLine, Places
  <2>2. t \in Task /\ t.step = "serve" BY <2>0 DEF Task, Steps, Resting
  <2>3. Typed' BY <1>3, <2>1, <2>2 DEF ServeRead, Typed, trips, line, money
  <2> QED BY <1>3, <2>1, <2>2, <2>3, CollectsNothing DEF ServeRead, trips, money
<1>4. ASSUME NEW k \in Keys, CheckoutRead(w, k) PROVE IInv'
  <2> DEFINE t0 == [Resting EXCEPT !.step = "wave", !.who = Payer[k], !.key = k]
             t1(p) == [Resting EXCEPT !.step = "wave", !.who = Payer[k], !.key = k, !.place = p]
  <2>a. t0 \in Task /\ t0.step = "wave" BY DEF Task, Steps, Resting
  <2>b. \A p \in Nat : t1(p) \in Task /\ t1(p).step = "wave" BY DEF Task, Steps, Resting
  <2>c. \A p \in PlacesOf(Payer[k]) : p \in Nat BY DEF PlacesOf, InLine, Places
  <2>d. Begin(w, t0) \/ \E p \in PlacesOf(Payer[k]) : Begin(w, t1(p))
    BY <1>4 DEF CheckoutRead
  <2> HIDE DEF t0, t1
  <2>1. PICK t \in Task : t.step = "wave" /\ Begin(w, t)
    BY <2>a, <2>b, <2>c, <2>d
  <2>2. Typed' BY <1>4, <2>1 DEF CheckoutRead, Typed, trips, line, money
  <2> QED BY <1>4, <2>1, <2>2, CollectsNothing DEF CheckoutRead, trips, money
<1> QED BY <1>1, <1>2, <1>3, <1>4

\* A request ends, or goes on, without having a trip in hand.
LEMMA QuietKeeps ==
  ASSUME IInv, NEW w \in Workers,
         Accept(w) \/ JoinRead(w) \/ JoinWrite(w) \/ ServeLeave(w) \/ CheckoutLeave(w)
           \/ CheckoutFails(w) \/ Crash(w)
  PROVE  IInv'
<1> USE QueueAssumption, RestingIsTask DEF IInv, GoOn, Finish, FinishAfter
<1>0. task[w] \in Task BY DEF Typed
<1>1. CASE Accept(w)
  <2> DEFINE t == [task[w] EXCEPT !.step = "join"]
  <2>1. t \in Task /\ t.step = "join" BY <1>0 DEF Task, Steps
  <2>2. task' = [task EXCEPT ![w] = t] \/ task' = [task EXCEPT ![w] = Resting]
    BY <1>1 DEF Accept
  <2> HIDE DEF t
  <2>3. UNCHANGED <<claimed, place, stamp, billed>> BY <1>1 DEF Accept, line, money
  <2>4. PICK u \in Task : u.step \in {"join", "idle"} /\ task' = [task EXCEPT ![w] = u]
    BY <2>1, <2>2 DEF Resting
  <2>5. Typed' BY <2>3, <2>4, TypedStays
  <2> QED BY <2>3, <2>4, <2>5, CollectsNothing
<1>2. CASE JoinRead(w)
  <2> DEFINE t == [task[w] EXCEPT !.step = "join_write", !.place = stamp + 1]
  <2>0. stamp + 1 \in Nat BY DEF Typed
  <2>1. t \in Task /\ t.step = "join_write" BY <1>0, <2>0 DEF Task, Steps
  <2>2. task' = [task EXCEPT ![w] = t] \/ task' = [task EXCEPT ![w] = Resting]
    BY <1>2 DEF JoinRead
  <2> HIDE DEF t
  <2>3. Typed' BY <1>2, <2>0, <2>1, <2>2 DEF JoinRead, Typed, trips, money
  <2> QED BY <1>2, <2>1, <2>2, <2>3, CollectsNothing DEF JoinRead, trips, money
<1>3. CASE JoinWrite(w)
  <2>0. [state |-> "in_line", who |-> task[w].who]
          \in [state : {"none", "in_line", "left"}, who : Customers \cup {None}]
    BY <1>0 DEF Task
  <2>1. Typed' BY <1>3, <2>0 DEF JoinWrite, Typed, trips, money
  <2> QED BY <1>3, <2>1, CollectsNothing DEF JoinWrite, trips, money
<1>4. CASE ServeLeave(w)
  <2>0. place' = place \/ \E p \in Places : Leave(p)
    BY <1>4 DEF ServeLeave, PlacesOf, InLine
  <2>1. UNCHANGED <<claimed, stamp, billed>> /\ task' = [task EXCEPT ![w] = Resting]
    BY <1>4 DEF ServeLeave, trips, money
  <2>2. place' \in [Places -> [state : {"none", "in_line", "left"}, who : Customers \cup {None}]]
    <3>1. ASSUME NEW p \in Places, Leave(p)
          PROVE  place' \in [Places -> [state : {"none", "in_line", "left"}, who : Customers \cup {None}]]
      <4>1. place[p] \in [state : {"none", "in_line", "left"}, who : Customers \cup {None}]
        BY DEF Typed
      <4>2. [place[p] EXCEPT !.state = "left"]
              \in [state : {"none", "in_line", "left"}, who : Customers \cup {None}]
        BY <4>1
      <4> QED BY <3>1, <4>2 DEF Leave, Typed
    <3> QED BY <2>0, <3>1 DEF Typed
  <2>3. Typed' BY <2>1, <2>2 DEF Typed
  <2> QED BY <2>1, <2>3, CollectsNothing DEF Resting
<1>5. CASE CheckoutLeave(w)
  <2>1. Typed' BY <1>5 DEF CheckoutLeave, Leave, Typed, trips, money
  <2> QED BY <1>5, <2>1, CollectsNothing DEF CheckoutLeave, trips, money
<1>6. CASE CheckoutFails(w)
  <2>1. Typed' BY <1>6 DEF CheckoutFails, Typed, trips, line, money
  <2> QED BY <1>6, <2>1, CollectsNothing DEF CheckoutFails, trips, money
<1>7. CASE Crash(w)
  <2>1. Typed' BY <1>7 DEF Crash, Typed, trips, line, money
  <2> QED BY <1>7, <2>1, CollectsNothing DEF Crash, trips, money
<1> QED BY <1>1, <1>2, <1>3, <1>4, <1>5, <1>6, <1>7

\* A checkout finds a trip, claims it, and charges or gives it up.
LEMMA CheckoutKeeps ==
  ASSUME IInv, NEW w \in Workers,
         CheckoutWave(w) \/ CheckoutClaim(w) \/ CheckoutLook(w) \/ CheckoutUnclaim(w)
           \/ CheckoutCharge(w) \/ CheckoutPay(w)
  PROVE  IInv'
<1> USE RestingIsTask DEF IInv, GoOn, Finish, FinishAfter
<1>0. task[w] \in Task /\ None \notin Waves BY QueueAssumption DEF Typed
<1>1. CASE CheckoutWave(w)
  <2> DEFINE looks == [task[w] EXCEPT !.step = "look"]
             claims(v) == [task[w] EXCEPT !.step = "claim", !.wave = v]
  <2>0. task[w].step = "wave" /\ task[w].wave = None BY <1>0, <1>1 DEF CheckoutWave, At, Task
  <2>1. CASE task' = [task EXCEPT ![w] = looks]
    <3>1. looks \in Task /\ looks.wave = None BY <1>0, <2>0 DEF Task, Steps
    <3> HIDE DEF looks
    <3>2. Typed' BY <1>1, <2>1, <3>1 DEF CheckoutWave, Typed, trips, line, money
    <3>3. \A u \in Workers, v \in Waves : Collecting(u, v)' => Collecting(u, v)
      BY <1>0, <2>1, <3>1 DEF Typed, Collecting
    <3> QED BY <1>1, <3>2, <3>3 DEF CheckoutWave, trips, money, OneCollector, TripBilledOnce
  <2>2. ASSUME NEW v \in Waves, task' = [task EXCEPT ![w] = claims(v)] PROVE IInv'
    <3>1. claims(v) \in Task /\ claims(v).step = "claim" BY <1>0, <2>0 DEF Task, Steps
    <3> HIDE DEF claims
    <3>2. Typed' BY <1>1, <2>2, <3>1 DEF CheckoutWave, Typed, trips, line, money
    <3> QED BY <1>1, <2>2, <3>1, <3>2, CollectsNothing DEF CheckoutWave, trips, money
  <2> QED BY <1>1, <2>1, <2>2 DEF CheckoutWave
<1>2. CASE CheckoutClaim(w)
  <2> DEFINE mine == task[w].wave
             got == IF mine \in claimed THEN None ELSE mine
             t == [task[w] EXCEPT !.step = "look", !.wave = got]
  <2>0. mine \in Waves BY <1>0, <1>2 DEF CheckoutClaim, At, Task
  <2>a. got \in Waves \cup {None} BY <2>0
  <2>1. t \in Task /\ t.step = "look" /\ t.wave = got
    <3> HIDE DEF got
    <3> QED BY <1>0, <2>a DEF Task, Steps
  <2>2. task' = [task EXCEPT ![w] = t] /\ claimed' = claimed \cup {mine} /\ billed' = billed
    BY <1>2 DEF CheckoutClaim, money
  <2>3. Typed' BY <1>2, <2>0, <2>1, <2>2 DEF CheckoutClaim, Typed, line, money
  <2>4. \A u \in Workers, v \in Waves :
          Collecting(u, v)' => Collecting(u, v) \/ (u = w /\ v = mine /\ mine \notin claimed)
    BY <1>0, <2>1, <2>2 DEF Typed, Collecting
  <2>5. mine \notin claimed => billed[mine] = 0 /\ \A u \in Workers : ~Collecting(u, mine)
    BY <2>0 DEF OneCollector, Typed
  <2>6. OneCollector' BY <2>2, <2>4, <2>5 DEF OneCollector
  <2> QED BY <2>2, <2>3, <2>6 DEF TripBilledOnce
<1>3. CASE CheckoutLook(w)
  <2> DEFINE t(s) == [task[w] EXCEPT !.step = s]
  <2>1. \A s \in {"charge", "unclaim"} : t(s) \in Task /\ t(s).wave = task[w].wave
    BY <1>0 DEF Task, Steps
  <2>2. \/ \E s \in {"charge", "unclaim"} : task' = [task EXCEPT ![w] = t(s)]
        \/ task' = [task EXCEPT ![w] = Resting]
    BY <1>3 DEF CheckoutLook
  <2> HIDE DEF t
  <2>3. Typed' BY <1>3, <2>1, <2>2 DEF CheckoutLook, Typed, trips, line, money
  <2> QED BY <1>3, <2>1, <2>2, <2>3, CollectsNothing, CollectsTheSame
          DEF CheckoutLook, At, trips, money
<1>4. CASE CheckoutUnclaim(w)
  <2>1. Typed' BY <1>4 DEF CheckoutUnclaim, Typed, line, money
  <2>2. \A u \in Workers, v \in Waves :
          Collecting(u, v)' => Collecting(u, v) /\ v # task[w].wave
    BY <1>4 DEF CheckoutUnclaim, Typed, OneCollector, Collecting, At
  <2>3. \A v \in Waves : v = task[w].wave => billed[v] = 0
    BY <1>4 DEF CheckoutUnclaim, OneCollector, Collecting, At
  <2>4. billed' = billed /\ claimed' = claimed \ {task[w].wave}
    BY <1>4 DEF CheckoutUnclaim, money
  <2>5. OneCollector' BY <2>2, <2>3, <2>4 DEF OneCollector, Typed
  <2> QED BY <2>1, <2>4, <2>5 DEF TripBilledOnce
<1>5. CASE CheckoutCharge(w)
  <2> DEFINE t == [task[w] EXCEPT !.step = "pay"]
  <2>1. t \in Task /\ t.wave = task[w].wave BY <1>0 DEF Task, Steps
  <2>2. task' = [task EXCEPT ![w] = t] \/ task' = [task EXCEPT ![w] = Resting]
    BY <1>5 DEF CheckoutCharge
  <2> HIDE DEF t
  <2>3. Typed' BY <1>5, <2>1, <2>2 DEF CheckoutCharge, Typed, trips, line
  <2> QED BY <1>5, <2>1, <2>2, <2>3, CollectsNothing, CollectsTheSame
          DEF CheckoutCharge, At, trips
<1>6. CASE CheckoutPay(w)
  <2> DEFINE mine == task[w].wave
             t == [task[w] EXCEPT !.step = "leave"]
  <2>1. t \in Task /\ t.step = "leave" BY <1>0 DEF Task, Steps
  <2>2. task' = [task EXCEPT ![w] = t] \/ task' = [task EXCEPT ![w] = Resting]
    BY <1>6 DEF CheckoutPay
  <2> HIDE DEF t
  <2>3. /\ claimed' = claimed
        /\ billed' = [u \in Waves |-> IF u = mine THEN billed[u] + 1 ELSE billed[u]]
    BY <1>6 DEF CheckoutPay, trips
  <2>4. Typed' BY <1>6, <2>1, <2>2, <2>3 DEF CheckoutPay, Typed, trips, line
  <2>5. \A u \in Workers, v \in Waves : Collecting(u, v)' => Collecting(u, v) /\ v # mine
    BY <1>6, <2>1, <2>2 DEF CheckoutPay, Typed, OneCollector, Collecting, At
  <2>6. mine \in Waves => mine \in claimed /\ billed[mine] = 0
    BY <1>6 DEF CheckoutPay, OneCollector, Collecting, At
  <2>7. OneCollector' BY <2>3, <2>5, <2>6 DEF OneCollector, Typed
  <2>8. TripBilledOnce' BY <2>3, <2>6 DEF TripBilledOnce, Typed
  <2> QED BY <2>4, <2>7, <2>8
<1> QED BY <1>1, <1>2, <1>3, <1>4, <1>5, <1>6

\* What the vendor, the sweeps and the customers do in one write.
LEMMA InstantKeeps ==
  ASSUME IInv,
         \/ \E s \in Schedules : SetDiscountSchedule(s)
         \/ \E v \in Waves, fee \in BOOLEAN : CreateWaveDown(v, fee)
         \/ \E v \in Waves : DeclineWaveDown(v) \/ CancelWaveDown(v) \/ ExpireWaveDown(v)
         \/ \E c \in Customers : LeaveQueue(c)
         \/ \E p \in Places : ExpireHold(p)
  PROVE  IInv'
<1>1. UNCHANGED <<task, billed, claimed, stamp>>
  BY DEF SetDiscountSchedule, CreateWaveDown, DeclineWaveDown, CancelWaveDown,
         ExpireWaveDown, Close, LeaveQueue, ExpireHold, trips, money, line
<1>2. place' = place \/ \E p \in Places : Leave(p)
  BY DEF SetDiscountSchedule, CreateWaveDown, DeclineWaveDown, CancelWaveDown,
         ExpireWaveDown, Close, LeaveQueue, ExpireHold, PlacesOf, InLine, line
<1>3. Typed' BY <1>1, <1>2 DEF IInv, Typed, Leave
<1> QED BY <1>1, <1>3, Elsewhere

\* Every step keeps the invariant.
LEMMA NextIInv == IInv /\ [Next]_vars => IInv'
<1> SUFFICES ASSUME IInv, [Next]_vars PROVE IInv' OBVIOUS
<1>1. CASE UNCHANGED vars
  BY <1>1 DEF vars, IInv, Typed, OneCollector, Collecting, TripBilledOnce
<1>2. CASE Next
  BY <1>2, BeginKeeps, QuietKeeps, CheckoutKeeps, InstantKeeps DEF Next, Continue
<1> QED BY <1>1, <1>2

\* "a retried checkout can never bill the trip twice" (markTravelFeeCharged): at most one
\* charge carries a wave's fees.
THEOREM TripIsBilledOnce == Spec => []TripBilledOnce
<1>1. IInv => TripBilledOnce BY DEF IInv
<1> QED BY InitIInv, NextIInv, <1>1, PTL DEF Spec

(***************************************************************************)
(* The line: the invariant the rest of the properties rest on.             *)
(***************************************************************************)

\* The types the rest of the argument needs.
Rows ==
  /\ Typed
  /\ wave \in [Waves -> {"none", "pending", "accepted", "declined", "expired", "cancelled"}]
  /\ spent \in [Places -> Nat]

\* The schedule keeps the rules.
Lawful == Valid(schedule) /\ schedule.tiers \in Seq(0..101) /\ schedule.cap \in 0..101

\* The tasks that hold a place whose discount is still to be spent.
Carries(w) == task[w].step \in {"wave", "claim", "look", "unclaim", "charge", "pay"}

\* A trip that is claimed was billed or is being collected, unless its charge broke off.
Collected ==
  befell \cap {"crash", "charge_failed", "free_trip_replayed"} = {} =>
    \A v \in claimed : billed[v] = 1 \/ \E w \in Workers : Collecting(w, v)

\* Places are taken in the order of their numbers; one that is about to be written is empty, and
\* is one worker's; one that a request read is not.
Numbered ==
  /\ \A p \in Places : place[p].state # "none" => p <= stamp
  /\ \A p \in Places : place[p].state = "none" => place[p].who = None
  /\ \A w \in Workers : task[w].step = "join_write" =>
       /\ task[w].place \in Places
       /\ task[w].place <= stamp
       /\ place[task[w].place].state = "none"
       /\ \A u \in Workers :
            task[u].step = "join_write" /\ task[u].place = task[w].place => u = w
  /\ \A w \in Workers : (Carries(w) \/ task[w].step = "leave") /\ task[w].place # None =>
       /\ task[w].place \in Places
       /\ place[task[w].place].state # "none"

\* The requests that will yet ask for a number, for each of which one is left.
Joining == {w \in Workers : task[w].step \in {"accept", "join"}}

NumbersLeft == stamp + Cardinality(Joining) <= MaxJoins

\* Unless requests overlap, one is under way.
Alone == "overlap" \notin befell => \A u, w \in Workers : Idle(u) \/ Idle(w) \/ u = w

\* Unless requests overlap, a customer has a place in line at most, and the place about to be
\* written is the last, of a customer who has none.
OnePlace ==
  "overlap" \notin befell =>
    /\ \A p, q \in InLine : place[p].who = place[q].who => p = q
    /\ \A w \in Workers : task[w].step = "join_write" =>
         /\ task[w].place = stamp
         /\ PlacesOf(task[w].who) = {}

\* A place in line is not spent, or is about to be left by the checkout that spent it; one that is
\* not taken, or that a checkout has in hand, is not spent.
Unspent ==
  befell \cap {"overlap", "crash"} = {} =>
    /\ \A p \in Places : spent[p] <= 1
    /\ \A p \in Places : place[p].state = "none" => spent[p] = 0
    /\ \A p \in InLine :
         spent[p] = 0 \/ \E w \in Workers : task[w].step = "leave" /\ task[w].place = p
    /\ \A w \in Workers : Carries(w) /\ task[w].place \in Places => spent[task[w].place] = 0

\* A wave is accepted for the customer who raised it.
ForItsCaller ==
  \A w \in Workers : task[w].step = "accept" =>
       task[w].wave \in Waves /\ task[w].who = Caller[task[w].wave]

\* Whoever was accepted has a place, or is about to get one.
Awaited ==
  "crash" \notin befell => \A v \in Waves : wave[v] = "accepted" =>
       \/ \E p \in Places : place[p].who = Caller[v]
       \/ \E w \in Workers : task[w].step \in {"join", "join_write"} /\ task[w].who = Caller[v]

\* The invariant of the line, which the properties below rest on.
LineInv ==
  /\ Rows
  /\ Lawful
  /\ Collected
  /\ Numbered
  /\ NumbersLeft
  /\ Alone
  /\ OnePlace
  /\ Unspent
  /\ ForItsCaller
  /\ Awaited

(***************************************************************************)
(* What a step does, place by place and worker by worker.                  *)
(***************************************************************************)

\* The steps, as the lemmas above divide them.
Checkout(w) ==
  CheckoutWave(w) \/ CheckoutClaim(w) \/ CheckoutLook(w) \/ CheckoutUnclaim(w) \/ CheckoutCharge(w)

BreakOff(w) == CheckoutFails(w) \/ Crash(w)

Instant ==
  \/ \E s \in Schedules : SetDiscountSchedule(s)
  \/ \E v \in Waves, fee \in BOOLEAN : CreateWaveDown(v, fee)
  \/ \E v \in Waves : DeclineWaveDown(v) \/ CancelWaveDown(v) \/ ExpireWaveDown(v)
  \/ \E c \in Customers : LeaveQueue(c)
  \/ \E p \in Places : ExpireHold(p)

\* Next, as those steps.
LEMMA Cases ==
  Next =>
    \/ \E w \in Workers, v \in Waves : AcceptRead(w, v)
    \/ \E w \in Workers, c \in Customers : JoinQueue(w, c)
    \/ \E w \in Workers : ServeRead(w)
    \/ \E w \in Workers, k \in Keys : CheckoutRead(w, k)
    \/ \E w \in Workers : Accept(w)
    \/ \E w \in Workers : JoinRead(w)
    \/ \E w \in Workers : JoinWrite(w)
    \/ \E w \in Workers : ServeLeave(w)
    \/ \E w \in Workers : Checkout(w)
    \/ \E w \in Workers : CheckoutPay(w)
    \/ \E w \in Workers : CheckoutLeave(w)
    \/ \E w \in Workers : BreakOff(w)
    \/ Instant
BY DEF Next, Continue, Checkout, BreakOff, Instant

\* One worker's task changes.
Only(w) == \A u \in Workers \ {w} : task'[u] = task[u]

\* Of the line, places are left at most.
PlacesLeft ==
  \A p \in Places :
    /\ place'[p].who = place[p].who
    /\ place'[p].state = place[p].state \/ (place[p].state # "none" /\ place'[p].state = "left")

\* A request begins, and nothing is written.
Begins(w) ==
  /\ Only(w)
  /\ Idle(w)
  /\ befell' = IF \A v \in Workers : Idle(v) THEN befell ELSE befell \cup {"overlap"}
  /\ UNCHANGED <<schedule, wave, claimed, place, billed, spent>>

\* The bound on joins, in terms of those that are under way.
LEMMA JoinsLeftMeans ==
  ASSUME Rows
  PROVE  /\ IsFiniteSet(Joining) /\ Cardinality(Joining) \in Nat
         /\ JoinsLeft <=> stamp + Cardinality(Joining) < MaxJoins
<1>1. IsFiniteSet(Joining) /\ Cardinality(Joining) \in Nat
  BY QueueAssumption, FS_Subset, FS_CardinalityType DEF Joining
<1>2. JoinsLeft <=> MaxJoins - stamp > Cardinality(Joining)
  BY DEF JoinsLeft, Joining
<1> HIDE DEF Joining
<1> QED BY <1>1, <1>2, QueueAssumption DEF Rows, Typed

LEMMA AcceptReadDoes ==
  ASSUME Rows, NEW w \in Workers, NEW v \in Waves, AcceptRead(w, v)
  PROVE  /\ Begins(w) /\ stamp' = stamp
         /\ stamp + Cardinality(Joining) < MaxJoins
         /\ task'[w].step = "accept" /\ task'[w].wave = v /\ task'[w].who = Caller[v]
         /\ task'[w].place = None
BY JoinsLeftMeans DEF AcceptRead, Begin, Begins, Only, Rows, Typed, Resting, trips, line, money

LEMMA JoinQueueDoes ==
  ASSUME Rows, NEW w \in Workers, NEW c \in Customers, JoinQueue(w, c)
  PROVE  /\ Begins(w) /\ stamp' = stamp + 1
         /\ stamp + Cardinality(Joining) < MaxJoins
         /\ PlacesOf(c) = {}
         /\ task'[w].step = "join_write" /\ task'[w].who = c /\ task'[w].place = stamp + 1
BY JoinsLeftMeans DEF JoinQueue, Begin, Begins, Only, Rows, Typed, Resting, trips, money

LEMMA ServeReadDoes ==
  ASSUME Rows, NEW w \in Workers, ServeRead(w)
  PROVE  /\ Begins(w) /\ stamp' = stamp
         /\ task'[w].step = "serve"
BY DEF ServeRead, Begin, Begins, Only, Rows, Typed, Resting, trips, line, money

LEMMA CheckoutReadDoes ==
  ASSUME Rows, NEW w \in Workers, NEW k \in Keys, CheckoutRead(w, k)
  PROVE  /\ Begins(w) /\ stamp' = stamp
         /\ task'[w].step = "wave"
         /\ task'[w].place = None \/ task'[w].place \in InLine
<1>1. CASE PlacesOf(Payer[k]) = {}
  BY <1>1 DEF CheckoutRead, Begin, Begins, Only, Rows, Typed, Resting, trips, line, money
<1>2. CASE PlacesOf(Payer[k]) # {}
  <2>1. PICK p \in PlacesOf(Payer[k]) :
          Begin(w, [Resting EXCEPT !.step = "wave", !.who = Payer[k], !.key = k, !.place = p])
    BY <1>2 DEF CheckoutRead
  <2>2. p \in InLine BY DEF PlacesOf
  <2> QED BY <2>1, <2>2 DEF CheckoutRead, Begin, Begins, Only, Rows, Typed, Resting, trips, line,
      money
<1> QED BY <1>1, <1>2

\* What the vendor, the customers and the sweeps do in one write.
LEMMA InstantDoes ==
  ASSUME Rows, Instant
  PROVE  /\ UNCHANGED <<task, befell, claimed, billed, spent, stamp>>
         /\ PlacesLeft
         /\ \A v \in Waves : wave'[v] = "accepted" => wave[v] = "accepted"
         /\ schedule' = schedule \/ (schedule' \in Schedules /\ Valid(schedule'))
<1>1. UNCHANGED <<task, befell, claimed, billed, spent, stamp>>
  BY DEF Instant, SetDiscountSchedule, CreateWaveDown, DeclineWaveDown, CancelWaveDown,
     ExpireWaveDown,
         Close, LeaveQueue, ExpireHold, trips, money, line
<1>2. place' = place \/ \E p \in InLine : Leave(p)
  BY DEF Instant, SetDiscountSchedule, CreateWaveDown, DeclineWaveDown, CancelWaveDown,
     ExpireWaveDown,
         Close, LeaveQueue, ExpireHold, PlacesOf, line
<1>3. PlacesLeft
  BY <1>2 DEF PlacesLeft, Leave, InLine, Rows, Typed
<1>4. \/ wave' = wave
      \/ \E v \in Waves, to \in {"pending", "declined", "cancelled", "expired"} :
           wave' = [wave EXCEPT ![v] = to]
  BY DEF Instant, SetDiscountSchedule, CreateWaveDown, DeclineWaveDown, CancelWaveDown,
     ExpireWaveDown,
         Close, LeaveQueue, ExpireHold, trips
<1>5. \A v \in Waves : wave'[v] = "accepted" => wave[v] = "accepted"
  BY <1>4 DEF Rows
<1>6. schedule' = schedule \/ (schedule' \in Schedules /\ Valid(schedule'))
  BY DEF Instant, SetDiscountSchedule, CreateWaveDown, DeclineWaveDown, CancelWaveDown,
     ExpireWaveDown,
         Close, LeaveQueue, ExpireHold
<1> QED BY <1>1, <1>3, <1>5, <1>6

LEMMA AcceptDoes ==
  ASSUME Rows, NEW w \in Workers, Accept(w)
  PROVE  /\ Only(w) /\ task[w].step = "accept"
         /\ UNCHANGED <<befell, schedule, claimed, place, billed, spent, stamp>>
         /\ \A v \in Waves : wave'[v] = wave[v] \/ (v = task[w].wave /\ task'[w].step = "join")
         /\ task'[w].who = task[w].who \/ UNCHANGED wave
         /\ task'[w].step \in {"join", "idle"}
<1> DEFINE t == [task[w] EXCEPT !.step = "join"]
<1>1. task[w] \in Task BY DEF Rows, Typed
<1>2. t.step = "join" /\ t.who = task[w].who BY <1>1 DEF Task
<1> HIDE DEF t
<1>3. CASE wave[task[w].wave] = "pending"
  <2>1. task' = [task EXCEPT ![w] = t] /\ wave' = [wave EXCEPT ![task[w].wave] = "accepted"]
    BY <1>3 DEF Accept, GoOn, t
  <2>2. \A v \in Waves : v # task[w].wave => wave'[v] = wave[v]
    BY <2>1 DEF Rows
  <2>3. task'[w] = t /\ Only(w) BY <2>1 DEF Rows, Typed, Only
  <2> QED BY <1>2, <1>3, <2>2, <2>3 DEF Accept, At, GoOn, line, money
<1>4. CASE wave[task[w].wave] # "pending"
  BY <1>4 DEF Accept, At, GoOn, Finish, Only, Rows, Typed, Resting, line, money
<1> QED BY <1>3, <1>4

LEMMA JoinReadDoes ==
  ASSUME Rows, NEW w \in Workers, JoinRead(w)
  PROVE  /\ Only(w) /\ task[w].step = "join"
         /\ UNCHANGED <<befell, schedule, wave, claimed, place, billed, spent>>
         /\ \/ /\ PlacesOf(task[w].who) # {}
               /\ task'[w].step = "idle" /\ stamp' = stamp
            \/ /\ PlacesOf(task[w].who) = {}
               /\ task'[w].step = "join_write" /\ stamp' = stamp + 1
               /\ task'[w].who = task[w].who /\ task'[w].place = stamp'
<1> DEFINE t == [task[w] EXCEPT !.step = "join_write", !.place = stamp + 1]
<1>1. task[w] \in Task BY DEF Rows, Typed
<1>2. t.step = "join_write" /\ t.who = task[w].who /\ t.place = stamp + 1 BY <1>1 DEF Task
<1> HIDE DEF t
<1>3. CASE PlacesOf(task[w].who) = {}
  <2>1. task' = [task EXCEPT ![w] = t] /\ stamp' = stamp + 1 BY <1>3 DEF JoinRead, GoOn, t
  <2>2. task'[w] = t /\ Only(w) BY <2>1 DEF Rows, Typed, Only
  <2> QED BY <1>2, <1>3, <2>1, <2>2 DEF JoinRead, At, GoOn, Finish, trips, money
<1>4. CASE PlacesOf(task[w].who) # {}
  BY <1>4 DEF JoinRead, At, GoOn, Finish, Only, Rows, Typed, Resting, trips, money
<1> QED BY <1>3, <1>4

LEMMA JoinWriteDoes ==
  ASSUME Rows, NEW w \in Workers, JoinWrite(w)
  PROVE  /\ Only(w) /\ task[w].step = "join_write" /\ task'[w].step = "idle"
         /\ UNCHANGED <<befell, schedule, wave, claimed, billed, spent, stamp>>
         /\ \A p \in Places : p # task[w].place => place'[p] = place[p]
         /\ task[w].place \in Places =>
              /\ place'[task[w].place].state = "in_line"
              /\ place'[task[w].place].who = task[w].who
BY DEF JoinWrite, At, GoOn, Finish, Only, Rows, Typed, Resting, trips, money

LEMMA ServeLeaveDoes ==
  ASSUME Rows, NEW w \in Workers, ServeLeave(w)
  PROVE  /\ Only(w) /\ task[w].step = "serve" /\ task'[w].step = "idle"
         /\ UNCHANGED <<befell, schedule, wave, claimed, billed, spent, stamp>>
         /\ PlacesLeft
<1>0. place' = place \/ \E p \in InLine : Leave(p)
  BY DEF ServeLeave, PlacesOf
<1>1. PlacesLeft
  BY <1>0 DEF PlacesLeft, Leave, InLine, Rows, Typed
<1> QED BY <1>1 DEF ServeLeave, At, GoOn, Finish, Only, Rows, Typed, Resting, trips, money

\* A checkout goes on with the place it has, before it charged.
LEMMA CheckoutDoes ==
  ASSUME Rows, NEW w \in Workers,
         Checkout(w)
  PROVE  /\ Only(w) /\ Carries(w)
         /\ UNCHANGED <<schedule, wave, place, billed, spent, stamp>>
         /\ befell' \in {befell, befell \cup {"free_trip_replayed"}, befell \cup {"charge_failed"}}
         /\ \/ Carries(w)' /\ task'[w].place = task[w].place
            \/ task'[w].step = "idle"
<1> DEFINE to(s) == [task[w] EXCEPT !.step = s]
           with(s, v) == [task[w] EXCEPT !.step = s, !.wave = v]
<1>1. task[w] \in Task BY DEF Rows, Typed
<1>2. \A s : to(s).step = s /\ to(s).place = task[w].place BY <1>1 DEF Task
<1>3. \A s, v : with(s, v).step = s /\ with(s, v).place = task[w].place BY <1>1 DEF Task
<1>4. Carries(w) /\ UNCHANGED <<schedule, wave, place, billed, spent, stamp>>
  BY DEF Checkout, CheckoutWave, CheckoutClaim, CheckoutLook, CheckoutUnclaim, CheckoutCharge,
     At, Carries,
     trips, line, money
<1>5. befell' \in {befell, befell \cup {"free_trip_replayed"}, befell \cup {"charge_failed"}}
  BY DEF Checkout, CheckoutWave, CheckoutClaim, CheckoutLook, CheckoutUnclaim, CheckoutCharge,
     GoOn, Finish,
     FinishAfter
<1>6. \/ \E s \in {"look", "unclaim", "charge", "pay"} : task' = [task EXCEPT ![w] = to(s)]
      \/ \E s \in {"look", "claim"} : \E v : task' = [task EXCEPT ![w] = with(s, v)]
      \/ task' = [task EXCEPT ![w] = Resting]
  BY DEF Checkout, CheckoutWave, CheckoutClaim, CheckoutLook, CheckoutUnclaim, CheckoutCharge,
     GoOn, Finish,
     FinishAfter
<1> HIDE DEF to, with
<1>7. \E t : /\ task' = [task EXCEPT ![w] = t]
            /\ \/ /\ t.step \in {"look", "claim", "unclaim", "charge", "pay"}
                  /\ t.place = task[w].place
               \/ t.step = "idle"
  <2>1. CASE \E s \in {"look", "unclaim", "charge", "pay"} : task' = [task EXCEPT ![w] = to(s)]
    <3>1. PICK s \in {"look", "unclaim", "charge", "pay"} : task' = [task EXCEPT ![w] = to(s)]
      BY <2>1
    <3> WITNESS to(s)
    <3> QED BY <1>2, <3>1
  <2>2. CASE \E s \in {"look", "claim"} : \E v : task' = [task EXCEPT ![w] = with(s, v)]
    <3>1. PICK s \in {"look", "claim"} : \E v : task' = [task EXCEPT ![w] = with(s, v)]
      BY <2>2
    <3>2. PICK v : task' = [task EXCEPT ![w] = with(s, v)] BY <3>1
    <3> WITNESS with(s, v)
    <3> QED BY <1>3, <3>2
  <2>3. CASE task' = [task EXCEPT ![w] = Resting]
    <3> WITNESS Resting
    <3> QED BY <2>3 DEF Resting
  <2> QED BY <1>6, <2>1, <2>2, <2>3
<1> QED BY <1>4, <1>5, <1>7 DEF Only, Carries, Rows, Typed

LEMMA CheckoutPayDoes ==
  ASSUME Rows, NEW w \in Workers, CheckoutPay(w)
  PROVE  /\ Only(w) /\ task[w].step = "pay"
         /\ UNCHANGED <<befell, schedule, wave, claimed, place, stamp>>
         /\ \A v \in Waves : billed'[v] = IF v = task[w].wave THEN billed[v] + 1 ELSE billed[v]
         /\ \A p \in Places : spent'[p] = IF p = task[w].place THEN spent[p] + 1 ELSE spent[p]
         /\ \/ task[w].place = None /\ task'[w].step = "idle"
            \/ task'[w].step = "leave" /\ task'[w].place = task[w].place /\ task[w].place # None
BY DEF CheckoutPay, At, GoOn, Finish, Only, Rows, Typed, Task, Resting, trips, line

LEMMA CheckoutLeaveDoes ==
  ASSUME Rows, NEW w \in Workers, CheckoutLeave(w)
  PROVE  /\ Only(w) /\ task[w].step = "leave" /\ task'[w].step = "idle"
         /\ UNCHANGED <<befell, schedule, wave, claimed, billed, spent, stamp>>
         /\ \A p \in Places : p # task[w].place => place'[p] = place[p]
         /\ task[w].place \in Places =>
              /\ place'[task[w].place].state = "left"
              /\ place'[task[w].place].who = place[task[w].place].who
BY DEF CheckoutLeave, Leave, At, GoOn, Finish, Only, Rows, Typed, Resting, trips, money

\* A checkout's charge is refused, or a process dies.
LEMMA BreakOffDoes ==
  ASSUME Rows, NEW w \in Workers, BreakOff(w)
  PROVE  /\ Only(w) /\ ~Idle(w) /\ task'[w].step = "idle"
         /\ UNCHANGED <<schedule, wave, claimed, place, billed, spent, stamp>>
         /\ \/ befell' = befell \cup {"crash"}
            \/ befell' = befell \cup {"charge_failed"} /\ task[w].step \in {"charge", "pay"}
BY DEF BreakOff, CheckoutFails, Crash, FinishAfter, Idle, Only, Rows, Typed, Resting, trips,
   line, money

\* What the types come to.
LEMMA Small ==
  ASSUME Rows
  PROVE  /\ stamp \in Nat /\ stamp + 1 \in Nat /\ MaxJoins \in Nat
         /\ None \notin Places
         /\ \A p \in Places : p \in Nat /\ p <= MaxJoins
         /\ \A n \in Nat : n > 0 /\ n <= MaxJoins => n \in Places
         /\ \A v \in Waves : Caller[v] # None
         /\ \A p \in Places : spent[p] \in Nat
         /\ \A v \in Waves : billed[v] \in Nat
BY QueueAssumption DEF Rows, Typed, Places

\* Where no more ask for a number, no more are needed.
LEMMA FewerJoining ==
  ASSUME Rows, NumbersLeft, Joining' \subseteq Joining, stamp' = stamp
  PROVE  NumbersLeft'
<1>1. Cardinality(Joining') \in Nat /\ Cardinality(Joining') <= Cardinality(Joining)
  BY JoinsLeftMeans, FS_Subset, FS_CardinalityType
<1> QED BY <1>1, JoinsLeftMeans, Small DEF NumbersLeft

\* A checkout that goes on keeps its trip, gives up its claim, or claims a trip and keeps that.
LEMMA CheckoutCollects ==
  ASSUME Rows, NEW w \in Workers, Checkout(w),
         "free_trip_replayed" \notin befell', "charge_failed" \notin befell'
  PROVE  \A v \in claimed' :
           \/ Collecting(w, v)'
           \/ v \in claimed /\ \A u \in Workers : Collecting(u, v) => Collecting(u, v)'
<1> USE DEF GoOn, Finish, FinishAfter, At, Collecting, trips
<1>0. task[w] \in Task /\ task \in [Workers -> Task] /\ claimed \subseteq Waves /\ None \notin Waves
  BY QueueAssumption DEF Rows, Typed
<1>1. CASE CheckoutWave(w)
  <2>1. claimed' = claimed /\ task[w].step = "wave" BY <1>1 DEF CheckoutWave
  <2>2. \A u \in Workers \ {w} : task'[u] = task[u] BY <1>0, <1>1 DEF CheckoutWave
  <2> QED BY <2>1, <2>2
<1>2. CASE CheckoutClaim(w)
  <2> DEFINE mine == task[w].wave
             got == IF mine \in claimed THEN None ELSE mine
             t == [task[w] EXCEPT !.step = "look", !.wave = got]
  <2>1. t.step = "look" /\ t.wave = got
    <3> HIDE DEF got
    <3> QED BY <1>0 DEF Task
  <2>2. task' = [task EXCEPT ![w] = t] /\ claimed' = claimed \cup {mine} /\ task[w].step = "claim"
    BY <1>2 DEF CheckoutClaim
  <2> HIDE DEF t
  <2>3. task'[w] = t /\ \A u \in Workers \ {w} : task'[u] = task[u] BY <1>0, <2>2
  <2> QED BY <2>1, <2>2, <2>3
<1>3. CASE CheckoutLook(w)
  <2>1. claimed' = claimed /\ task[w].step = "look" BY <1>3 DEF CheckoutLook
  <2>2. \A u \in Workers \ {w} : task'[u] = task[u] BY <1>0, <1>3 DEF CheckoutLook
  <2>3. task[w].wave \in Waves =>
          task'[w].wave = task[w].wave /\ task'[w].step \in {"charge", "unclaim"}
    <3> DEFINE to(s) == [task[w] EXCEPT !.step = s]
    <3>1. \A s : to(s).step = s /\ to(s).wave = task[w].wave BY <1>0 DEF Task
    <3>2. task[w].wave \in Waves =>
            \E s \in {"charge", "unclaim"} : task' = [task EXCEPT ![w] = to(s)]
      BY <1>0, <1>3 DEF CheckoutLook
    <3> HIDE DEF to
    <3> QED BY <1>0, <3>1, <3>2
  <2> QED BY <1>0, <2>1, <2>2, <2>3
<1>4. CASE CheckoutUnclaim(w)
  <2>1. claimed' = claimed \ {task[w].wave} BY <1>4 DEF CheckoutUnclaim
  <2>2. \A u \in Workers \ {w} : task'[u] = task[u] BY <1>0, <1>4 DEF CheckoutUnclaim
  <2> QED BY <2>1, <2>2
<1>5. CASE CheckoutCharge(w)
  <2> DEFINE t == [task[w] EXCEPT !.step = "pay"]
  <2>1. t.step = "pay" /\ t.wave = task[w].wave BY <1>0 DEF Task
  <2>2. task' = [task EXCEPT ![w] = t] /\ claimed' = claimed BY <1>5 DEF CheckoutCharge
  <2> HIDE DEF t
  <2> QED BY <1>0, <2>1, <2>2
<1> QED BY <1>1, <1>2, <1>3, <1>4, <1>5 DEF Checkout

\* Two requests at once overlap.
LEMMA AloneKept ==
  ASSUME Rows, Alone, Next
  PROVE  Alone'
<1>1. ASSUME NEW w \in Workers, NEW v \in Waves, AcceptRead(w, v) PROVE Alone'
  BY <1>1, AcceptReadDoes DEF Alone, Only, Idle, Carries, Begins
<1>2. ASSUME NEW w \in Workers, NEW c \in Customers, JoinQueue(w, c) PROVE Alone'
  BY <1>2, JoinQueueDoes DEF Alone, Only, Idle, Carries, Begins
<1>3. ASSUME NEW w \in Workers, ServeRead(w) PROVE Alone'
  BY <1>3, ServeReadDoes DEF Alone, Only, Idle, Carries, Begins
<1>4. ASSUME NEW w \in Workers, NEW k \in Keys, CheckoutRead(w, k) PROVE Alone'
  BY <1>4, CheckoutReadDoes DEF Alone, Only, Idle, Carries, Begins
<1>5. ASSUME NEW w \in Workers, Accept(w) PROVE Alone'
  BY <1>5, AcceptDoes DEF Alone, Only, Idle, Carries
<1>6. ASSUME NEW w \in Workers, JoinRead(w) PROVE Alone'
  BY <1>6, JoinReadDoes DEF Alone, Only, Idle, Carries
<1>7. ASSUME NEW w \in Workers, JoinWrite(w) PROVE Alone'
  BY <1>7, JoinWriteDoes DEF Alone, Only, Idle, Carries
<1>8. ASSUME NEW w \in Workers, ServeLeave(w) PROVE Alone'
  BY <1>8, ServeLeaveDoes DEF Alone, Only, Idle, Carries, PlacesLeft
<1>9. ASSUME NEW w \in Workers, Checkout(w) PROVE Alone'
  BY <1>9, CheckoutDoes DEF Alone, Only, Idle, Carries
<1>10. ASSUME NEW w \in Workers, CheckoutPay(w) PROVE Alone'
  BY <1>10, CheckoutPayDoes DEF Alone, Only, Idle, Carries
<1>11. ASSUME NEW w \in Workers, CheckoutLeave(w) PROVE Alone'
  BY <1>11, CheckoutLeaveDoes DEF Alone, Only, Idle, Carries
<1>12. ASSUME NEW w \in Workers, BreakOff(w) PROVE Alone'
  BY <1>12, BreakOffDoes DEF Alone, Only, Idle, Carries
<1>13. CASE Instant
  BY <1>13, InstantDoes DEF Alone, Only, Idle, Carries, PlacesLeft
<1> QED BY <1>1, <1>2, <1>3, <1>4, <1>5, <1>6, <1>7, <1>8, <1>9, <1>10, <1>11, <1>12, <1>13, Cases

\* Numbers are handed out in order, and places are written once.
LEMMA NumberedKept ==
  ASSUME Rows, Numbered, NumbersLeft, Next
  PROVE  Numbered'
<1>1. ASSUME NEW w \in Workers, NEW v \in Waves, AcceptRead(w, v) PROVE Numbered'
  BY <1>1, AcceptReadDoes, JoinsLeftMeans, Small DEF Numbered, Only, Idle, Carries, InLine, Begins
<1>2. ASSUME NEW w \in Workers, NEW c \in Customers, JoinQueue(w, c) PROVE Numbered'
  BY <1>2, JoinQueueDoes, JoinsLeftMeans, Small DEF Numbered, Only, Idle, Carries, InLine, Begins
<1>3. ASSUME NEW w \in Workers, ServeRead(w) PROVE Numbered'
  BY <1>3, ServeReadDoes, JoinsLeftMeans, Small DEF Numbered, Only, Idle, Carries, InLine, Begins
<1>4. ASSUME NEW w \in Workers, NEW k \in Keys, CheckoutRead(w, k) PROVE Numbered'
  BY <1>4, CheckoutReadDoes, JoinsLeftMeans, Small DEF Numbered, Only, Idle, Carries, InLine,
     Begins
<1>5. ASSUME NEW w \in Workers, Accept(w) PROVE Numbered'
  BY <1>5, AcceptDoes, JoinsLeftMeans, Small DEF Numbered, Only, Idle, Carries, InLine
<1>6. ASSUME NEW w \in Workers, JoinRead(w) PROVE Numbered'
  <2>1. w \in Joining BY <1>6, JoinReadDoes DEF Joining
  <2>2. Cardinality(Joining) > 0 BY <2>1, JoinsLeftMeans, FS_EmptySet
  <2>3. stamp + 1 <= MaxJoins BY <2>2, JoinsLeftMeans, Small DEF NumbersLeft
  <2> QED BY <1>6, <2>3, JoinReadDoes, Small DEF Numbered, Only, Idle, Carries, InLine
<1>7. ASSUME NEW w \in Workers, JoinWrite(w) PROVE Numbered'
  BY <1>7, JoinWriteDoes, JoinsLeftMeans, Small DEF Numbered, Only, Idle, Carries, InLine
<1>8. ASSUME NEW w \in Workers, ServeLeave(w) PROVE Numbered'
  BY <1>8, ServeLeaveDoes, JoinsLeftMeans, Small DEF Numbered, Only, Idle, Carries, InLine,
     PlacesLeft
<1>9. ASSUME NEW w \in Workers, Checkout(w) PROVE Numbered'
  BY <1>9, CheckoutDoes, JoinsLeftMeans, Small DEF Numbered, Only, Idle, Carries, InLine
<1>10. ASSUME NEW w \in Workers, CheckoutPay(w) PROVE Numbered'
  BY <1>10, CheckoutPayDoes, JoinsLeftMeans, Small DEF Numbered, Only, Idle, Carries, InLine
<1>11. ASSUME NEW w \in Workers, CheckoutLeave(w) PROVE Numbered'
  BY <1>11, CheckoutLeaveDoes, JoinsLeftMeans, Small DEF Numbered, Only, Idle, Carries, InLine
<1>12. ASSUME NEW w \in Workers, BreakOff(w) PROVE Numbered'
  BY <1>12, BreakOffDoes, JoinsLeftMeans, Small DEF Numbered, Only, Idle, Carries, InLine
<1>13. CASE Instant
  BY <1>13, InstantDoes, JoinsLeftMeans, Small DEF Numbered, Only, Idle, Carries, InLine,
     PlacesLeft
<1> QED BY <1>1, <1>2, <1>3, <1>4, <1>5, <1>6, <1>7, <1>8, <1>9, <1>10, <1>11, <1>12, <1>13, Cases

\* One at a time, each customer has one place.
LEMMA OnePlaceKept ==
  ASSUME Rows, Numbered, Numbered', Alone', OnePlace, Next
  PROVE  OnePlace'
<1>1. ASSUME NEW w \in Workers, NEW v \in Waves, AcceptRead(w, v) PROVE OnePlace'
  BY <1>1, AcceptReadDoes, Small DEF OnePlace, Alone, Numbered, Only, Idle, Carries, InLine,
     PlacesOf, Begins
<1>2. ASSUME NEW w \in Workers, NEW c \in Customers, JoinQueue(w, c) PROVE OnePlace'
  BY <1>2, JoinQueueDoes, Small DEF OnePlace, Alone, Numbered, Only, Idle, Carries, InLine,
     PlacesOf, Begins
<1>3. ASSUME NEW w \in Workers, ServeRead(w) PROVE OnePlace'
  BY <1>3, ServeReadDoes, Small DEF OnePlace, Alone, Numbered, Only, Idle, Carries, InLine,
     PlacesOf, Begins
<1>4. ASSUME NEW w \in Workers, NEW k \in Keys, CheckoutRead(w, k) PROVE OnePlace'
  BY <1>4, CheckoutReadDoes, Small DEF OnePlace, Alone, Numbered, Only, Idle, Carries, InLine,
     PlacesOf, Begins
<1>5. ASSUME NEW w \in Workers, Accept(w) PROVE OnePlace'
  BY <1>5, AcceptDoes, Small DEF OnePlace, Alone, Numbered, Only, Idle, Carries, InLine, PlacesOf
<1>6. ASSUME NEW w \in Workers, JoinRead(w) PROVE OnePlace'
  BY <1>6, JoinReadDoes, Small DEF OnePlace, Alone, Numbered, Only, Idle, Carries, InLine,
     PlacesOf
<1>7. ASSUME NEW w \in Workers, JoinWrite(w) PROVE OnePlace'
  BY <1>7, JoinWriteDoes, Small DEF OnePlace, Alone, Numbered, Only, Idle, Carries, InLine,
     PlacesOf
<1>8. ASSUME NEW w \in Workers, ServeLeave(w) PROVE OnePlace'
  BY <1>8, ServeLeaveDoes, Small DEF OnePlace, Alone, Numbered, Only, Idle, Carries, InLine,
     PlacesOf, PlacesLeft
<1>9. ASSUME NEW w \in Workers, Checkout(w) PROVE OnePlace'
  BY <1>9, CheckoutDoes, Small DEF OnePlace, Alone, Numbered, Only, Idle, Carries, InLine,
     PlacesOf
<1>10. ASSUME NEW w \in Workers, CheckoutPay(w) PROVE OnePlace'
  BY <1>10, CheckoutPayDoes, Small DEF OnePlace, Alone, Numbered, Only, Idle, Carries, InLine,
     PlacesOf
<1>11. ASSUME NEW w \in Workers, CheckoutLeave(w) PROVE OnePlace'
  BY <1>11, CheckoutLeaveDoes, Small DEF OnePlace, Alone, Numbered, Only, Idle, Carries, InLine,
     PlacesOf
<1>12. ASSUME NEW w \in Workers, BreakOff(w) PROVE OnePlace'
  BY <1>12, BreakOffDoes, Small DEF OnePlace, Alone, Numbered, Only, Idle, Carries, InLine,
     PlacesOf
<1>13. CASE Instant
  BY <1>13, InstantDoes, Small DEF OnePlace, Alone, Numbered, Only, Idle, Carries, InLine,
     PlacesOf, PlacesLeft
<1> QED BY <1>1, <1>2, <1>3, <1>4, <1>5, <1>6, <1>7, <1>8, <1>9, <1>10, <1>11, <1>12, <1>13, Cases

\* One at a time, a place's discount goes to one charge.
LEMMA UnspentKept ==
  ASSUME Rows, Numbered, Alone, Alone', Unspent, Next
  PROVE  Unspent'
<1>1. ASSUME NEW w \in Workers, NEW v \in Waves, AcceptRead(w, v) PROVE Unspent'
  BY <1>1, AcceptReadDoes, Small DEF Unspent, Alone, Numbered, Only, Idle, Carries, InLine, Begins
<1>2. ASSUME NEW w \in Workers, NEW c \in Customers, JoinQueue(w, c) PROVE Unspent'
  BY <1>2, JoinQueueDoes, Small DEF Unspent, Alone, Numbered, Only, Idle, Carries, InLine, Begins
<1>3. ASSUME NEW w \in Workers, ServeRead(w) PROVE Unspent'
  BY <1>3, ServeReadDoes, Small DEF Unspent, Alone, Numbered, Only, Idle, Carries, InLine, Begins
<1>4. ASSUME NEW w \in Workers, NEW k \in Keys, CheckoutRead(w, k) PROVE Unspent'
  BY <1>4, CheckoutReadDoes, Small DEF Unspent, Alone, Numbered, Only, Idle, Carries, InLine,
     Begins
<1>5. ASSUME NEW w \in Workers, Accept(w) PROVE Unspent'
  BY <1>5, AcceptDoes, Small DEF Unspent, Alone, Numbered, Only, Idle, Carries, InLine
<1>6. ASSUME NEW w \in Workers, JoinRead(w) PROVE Unspent'
  BY <1>6, JoinReadDoes, Small DEF Unspent, Alone, Numbered, Only, Idle, Carries, InLine
<1>7. ASSUME NEW w \in Workers, JoinWrite(w) PROVE Unspent'
  BY <1>7, JoinWriteDoes, Small DEF Unspent, Alone, Numbered, Only, Idle, Carries, InLine
<1>8. ASSUME NEW w \in Workers, ServeLeave(w) PROVE Unspent'
  BY <1>8, ServeLeaveDoes, Small DEF Unspent, Alone, Numbered, Only, Idle, Carries, InLine,
     PlacesLeft
<1>9. ASSUME NEW w \in Workers, Checkout(w) PROVE Unspent'
  BY <1>9, CheckoutDoes, Small DEF Unspent, Alone, Numbered, Only, Idle, Carries, InLine
<1>10. ASSUME NEW w \in Workers, CheckoutPay(w) PROVE Unspent'
  BY <1>10, CheckoutPayDoes, Small DEF Unspent, Alone, Numbered, Only, Idle, Carries, InLine
<1>11. ASSUME NEW w \in Workers, CheckoutLeave(w) PROVE Unspent'
  BY <1>11, CheckoutLeaveDoes, Small DEF Unspent, Alone, Numbered, Only, Idle, Carries, InLine
<1>12. ASSUME NEW w \in Workers, BreakOff(w) PROVE Unspent'
  BY <1>12, BreakOffDoes, Small DEF Unspent, Alone, Numbered, Only, Idle, Carries, InLine
<1>13. CASE Instant
  BY <1>13, InstantDoes, Small DEF Unspent, Alone, Numbered, Only, Idle, Carries, InLine,
     PlacesLeft
<1> QED BY <1>1, <1>2, <1>3, <1>4, <1>5, <1>6, <1>7, <1>8, <1>9, <1>10, <1>11, <1>12, <1>13, Cases

\* A wave is accepted for who raised it.
LEMMA ForItsCallerKept ==
  ASSUME Rows, ForItsCaller, Next
  PROVE  ForItsCaller'
<1>1. ASSUME NEW w \in Workers, NEW v \in Waves, AcceptRead(w, v) PROVE ForItsCaller'
  BY <1>1, AcceptReadDoes DEF ForItsCaller, Only, Idle, Carries, Begins
<1>2. ASSUME NEW w \in Workers, NEW c \in Customers, JoinQueue(w, c) PROVE ForItsCaller'
  BY <1>2, JoinQueueDoes DEF ForItsCaller, Only, Idle, Carries, Begins
<1>3. ASSUME NEW w \in Workers, ServeRead(w) PROVE ForItsCaller'
  BY <1>3, ServeReadDoes DEF ForItsCaller, Only, Idle, Carries, Begins
<1>4. ASSUME NEW w \in Workers, NEW k \in Keys, CheckoutRead(w, k) PROVE ForItsCaller'
  BY <1>4, CheckoutReadDoes DEF ForItsCaller, Only, Idle, Carries, Begins
<1>5. ASSUME NEW w \in Workers, Accept(w) PROVE ForItsCaller'
  BY <1>5, AcceptDoes DEF ForItsCaller, Only, Idle, Carries
<1>6. ASSUME NEW w \in Workers, JoinRead(w) PROVE ForItsCaller'
  BY <1>6, JoinReadDoes DEF ForItsCaller, Only, Idle, Carries
<1>7. ASSUME NEW w \in Workers, JoinWrite(w) PROVE ForItsCaller'
  BY <1>7, JoinWriteDoes DEF ForItsCaller, Only, Idle, Carries
<1>8. ASSUME NEW w \in Workers, ServeLeave(w) PROVE ForItsCaller'
  BY <1>8, ServeLeaveDoes DEF ForItsCaller, Only, Idle, Carries, PlacesLeft
<1>9. ASSUME NEW w \in Workers, Checkout(w) PROVE ForItsCaller'
  BY <1>9, CheckoutDoes DEF ForItsCaller, Only, Idle, Carries
<1>10. ASSUME NEW w \in Workers, CheckoutPay(w) PROVE ForItsCaller'
  BY <1>10, CheckoutPayDoes DEF ForItsCaller, Only, Idle, Carries
<1>11. ASSUME NEW w \in Workers, CheckoutLeave(w) PROVE ForItsCaller'
  BY <1>11, CheckoutLeaveDoes DEF ForItsCaller, Only, Idle, Carries
<1>12. ASSUME NEW w \in Workers, BreakOff(w) PROVE ForItsCaller'
  BY <1>12, BreakOffDoes DEF ForItsCaller, Only, Idle, Carries
<1>13. CASE Instant
  BY <1>13, InstantDoes DEF ForItsCaller, Only, Idle, Carries, PlacesLeft
<1> QED BY <1>1, <1>2, <1>3, <1>4, <1>5, <1>6, <1>7, <1>8, <1>9, <1>10, <1>11, <1>12, <1>13, Cases

\* Whoever is accepted is put in line.
LEMMA AwaitedKept ==
  ASSUME Rows, Numbered, ForItsCaller, Awaited, Next
  PROVE  Awaited'
<1>1. ASSUME NEW w \in Workers, NEW v \in Waves, AcceptRead(w, v) PROVE Awaited'
  BY <1>1, AcceptReadDoes, Small DEF Awaited, Numbered, ForItsCaller, Only, Idle, Carries,
     InLine, PlacesOf, Begins
<1>2. ASSUME NEW w \in Workers, NEW c \in Customers, JoinQueue(w, c) PROVE Awaited'
  BY <1>2, JoinQueueDoes, Small DEF Awaited, Numbered, ForItsCaller, Only, Idle, Carries, InLine,
     PlacesOf, Begins
<1>3. ASSUME NEW w \in Workers, ServeRead(w) PROVE Awaited'
  BY <1>3, ServeReadDoes, Small DEF Awaited, Numbered, ForItsCaller, Only, Idle, Carries, InLine,
     PlacesOf, Begins
<1>4. ASSUME NEW w \in Workers, NEW k \in Keys, CheckoutRead(w, k) PROVE Awaited'
  BY <1>4, CheckoutReadDoes, Small DEF Awaited, Numbered, ForItsCaller, Only, Idle, Carries,
     InLine, PlacesOf, Begins
<1>5. ASSUME NEW w \in Workers, Accept(w) PROVE Awaited'
  BY <1>5, AcceptDoes, Small DEF Awaited, Numbered, ForItsCaller, Only, Idle, Carries, InLine,
     PlacesOf
<1>6. ASSUME NEW w \in Workers, JoinRead(w) PROVE Awaited'
  BY <1>6, JoinReadDoes, Small DEF Awaited, Numbered, ForItsCaller, Only, Idle, Carries, InLine,
     PlacesOf
<1>7. ASSUME NEW w \in Workers, JoinWrite(w) PROVE Awaited'
  BY <1>7, JoinWriteDoes, Small DEF Awaited, Numbered, ForItsCaller, Only, Idle, Carries, InLine,
     PlacesOf
<1>8. ASSUME NEW w \in Workers, ServeLeave(w) PROVE Awaited'
  BY <1>8, ServeLeaveDoes, Small DEF Awaited, Numbered, ForItsCaller, Only, Idle, Carries,
     InLine, PlacesOf, PlacesLeft
<1>9. ASSUME NEW w \in Workers, Checkout(w) PROVE Awaited'
  BY <1>9, CheckoutDoes, Small DEF Awaited, Numbered, ForItsCaller, Only, Idle, Carries, InLine,
     PlacesOf
<1>10. ASSUME NEW w \in Workers, CheckoutPay(w) PROVE Awaited'
  BY <1>10, CheckoutPayDoes, Small DEF Awaited, Numbered, ForItsCaller, Only, Idle, Carries,
     InLine, PlacesOf
<1>11. ASSUME NEW w \in Workers, CheckoutLeave(w) PROVE Awaited'
  BY <1>11, CheckoutLeaveDoes, Small DEF Awaited, Numbered, ForItsCaller, Only, Idle, Carries,
     InLine, PlacesOf
<1>12. ASSUME NEW w \in Workers, BreakOff(w) PROVE Awaited'
  BY <1>12, BreakOffDoes, Small DEF Awaited, Numbered, ForItsCaller, Only, Idle, Carries, InLine,
     PlacesOf
<1>13. CASE Instant
  BY <1>13, InstantDoes, Small DEF Awaited, Numbered, ForItsCaller, Only, Idle, Carries, InLine,
     PlacesOf, PlacesLeft
<1> QED BY <1>1, <1>2, <1>3, <1>4, <1>5, <1>6, <1>7, <1>8, <1>9, <1>10, <1>11, <1>12, <1>13, Cases

\* Every request that will ask for a number finds one.
LEMMA NumbersLeftKept ==
  ASSUME Rows, NumbersLeft, Next
  PROVE  NumbersLeft'
<1>1. ASSUME NEW w \in Workers, NEW v \in Waves, AcceptRead(w, v) PROVE NumbersLeft'
  <2>1. Joining' \subseteq Joining \cup {w}
    BY <1>1, AcceptReadDoes DEF Joining, Only, Begins
  <2>2. /\ IsFiniteSet(Joining \cup {w})
        /\ Cardinality(Joining \cup {w}) <= Cardinality(Joining) + 1
    <3>1. /\ IsFiniteSet(Joining \cup {w})
          /\ Cardinality(Joining \cup {w})
               = IF w \in Joining THEN Cardinality(Joining) ELSE Cardinality(Joining) + 1
      BY JoinsLeftMeans, FS_AddElement
    <3> QED BY <3>1, JoinsLeftMeans
  <2>3. Cardinality(Joining') \in Nat /\ Cardinality(Joining') <= Cardinality(Joining) + 1
    BY <2>1, <2>2, JoinsLeftMeans, FS_Subset, FS_CardinalityType
  <2> QED BY <1>1, <2>3, AcceptReadDoes, JoinsLeftMeans, Small DEF NumbersLeft
<1>2. ASSUME NEW w \in Workers, NEW c \in Customers, JoinQueue(w, c) PROVE NumbersLeft'
  <2>1. Joining' \subseteq Joining
    BY <1>2, JoinQueueDoes DEF Joining, Only, Begins
  <2>2. Cardinality(Joining') \in Nat /\ Cardinality(Joining') <= Cardinality(Joining)
    BY <2>1, JoinsLeftMeans, FS_Subset, FS_CardinalityType
  <2> QED BY <1>2, <2>2, JoinQueueDoes, JoinsLeftMeans, Small DEF NumbersLeft
<1>3. ASSUME NEW w \in Workers, ServeRead(w) PROVE NumbersLeft'
  <2>1. Joining' \subseteq Joining /\ stamp' = stamp
    BY <1>3, ServeReadDoes DEF Joining, Only, Idle, Carries, Begins
  <2> QED BY <2>1, FewerJoining
<1>4. ASSUME NEW w \in Workers, NEW k \in Keys, CheckoutRead(w, k) PROVE NumbersLeft'
  <2>1. Joining' \subseteq Joining /\ stamp' = stamp
    BY <1>4, CheckoutReadDoes DEF Joining, Only, Idle, Carries, Begins
  <2> QED BY <2>1, FewerJoining
<1>5. ASSUME NEW w \in Workers, Accept(w) PROVE NumbersLeft'
  <2>1. Joining' \subseteq Joining /\ stamp' = stamp
    BY <1>5, AcceptDoes DEF Joining, Only, Idle, Carries
  <2> QED BY <2>1, FewerJoining
<1>6. ASSUME NEW w \in Workers, JoinRead(w) PROVE NumbersLeft'
  <2>1. CASE stamp' = stamp
    <3>1. Joining' \subseteq Joining
      BY <1>6, <2>1, JoinReadDoes, Small DEF Joining, Only
    <3> QED BY <2>1, <3>1, FewerJoining
  <2>2. CASE stamp' = stamp + 1
    <3>1. w \in Joining /\ Joining' \subseteq Joining \ {w}
      BY <1>6, <2>2, JoinReadDoes, Small DEF Joining, Only
    <3>2. /\ IsFiniteSet(Joining \ {w})
          /\ Cardinality(Joining \ {w}) = Cardinality(Joining) - 1
      BY <3>1, JoinsLeftMeans, FS_RemoveElement
    <3>3. Cardinality(Joining') \in Nat /\ Cardinality(Joining') <= Cardinality(Joining) - 1
      BY <3>1, <3>2, FS_Subset, FS_CardinalityType
    <3> QED BY <2>2, <3>3, JoinsLeftMeans, Small DEF NumbersLeft
  <2> QED BY <1>6, <2>1, <2>2, JoinReadDoes
<1>7. ASSUME NEW w \in Workers, JoinWrite(w) PROVE NumbersLeft'
  <2>1. Joining' \subseteq Joining /\ stamp' = stamp
    BY <1>7, JoinWriteDoes DEF Joining, Only, Idle, Carries
  <2> QED BY <2>1, FewerJoining
<1>8. ASSUME NEW w \in Workers, ServeLeave(w) PROVE NumbersLeft'
  <2>1. Joining' \subseteq Joining /\ stamp' = stamp
    BY <1>8, ServeLeaveDoes DEF Joining, Only, Idle, Carries
  <2> QED BY <2>1, FewerJoining
<1>9. ASSUME NEW w \in Workers, Checkout(w) PROVE NumbersLeft'
  <2>1. Joining' \subseteq Joining /\ stamp' = stamp
    BY <1>9, CheckoutDoes DEF Joining, Only, Idle, Carries
  <2> QED BY <2>1, FewerJoining
<1>10. ASSUME NEW w \in Workers, CheckoutPay(w) PROVE NumbersLeft'
  <2>1. Joining' \subseteq Joining /\ stamp' = stamp
    BY <1>10, CheckoutPayDoes DEF Joining, Only, Idle, Carries
  <2> QED BY <2>1, FewerJoining
<1>11. ASSUME NEW w \in Workers, CheckoutLeave(w) PROVE NumbersLeft'
  <2>1. Joining' \subseteq Joining /\ stamp' = stamp
    BY <1>11, CheckoutLeaveDoes DEF Joining, Only, Idle, Carries
  <2> QED BY <2>1, FewerJoining
<1>12. ASSUME NEW w \in Workers, BreakOff(w) PROVE NumbersLeft'
  <2>1. Joining' \subseteq Joining /\ stamp' = stamp
    BY <1>12, BreakOffDoes DEF Joining, Only, Idle, Carries
  <2> QED BY <2>1, FewerJoining
<1>13. CASE Instant
  <2>1. Joining' \subseteq Joining /\ stamp' = stamp
    BY <1>13, InstantDoes DEF Joining, Only, Idle, Carries
  <2> QED BY <2>1, FewerJoining
<1> QED BY <1>1, <1>2, <1>3, <1>4, <1>5, <1>6, <1>7, <1>8, <1>9, <1>10, <1>11, <1>12, <1>13, Cases

\* A claim is collected, unless its charge broke off.
LEMMA CollectedKept ==
  ASSUME Rows, OneCollector, Collected, Next
  PROVE  Collected'
<1>1. ASSUME NEW w \in Workers, NEW v \in Waves, AcceptRead(w, v) PROVE Collected'
  BY <1>1, AcceptReadDoes DEF Collected, Collecting, Only, Idle, Begins
<1>2. ASSUME NEW w \in Workers, NEW c \in Customers, JoinQueue(w, c) PROVE Collected'
  BY <1>2, JoinQueueDoes DEF Collected, Collecting, Only, Idle, Begins
<1>3. ASSUME NEW w \in Workers, ServeRead(w) PROVE Collected'
  BY <1>3, ServeReadDoes DEF Collected, Collecting, Only, Idle, Begins
<1>4. ASSUME NEW w \in Workers, NEW k \in Keys, CheckoutRead(w, k) PROVE Collected'
  BY <1>4, CheckoutReadDoes DEF Collected, Collecting, Only, Idle, Begins
<1>5. ASSUME NEW w \in Workers, Accept(w) PROVE Collected'
  BY <1>5, AcceptDoes DEF Collected, Collecting, Only, Idle
<1>6. ASSUME NEW w \in Workers, JoinRead(w) PROVE Collected'
  BY <1>6, JoinReadDoes DEF Collected, Collecting, Only, Idle
<1>7. ASSUME NEW w \in Workers, JoinWrite(w) PROVE Collected'
  BY <1>7, JoinWriteDoes DEF Collected, Collecting, Only, Idle
<1>8. ASSUME NEW w \in Workers, ServeLeave(w) PROVE Collected'
  BY <1>8, ServeLeaveDoes DEF Collected, Collecting, Only, Idle, PlacesLeft
<1>9. ASSUME NEW w \in Workers, Checkout(w) PROVE Collected'
  <2> SUFFICES ASSUME befell' \cap {"crash", "charge_failed", "free_trip_replayed"} = {},
                      NEW v \in claimed'
               PROVE  billed'[v] = 1 \/ \E u \in Workers : Collecting(u, v)'
    BY DEF Collected
  <2>1. billed' = billed /\ befell \cap {"crash", "charge_failed", "free_trip_replayed"} = {}
    BY <1>9, CheckoutDoes
  <2>2. \/ Collecting(w, v)'
        \/ v \in claimed /\ \A u \in Workers : Collecting(u, v) => Collecting(u, v)'
    BY <1>9, CheckoutCollects
  <2> QED BY <2>1, <2>2 DEF Collected
<1>10. ASSUME NEW w \in Workers, CheckoutPay(w) PROVE Collected'
  <2>1. claimed \subseteq Waves BY DEF Rows, Typed
  <2>2. \A v \in Waves : v = task[w].wave => billed[v] = 0
    BY <1>10, CheckoutPayDoes DEF OneCollector, Collecting
  <2> QED BY <1>10, <2>1, <2>2, CheckoutPayDoes DEF Collected, Collecting, Only
<1>11. ASSUME NEW w \in Workers, CheckoutLeave(w) PROVE Collected'
  BY <1>11, CheckoutLeaveDoes DEF Collected, Collecting, Only, Idle
<1>12. ASSUME NEW w \in Workers, BreakOff(w) PROVE Collected'
  BY <1>12, BreakOffDoes DEF Collected, Collecting, Only, Idle
<1>13. CASE Instant
  BY <1>13, InstantDoes DEF Collected, Collecting, Only, Idle, PlacesLeft
<1> QED BY <1>1, <1>2, <1>3, <1>4, <1>5, <1>6, <1>7, <1>8, <1>9, <1>10, <1>11, <1>12, <1>13, Cases

\* The types of the documents stay.
LEMMA RowsKept ==
  ASSUME Rows, Typed', Next
  PROVE  Rows'
<1>1. wave' \in [Waves -> {"none", "pending", "accepted", "declined", "expired", "cancelled"}]
  <2>1. \/ wave' = wave
        \/ \E v \in Waves, to \in {"pending", "accepted", "declined", "cancelled", "expired"} :
             wave' = [wave EXCEPT ![v] = to]
    <3>1. CASE \E w \in Workers : Accept(w)
      <4>1. PICK w \in Workers : Accept(w) BY <3>1
      <4>2. \/ wave' = wave
            \/ wave' = [wave EXCEPT ![task[w].wave] = "accepted"]
        BY <4>1 DEF Accept
      <4>3. task[w].wave \notin Waves => [wave EXCEPT ![task[w].wave] = "accepted"] = wave
        BY DEF Rows
      <4> QED BY <4>2, <4>3
    <3>2. CASE ~ \E w \in Workers : Accept(w)
      BY <3>2 DEF Next, Continue, SetDiscountSchedule, CreateWaveDown, DeclineWaveDown,
             CancelWaveDown, ExpireWaveDown, Close, AcceptRead, JoinQueue, LeaveQueue, ExpireHold,
             ServeRead, CheckoutRead, Crash, JoinRead, JoinWrite, ServeLeave, CheckoutWave,
             CheckoutClaim, CheckoutLook, CheckoutUnclaim, CheckoutCharge, CheckoutPay,
             CheckoutFails, CheckoutLeave, trips
    <3> QED BY <3>1, <3>2
  <2> QED BY <2>1 DEF Rows
<1>2. spent' \in [Places -> Nat]
  <2>1. CASE \E w \in Workers : CheckoutPay(w)
    <3>1. PICK w \in Workers : CheckoutPay(w) BY <2>1
    <3>2. spent' = [q \in Places |-> IF q = task[w].place THEN spent[q] + 1 ELSE spent[q]]
      BY <3>1 DEF CheckoutPay
    <3> QED BY <3>2 DEF Rows
  <2>2. CASE ~ \E w \in Workers : CheckoutPay(w)
    <3>1. spent' = spent
      BY <2>2 DEF Next, Continue, SetDiscountSchedule, CreateWaveDown, DeclineWaveDown,
             CancelWaveDown, ExpireWaveDown, Close, AcceptRead, JoinQueue, LeaveQueue, ExpireHold,
             ServeRead, CheckoutRead, Crash, Accept, JoinRead, JoinWrite, ServeLeave, CheckoutWave,
             CheckoutClaim, CheckoutLook, CheckoutUnclaim, CheckoutCharge, CheckoutFails,
             CheckoutLeave, money
    <3> QED BY <3>1 DEF Rows
  <2> QED BY <2>1, <2>2
<1> QED BY <1>1, <1>2 DEF Rows

\* No schedule that breaks the rules is stored.
LEMMA LawfulKept ==
  ASSUME Rows, Lawful, Next
  PROVE  Lawful'
<1>1. schedule' = schedule \/ (schedule' \in Schedules /\ Valid(schedule'))
  BY Cases, AcceptReadDoes, JoinQueueDoes, ServeReadDoes, CheckoutReadDoes, AcceptDoes,
     JoinReadDoes, JoinWriteDoes, ServeLeaveDoes, CheckoutDoes, CheckoutPayDoes, CheckoutLeaveDoes,
     BreakOffDoes, InstantDoes DEF Begins
<1> QED BY <1>1, QueueAssumption DEF Lawful

\* Nobody is in line and nothing is under way.
LEMMA InitLineInv == Init => LineInv
<1> SUFFICES ASSUME Init PROVE LineInv OBVIOUS
<1>1. Rows BY InitIInv DEF IInv, Init, Rows
<1>2. Lawful BY DEF Init, Valid, Lawful
<1>3. NumbersLeft
  <2>1. Joining = {} BY DEF Init, Joining, Resting
  <2> QED BY <2>1, FS_EmptySet, QueueAssumption DEF NumbersLeft, Init
<1>4. \A w \in Workers : task[w].step = "idle" /\ task[w].place = None BY DEF Init, Resting
<1>5. Numbered BY <1>4 DEF Init, Numbered, Empty, Carries
<1>6. Collected BY DEF Init, Collected
<1>7. Alone BY <1>4 DEF Alone, Idle
<1>8. OnePlace BY <1>4 DEF Init, OnePlace, InLine, Empty
<1>9. Unspent BY <1>4 DEF Init, Unspent, Carries, InLine, Empty
<1>10. ForItsCaller /\ Awaited BY <1>4 DEF Init, ForItsCaller, Awaited
<1> QED BY <1>1, <1>2, <1>3, <1>5, <1>6, <1>7, <1>8, <1>9, <1>10 DEF LineInv

\* Every step keeps the second invariant, beside the first.
LEMMA NextLineInv == IInv /\ IInv' /\ LineInv /\ [Next]_vars => LineInv'
<1> SUFFICES ASSUME IInv, IInv', LineInv, [Next]_vars PROVE LineInv' OBVIOUS
<1>1. CASE UNCHANGED vars
  BY <1>1 DEF LineInv, vars, Lawful, Rows, Typed, Collected, Collecting, Numbered, Carries,
     NumbersLeft,
     Joining, Alone, Idle, OnePlace, InLine, PlacesOf, Unspent, ForItsCaller, Awaited
<1>2. CASE Next
  <2>1. Rows' /\ OneCollector BY <1>2, RowsKept DEF IInv, LineInv
  <2>2. Numbered' BY <1>2, NumberedKept DEF LineInv
  <2>3. Alone' BY <1>2, AloneKept DEF LineInv
  <2>4. OnePlace' BY <1>2, <2>2, <2>3, OnePlaceKept DEF LineInv
  <2>5. Unspent' BY <1>2, <2>3, UnspentKept DEF LineInv
  <2>6. NumbersLeft' BY <1>2, NumbersLeftKept DEF LineInv
  <2>7. Collected' BY <1>2, <2>1, CollectedKept DEF LineInv
  <2>8. ForItsCaller' BY <1>2, ForItsCallerKept DEF LineInv
  <2>9. Awaited' BY <1>2, AwaitedKept DEF LineInv
  <2>10. Lawful' BY <1>2, LawfulKept DEF LineInv
  <2> QED BY <2>1, <2>2, <2>3, <2>4, <2>5, <2>6, <2>7, <2>8, <2>9, <2>10 DEF LineInv
<1> QED BY <1>1, <1>2

\* Both invariants hold for ever.
LEMMA LineInvariant == Spec => [](IInv /\ LineInv)
<1>1. Init => IInv /\ LineInv BY InitIInv, InitLineInv
<1>2. IInv /\ LineInv /\ [Next]_vars => (IInv /\ LineInv)' BY NextIInv, NextLineInv
<1> QED BY <1>1, <1>2, PTL DEF Spec

\* A trip marked as charged was charged (markTravelFeeCharged, releaseTravelFeeClaim), whatever
\* overlaps: unless a process died, a charge failed or a replay met a trip without a travel fee.
THEOREM ClaimsAreBilled == Spec => []ClaimedIsBilled
<1>1. IInv /\ LineInv => ClaimedIsBilled
  BY DEF LineInv, Collected, Collecting, ClaimedIsBilled, Settled, Idle
<1> QED BY LineInvariant, <1>1, PTL

\* A sequence of tiers.
LEMMA TiersAre ==
  ASSUME NEW t \in Seq(0..101)
  PROVE  /\ DOMAIN t = 1 .. Len(t) /\ Len(t) \in Nat
         /\ \A n \in DOMAIN t : t[n] \in Nat
         /\ t # <<>> => Len(t) > 0
<1>1. Len(t) \in Nat /\ DOMAIN t = 1 .. Len(t) BY LenProperties
<1>2. \A n \in 1 .. Len(t) : t[n] \in 0 .. 101 BY ElementOfSeq
<1>3. \A n \in 0 .. 101 : n \in Nat OBVIOUS
<1>4. t # <<>> => Len(t) \in Nat \ {0} BY EmptySeq
<1>5. \A n \in DOMAIN t : t[n] \in Nat BY <1>1, <1>2, <1>3
<1>6. \A n \in Nat \ {0} : n > 0 OBVIOUS
<1>7. t # <<>> => Len(t) > 0 BY <1>4, <1>6
<1> QED BY <1>1, <1>5, <1>7

\* The percentages of a schedule that keeps the rules never fall.
LEMMA TiersRise ==
  ASSUME NEW s, s.tiers \in Seq(0..101), Valid(s),
         NEW i \in DOMAIN s.tiers, NEW j \in DOMAIN s.tiers, i <= j
  PROVE  s.tiers[i] <= s.tiers[j]
<1> DEFINE Bad == {n \in DOMAIN s.tiers : i <= n /\ ~(s.tiers[i] <= s.tiers[n])}
<1>0. /\ DOMAIN s.tiers = 1 .. Len(s.tiers) /\ Len(s.tiers) \in Nat
      /\ \A n \in DOMAIN s.tiers : s.tiers[n] \in Nat
  BY TiersAre
<1>1. CASE Bad = {}
  BY <1>1
<1>2. CASE Bad # {}
  <2>1. Bad \in SUBSET Nat BY <1>0
  <2>2. PICK n \in Bad : \A m \in Bad : n <= m
    <3> HIDE DEF Bad
    <3> QED BY <1>2, <2>1, LeastMember
  <2>3. n # i BY <1>0
  <2>4. n - 1 \in DOMAIN s.tiers /\ i <= n - 1 /\ n > 1 BY <1>0, <2>3
  <2>5. n - 1 \notin Bad BY <1>0, <2>2
  <2>6. s.tiers[i] <= s.tiers[n - 1] BY <2>4, <2>5
  <2>7. s.tiers[n] > s.tiers[n - 1] BY <2>2, <2>4 DEF Valid
  <2>8. s.tiers[i] <= s.tiers[n] BY <1>0, <2>4, <2>6, <2>7
  <2> QED BY <2>2, <2>8
<1> QED BY <1>1, <1>2

\* What a place is worth does not fall from front to back.
LEMMA WorthRises ==
  ASSUME Lawful, NEW p \in Nat \ {0}, NEW q \in Nat \ {0}, p <= q
  PROVE  PercentAt(schedule, p) <= PercentAt(schedule, q)
<1> DEFINE n == Len(schedule.tiers)
           Raw(rank) == IF schedule.tiers = <<>> THEN 0
                        ELSE IF rank \in DOMAIN schedule.tiers THEN schedule.tiers[rank]
                        ELSE schedule.cap
<1>1. /\ n \in Nat /\ DOMAIN schedule.tiers = 1 .. n /\ schedule.cap \in Nat
      /\ \A i \in 1 .. n : schedule.tiers[i] \in Nat
      /\ schedule.tiers # <<>> => n > 0 /\ schedule.cap >= schedule.tiers[n]
  <2>1. /\ n \in Nat /\ DOMAIN schedule.tiers = 1 .. n
        /\ \A i \in 1 .. n : schedule.tiers[i] \in Nat
        /\ schedule.tiers # <<>> => n > 0
    BY TiersAre DEF Lawful
  <2>2. schedule.cap \in Nat /\ (schedule.tiers # <<>> => schedule.cap >= schedule.tiers[n])
    <3>1. schedule.cap \in 0 .. 101 /\ \A k \in 0 .. 101 : k \in Nat BY DEF Lawful
    <3> QED BY <3>1 DEF Lawful, Valid
  <2> QED BY <2>1, <2>2
<1>2. \A i, j \in DOMAIN schedule.tiers : i <= j => schedule.tiers[i] <= schedule.tiers[j]
  BY TiersRise DEF Lawful
<1>3. Raw(p) \in Nat /\ Raw(q) \in Nat /\ Raw(p) <= Raw(q)
  <2>1. CASE schedule.tiers = <<>>
    BY <2>1
  <2>2. CASE schedule.tiers # <<>> /\ q \in 1 .. n
    <3>1. p \in 1 .. n BY <1>1, <2>2
    <3> QED BY <1>1, <1>2, <2>2, <3>1
  <2>3. CASE schedule.tiers # <<>> /\ q \notin 1 .. n /\ p \in 1 .. n
    <3>1. n \in 1 .. n /\ p <= n BY <1>1, <2>3
    <3>2. schedule.tiers[p] <= schedule.tiers[n] BY <1>1, <1>2, <2>3, <3>1
    <3> QED BY <1>1, <2>3, <3>1, <3>2
  <2>4. CASE schedule.tiers # <<>> /\ q \notin 1 .. n /\ p \notin 1 .. n
    BY <1>1, <2>4
  <2>5. p \in 1 .. n \/ p \notin 1 .. n OBVIOUS
  <2> QED BY <2>1, <2>2, <2>3, <2>4
<1>4. \A r \in {p, q} :
        PercentAt(schedule, r) = IF Raw(r) > MaxDiscountPercent THEN MaxDiscountPercent ELSE Raw(r)
  BY DEF PercentAt
<1> HIDE DEF Raw
<1> QED BY <1>3, <1>4 DEF MaxDiscountPercent

\* The line is fair (joinQueue, checkout, acceptWaveDown, setDiscountSchedule): unless requests
\* overlap or a process dies, a customer has one place, its discount is spent once, and whoever was
\* accepted has one; and in every case what a place is worth never falls from front to back.
THEOREM LineIsFair == Spec => []LineFair
<1> SUFFICES ASSUME IInv, LineInv PROVE LineFair
  BY LineInvariant, PTL
<1>1. OnePlaceEach
  <2> SUFFICES ASSUME "overlap" \notin befell, NEW c \in Customers
               PROVE  Cardinality(PlacesOf(c)) <= 1
    BY DEF OnePlaceEach
  <2>1. \A p, q \in PlacesOf(c) : p = q BY DEF LineInv, OnePlace, PlacesOf
  <2>2. PlacesOf(c) = {} \/ \E p : PlacesOf(c) = {p} BY <2>1
  <2>3. Cardinality(PlacesOf(c)) \in {0, 1} BY <2>2, FS_EmptySet, FS_Singleton
  <2> QED BY <2>3
<1>2. DiscountUsedOnce BY DEF LineInv, Unspent, DiscountUsedOnce
<1>3. AcceptedJoins BY DEF LineInv, Awaited, AcceptedJoins, Settled, Idle
<1>4. FurtherBackSavesMore
  <2>1. \A p \in 1..(Len(schedule.tiers) + 2) : p \in Nat \ {0} BY DEF LineInv, Lawful
  <2> QED BY <2>1, WorthRises DEF LineInv, FurtherBackSavesMore
<1> QED BY <1>1, <1>2, <1>3, <1>4 DEF LineFair

\* Nobody in line is overtaken by a step that overlaps with nothing.
NoneAhead == \A p \in InLine \cap InLine' : "overlap" \in befell' \/ Ahead(p)' \subseteq Ahead(p)

\* One at a time, whoever joins gets the last number.
LEMMA NobodyGetsAhead ==
  ASSUME Rows, Numbered, OnePlace, Alone', Next
  PROVE  NoneAhead
<1>1. ASSUME NEW w \in Workers, NEW v \in Waves, AcceptRead(w, v) PROVE NoneAhead
  BY <1>1, AcceptReadDoes, Small DEF NoneAhead, OnePlace, Alone, Numbered, Only, Idle, Carries,
     InLine, Ahead, Begins
<1>2. ASSUME NEW w \in Workers, NEW c \in Customers, JoinQueue(w, c) PROVE NoneAhead
  BY <1>2, JoinQueueDoes, Small DEF NoneAhead, OnePlace, Alone, Numbered, Only, Idle, Carries,
     InLine, Ahead, Begins
<1>3. ASSUME NEW w \in Workers, ServeRead(w) PROVE NoneAhead
  BY <1>3, ServeReadDoes, Small DEF NoneAhead, OnePlace, Alone, Numbered, Only, Idle, Carries,
     InLine, Ahead, Begins
<1>4. ASSUME NEW w \in Workers, NEW k \in Keys, CheckoutRead(w, k) PROVE NoneAhead
  BY <1>4, CheckoutReadDoes, Small DEF NoneAhead, OnePlace, Alone, Numbered, Only, Idle, Carries,
     InLine, Ahead, Begins
<1>5. ASSUME NEW w \in Workers, Accept(w) PROVE NoneAhead
  BY <1>5, AcceptDoes, Small DEF NoneAhead, OnePlace, Alone, Numbered, Only, Idle, Carries,
     InLine, Ahead
<1>6. ASSUME NEW w \in Workers, JoinRead(w) PROVE NoneAhead
  BY <1>6, JoinReadDoes, Small DEF NoneAhead, OnePlace, Alone, Numbered, Only, Idle, Carries,
     InLine, Ahead
<1>7. ASSUME NEW w \in Workers, JoinWrite(w) PROVE NoneAhead
  BY <1>7, JoinWriteDoes, Small DEF NoneAhead, OnePlace, Alone, Numbered, Only, Idle, Carries,
     InLine, Ahead
<1>8. ASSUME NEW w \in Workers, ServeLeave(w) PROVE NoneAhead
  BY <1>8, ServeLeaveDoes, Small DEF NoneAhead, OnePlace, Alone, Numbered, Only, Idle, Carries,
     InLine, Ahead, PlacesLeft
<1>9. ASSUME NEW w \in Workers, Checkout(w) PROVE NoneAhead
  BY <1>9, CheckoutDoes, Small DEF NoneAhead, OnePlace, Alone, Numbered, Only, Idle, Carries,
     InLine, Ahead
<1>10. ASSUME NEW w \in Workers, CheckoutPay(w) PROVE NoneAhead
  BY <1>10, CheckoutPayDoes, Small DEF NoneAhead, OnePlace, Alone, Numbered, Only, Idle, Carries,
     InLine, Ahead
<1>11. ASSUME NEW w \in Workers, CheckoutLeave(w) PROVE NoneAhead
  BY <1>11, CheckoutLeaveDoes, Small DEF NoneAhead, OnePlace, Alone, Numbered, Only, Idle,
     Carries, InLine, Ahead
<1>12. ASSUME NEW w \in Workers, BreakOff(w) PROVE NoneAhead
  BY <1>12, BreakOffDoes, Small DEF NoneAhead, OnePlace, Alone, Numbered, Only, Idle, Carries,
     InLine, Ahead
<1>13. CASE Instant
  BY <1>13, InstantDoes, Small DEF NoneAhead, OnePlace, Alone, Numbered, Only, Idle, Carries,
     InLine, Ahead, PlacesLeft
<1> QED BY <1>1, <1>2, <1>3, <1>4, <1>5, <1>6, <1>7, <1>8, <1>9, <1>10, <1>11, <1>12, <1>13, Cases

\* "Queue position is derived from server-timestamped join order" (queue.model.ts): whoever joins
\* stands behind those in line, unless requests overlap.
THEOREM NobodyIsOvertaken == Spec => NobodyOvertakes
<1>1. IInv /\ LineInv /\ (IInv /\ LineInv)' /\ [Next]_vars
        => [\A p \in InLine \cap InLine' :
              "overlap" \in befell' \/ Ahead(p)' \subseteq Ahead(p)]_vars
  <2> SUFFICES ASSUME IInv, LineInv, LineInv', Next PROVE NoneAhead
    BY DEF NoneAhead
  <2> QED BY NobodyGetsAhead DEF LineInv
<1> QED BY LineInvariant, <1>1, PTL DEF NobodyOvertakes, Spec

=============================================================================
