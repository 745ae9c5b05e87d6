----------------------------- MODULE RtoProofs ------------------------------
(***************************************************************************)
(* Proofs about Rto, for any stock, deposits, number of instalments and    *)
(* handlers, and any number of mishaps of any kind: who comes to own the   *)
(* goods has paid for them, no more agreements run than there are goods,   *)
(* nobody is bound behind a closed gate, ownership, once passed, stays     *)
(* passed, and the agreement's books agree with its payments, counters,    *)
(* splits and refunds.                                                     *)
(***************************************************************************)
EXTENDS Rto, SumTheorems

Docs == [paid : Nat, credited : Nat]

PlainSteps == {"idle", "claim_unit", "create_agreement", "open_charge", "attach_card",
               "book_deposit", "credit_deposit", "clear"}
LatestSteps == {"charge", "book", "claim_instalment", "apply"}
PayoffSteps == {"book_payoff", "credit_payoff"}

Plains == [step : PlainSteps]
Loads == [step : {"load"}, n : 1..Instalments]
Latests == [step : LatestSteps, n : 1..Instalments, doc : Docs, via : {"sweep", "hook"}]
Completions == [step : {"complete"}, via : {"sweep", "hook", "payoff"}]
Payoffs == [step : PayoffSteps, amount : Nat, doc : Docs]
Openings == [step : {"open_intent"}, kind : {"installment", "payoff"}, n : 0..Instalments,
             amount : Nat]
RemedyTasks == [step : {"remedy"}, to : Remedies]
Returns == [step : {"settle_return"}, refund : Nat]

\* What the handlers remember between two awaits, by the steps they are about to take.
Tasks ==
  UNION {Plains, Loads, Latests, Completions, Payoffs, Openings, RemedyTasks, Returns}

Offers == [left : Nat, status : {"none", "active", "paused", "withdrawn"}, gates : SUBSET Gates,
           sold : Nat]

Agreements ==
  [status : Remedies \cup Closed \cup {"none", "active", "grace", "late"}, deposit : Nat,
   credited : Nat, paid : Nat, arrears : Nat, pending : Nat,
   kind : {"none", "acceptance", "card_setup", "installment", "payoff"},
   due : 0..Instalments, ask : 0..Instalments, card : BOOLEAN, proof : BOOLEAN]

Intents ==
  [kind : {"acceptance", "card_setup", "sweep", "installment", "payoff", "partial"},
   n : 0..Instalments, amount : Nat, status : {"open", "succeeded", "declined"}]

\* The types of the documents and of what the handlers remember.
Typed ==
  /\ offer \in Offers
  /\ rto \in Agreements
  /\ rtoIntents \in Seq(Intents)
  /\ task \in [Workers -> Tasks]

AcceptSteps == {"claim_unit", "create_agreement"}

\* Before there is an agreement there is nothing that belongs to one.
Unbound ==
  rto.status = "none" =>
    /\ rto = NoAgreement
    /\ \A n \in 1..Instalments : schedule[n] = "none"
    /\ rtoIntents = <<>>
    /\ \A w \in Workers : task[w].step \in AcceptSteps \cup {"idle"}

\* An acceptance runs alone, and before there is an agreement.
OneAccept ==
  /\ \A w \in Workers : task[w].step \in AcceptSteps => rto.status = "none"
  /\ \A v, w \in Workers :
       /\ task[v].step \in AcceptSteps \cup {"open_charge"}
       /\ task[w].step \in AcceptSteps \cup {"open_charge"}
       => v = w

\* Nobody has accepted an offer that was never published.
Unlisted ==
  offer.status = "none" =>
    /\ offer.sold = 0 /\ rto.status = "none"
    /\ \A w \in Workers : Idle(w)

Creating == \E w \in Workers : task[w].step = "create_agreement"

\* Units sold, bound, claimed and left.
Stocked ==
  Spared({"refused"}) =>
    offer.sold + (IF rto.status = "none" THEN 0 ELSE 1) + (IF Creating THEN 1 ELSE 0)
      + offer.left <= Units

Gated ==
  Spared({"overlap"}) /\ (rto.status # "none" \/ \E w \in Workers : task[w].step \in AcceptSteps)
  => offer.gates = Gates

\* Without overlaps there is one handler at a time, and what it read is so.
Alone ==
  Spared({"overlap"}) => \A v, w \in Workers : ~Idle(v) /\ ~Idle(w) => v = w

Current ==
  Spared({"overlap"}) =>
    \A w \in Workers : task[w].step \in LatestSteps \cup PayoffSteps =>
      task[w].doc.paid = rto.paid /\ task[w].doc.credited = rto.credited

Kinds(kind) == IF kind = "installment" THEN {"sweep", "installment"} ELSE {kind}

\* The agreement awaits an intent of the kind it says.
Awaited ==
  rto.pending # 0 =>
    /\ rto.pending \in DOMAIN rtoIntents
    /\ rto.kind # "none"
    /\ rtoIntents[rto.pending].kind \in Kinds(rto.kind)
    /\ rto.kind = "acceptance" => rtoIntents[rto.pending].amount = rto.deposit

IInv == Typed /\ Unbound /\ OneAccept /\ Unlisted /\ Stocked /\ Gated /\ Alone /\ Current /\ Awaited

\* What is settled of the intents: paid, and no longer awaited.
Settled ==
  [i \in DOMAIN rtoIntents |->
     IF rtoIntents[i].status = "succeeded" /\ rto.pending # i THEN EquityOf(rtoIntents[i]) ELSE 0]

Sigma == SumFunction(Settled)

\* Equity a handler with task t took from a payment and did not credit yet.
InHandOf(t, deposit) ==
  CASE t.step \in {"book", "claim_instalment", "apply"} -> 1
    [] t.step \in {"book_deposit", "credit_deposit"} -> deposit
    [] t.step \in PayoffSteps -> t.amount
    [] OTHER -> 0

InHand(w) == InHandOf(task[w], rto.deposit)

Depositing == {"open_charge", "book_deposit", "credit_deposit"}

Undisturbed == Spared({"crash", "overlap", "refused"})

\* What holds of a handler half way.
EarnedBy(w) ==
  /\ task[w].step \in Depositing => rto.credited = 0 /\ rto.paid = 0
  /\ task[w].step \in {"book_deposit", "credit_deposit", "complete", "open_intent"}
                      \cup LatestSteps \cup PayoffSteps =>
       rto.kind # "acceptance"
  /\ \/ task[w].step \in PayoffSteps
     \/ task[w].step = "open_intent" /\ task[w].kind = "payoff"
     => task[w].amount + rto.credited >= Cash
  /\ task[w].step = "complete" => rto.credited >= Cash
  /\ Sigma >= rto.credited + InHand(w)

\* The deposit is credited before anything else, and then every instalment paid.
Credited == rto.kind = "acceptance" \/ rto.credited >= rto.deposit + rto.paid \/ rto.credited >= Cash

\* Nothing is credited that was not paid; a payoff pays what is missing.
Backed ==
  /\ rto.kind = "acceptance" => rto.credited = 0 /\ rto.paid = 0
  /\ \A i \in DOMAIN rtoIntents :
       rtoIntents[i].kind = "payoff" => rtoIntents[i].amount + rto.credited >= Cash
  /\ rto.proof => rto.credited >= Cash
  /\ Sigma >= rto.credited

\* What is owned has been earned.
Earned ==
  Undisturbed =>
    /\ \A w \in Workers : EarnedBy(w)
    /\ Credited \/ \E w \in Workers : task[w].step \in Depositing
    /\ Backed

\* What is owned has been earned, as the one handler at work sees it.
Enough(w) == EarnedBy(w) /\ (Credited \/ task[w].step \in Depositing) /\ Backed

BookedN == {n \in 1..Instalments : Booked(<<"instalment", n>>)}

Bookings == Cardinality(BookedN)

\* Steps that could reopen an agreement.
Reopening == {"open_charge", "charge", "claim_instalment", "apply", "open_intent", "remedy",
              "settle_return"}

\* What holds of a handler half way: an instalment is counted once it is booked, a payoff is
\* credited while nothing is awaited, and what has passed is not touched.
FinalBy(w) ==
  /\ task[w].step \in {"claim_instalment", "apply"} => rto.paid < Bookings
  /\ task[w].step \in PayoffSteps => rto.kind = "none"
  /\ rto.proof =>
       /\ task[w].step \notin Reopening
       /\ task[w].step = "book" => task[w].n \in BookedN

\* Of an instalment awaited when ownership has passed, the books have heard.
DueBooked == rto.kind = "installment" /\ rto.due # 0 => rto.due \in BookedN

\* The price is neither credited nor paid.
Short == rto.credited <= rto.deposit + rto.paid /\ rto.paid < Instalments

Completing == \E w \in Workers : task[w].step = "complete"

Counted == rto.paid <= Bookings /\ (rto.proof => rto.status = "completed")

\* Ownership that has passed stays passed.
Final ==
  Spared({"crash", "overlap"}) =>
    /\ \A w \in Workers : FinalBy(w)
    /\ Counted
    /\ rto.proof \/ Completing => DueBooked
    /\ rto.proof \/ Completing \/ Short

\* The same as the one handler at work sees it.
Finishes(w) ==
  /\ FinalBy(w)
  /\ Counted
  /\ rto.proof \/ task[w].step = "complete" => DueBooked
  /\ rto.proof \/ task[w].step = "complete" \/ Short

-----------------------------------------------------------------------------
(***************************************************************************)
(* What the handlers do to their tasks.                                    *)
(***************************************************************************)

\* A task has the form that goes with its step.
LEMMA TaskForms ==
  ASSUME NEW t \in Tasks
  PROVE  /\ t.step = "load" => t \in Loads
         /\ t.step \in LatestSteps => t \in Latests
         /\ t.step = "complete" => t \in Completions
         /\ t.step \in PayoffSteps => t \in Payoffs
         /\ t.step = "open_intent" => t \in Openings
         /\ t.step = "remedy" => t \in RemedyTasks
         /\ t.step = "settle_return" => t \in Returns
         /\ t.step \in PlainSteps => t \in Plains
<1> USE DEF PlainSteps, LatestSteps, PayoffSteps
<1>1. CASE t \in Plains
  BY <1>1 DEF Plains
<1>2. CASE t \in Loads
  BY <1>2 DEF Loads
<1>3. CASE t \in Latests
  BY <1>3 DEF Latests
<1>4. CASE t \in Completions
  BY <1>4 DEF Completions
<1>5. CASE t \in Payoffs
  BY <1>5 DEF Payoffs
<1>6. CASE t \in Openings
  BY <1>6 DEF Openings
<1>7. CASE t \in RemedyTasks
  BY <1>7 DEF RemedyTasks
<1>8. CASE t \in Returns
  BY <1>8 DEF Returns
<1> QED
  BY <1>1, <1>2, <1>3, <1>4, <1>5, <1>6, <1>7, <1>8 DEF Tasks

\* A task of one of the forms is a task.
LEMMA FormsAreTasks ==
  /\ Plains \subseteq Tasks /\ Loads \subseteq Tasks /\ Latests \subseteq Tasks
  /\ Completions \subseteq Tasks /\ Payoffs \subseteq Tasks /\ Openings \subseteq Tasks
  /\ RemedyTasks \subseteq Tasks /\ Returns \subseteq Tasks
BY DEF Tasks

\* Handler w goes on, beside others only if they overlap.
Moves(w) ==
  /\ \A v \in Workers \ {w} : task'[v] = task[v]
  /\ befell \subseteq befell'
  /\ Spared({"overlap"})' => ~Idle(w) \/ AllIdle

LEMMA SparedBefore ==
  ASSUME befell \subseteq befell', NEW S, Spared(S)'
  PROVE  Spared(S)
BY DEF Spared

LEMMA BecomesMoves ==
  ASSUME Typed, NEW w \in Workers, NEW t \in Tasks, Becomes(w, t), ~Idle(w),
         befell \subseteq befell'
  PROVE  Moves(w) /\ task'[w] = t /\ task' \in [Workers -> Tasks]
BY DEF Typed, Becomes, Moves

LEMMA BeginMoves ==
  ASSUME Typed, NEW w \in Workers, NEW t \in Tasks, Begin(w, t)
  PROVE  Moves(w) /\ Idle(w) /\ task'[w] = t /\ task' \in [Workers -> Tasks]
BY DEF Typed, Begin, Overlaps, Befalls, Moves, Spared, AllIdle

LEMMA RestingIsTask == Resting \in Tasks
BY FormsAreTasks DEF Resting, Plains, PlainSteps

LEMMA FinishMoves ==
  ASSUME Typed, NEW w \in Workers, ~Idle(w), Finish(w)
  PROVE  Moves(w) /\ task'[w] = Resting /\ task'[w].step = "idle" /\ task' \in [Workers -> Tasks]
BY RestingIsTask, BecomesMoves DEF Finish, Resting

LEMMA FinishAfterMoves ==
  ASSUME Typed, NEW w \in Workers, NEW m, ~Idle(w), FinishAfter(w, m)
  PROVE  /\ Moves(w) /\ task'[w] = Resting /\ task'[w].step = "idle"
         /\ task' \in [Workers -> Tasks] /\ m \in befell'
BY RestingIsTask, BecomesMoves DEF FinishAfter, Befalls, Resting

LEMMA AtOnceStays ==
  ASSUME AtOnce
  PROVE  /\ task' = task /\ befell \subseteq befell'
         /\ Spared({"overlap"})' => AllIdle
BY DEF AtOnce, Overlaps, Befalls, Spared, AllIdle

LEMMA GotoMoves ==
  ASSUME Typed, NEW w \in Workers, NEW s, Goto(w, s), ~Idle(w)
  PROVE  /\ task[w] \in Plains /\ s \in PlainSteps =>
              Moves(w) /\ task' \in [Workers -> Tasks] /\ task'[w].step = s
         /\ task[w] \in Latests /\ s \in LatestSteps =>
              /\ Moves(w) /\ task' \in [Workers -> Tasks] /\ task'[w].step = s
              /\ task'[w].n = task[w].n /\ task'[w].doc = task[w].doc
              /\ task'[w].via = task[w].via
         /\ task[w] \in Payoffs /\ s \in PayoffSteps =>
              /\ Moves(w) /\ task' \in [Workers -> Tasks] /\ task'[w].step = s
              /\ task'[w].amount = task[w].amount /\ task'[w].doc = task[w].doc
<1> DEFINE t == [task[w] EXCEPT !.step = s]
<1>1. Becomes(w, t) /\ befell \subseteq befell'
  BY DEF Goto
<1>2. ASSUME t \in Tasks
      PROVE  Moves(w) /\ task' \in [Workers -> Tasks] /\ task'[w] = t
  BY <1>1, <1>2, BecomesMoves
<1>3. ASSUME task[w] \in Plains, s \in PlainSteps
      PROVE  t \in Plains /\ t.step = s
  BY <1>3 DEF Plains
<1>4. ASSUME task[w] \in Latests, s \in LatestSteps
      PROVE  t \in Latests /\ t.step = s /\ t.n = task[w].n /\ t.doc = task[w].doc /\ t.via = task[w].via
  BY <1>4 DEF Latests
<1>5. ASSUME task[w] \in Payoffs, s \in PayoffSteps
      PROVE  t \in Payoffs /\ t.step = s /\ t.amount = task[w].amount /\ t.doc = task[w].doc
  BY <1>5 DEF Payoffs
<1> HIDE DEF t
<1> QED
  BY <1>2, <1>3, <1>4, <1>5, FormsAreTasks

-----------------------------------------------------------------------------
(***************************************************************************)
(* What each operation does to the documents and to its own task.          *)
(***************************************************************************)

\* The least of some instalments is one of them.
LEMMA LeastIsMember ==
  ASSUME NEW S \in SUBSET (1..Instalments), S # {}
  PROVE  Min(S) \in S
<1>1. S \in SUBSET Nat
  BY RtoAssumption
<1>2. \E n \in S : \A m \in S : n <= m
  BY <1>1, LeastMember
<1> QED
  BY <1>2 DEF Min

\* What a document is short of the cash price.
LEMMA PayoffIsRest ==
  ASSUME Typed, NEW doc, doc.credited \in Nat
  PROVE  Payoff(doc) \in Nat /\ Cash \in Nat /\ Payoff(doc) + doc.credited >= Cash
           /\ (Payoff(doc) = 0 => doc.credited >= Cash)
<1>1. Cash \in Nat
  BY RtoAssumption DEF Cash, Typed, Agreements
<1> DEFINE a == Cash - doc.credited
           m == Max({0, a})
<1>2. a \in Int
  BY <1>1
<1>3. m \in {0, a} /\ m >= 0 /\ m >= a
  <2>1. \E x \in {0, a} : \A y \in {0, a} : x >= y
    <3> HIDE DEF a
    <3>1. CASE a >= 0
      BY <1>2, <3>1
    <3>2. CASE ~(a >= 0)
      BY <1>2, <3>2
    <3> QED
      BY <3>1, <3>2
  <2> QED
    BY <2>1 DEF Max
<1>4. Payoff(doc) = m
  BY DEF Payoff
<1> HIDE DEF m
<1> QED
  BY <1>1, <1>2, <1>3, <1>4

\* Handler w goes from step a to step b, leaving the documents typed.
Goes(w, a, b) ==
  /\ Typed' /\ Moves(w)
  /\ task[w].step = a /\ task'[w].step = b

SameOffer == offer' = offer
SameRto == rto' = rto
SameBooks == rtoLedger' = rtoLedger
SameIntents == rtoIntents' = rtoIntents

LEMMA AcceptBeginEffect ==
  ASSUME Typed, NEW w \in Workers, AcceptBegin(w)
  PROVE  /\ Goes(w, "idle", "claim_unit")
         /\ SameOffer /\ SameRto /\ SameBooks /\ SameIntents /\ schedule' = schedule
         /\ AcceptAllowed /\ rto.status = "none"
         /\ \A v \in Workers : task[v].step \notin AcceptSteps \cup {"open_charge"}
<1>1. [step |-> "claim_unit"] \in Tasks
  BY FormsAreTasks DEF Plains, PlainSteps
<1>2. Moves(w) /\ Idle(w) /\ task'[w] = [step |-> "claim_unit"] /\ task' \in [Workers -> Tasks]
  BY <1>1, BeginMoves DEF AcceptBegin
<1> QED
  BY <1>2 DEF AcceptBegin, Goes, Typed, Idle, AcceptSteps, SameOffer, SameRto, SameBooks, SameIntents

LEMMA AcceptClaimEffect ==
  ASSUME Typed, NEW w \in Workers, AcceptClaim(w)
  PROVE  /\ SameRto /\ SameBooks /\ SameIntents /\ schedule' = schedule
         /\ \/ /\ Goes(w, "claim_unit", "create_agreement")
               /\ Claimable /\ offer' = [offer EXCEPT !.left = @ - 1]
            \/ Goes(w, "claim_unit", "idle") /\ SameOffer
<1>1. ~Idle(w) /\ task[w] \in Plains
  BY TaskForms DEF AcceptClaim, At, Idle, Typed, PlainSteps
<1>2. CASE Claimable
  <2>1. Moves(w) /\ task'[w].step = "create_agreement" /\ task' \in [Workers -> Tasks]
    BY <1>1, <1>2, GotoMoves DEF AcceptClaim, PlainSteps
  <2>2. offer' = [offer EXCEPT !.left = @ - 1] /\ offer' \in Offers
    BY <1>2 DEF AcceptClaim, Claimable, Typed, Offers
  <2> QED
    BY <1>2, <2>1, <2>2 DEF AcceptClaim, At, Goes, Typed, SameRto, SameBooks, SameIntents
<1>3. CASE ~Claimable
  <2>1. Moves(w) /\ task'[w].step = "idle" /\ task' \in [Workers -> Tasks]
    BY <1>1, <1>3, FinishMoves DEF AcceptClaim, Resting
  <2> QED
    BY <1>3, <2>1 DEF AcceptClaim, At, Goes, Typed, SameOffer, SameRto, SameBooks, SameIntents
<1> QED
  BY <1>2, <1>3

Accepted(d) == [NoAgreement EXCEPT !.status = "active", !.deposit = d]

LEMMA AcceptCreateEffect ==
  ASSUME Typed, NEW w \in Workers, NEW d \in Deposits, AcceptCreate(w, d)
  PROVE  /\ Goes(w, "create_agreement", "open_charge")
         /\ SameOffer /\ SameBooks /\ SameIntents
         /\ rto' = Accepted(d)
<1>1. ~Idle(w) /\ task[w] \in Plains
  BY TaskForms DEF AcceptCreate, At, Idle, Typed, PlainSteps
<1>2. Moves(w) /\ task'[w].step = "open_charge" /\ task' \in [Workers -> Tasks]
  BY <1>1, GotoMoves DEF AcceptCreate, PlainSteps
<1>3. rto' \in Agreements
  <2>1. d \in Nat /\ 0 \in 0..Instalments
    BY RtoAssumption
  <2>2. rto' = Accepted(d)
    BY DEF AcceptCreate, Accepted
  <2> QED
    BY <2>1, <2>2 DEF Accepted, NoAgreement, Agreements
<1> QED
  BY <1>2, <1>3 DEF AcceptCreate, Accepted, At, Goes, Typed, SameOffer, SameBooks, SameIntents

\* What the agreement says of money, and what it waits for, is as in doc.
Money(doc) ==
  /\ rto'.deposit = doc.deposit /\ rto'.credited = doc.credited /\ rto'.paid = doc.paid
  /\ rto'.proof = doc.proof

Waits(doc) == rto'.pending = doc.pending /\ rto'.kind = doc.kind /\ rto'.due = doc.due

\* An intent is added to those there are.
LEMMA IntentAdded ==
  ASSUME Typed, NEW kind, NEW n, NEW amount, NEW status,
         [kind |-> kind, n |-> n, amount |-> amount, status |-> status] \in Intents,
         rtoIntents' = Opened(kind, n, amount, status)
  PROVE  /\ rtoIntents' \in Seq(Intents)
         /\ DOMAIN rtoIntents' = DOMAIN rtoIntents \cup {NextIntent}
         /\ NextIntent \in Nat \ {0} /\ NextIntent \notin DOMAIN rtoIntents
         /\ \A i \in DOMAIN rtoIntents : rtoIntents'[i] = rtoIntents[i]
         /\ rtoIntents'[NextIntent] = [kind |-> kind, n |-> n, amount |-> amount, status |-> status]
<1> DEFINE r == [kind |-> kind, n |-> n, amount |-> amount, status |-> status]
<1>1. rtoIntents' = Append(rtoIntents, r) /\ r \in Intents /\ rtoIntents \in Seq(Intents)
  BY DEF Opened, Typed
<1> HIDE DEF r
<1>2. /\ rtoIntents' \in Seq(Intents) /\ Len(rtoIntents) \in Nat
      /\ Len(rtoIntents') = Len(rtoIntents) + 1
      /\ DOMAIN rtoIntents = 1..Len(rtoIntents) /\ DOMAIN rtoIntents' = 1..(Len(rtoIntents) + 1)
      /\ \A i \in 1..Len(rtoIntents) : rtoIntents'[i] = rtoIntents[i]
      /\ rtoIntents'[Len(rtoIntents) + 1] = r
  BY <1>1
<1> QED
  BY <1>2 DEF NextIntent, r

LEMMA AwaitsEffect ==
  ASSUME Typed, NEW w \in Workers, NEW doc, NEW mishap, Awaits(w, doc, mishap), ~Idle(w)
  PROVE  /\ rto' = doc /\ Moves(w) /\ task'[w] = Resting
         /\ task' \in [Workers -> Tasks]
<1>1. Finish(w) \/ FinishAfter(w, "superseded") \/ FinishAfter(w, mishap)
  BY DEF Awaits
<1> QED
  BY <1>1, FinishMoves, FinishAfterMoves DEF Awaits

LEMMA AcceptChargeEffect ==
  ASSUME Typed, NEW w \in Workers, AcceptCharge(w)
  PROVE  \E kind \in {"acceptance", "card_setup"} :
           /\ Goes(w, "open_charge", "idle")
           /\ SameOffer /\ SameBooks
           /\ kind = "card_setup" => rto.deposit = 0
           /\ rtoIntents' = Opened(kind, 0, rto.deposit, "open")
           /\ [kind |-> kind, n |-> 0, amount |-> rto.deposit, status |-> "open"] \in Intents
           /\ rto' = [rto EXCEPT !.pending = NextIntent, !.kind = kind]
           /\ rto'.status = rto.status
<1> DEFINE kind == IF rto.deposit > 0 THEN "acceptance" ELSE "card_setup"
           r == [kind |-> kind, n |-> 0, amount |-> rto.deposit, status |-> "open"]
           doc == [rto EXCEPT !.pending = NextIntent, !.kind = kind]
<1>1. ~Idle(w) /\ task[w].step = "open_charge"
  BY DEF AcceptCharge, At, Idle
<1>2. rto \in Agreements /\ rto.deposit \in Nat
  BY DEF Typed, Agreements
<1>3. kind \in {"acceptance", "card_setup"} /\ (kind = "card_setup" => rto.deposit = 0)
  BY <1>2
<1>4. rtoIntents' = Opened(kind, 0, rto.deposit, "open") /\ Awaits(w, doc, None)
  BY DEF AcceptCharge
<1> HIDE DEF kind
<1>5. r \in Intents
  BY <1>2, <1>3, RtoAssumption DEF Intents
<1>6. rtoIntents' \in Seq(Intents) /\ NextIntent \in Nat
  BY <1>4, <1>5, IntentAdded
<1>7. rto' = doc /\ Moves(w) /\ task'[w] = Resting /\ task' \in [Workers -> Tasks]
  BY <1>1, <1>4, AwaitsEffect
<1>8. rto' \in Agreements /\ rto'.status = rto.status
  BY <1>2, <1>3, <1>6, <1>7 DEF Agreements
<1>9. SameOffer /\ SameBooks
  BY DEF AcceptCharge, SameOffer, SameBooks
<1> QED
  <2>1. Goes(w, "open_charge", "idle")
    BY <1>1, <1>6, <1>7, <1>8, <1>9 DEF Goes, Typed, Resting, SameOffer
  <2> USE <1>3
  <2> WITNESS kind \in {"acceptance", "card_setup"}
  <2> QED
    BY <1>3, <1>4, <1>5, <1>7, <1>8, <1>9, <2>1

LEMMA AcceptRefusedEffect ==
  ASSUME Typed, NEW w \in Workers, AcceptRefused(w)
  PROVE  /\ Goes(w, "open_charge", "idle")
         /\ SameRto /\ SameBooks /\ SameIntents /\ schedule' = schedule
         /\ "refused" \in befell'
         /\ offer' = [offer EXCEPT !.left = @ + 1]
<1>1. ~Idle(w) /\ task[w].step = "open_charge"
  BY DEF AcceptRefused, At, Idle
<1>2. Moves(w) /\ task'[w].step = "idle" /\ task' \in [Workers -> Tasks]
  BY <1>1, FinishAfterMoves DEF AcceptRefused
<1>3. offer' = [offer EXCEPT !.left = @ + 1] /\ offer' \in Offers
  BY DEF AcceptRefused, Typed, Offers
<1>4. "refused" \in befell'
  BY DEF AcceptRefused, FinishAfter, Befalls
<1> QED
  BY <1>1, <1>2, <1>3, <1>4 DEF AcceptRefused, Goes, Typed, SameRto, SameBooks, SameIntents

LEMMA SweepListEffect ==
  ASSUME Typed, NEW w \in Workers, SweepList(w)
  PROVE  /\ Goes(w, "idle", "load") /\ Unpaid # {}
         /\ SameOffer /\ SameRto /\ SameBooks /\ SameIntents /\ schedule' = schedule
<1> DEFINE t == [step |-> "load", n |-> Min(Unpaid)]
<1>1. Unpaid # {} /\ Min(Unpaid) \in 1..Instalments
  BY LeastIsMember DEF SweepList, Unpaid
<1>2. t \in Tasks
  BY <1>1, FormsAreTasks DEF Loads
<1>3. Moves(w) /\ Idle(w) /\ task'[w].step = "load" /\ task' \in [Workers -> Tasks]
  BY <1>2, BeginMoves DEF SweepList
<1> QED
  BY <1>1, <1>3 DEF SweepList, Goes, Typed, Idle, SameOffer, SameRto, SameBooks, SameIntents

LEMMA SweepLoadEffect ==
  ASSUME Typed, NEW w \in Workers, SweepLoad(w)
  PROVE  /\ SameOffer /\ SameBooks /\ SameIntents /\ schedule' = schedule
         /\ Money(rto) /\ Waits(rto) /\ rto'.status = rto.status
         /\ \/ Goes(w, "load", "idle")
            \/ /\ Goes(w, "load", "charge")
               /\ task'[w].doc = Counts
               /\ rto.kind # "acceptance" /\ rto.status \notin Closed
<1> DEFINE t == [step |-> "charge", n |-> task[w].n, doc |-> Counts, via |-> "sweep"]
<1>1. ~Idle(w) /\ task[w].step = "load" /\ task[w].n \in 1..Instalments
  BY TaskForms DEF SweepLoad, At, Idle, Typed, Loads
<1>2. rto \in Agreements /\ Counts \in Docs
  BY DEF Typed, Agreements, Counts, Docs
<1>3. SameOffer /\ SameBooks /\ SameIntents /\ schedule' = schedule
  BY DEF SweepLoad, SameOffer, SameBooks, SameIntents
<1>4. t \in Tasks /\ t.step = "charge" /\ t.doc = Counts
  BY <1>1, <1>2, FormsAreTasks DEF Latests, LatestSteps
<1>5. CASE SweepSkips(task[w].n)
  <2>1. Finish(w) /\ rto' = rto
    BY <1>5 DEF SweepLoad
  <2>2. Moves(w) /\ task'[w].step = "idle" /\ task' \in [Workers -> Tasks]
    BY <1>1, <2>1, FinishMoves DEF Resting
  <2> QED
    BY <1>1, <1>3, <2>1, <2>2 DEF Goes, Typed, Money, Waits, SameOffer, SameIntents
<1>6. CASE ~SweepSkips(task[w].n) /\ rto.card
  <2>1. Becomes(w, t) /\ rto' = rto /\ befell' = befell
    BY <1>6 DEF SweepLoad
  <2>2. Moves(w) /\ task'[w] = t /\ task' \in [Workers -> Tasks]
    BY <1>1, <1>4, <2>1, BecomesMoves
  <2>3. rto.kind # "acceptance" /\ rto.status \notin Closed
    BY <1>6 DEF SweepSkips
  <2> QED
    BY <1>1, <1>3, <1>4, <2>1, <2>2, <2>3 DEF Goes, Typed, Money, Waits, SameOffer, SameIntents
<1>7. CASE ~SweepSkips(task[w].n) /\ ~rto.card
  <2>1. FinishAfter(w, "asked") /\ rto' = [rto EXCEPT !.ask = task[w].n]
    BY <1>7 DEF SweepLoad
  <2>2. Moves(w) /\ task'[w].step = "idle" /\ task' \in [Workers -> Tasks]
    BY <1>1, <2>1, FinishAfterMoves
  <2>3. rto' \in Agreements /\ Money(rto) /\ Waits(rto) /\ rto'.status = rto.status
    BY <1>1, <1>2, <2>1 DEF Agreements, Money, Waits
  <2> QED
    BY <1>1, <1>3, <2>2, <2>3 DEF Goes, Typed, SameOffer, SameIntents
<1> QED
  BY <1>5, <1>6, <1>7

\* An instalment that is late may put the agreement in grace.
LEMMA MissedEffect ==
  ASSUME Typed, NEW w, NEW n, Missed(w, n)
  PROVE  /\ rto' \in Agreements /\ Money(rto) /\ Waits(rto)
         /\ rto'.status = rto.status \/ (rto.status \notin Closed \cup {"none"} /\ rto'.status = "grace")
<1>1. rto \in Agreements
  BY DEF Typed
<1>2. rto' = rto \/ (rto.status \in {"active", "grace", "late"} /\ rto' = [rto EXCEPT !.status = "grace"])
  BY DEF Missed
<1> QED
  BY <1>1, <1>2 DEF Agreements, Money, Waits, Closed

LEMMA SweepChargeEffect ==
  ASSUME Typed, NEW w \in Workers, SweepCharge(w)
  PROVE  /\ Goes(w, "charge", "book")
         /\ task'[w].doc = task[w].doc
         /\ SameOffer /\ SameRto /\ SameBooks
         /\ rtoIntents' = Opened("sweep", task[w].n, Price, "succeeded")
         /\ [kind |-> "sweep", n |-> task[w].n, amount |-> Price, status |-> "succeeded"] \in Intents
<1>1. ~Idle(w) /\ task[w].step = "charge" /\ task[w] \in Latests
  BY TaskForms DEF SweepCharge, At, Idle, Typed, LatestSteps
<1>2. Moves(w) /\ task' \in [Workers -> Tasks] /\ task'[w].step = "book" /\ task'[w].doc = task[w].doc
  BY <1>1, GotoMoves DEF SweepCharge, LatestSteps
<1>3. [kind |-> "sweep", n |-> task[w].n, amount |-> Price, status |-> "succeeded"] \in Intents
  BY <1>1, RtoAssumption DEF Latests, Intents, Price
<1>4. rtoIntents' = Opened("sweep", task[w].n, Price, "succeeded") /\ SameOffer /\ SameRto /\ SameBooks
  BY DEF SweepCharge, SameOffer, SameRto, SameBooks
<1>5. rtoIntents' \in Seq(Intents)
  BY <1>3, <1>4, IntentAdded
<1> QED
  BY <1>1, <1>2, <1>3, <1>4, <1>5 DEF Goes, Typed, SameOffer, SameRto

LEMMA SweepChallengedEffect ==
  ASSUME Typed, NEW w \in Workers, SweepChallenged(w)
  PROVE  /\ Goes(w, "charge", "idle")
         /\ SameOffer /\ SameBooks /\ Money(rto)
         /\ rtoIntents' = Opened("sweep", task[w].n, Price, "open")
         /\ [kind |-> "sweep", n |-> task[w].n, amount |-> Price, status |-> "open"] \in Intents
         /\ rto'.pending = NextIntent /\ rto'.kind = "installment" /\ rto'.status = rto.status
<1> DEFINE n == task[w].n
           doc == [rto EXCEPT !.pending = NextIntent, !.kind = "installment", !.due = n, !.ask = n]
<1>1. ~Idle(w) /\ task[w].step = "charge" /\ n \in 0..Instalments
  BY TaskForms, RtoAssumption DEF SweepChallenged, At, Idle, Typed, LatestSteps, Latests
<1>2. [kind |-> "sweep", n |-> n, amount |-> Price, status |-> "open"] \in Intents
  BY <1>1 DEF Intents, Price
<1>3. rtoIntents' = Opened("sweep", n, Price, "open") /\ Awaits(w, doc, "challenged")
  BY DEF SweepChallenged
<1>4. rtoIntents' \in Seq(Intents) /\ NextIntent \in Nat
  BY <1>2, <1>3, IntentAdded
<1>5. rto' = doc /\ Moves(w) /\ task'[w] = Resting /\ task' \in [Workers -> Tasks]
  BY <1>1, <1>3, AwaitsEffect
<1>6. rto \in Agreements
  BY DEF Typed
<1> HIDE DEF n
<1>7. /\ rto' \in Agreements /\ rto'.status = rto.status /\ Money(rto)
      /\ rto'.pending = NextIntent /\ rto'.kind = "installment"
  BY <1>1, <1>4, <1>5, <1>6 DEF Agreements, Money
<1>8. SameOffer /\ SameBooks
  BY DEF SweepChallenged, SameOffer, SameBooks
<1> QED
  BY <1>1, <1>2, <1>3, <1>4, <1>5, <1>7, <1>8 DEF Goes, Typed, Resting, SameOffer, n

LEMMA SweepMissedEffect ==
  ASSUME Typed, NEW w \in Workers, SweepMissed(w)
  PROVE  /\ Goes(w, "charge", "idle")
         /\ SameOffer /\ SameBooks /\ Money(rto) /\ Waits(rto)
         /\ \/ SameIntents
            \/ /\ rtoIntents' = Opened("sweep", task[w].n, Price, "declined")
               /\ [kind |-> "sweep", n |-> task[w].n, amount |-> Price, status |-> "declined"] \in Intents
         /\ rto'.status = rto.status \/ (rto.status \notin Closed \cup {"none"} /\ rto'.status = "grace")
<1>1. ~Idle(w) /\ task[w].step = "charge" /\ task[w].n \in 0..Instalments
  BY TaskForms, RtoAssumption DEF SweepMissed, At, Idle, Typed, LatestSteps, Latests
<1>2. Moves(w) /\ task' \in [Workers -> Tasks] /\ task'[w].step = "idle"
  BY <1>1, FinishAfterMoves DEF SweepMissed
<1>3. [kind |-> "sweep", n |-> task[w].n, amount |-> Price, status |-> "declined"] \in Intents
  BY <1>1 DEF Intents, Price
<1>4. SameIntents \/ rtoIntents' = Opened("sweep", task[w].n, Price, "declined")
  BY DEF SweepMissed, SameIntents
<1>5. rtoIntents' \in Seq(Intents)
  BY <1>3, <1>4, IntentAdded DEF SameIntents, Typed
<1>6. Missed(w, task[w].n) /\ SameOffer /\ SameBooks
  BY DEF SweepMissed, SameOffer, SameBooks
<1>7. /\ rto' \in Agreements /\ Money(rto) /\ Waits(rto)
      /\ rto'.status = rto.status \/ (rto.status \notin Closed \cup {"none"} /\ rto'.status = "grace")
  BY <1>6, MissedEffect
<1> QED
  BY <1>1, <1>2, <1>3, <1>4, <1>5, <1>6, <1>7 DEF Goes, Typed, SameOffer

LEMMA SweepThrowsEffect ==
  ASSUME Typed, NEW w \in Workers, SweepThrows(w)
  PROVE  /\ Goes(w, task[w].step, "idle")
         /\ task[w].step \in {"book", "claim_instalment", "apply"}
         /\ SameOffer /\ SameBooks /\ SameIntents /\ Money(rto) /\ Waits(rto)
         /\ rto'.status = rto.status \/ (rto.status \notin Closed \cup {"none"} /\ rto'.status = "grace")
<1>1. ~Idle(w) /\ task[w].step \in {"book", "claim_instalment", "apply"}
  BY DEF SweepThrows, Idle
<1>2. Moves(w) /\ task' \in [Workers -> Tasks] /\ task'[w].step = "idle"
  BY <1>1, FinishAfterMoves DEF SweepThrows
<1>3. Missed(w, task[w].n) /\ SameOffer /\ SameBooks /\ SameIntents
  BY DEF SweepThrows, SameOffer, SameBooks, SameIntents
<1>4. /\ rto' \in Agreements /\ Money(rto) /\ Waits(rto)
      /\ rto'.status = rto.status \/ (rto.status \notin Closed \cup {"none"} /\ rto'.status = "grace")
  BY <1>3, MissedEffect
<1> QED
  BY <1>1, <1>2, <1>3, <1>4 DEF Goes, Typed, SameOffer, SameIntents

\* The payment of intent i has been claimed, for what the agreement waits for.
LEMMA SettleClaimEffect ==
  ASSUME Typed, Awaited, NEW w \in Workers, NEW i \in DOMAIN rtoIntents, SettleClaim(w, i)
  PROVE  /\ SameOffer /\ SameBooks /\ SameIntents /\ schedule' = schedule
         /\ rtoIntents[i].status = "succeeded" /\ rto.pending = i
         /\ rto' = [rto EXCEPT !.pending = 0, !.kind = "none"]
         /\ \/ rto.kind = "acceptance" /\ Goes(w, "idle", "book_deposit")
            \/ rto.kind = "card_setup" /\ Goes(w, "idle", "attach_card")
            \/ /\ rto.kind = "payoff" /\ Goes(w, "idle", "book_payoff")
               /\ task'[w].amount = rtoIntents[i].amount /\ task'[w].doc = Counts
            \/ rto.kind = "installment" /\ rto.due = 0 /\ Goes(w, "idle", "idle")
            \/ /\ rto.kind = "installment" /\ rto.due # 0 /\ Goes(w, "idle", "book")
               /\ task'[w].n = rto.due /\ task'[w].doc = Counts
<1>1. /\ SameOffer /\ SameBooks /\ SameIntents /\ schedule' = schedule
      /\ rtoIntents[i].status = "succeeded" /\ rto.pending = i
      /\ rto' = [rto EXCEPT !.pending = 0, !.kind = "none"]
  BY DEF SettleClaim, AwaitedNow, SameOffer, SameBooks, SameIntents
<1>2. rto \in Agreements /\ Counts \in Docs /\ rtoIntents[i].amount \in Nat /\ i \in Nat \ {0}
  <2>1. rtoIntents[i] \in Intents /\ i \in Nat \ {0}
    BY DEF Typed
  <2> QED
    BY <2>1 DEF Typed, Agreements, Counts, Docs, Intents
<1>3. rto.kind \in {"acceptance", "card_setup", "installment", "payoff"} /\ rto.due \in 0..Instalments
  BY <1>1, <1>2 DEF Awaited, Agreements
<1>4. rto' \in Agreements
  BY <1>1, <1>2 DEF Agreements
<1>5. ASSUME NEW t \in Tasks, Begin(w, t)
      PROVE  Goes(w, "idle", t.step) /\ task'[w] = t
  <2>1. Moves(w) /\ Idle(w) /\ task'[w] = t /\ task' \in [Workers -> Tasks]
    BY <1>5, BeginMoves
  <2> QED
    BY <1>1, <1>4, <2>1 DEF Goes, Typed, Idle, SameOffer, SameIntents
<1>6. CASE rto.kind = "acceptance"
  <2>1. Begin(w, [step |-> "book_deposit"])
    BY <1>6 DEF SettleClaim, SettlementOf
  <2>2. [step |-> "book_deposit"] \in Tasks
    BY FormsAreTasks DEF Plains, PlainSteps
  <2> QED
    BY <1>1, <1>5, <1>6, <2>1, <2>2
<1>7. CASE rto.kind = "card_setup"
  <2>1. Begin(w, [step |-> "attach_card"])
    BY <1>7 DEF SettleClaim, SettlementOf
  <2>2. [step |-> "attach_card"] \in Tasks
    BY FormsAreTasks DEF Plains, PlainSteps
  <2> QED
    BY <1>1, <1>5, <1>7, <2>1, <2>2
<1>8. CASE rto.kind = "payoff"
  <2> DEFINE t == [step |-> "book_payoff", amount |-> rtoIntents[i].amount, doc |-> Counts]
  <2>1. Begin(w, t)
    BY <1>8 DEF SettleClaim, SettlementOf
  <2>2. t \in Tasks
    BY <1>2, FormsAreTasks DEF Payoffs, PayoffSteps
  <2>3. Goes(w, "idle", t.step) /\ task'[w] = t
    BY <1>5, <2>1, <2>2
  <2> QED
    BY <1>1, <1>8, <2>3
<1>9. CASE rto.kind = "installment" /\ rto.due = 0
  <2>1. Begin(w, Resting)
    BY <1>9 DEF SettleClaim, SettlementOf
  <2>2. Goes(w, "idle", Resting.step)
    BY <1>5, <2>1, RestingIsTask
  <2> QED
    BY <1>1, <1>9, <2>2 DEF Resting
<1>10. CASE rto.kind = "installment" /\ rto.due # 0
  <2> DEFINE t == [step |-> "book", n |-> rto.due, doc |-> Counts, via |-> "hook"]
  <2>1. Begin(w, t)
    BY <1>10 DEF SettleClaim, SettlementOf
  <2>2. t \in Tasks
    BY <1>2, <1>3, <1>10, FormsAreTasks, RtoAssumption DEF Latests, LatestSteps
  <2>3. Goes(w, "idle", t.step) /\ task'[w] = t
    BY <1>5, <2>1, <2>2
  <2> QED
    BY <1>1, <1>10, <2>3
<1> QED
  BY <1>3, <1>6, <1>7, <1>8, <1>9, <1>10

\* A card may be kept on the way; the rest of the agreement is as in doc.
LEMMA KeepsCardEffect ==
  ASSUME Typed, NEW w \in Workers, NEW doc \in Agreements, KeepsCard(w, doc), ~Idle(w)
  PROVE  /\ Moves(w) /\ task'[w].step = "idle" /\ task' \in [Workers -> Tasks]
         /\ rto' \in Agreements /\ Money(doc) /\ Waits(doc) /\ rto'.status = doc.status
<1>1. Finish(w) \/ FinishAfter(w, "no_card")
  BY DEF KeepsCard
<1>2. rto' = doc \/ rto' = [doc EXCEPT !.card = TRUE]
  BY DEF KeepsCard
<1>3. rto' \in Agreements /\ Money(doc) /\ Waits(doc) /\ rto'.status = doc.status
  BY <1>2 DEF Agreements, Money, Waits
<1> QED
  BY <1>1, <1>3, FinishMoves, FinishAfterMoves

LEMMA AttachCardEffect ==
  ASSUME Typed, NEW w \in Workers, AttachCard(w)
  PROVE  /\ Goes(w, "attach_card", "idle")
         /\ SameOffer /\ SameBooks /\ SameIntents /\ Money(rto) /\ Waits(rto)
         /\ rto'.status = rto.status
<1>1. ~Idle(w) /\ task[w].step = "attach_card" /\ KeepsCard(w, rto)
  BY DEF AttachCard, At, Idle
<1>2. /\ Moves(w) /\ task'[w].step = "idle" /\ task' \in [Workers -> Tasks]
      /\ rto' \in Agreements /\ Money(rto) /\ Waits(rto) /\ rto'.status = rto.status
  BY <1>1, KeepsCardEffect DEF Typed
<1> QED
  BY <1>1, <1>2 DEF AttachCard, Goes, Typed, SameOffer, SameBooks, SameIntents

LEMMA ClearAskEffect ==
  ASSUME Typed, NEW w \in Workers, ClearAsk(w)
  PROVE  /\ Goes(w, "clear", "idle")
         /\ SameOffer /\ SameBooks /\ SameIntents /\ Money(rto)
         /\ rto'.status = rto.status
         /\ rto'.pending = rto.pending /\ rto'.kind = rto.kind /\ rto'.due = 0
<1> DEFINE doc == [rto EXCEPT !.ask = 0, !.due = 0]
<1>1. ~Idle(w) /\ task[w].step = "clear" /\ KeepsCard(w, doc)
  BY DEF ClearAsk, At, Idle
<1>2. /\ doc \in Agreements /\ doc.deposit = rto.deposit /\ doc.credited = rto.credited
      /\ doc.paid = rto.paid /\ doc.proof = rto.proof /\ doc.status = rto.status
      /\ doc.pending = rto.pending /\ doc.kind = rto.kind /\ doc.due = 0
  <2>1. 0 \in 0..Instalments
    BY RtoAssumption
  <2> QED
    BY <2>1 DEF Typed, Agreements
<1> HIDE DEF doc
<1>3. /\ Moves(w) /\ task'[w].step = "idle" /\ task' \in [Workers -> Tasks]
      /\ rto' \in Agreements /\ Money(doc) /\ Waits(doc) /\ rto'.status = doc.status
  BY <1>1, <1>2, KeepsCardEffect
<1>4. SameOffer /\ SameBooks /\ SameIntents
  BY DEF ClearAsk, SameOffer, SameBooks, SameIntents
<1> QED
  BY <1>1, <1>2, <1>3, <1>4 DEF Goes, Typed, Money, Waits, SameOffer, SameIntents

LEMMA BookDepositEffect ==
  ASSUME Typed, NEW w \in Workers, BookDeposit(w)
  PROVE  /\ Goes(w, "book_deposit", "credit_deposit")
         /\ SameOffer /\ SameRto /\ SameIntents
         /\ \A key : Booked(key) => Booked(key)'
         /\ \A n : ~Booked(<<"instalment", n>>) => ~Booked(<<"instalment", n>>)'
<1>1. ~Idle(w) /\ task[w].step = "book_deposit" /\ task[w] \in Plains
  BY TaskForms DEF BookDeposit, At, Idle, Typed, PlainSteps
<1>2. Moves(w) /\ task'[w].step = "credit_deposit" /\ task' \in [Workers -> Tasks]
  BY <1>1, GotoMoves DEF BookDeposit, PlainSteps
<1>3. SameOffer /\ SameRto /\ SameIntents
  BY DEF BookDeposit, SameOffer, SameRto, SameIntents
<1>4. /\ \A key : Booked(key) => Booked(key)'
      /\ \A n : ~Booked(<<"instalment", n>>) => ~Booked(<<"instalment", n>>)'
  BY DEF BookDeposit, AppendLedger, Booked
<1> QED
  BY <1>1, <1>2, <1>3, <1>4 DEF Goes, Typed, SameOffer, SameRto, SameIntents

LEMMA CreditDepositEffect ==
  ASSUME Typed, NEW w \in Workers, CreditDeposit(w)
  PROVE  /\ Goes(w, "credit_deposit", "idle")
         /\ SameOffer /\ SameBooks /\ SameIntents /\ Waits(rto)
         /\ rto'.status = rto.status /\ rto'.deposit = rto.deposit /\ rto'.paid = rto.paid
         /\ rto'.proof = rto.proof /\ rto'.credited = rto.deposit
<1> DEFINE doc == [rto EXCEPT !.credited = rto.deposit]
<1>1. ~Idle(w) /\ task[w].step = "credit_deposit" /\ KeepsCard(w, doc)
  BY DEF CreditDeposit, At, Idle
<1>2. /\ doc \in Agreements /\ doc.deposit = rto.deposit /\ doc.credited = rto.deposit
      /\ doc.paid = rto.paid /\ doc.proof = rto.proof /\ doc.status = rto.status
      /\ doc.pending = rto.pending /\ doc.kind = rto.kind /\ doc.due = rto.due
  BY DEF Typed, Agreements
<1> HIDE DEF doc
<1>3. /\ Moves(w) /\ task'[w].step = "idle" /\ task' \in [Workers -> Tasks]
      /\ rto' \in Agreements /\ Money(doc) /\ Waits(doc) /\ rto'.status = doc.status
  BY <1>1, <1>2, KeepsCardEffect
<1>4. SameOffer /\ SameBooks /\ SameIntents
  BY DEF CreditDeposit, SameOffer, SameBooks, SameIntents
<1> QED
  BY <1>1, <1>2, <1>3, <1>4 DEF Goes, Typed, Money, Waits, SameOffer, SameIntents

\* Booked after the step.
BookedThen(key) == \E e \in rtoLedger' : e.key = key

\* The instalment is booked now, or was before.
LEMMA BookInstalmentEffect ==
  ASSUME Typed, NEW w \in Workers, BookInstalment(w)
  PROVE  /\ SameOffer /\ SameRto /\ SameIntents
         /\ task[w].n \in 1..Instalments
         /\ \A key : Booked(key) => Booked(key)'
         /\ BookedThen(<<"instalment", task[w].n>>)
         /\ \/ /\ Goes(w, "book", "claim_instalment") /\ ~Booked(<<"instalment", task[w].n>>)
               /\ task'[w].doc = task[w].doc
            \/ Goes(w, "book", "clear") /\ rtoLedger' = rtoLedger
            \/ Goes(w, "book", "idle") /\ rtoLedger' = rtoLedger
<1> DEFINE n == task[w].n
           key == <<"instalment", n>>
<1>1. ~Idle(w) /\ task[w].step = "book" /\ task[w] \in Latests
  BY TaskForms DEF BookInstalment, At, Idle, Typed, LatestSteps
<1>2. n \in 1..Instalments
  BY <1>1 DEF Latests
<1>3. SameOffer /\ SameRto /\ SameIntents /\ AppendLedger(key, Price, 1)
  BY DEF BookInstalment, SameOffer, SameRto, SameIntents
<1> HIDE DEF n
<1>4. /\ \A k : Booked(k) => Booked(k)'
      /\ BookedThen(key)
      /\ Booked(key) => rtoLedger' = rtoLedger
  <2> DEFINE e == [key |-> key, amount |-> Price, credit |-> 1]
  <2>1. rtoLedger' = IF Booked(key) THEN rtoLedger ELSE rtoLedger \cup {e}
    BY <1>3 DEF AppendLedger
  <2>2. e.key = key
    OBVIOUS
  <2> HIDE DEF e
  <2>3. BookedThen(key)
    BY <2>1, <2>2 DEF Booked, BookedThen
  <2> QED
    BY <2>1, <2>3 DEF Booked
<1>5. CASE ~Booked(key)
  <2>1. Goto(w, "claim_instalment")
    BY <1>5 DEF BookInstalment, n
  <2>2. /\ Moves(w) /\ task'[w].step = "claim_instalment" /\ task' \in [Workers -> Tasks]
        /\ task'[w].doc = task[w].doc
    BY <1>1, <2>1, GotoMoves DEF LatestSteps
  <2>3. Goes(w, "book", "claim_instalment")
    BY <1>1, <1>3, <2>2 DEF Goes, Typed, SameOffer, SameRto, SameIntents
  <2> QED
    BY <1>2, <1>3, <1>4, <1>5, <2>2, <2>3 DEF n
<1>6. CASE Booked(key) /\ task[w].via = "hook"
  <2>1. Becomes(w, [step |-> "clear"]) /\ befell' = befell
    BY <1>6 DEF BookInstalment, n
  <2>2. [step |-> "clear"] \in Tasks
    BY FormsAreTasks DEF Plains, PlainSteps
  <2>3. Moves(w) /\ task'[w] = [step |-> "clear"] /\ task' \in [Workers -> Tasks]
    BY <1>1, <2>1, <2>2, BecomesMoves
  <2>4. Goes(w, "book", "clear")
    BY <1>1, <1>3, <2>3 DEF Goes, Typed, SameOffer, SameRto, SameIntents
  <2> QED
    BY <1>2, <1>3, <1>4, <1>6, <2>4 DEF n
<1>7. CASE Booked(key) /\ task[w].via # "hook"
  <2>1. Finish(w)
    BY <1>7 DEF BookInstalment, n
  <2>2. Moves(w) /\ task'[w].step = "idle" /\ task' \in [Workers -> Tasks]
    BY <1>1, <2>1, FinishMoves
  <2>3. Goes(w, "book", "idle")
    BY <1>1, <1>3, <2>2 DEF Goes, Typed, SameOffer, SameRto, SameIntents
  <2> QED
    BY <1>2, <1>3, <1>4, <1>7, <2>3 DEF n
<1> QED
  BY <1>5, <1>6, <1>7

LEMMA ClaimInstalmentEffect ==
  ASSUME Typed, NEW w \in Workers, ClaimInstalment(w)
  PROVE  /\ Goes(w, "claim_instalment", "apply") /\ task'[w].doc = task[w].doc
         /\ SameOffer /\ SameRto /\ SameIntents /\ SameBooks
<1>1. ~Idle(w) /\ task[w].step = "claim_instalment" /\ task[w] \in Latests
  BY TaskForms DEF ClaimInstalment, At, Idle, Typed, LatestSteps
<1>2. /\ Moves(w) /\ task'[w].step = "apply" /\ task' \in [Workers -> Tasks]
      /\ task'[w].doc = task[w].doc
  BY <1>1, GotoMoves DEF ClaimInstalment, LatestSteps
<1> QED
  BY <1>1, <1>2 DEF ClaimInstalment, Goes, Typed, SameOffer, SameRto, SameIntents, SameBooks

LEMMA ApplyInstalmentEffect ==
  ASSUME Typed, NEW w \in Workers, ApplyInstalment(w)
  PROVE  /\ task[w].doc \in Docs
         /\ SameOffer /\ SameBooks /\ SameIntents /\ Waits(rto)
         /\ rto'.deposit = rto.deposit /\ rto'.proof = rto.proof
         /\ rto'.paid = task[w].doc.paid + 1 /\ rto'.credited = task[w].doc.credited + 1
         /\ rto'.status # "none"
         /\ \/ Goes(w, "apply", "complete") /\ LastOf(task[w].doc)
            \/ Goes(w, "apply", "clear") /\ ~LastOf(task[w].doc)
            \/ Goes(w, "apply", "idle") /\ ~LastOf(task[w].doc)
<1> DEFINE doc == task[w].doc
           via == task[w].via
<1>1. ~Idle(w) /\ task[w].step = "apply" /\ doc \in Docs /\ via \in {"sweep", "hook"}
  BY TaskForms DEF ApplyInstalment, At, Idle, Typed, LatestSteps, Latests
<1>2. SameOffer /\ SameBooks /\ SameIntents /\ rto' = CreditedFrom(doc) /\ befell' = befell
  BY DEF ApplyInstalment, SameOffer, SameBooks, SameIntents
<1>3. rto \in Agreements /\ doc.paid + 1 \in Nat /\ doc.credited + 1 \in Nat
  BY <1>1 DEF Typed, Docs
<1>4. Becomes(w, CASE LastOf(doc) -> [step |-> "complete", via |-> via]
                     [] ~LastOf(doc) /\ via = "hook" -> [step |-> "clear"]
                     [] OTHER -> Resting)
  BY DEF ApplyInstalment
<1> HIDE DEF doc, via
<1>5. /\ rto' \in Agreements /\ Waits(rto) /\ rto'.deposit = rto.deposit /\ rto'.proof = rto.proof
      /\ rto'.paid = doc.paid + 1 /\ rto'.credited = doc.credited + 1
      /\ rto'.status # "none"
  BY <1>2, <1>3 DEF CreditedFrom, Agreements, Waits, Closed
<1>6. ASSUME NEW t \in Tasks, Becomes(w, t)
      PROVE  Goes(w, "apply", t.step)
  <2>1. Moves(w) /\ task'[w] = t /\ task' \in [Workers -> Tasks]
    BY <1>1, <1>2, <1>6, BecomesMoves
  <2> QED
    BY <1>1, <1>2, <1>5, <2>1 DEF Goes, Typed, SameOffer, SameIntents
<1>7. CASE LastOf(doc)
  <2> DEFINE t == [step |-> "complete", via |-> via]
  <2>1. Becomes(w, t)
    BY <1>4, <1>7
  <2>2. t \in Tasks
    BY <1>1, FormsAreTasks DEF Completions
  <2>3. Goes(w, "apply", t.step)
    BY <1>6, <2>1, <2>2
  <2> QED
    BY <1>1, <1>2, <1>5, <1>7, <2>3 DEF doc
<1>8. CASE ~LastOf(doc) /\ via = "hook"
  <2> DEFINE t == [step |-> "clear"]
  <2>1. Becomes(w, t)
    BY <1>4, <1>8
  <2>2. t \in Tasks
    BY FormsAreTasks DEF Plains, PlainSteps
  <2>3. Goes(w, "apply", t.step)
    BY <1>6, <2>1, <2>2
  <2> QED
    BY <1>1, <1>2, <1>5, <1>8, <2>3 DEF doc
<1>9. CASE ~LastOf(doc) /\ via # "hook"
  <2>1. Becomes(w, Resting)
    BY <1>4, <1>9
  <2>2. Goes(w, "apply", Resting.step)
    BY <1>6, <2>1, RestingIsTask
  <2> QED
    BY <1>1, <1>2, <1>5, <1>9, <2>2 DEF doc, Resting
<1> QED
  BY <1>7, <1>8, <1>9

LEMMA CompleteEffect ==
  ASSUME Typed, NEW w \in Workers, Complete(w)
  PROVE  /\ Goes(w, "complete", "clear") \/ Goes(w, "complete", "idle")
         /\ SameOffer /\ SameBooks /\ SameIntents /\ Waits(rto)
         /\ rto' = [rto EXCEPT !.status = "completed", !.proof = TRUE]
<1>1. ~Idle(w) /\ task[w].step = "complete"
  BY DEF Complete, At, Idle
<1>2. /\ SameOffer /\ SameBooks /\ SameIntents
      /\ rto' = [rto EXCEPT !.status = "completed", !.proof = TRUE]
  BY DEF Complete, SameOffer, SameBooks, SameIntents
<1>3. rto' \in Agreements /\ Waits(rto)
  BY <1>2 DEF Typed, Agreements, Closed, Waits
<1>4. CASE task[w].via = "hook"
  <2>1. Becomes(w, [step |-> "clear"]) /\ befell' = befell
    BY <1>4 DEF Complete
  <2>2. [step |-> "clear"] \in Tasks
    BY FormsAreTasks DEF Plains, PlainSteps
  <2>3. Moves(w) /\ task'[w] = [step |-> "clear"] /\ task' \in [Workers -> Tasks]
    BY <1>1, <2>1, <2>2, BecomesMoves
  <2> QED
    BY <1>1, <1>2, <1>3, <2>3 DEF Goes, Typed, SameOffer, SameIntents
<1>5. CASE task[w].via # "hook"
  <2>1. Finish(w)
    BY <1>5 DEF Complete
  <2>2. Moves(w) /\ task'[w].step = "idle" /\ task' \in [Workers -> Tasks]
    BY <1>1, <2>1, FinishMoves
  <2> QED
    BY <1>1, <1>2, <1>3, <2>2 DEF Goes, Typed, SameOffer, SameIntents
<1> QED
  BY <1>4, <1>5

LEMMA BookPayoffEffect ==
  ASSUME Typed, NEW w \in Workers, BookPayoff(w)
  PROVE  /\ Goes(w, "book_payoff", "credit_payoff")
         /\ task'[w].amount = task[w].amount /\ task'[w].doc = task[w].doc
         /\ SameOffer /\ SameRto /\ SameIntents
         /\ \A key : Booked(key) => Booked(key)'
<1> DEFINE t == [task[w] EXCEPT !.step = "credit_payoff"]
<1>1. ~Idle(w) /\ task[w].step = "book_payoff" /\ task[w] \in Payoffs
  BY TaskForms DEF BookPayoff, At, Idle, Typed, PayoffSteps
<1>2. Becomes(w, t) /\ befell \subseteq befell'
  BY DEF BookPayoff, Goto, Befalls
<1>3. t \in Payoffs /\ t.step = "credit_payoff" /\ t.amount = task[w].amount /\ t.doc = task[w].doc
  BY <1>1 DEF Payoffs, PayoffSteps
<1>4. Moves(w) /\ task'[w] = t /\ task' \in [Workers -> Tasks]
  BY <1>1, <1>2, <1>3, BecomesMoves, FormsAreTasks
<1>5. SameOffer /\ SameRto /\ SameIntents
  BY DEF BookPayoff, SameOffer, SameRto, SameIntents
<1>6. \A key : Booked(key) => Booked(key)'
  BY DEF BookPayoff, AppendLedger, Booked
<1> HIDE DEF t
<1> QED
  BY <1>1, <1>3, <1>4, <1>5, <1>6 DEF Goes, Typed, SameOffer, SameRto, SameIntents

LEMMA CreditPayoffEffect ==
  ASSUME Typed, NEW w \in Workers, CreditPayoff(w)
  PROVE  /\ Goes(w, "credit_payoff", "complete")
         /\ SameOffer /\ SameBooks /\ SameIntents /\ Waits(rto)
         /\ rto'.status = rto.status /\ rto'.deposit = rto.deposit /\ rto'.paid = rto.paid
         /\ rto'.proof = rto.proof /\ rto'.credited = Cash
<1> DEFINE t == [step |-> "complete", via |-> "payoff"]
<1>1. ~Idle(w) /\ task[w].step = "credit_payoff" /\ t \in Tasks
  BY FormsAreTasks DEF CreditPayoff, At, Idle, Completions
<1>2. /\ SameOffer /\ SameBooks /\ SameIntents /\ Becomes(w, t) /\ befell' = befell
      /\ rto' = [rto EXCEPT !.credited = Cash]
  BY DEF CreditPayoff, SameOffer, SameBooks, SameIntents
<1>3. Cash \in Nat
  BY PayoffIsRest, RtoAssumption DEF Cash, Typed, Agreements
<1>4. /\ rto' \in Agreements /\ Waits(rto)
      /\ rto'.status = rto.status /\ rto'.deposit = rto.deposit /\ rto'.paid = rto.paid
      /\ rto'.proof = rto.proof /\ rto'.credited = Cash
  BY <1>2, <1>3 DEF Typed, Agreements, Waits
<1>5. Moves(w) /\ task'[w] = t /\ task' \in [Workers -> Tasks]
  BY <1>1, <1>2, BecomesMoves
<1> QED
  BY <1>1, <1>2, <1>4, <1>5 DEF Goes, Typed, SameOffer, SameIntents

LEMMA PayInstalmentEffect ==
  ASSUME Typed, NEW w \in Workers, PayInstalment(w)
  PROVE  /\ Goes(w, "idle", "open_intent") /\ task'[w].kind = "installment"
         /\ SameOffer /\ SameRto /\ SameBooks /\ SameIntents
         /\ rto.status \notin Closed \cup {"none"} /\ rto.kind # "acceptance"
<1> DEFINE t == [step |-> "open_intent", kind |-> "installment", n |-> Target, amount |-> Price]
<1>1. Target \in 0..Instalments
  <2>1. rto.ask # 0 \/ Owed # {}
    BY DEF PayInstalment
  <2>2. Owed # {} => Min(Owed) \in 1..Instalments
    BY LeastIsMember DEF Owed
  <2>3. rto.ask \in 0..Instalments
    BY DEF Typed, Agreements
  <2> QED
    BY <2>1, <2>2, <2>3 DEF Target
<1>2. t \in Tasks
  BY <1>1, FormsAreTasks DEF Openings, Price
<1>3. Begin(w, t)
  BY DEF PayInstalment
<1>4. Moves(w) /\ Idle(w) /\ task'[w] = t /\ task' \in [Workers -> Tasks]
  BY <1>2, <1>3, BeginMoves
<1> QED
  BY <1>4 DEF PayInstalment, Goes, Typed, Idle, SameOffer, SameRto, SameBooks, SameIntents

LEMMA PayOffEffect ==
  ASSUME Typed, NEW w \in Workers, PayOff(w)
  PROVE  /\ SameOffer /\ SameRto /\ SameBooks /\ SameIntents
         /\ rto.status \notin Closed \cup {"none"} /\ rto.kind # "acceptance"
         /\ \/ /\ Goes(w, "idle", "open_intent")
               /\ task'[w].kind = "payoff" /\ task'[w].amount + rto.credited >= Cash
            \/ Goes(w, "idle", "complete") /\ rto.credited >= Cash
<1> DEFINE t == [step |-> "open_intent", kind |-> "payoff", n |-> 0, amount |-> Payoff(rto)]
           u == [step |-> "complete", via |-> "payoff"]
<1>1. /\ Payoff(rto) \in Nat /\ Payoff(rto) + rto.credited >= Cash
      /\ Payoff(rto) = 0 => rto.credited >= Cash
  BY PayoffIsRest DEF Typed, Agreements
<1>2. /\ SameOffer /\ SameRto /\ SameBooks /\ SameIntents
      /\ rto.status \notin Closed \cup {"none"} /\ rto.kind # "acceptance"
  BY DEF PayOff, SameOffer, SameRto, SameBooks, SameIntents
<1>3. CASE Payoff(rto) > 0
  <2>1. t \in Tasks
    BY <1>1, FormsAreTasks, RtoAssumption DEF Openings
  <2>2. Begin(w, t)
    BY <1>3 DEF PayOff
  <2>3. Moves(w) /\ Idle(w) /\ task'[w] = t /\ task' \in [Workers -> Tasks]
    BY <2>1, <2>2, BeginMoves
  <2> QED
    BY <1>1, <1>2, <2>3 DEF Goes, Typed, Idle, SameOffer, SameRto, SameIntents
<1>4. CASE ~(Payoff(rto) > 0)
  <2>1. u \in Tasks
    BY FormsAreTasks DEF Completions
  <2>2. Begin(w, u)
    BY <1>4 DEF PayOff
  <2>3. Moves(w) /\ Idle(w) /\ task'[w] = u /\ task' \in [Workers -> Tasks]
    BY <2>1, <2>2, BeginMoves
  <2>4. rto.credited >= Cash
    BY <1>1, <1>4
  <2> QED
    BY <1>2, <2>3, <2>4 DEF Goes, Typed, Idle, SameOffer, SameRto, SameIntents
<1> QED
  BY <1>3, <1>4

LEMMA OpenIntentEffect ==
  ASSUME Typed, NEW w \in Workers, OpenIntent(w)
  PROVE  \E kind \in {"installment", "payoff"} : \E n \in 0..Instalments : \E amount \in Nat :
           /\ kind = task[w].kind /\ amount = task[w].amount
           /\ Goes(w, "open_intent", "idle")
           /\ SameOffer /\ SameBooks /\ Money(rto)
           /\ rtoIntents' = Opened(kind, n, amount, "open")
           /\ [kind |-> kind, n |-> n, amount |-> amount, status |-> "open"] \in Intents
           /\ rto'.pending = NextIntent /\ rto'.kind = kind /\ rto'.status = rto.status
<1>1. ~Idle(w) /\ task[w].step = "open_intent" /\ task[w] \in Openings
  BY TaskForms DEF OpenIntent, At, Idle, Typed
<1>2. PICK kind \in {"installment", "payoff"}, n \in 0..Instalments, amount \in Nat :
        kind = task[w].kind /\ n = task[w].n /\ amount = task[w].amount
  BY <1>1 DEF Openings
<1> DEFINE due == IF kind = "installment" THEN n ELSE rto.due
           doc == [rto EXCEPT !.pending = NextIntent, !.kind = kind, !.due = due]
<1>3. [kind |-> kind, n |-> n, amount |-> amount, status |-> "open"] \in Intents
  BY DEF Intents
<1>4. rtoIntents' = Opened(kind, n, amount, "open") /\ Awaits(w, doc, None)
  BY <1>2 DEF OpenIntent
<1>5. rtoIntents' \in Seq(Intents) /\ NextIntent \in Nat
  BY <1>3, <1>4, IntentAdded
<1>6. rto' = doc /\ Moves(w) /\ task'[w] = Resting /\ task' \in [Workers -> Tasks]
  BY <1>1, <1>4, AwaitsEffect
<1>7. rto \in Agreements /\ due \in 0..Instalments
  BY DEF Typed, Agreements
<1> HIDE DEF due
<1>8. /\ rto' \in Agreements /\ rto'.status = rto.status /\ Money(rto)
      /\ rto'.pending = NextIntent /\ rto'.kind = kind
  BY <1>5, <1>6, <1>7 DEF Agreements, Money
<1>9. SameOffer /\ SameBooks
  BY DEF OpenIntent, SameOffer, SameBooks
<1>10. Goes(w, "open_intent", "idle")
  BY <1>1, <1>5, <1>6, <1>8, <1>9 DEF Goes, Typed, Resting, SameOffer
<1> QED
  BY <1>2, <1>3, <1>4, <1>8, <1>9, <1>10

LEMMA RemedyReadEffect ==
  ASSUME Typed, NEW w \in Workers, NEW to \in Remedies, RemedyRead(w, to)
  PROVE  /\ Goes(w, "idle", "remedy") /\ Running
         /\ SameOffer /\ SameRto /\ SameBooks /\ SameIntents
<1> DEFINE t == [step |-> "remedy", to |-> to]
<1>1. t \in Tasks /\ Begin(w, t)
  BY FormsAreTasks DEF RemedyTasks, RemedyRead
<1>2. Moves(w) /\ Idle(w) /\ task'[w] = t /\ task' \in [Workers -> Tasks]
  BY <1>1, BeginMoves
<1> QED
  BY <1>2 DEF RemedyRead, Goes, Typed, Idle, SameOffer, SameRto, SameBooks, SameIntents

LEMMA RemedyApplyEffect ==
  ASSUME Typed, NEW w \in Workers, RemedyApply(w)
  PROVE  /\ Goes(w, "remedy", "idle")
         /\ SameOffer /\ SameBooks /\ SameIntents /\ Money(rto) /\ Waits(rto)
         /\ rto'.status # "none"
<1>1. ~Idle(w) /\ task[w].step = "remedy" /\ task[w].to \in Remedies
  BY TaskForms DEF RemedyApply, At, Idle, Typed, RemedyTasks
<1>2. rto' = [rto EXCEPT !.status = task[w].to] /\ SameOffer /\ SameBooks /\ SameIntents /\ Finish(w)
  BY DEF RemedyApply, SameOffer, SameBooks, SameIntents
<1>3. rto' \in Agreements /\ Money(rto) /\ Waits(rto) /\ rto'.status # "none"
  BY <1>1, <1>2, RtoAssumption DEF Typed, Agreements, Money, Waits
<1>4. Moves(w) /\ task'[w].step = "idle" /\ task' \in [Workers -> Tasks]
  BY <1>1, <1>2, FinishMoves
<1> QED
  BY <1>1, <1>2, <1>3, <1>4 DEF Goes, Typed, SameOffer, SameIntents

LEMMA ReturnBeginEffect ==
  ASSUME Typed, NEW w \in Workers, ReturnBegin(w)
  PROVE  /\ Goes(w, "idle", "settle_return") /\ rto.status = "return_pending"
         /\ SameOffer /\ SameRto /\ SameBooks /\ SameIntents
<1> DEFINE t == [step |-> "settle_return", refund |-> RefundOf]
<1>1. RefundOf \in Nat
  BY DEF RefundOf, Price, Typed, Agreements
<1>2. t \in Tasks /\ Begin(w, t)
  BY <1>1, FormsAreTasks DEF Returns, ReturnBegin
<1>3. Moves(w) /\ Idle(w) /\ task'[w] = t /\ task' \in [Workers -> Tasks]
  BY <1>2, BeginMoves
<1> QED
  BY <1>3 DEF ReturnBegin, Goes, Typed, Idle, SameOffer, SameRto, SameBooks, SameIntents

LEMMA ReturnSettleEffect ==
  ASSUME Typed, NEW w \in Workers, ReturnSettle(w)
  PROVE  /\ Goes(w, "settle_return", "idle")
         /\ SameOffer /\ SameIntents /\ Money(rto) /\ Waits(rto)
         /\ \A key : Booked(key) => Booked(key)'
         /\ rto'.status # "none"
<1>1. ~Idle(w) /\ task[w].step = "settle_return"
  BY DEF ReturnSettle, At, Idle
<1>2. rto' = [rto EXCEPT !.status = "cancelled"] /\ SameOffer /\ SameIntents /\ Finish(w)
  BY DEF ReturnSettle, SameOffer, SameIntents
<1>3. rto' \in Agreements /\ Money(rto) /\ Waits(rto) /\ rto'.status # "none"
  BY <1>2 DEF Typed, Agreements, Money, Waits, Closed
<1>4. Moves(w) /\ task'[w].step = "idle" /\ task' \in [Workers -> Tasks]
  BY <1>1, <1>2, FinishMoves
<1>5. \A key : Booked(key) => Booked(key)'
  BY DEF ReturnSettle, AppendLedger, Booked
<1> QED
  BY <1>1, <1>2, <1>3, <1>4, <1>5 DEF Goes, Typed, SameOffer, SameIntents

LEMMA CrashEffect ==
  ASSUME Typed, NEW w \in Workers, RtoCrash(w)
  PROVE  /\ Goes(w, task[w].step, "idle") /\ ~Idle(w) /\ "crash" \in befell'
         /\ SameOffer /\ SameRto /\ SameBooks /\ SameIntents /\ schedule' = schedule
<1>1. ~Idle(w) /\ FinishAfter(w, "crash")
  BY DEF RtoCrash, Dies
<1>2. /\ Moves(w) /\ task'[w].step = "idle" /\ task' \in [Workers -> Tasks]
      /\ "crash" \in befell'
  BY <1>1, FinishAfterMoves
<1> QED
  BY <1>1, <1>2 DEF RtoCrash, Goes, Typed, SameOffer, SameRto, SameBooks, SameIntents

\* Steps that no task of a handler takes part in.
Watches == Typed' /\ task' = task /\ befell \subseteq befell'

LEMMA PartialPaymentEffect ==
  ASSUME Typed, NEW w \in Workers, PartialPayment(w)
  PROVE  /\ Watches /\ SameOffer /\ Money(rto) /\ Waits(rto) /\ rto'.status = rto.status
         /\ Running
         /\ \A key : Booked(key) => Booked(key)'
         /\ rtoIntents' = Opened("partial", 0, 1, "open")
         /\ [kind |-> "partial", n |-> 0, amount |-> 1, status |-> "open"] \in Intents
<1>1. [kind |-> "partial", n |-> 0, amount |-> 1, status |-> "open"] \in Intents
  BY RtoAssumption DEF Intents
<1>2. rtoIntents' = Opened("partial", 0, 1, "open") /\ rto' = [rto EXCEPT !.arrears = @ + 1]
  BY DEF PartialPayment
<1>3. rtoIntents' \in Seq(Intents)
  BY <1>1, <1>2, IntentAdded
<1>4. rto' \in Agreements /\ Money(rto) /\ Waits(rto) /\ rto'.status = rto.status
  BY <1>2 DEF Typed, Agreements, Money, Waits
<1>5. \A key : Booked(key) => Booked(key)'
  BY DEF PartialPayment, AppendLedger, Booked
<1>6. Running /\ SameOffer /\ task' = task /\ befell \subseteq befell'
  BY DEF PartialPayment, SameOffer, Befalls
<1> QED
  BY <1>1, <1>2, <1>3, <1>4, <1>5, <1>6 DEF Watches, Typed, SameOffer

LEMMA EscalateEffect ==
  ASSUME Typed, Escalate
  PROVE  /\ Watches /\ SameOffer /\ SameIntents /\ Money(rto) /\ Waits(rto)
         /\ rto.status = "grace" /\ rto'.status = "late"
         /\ \A key : Booked(key) => Booked(key)'
<1>1. /\ rto' = [rto EXCEPT !.status = "late"] /\ rto.status = "grace"
      /\ SameOffer /\ SameIntents /\ AtOnce
  BY DEF Escalate, SameOffer, SameIntents
<1>2. /\ rto' \in Agreements /\ Money(rto) /\ Waits(rto) /\ rto'.status = "late"
  BY <1>1 DEF Typed, Agreements, Money, Waits
<1>3. \A key : Booked(key) => Booked(key)'
  BY DEF Escalate, AppendLedger, Booked
<1> QED
  BY <1>1, <1>2, <1>3, AtOnceStays DEF Watches, Typed, SameOffer, SameIntents

LEMMA ReinstateEffect ==
  ASSUME Typed, NEW w \in Workers, Reinstate(w)
  PROVE  /\ Watches /\ SameOffer /\ SameIntents /\ SameBooks /\ Money(rto) /\ Waits(rto)
         /\ rto.status \notin {"none", "completed"} /\ rto'.status # "none"
<1>1. /\ rto' = [rto EXCEPT !.status = "active"] /\ rto.status \notin {"none", "completed"}
      /\ SameOffer /\ SameIntents /\ SameBooks /\ task' = task /\ befell \subseteq befell'
  BY DEF Reinstate, SameOffer, SameIntents, SameBooks, Befalls
<1>2. /\ rto' \in Agreements /\ Money(rto) /\ Waits(rto) /\ rto'.status # "none"
  BY <1>1 DEF Typed, Agreements, Money, Waits
<1> QED
  BY <1>1, <1>2 DEF Watches, Typed, SameOffer, SameIntents

LEMMA ConfirmEffect ==
  ASSUME Typed, NEW i \in DOMAIN rtoIntents, Confirm(i)
  PROVE  /\ Watches /\ SameOffer /\ SameRto /\ SameBooks /\ schedule' = schedule
         /\ rtoIntents[i].status = "open"
         /\ rtoIntents' = [rtoIntents EXCEPT ![i] = [@ EXCEPT !.status = "succeeded"]]
<1>1. /\ rtoIntents[i].status = "open"
      /\ rtoIntents' = [rtoIntents EXCEPT ![i] = [@ EXCEPT !.status = "succeeded"]]
      /\ SameOffer /\ SameRto /\ SameBooks /\ task' = task /\ befell' = befell /\ schedule' = schedule
  BY DEF Confirm, Outside, SameOffer, SameRto, SameBooks
<1>2. rtoIntents' \in Seq(Intents)
  <2> DEFINE r == [rtoIntents[i] EXCEPT !.status = "succeeded"]
  <2>1. rtoIntents[i] \in Intents
    BY DEF Typed
  <2>2. r \in Intents
    BY <2>1 DEF Intents
  <2>3. rtoIntents' = [rtoIntents EXCEPT ![i] = r]
    BY <1>1
  <2> HIDE DEF r
  <2> QED
    BY <2>2, <2>3 DEF Typed
<1> QED
  BY <1>1, <1>2 DEF Watches, Typed, SameOffer, SameRto

-----------------------------------------------------------------------------
(***************************************************************************)
(* The invariant about offers and handlers is kept.                        *)
(***************************************************************************)

\* What holds of an intent once opened, but whether it was paid.
IntentsKept ==
  \A i \in DOMAIN rtoIntents :
    /\ i \in DOMAIN rtoIntents'
    /\ rtoIntents'[i].kind = rtoIntents[i].kind /\ rtoIntents'[i].amount = rtoIntents[i].amount

LEMMA AddedKept ==
  ASSUME Typed, NEW kind, NEW n, NEW amount, NEW status,
         [kind |-> kind, n |-> n, amount |-> amount, status |-> status] \in Intents,
         rtoIntents' = Opened(kind, n, amount, status)
  PROVE  IntentsKept
BY IntentAdded DEF IntentsKept

LEMMA AwaitedKept ==
  ASSUME Awaited, IntentsKept, Waits(rto), rto'.deposit = rto.deposit
  PROVE  Awaited'
BY DEF Awaited, IntentsKept, Waits, Kinds

LEMMA AwaitedAdded ==
  ASSUME Typed, NEW kind, NEW n, NEW amount,
         [kind |-> kind, n |-> n, amount |-> amount, status |-> "open"] \in Intents,
         rtoIntents' = Opened(kind, n, amount, "open"),
         rto'.pending = NextIntent, rto'.kind # "none", kind \in Kinds(rto'.kind),
         rto'.kind = "acceptance" => amount = rto'.deposit
  PROVE  Awaited'
<1>1. NextIntent \in DOMAIN rtoIntents'
  BY IntentAdded
<1>2. rtoIntents'[NextIntent].kind = kind /\ rtoIntents'[NextIntent].amount = amount
  BY IntentAdded
<1> HIDE DEF NextIntent
<1> QED
  BY <1>1, <1>2 DEF Awaited, Kinds

\* The counts are as a handler read them, or it is the one that changes them.
LEMMA CurrentKept ==
  ASSUME Current, Alone, NEW w \in Workers, Moves(w),
         ~Idle(w) \/ (rto'.paid = rto.paid /\ rto'.credited = rto.credited),
         Spared({"overlap"}) /\ task'[w].step \in LatestSteps \cup PayoffSteps =>
           task'[w].doc.paid = rto'.paid /\ task'[w].doc.credited = rto'.credited
  PROVE  Current'
<1> SUFFICES ASSUME Spared({"overlap"})', NEW v \in Workers,
                    task'[v].step \in LatestSteps \cup PayoffSteps
             PROVE  task'[v].doc.paid = rto'.paid /\ task'[v].doc.credited = rto'.credited
  BY DEF Current
<1>1. Spared({"overlap"})
  BY SparedBefore DEF Moves
<1>2. CASE v = w
  BY <1>1, <1>2
<1>3. CASE v # w
  <2>1. task'[v] = task[v] /\ ~Idle(v)
    BY <1>3 DEF Moves, Idle, LatestSteps, PayoffSteps
  <2>2. Idle(w)
    BY <1>1, <1>3, <2>1 DEF Alone
  <2> QED
    BY <1>1, <2>1, <2>2 DEF Current
<1> QED
  BY <1>2, <1>3

\* An agreement runs, and a handler goes on with it.
LEMMA GoesOn ==
  ASSUME IInv, NEW w \in Workers, Typed', Moves(w), SameOffer,
         rto.status # "none", rto'.status # "none",
         task'[w].step \notin AcceptSteps \cup {"open_charge"},
         Current', Awaited'
  PROVE  IInv'
<1>1. Unbound' /\ Unlisted'
  BY DEF IInv, Unbound, Unlisted, SameOffer
<1>2. OneAccept'
  BY DEF IInv, OneAccept, Moves
<1>3. Stocked'
  <2>1. ~Creating'
    BY DEF IInv, OneAccept, Moves, Creating, AcceptSteps
  <2>2. Spared({"refused"})' => Spared({"refused"})
    BY SparedBefore DEF Moves
  <2>3. ~Creating
    BY DEF IInv, OneAccept, Creating, AcceptSteps
  <2> QED
    BY <2>1, <2>2, <2>3 DEF IInv, Stocked, SameOffer
<1>4. Gated'
  <2>1. Spared({"overlap"})' => Spared({"overlap"})
    BY SparedBefore DEF Moves
  <2> QED
    BY <2>1 DEF IInv, Gated, SameOffer
<1>5. Alone'
  <2>1. Spared({"overlap"})' => Spared({"overlap"})
    BY SparedBefore DEF Moves
  <2> QED
    BY <2>1 DEF IInv, Alone, Moves, AllIdle, Idle
<1> QED
  BY <1>1, <1>2, <1>3, <1>4, <1>5 DEF IInv

\* An agreement runs, and no task is touched.
LEMMA LooksOn ==
  ASSUME IInv, Watches, SameOffer, rto.status # "none", rto'.status # "none",
         rto'.paid = rto.paid, rto'.credited = rto.credited, Awaited'
  PROVE  IInv'
<1>1. Unbound' /\ Unlisted' /\ OneAccept'
  BY DEF IInv, Unbound, Unlisted, OneAccept, SameOffer, Watches
<1>2. \A S : Spared(S)' => Spared(S)
  BY SparedBefore DEF Watches
<1>3. Stocked' /\ Gated' /\ Alone' /\ Current'
  BY <1>2 DEF IInv, Stocked, Creating, Gated, Alone, Current, SameOffer, Watches, Idle
<1> QED
  BY <1>1, <1>3 DEF IInv, Watches

\* Whoever is past an acceptance has an agreement.
LEMMA BoundBy ==
  ASSUME IInv, NEW w \in Workers, task[w].step \notin AcceptSteps \cup {"idle"}
  PROVE  rto.status # "none"
BY DEF IInv, Unbound

LEMMA AcceptBeginStep ==
  ASSUME IInv, NEW w \in Workers, AcceptBegin(w)
  PROVE  IInv'
<1>1. /\ Goes(w, "idle", "claim_unit")
      /\ SameOffer /\ SameRto /\ SameBooks /\ SameIntents /\ schedule' = schedule
      /\ AcceptAllowed /\ rto.status = "none"
      /\ \A v \in Workers : task[v].step \notin AcceptSteps \cup {"open_charge"}
  BY AcceptBeginEffect DEF IInv
<1>2. Typed' /\ Moves(w) /\ task[w].step = "idle" /\ task'[w].step = "claim_unit"
  BY <1>1 DEF Goes
<1>3. Unbound'
  BY <1>1, <1>2 DEF IInv, Unbound, Moves, SameRto, SameIntents, AcceptSteps
<1>4. OneAccept' /\ Unlisted'
  BY <1>1, <1>2 DEF IInv, OneAccept, Unlisted, Moves, SameRto, SameOffer, AcceptSteps, AcceptAllowed
<1>5. \A S : Spared(S)' => Spared(S)
  BY <1>2, SparedBefore DEF Moves
<1>6. Stocked'
  <2>1. Creating' <=> Creating
    BY <1>2 DEF Moves, Creating
  <2> QED
    BY <1>1, <1>5, <2>1 DEF IInv, Stocked, SameOffer, SameRto
<1>7. Gated'
  BY <1>1 DEF Gated, SameOffer, AcceptAllowed
<1>8. Alone'
  BY <1>2, <1>5 DEF IInv, Alone, Moves, AllIdle, Idle
<1>9. Current'
  <2>1. task'[w].step \notin LatestSteps \cup PayoffSteps
    BY <1>2 DEF LatestSteps, PayoffSteps
  <2> QED
    BY <1>1, <1>2, <2>1, CurrentKept DEF IInv, SameRto
<1>10. Awaited'
  BY <1>1 DEF IInv, Awaited, SameRto, SameIntents
<1> QED
  BY <1>2, <1>3, <1>4, <1>6, <1>7, <1>8, <1>9, <1>10 DEF IInv

LEMMA AcceptClaimStep ==
  ASSUME IInv, NEW w \in Workers, AcceptClaim(w)
  PROVE  IInv'
<1>1. /\ SameRto /\ SameBooks /\ SameIntents /\ schedule' = schedule
      /\ \/ /\ Goes(w, "claim_unit", "create_agreement")
            /\ Claimable /\ offer' = [offer EXCEPT !.left = @ - 1]
         \/ Goes(w, "claim_unit", "idle") /\ SameOffer
  BY AcceptClaimEffect DEF IInv
<1>2. Typed' /\ Moves(w) /\ task[w].step = "claim_unit" /\ task'[w].step \in {"create_agreement", "idle"}
  BY <1>1 DEF Goes
<1>3. offer \in Offers /\ offer'.status = offer.status /\ offer'.gates = offer.gates /\ offer'.sold = offer.sold
  BY <1>1 DEF IInv, Typed, Offers, SameOffer
<1>4. Unbound'
  BY <1>1, <1>2 DEF IInv, Unbound, Moves, SameRto, SameIntents, AcceptSteps
<1>5. OneAccept'
  BY <1>1, <1>2 DEF IInv, OneAccept, Moves, SameRto, AcceptSteps
<1>6. Unlisted'
  BY <1>1, <1>2, <1>3 DEF IInv, Unlisted, Idle
<1>7. \A S : Spared(S)' => Spared(S)
  BY <1>2, SparedBefore DEF Moves
<1>8. Stocked'
  <2>1. ~Creating
    BY <1>2 DEF IInv, OneAccept, Creating, AcceptSteps
  <2>2. CASE task'[w].step = "idle" /\ SameOffer
    <3>1. ~Creating'
      BY <1>2, <2>1, <2>2 DEF Moves, Creating
    <3> QED
      BY <1>1, <1>7, <2>1, <2>2, <3>1 DEF IInv, Stocked, SameOffer, SameRto
  <2>3. CASE Claimable /\ offer' = [offer EXCEPT !.left = @ - 1]
    <3>1. offer.left \in Nat /\ offer'.left = offer.left - 1 /\ offer.sold \in Nat /\ Units \in Nat
      BY <1>3, <2>3, RtoAssumption DEF Offers
    <3> QED
      BY <1>1, <1>3, <1>7, <2>1, <3>1 DEF IInv, Stocked, SameRto
  <2> QED
    BY <1>1, <2>2, <2>3 DEF Goes
<1>9. Gated'
  BY <1>1, <1>2, <1>3, <1>7 DEF IInv, Gated, SameRto, AcceptSteps
<1>10. Alone'
  BY <1>2, <1>7 DEF IInv, Alone, Moves, AllIdle, Idle
<1>11. Current'
  <2>1. task'[w].step \notin LatestSteps \cup PayoffSteps
    BY <1>2 DEF LatestSteps, PayoffSteps
  <2> QED
    BY <1>1, <1>2, <2>1, CurrentKept DEF IInv, SameRto
<1>12. Awaited'
  BY <1>1 DEF IInv, Awaited, SameRto, SameIntents
<1> QED
  BY <1>2, <1>4, <1>5, <1>6, <1>8, <1>9, <1>10, <1>11, <1>12 DEF IInv

LEMMA AcceptCreateStep ==
  ASSUME IInv, NEW w \in Workers, NEW d \in Deposits, AcceptCreate(w, d)
  PROVE  IInv'
<1>1. /\ Goes(w, "create_agreement", "open_charge")
      /\ SameOffer /\ SameBooks /\ SameIntents
      /\ rto' = Accepted(d)
  BY AcceptCreateEffect DEF IInv
<1>2. Typed' /\ Moves(w) /\ task[w].step = "create_agreement" /\ task'[w].step = "open_charge"
  BY <1>1 DEF Goes
<1>3. rto'.status = "active" /\ rto'.pending = 0 /\ rto.status = "none"
  BY <1>1, <1>2 DEF Accepted, NoAgreement, IInv, OneAccept, AcceptSteps
<1>4. Unbound' /\ Unlisted'
  BY <1>1, <1>2, <1>3 DEF IInv, Unbound, Unlisted, SameOffer, Idle
<1>5. \A v \in Workers \ {w} : task'[v].step \notin AcceptSteps \cup {"open_charge"}
  BY <1>2 DEF IInv, OneAccept, Moves, AcceptSteps
<1>6. OneAccept'
  BY <1>2, <1>5 DEF OneAccept, AcceptSteps
<1>7. \A S : Spared(S)' => Spared(S)
  BY <1>2, SparedBefore DEF Moves
<1>8. Stocked'
  <2>1. Creating /\ ~Creating'
    BY <1>2, <1>5 DEF Creating, AcceptSteps
  <2>2. offer.sold \in Nat /\ offer.left \in Nat /\ Units \in Nat
    BY RtoAssumption DEF IInv, Typed, Offers
  <2> QED
    BY <1>1, <1>3, <1>7, <2>1, <2>2 DEF IInv, Stocked, SameOffer
<1>9. Gated'
  BY <1>1, <1>2, <1>7 DEF IInv, Gated, SameOffer, AcceptSteps
<1>10. Alone'
  BY <1>2, <1>7 DEF IInv, Alone, Moves, AllIdle, Idle
<1>11. Current'
  <2>1. task'[w].step \notin LatestSteps \cup PayoffSteps
    BY <1>2 DEF LatestSteps, PayoffSteps
  <2> QED
    BY <1>2, <2>1, CurrentKept DEF IInv, Idle
<1>12. Awaited'
  BY <1>3 DEF Awaited
<1> QED
  BY <1>2, <1>4, <1>6, <1>8, <1>9, <1>10, <1>11, <1>12 DEF IInv

LEMMA AcceptChargeStep ==
  ASSUME IInv, NEW w \in Workers, AcceptCharge(w)
  PROVE  IInv'
<1>1. PICK kind \in {"acceptance", "card_setup"} :
        /\ Goes(w, "open_charge", "idle")
        /\ SameOffer /\ SameBooks
        /\ rtoIntents' = Opened(kind, 0, rto.deposit, "open")
        /\ [kind |-> kind, n |-> 0, amount |-> rto.deposit, status |-> "open"] \in Intents
        /\ rto' = [rto EXCEPT !.pending = NextIntent, !.kind = kind]
        /\ rto'.status = rto.status
  BY AcceptChargeEffect DEF IInv
<1>2. Typed' /\ Moves(w) /\ task[w].step = "open_charge" /\ task'[w].step = "idle"
  BY <1>1 DEF Goes
<1>3. /\ rto'.pending = NextIntent /\ rto'.kind = kind /\ rto'.deposit = rto.deposit
      /\ rto'.paid = rto.paid /\ rto'.credited = rto.credited
  BY <1>1 DEF IInv, Typed, Agreements
<1>4. Awaited'
  BY <1>1, <1>3, AwaitedAdded DEF IInv, Kinds
<1>5. Current'
  BY <1>2, <1>3, CurrentKept DEF IInv, LatestSteps, PayoffSteps
<1>6. rto.status # "none"
  BY <1>2, BoundBy DEF AcceptSteps
<1> QED
  BY <1>1, <1>2, <1>4, <1>5, <1>6, GoesOn DEF AcceptSteps

LEMMA AcceptRefusedStep ==
  ASSUME IInv, NEW w \in Workers, AcceptRefused(w)
  PROVE  IInv'
<1>1. /\ Goes(w, "open_charge", "idle")
      /\ SameRto /\ SameBooks /\ SameIntents /\ schedule' = schedule
      /\ "refused" \in befell'
      /\ offer' = [offer EXCEPT !.left = @ + 1]
  BY AcceptRefusedEffect DEF IInv
<1>2. Typed' /\ Moves(w) /\ task[w].step = "open_charge" /\ task'[w].step = "idle"
  BY <1>1 DEF Goes
<1>3. rto.status # "none"
  BY <1>2, BoundBy DEF AcceptSteps
<1>4. offer'.status = offer.status /\ offer'.gates = offer.gates
  BY <1>1 DEF IInv, Typed, Offers
<1>5. Unbound' /\ Unlisted'
  BY <1>1, <1>3, <1>4 DEF IInv, Unbound, Unlisted, SameRto
<1>6. OneAccept'
  BY <1>1, <1>2, <1>3 DEF IInv, OneAccept, Moves, SameRto, AcceptSteps
<1>7. Stocked'
  BY <1>1 DEF Stocked, Spared
<1>8. \A S : Spared(S)' => Spared(S)
  BY <1>2, SparedBefore DEF Moves
<1>9. Gated' /\ Alone'
  BY <1>1, <1>2, <1>3, <1>4, <1>8 DEF IInv, Gated, Alone, Moves, AllIdle, Idle
<1>10. Current'
  BY <1>1, <1>2, CurrentKept DEF IInv, LatestSteps, PayoffSteps, SameRto
<1>11. Awaited'
  BY <1>1 DEF IInv, Awaited, SameRto, SameIntents
<1> QED
  BY <1>2, <1>5, <1>6, <1>7, <1>9, <1>10, <1>11 DEF IInv

\* The steps of the handlers that sweep, settle, pay and remedy.
Handles(w) ==
  \/ SweepList(w) \/ PayInstalment(w) \/ PayOff(w) \/ ReturnBegin(w)
  \/ \E i \in DOMAIN rtoIntents : SettleClaim(w, i)
  \/ \E to \in Remedies : RemedyRead(w, to)
  \/ SweepLoad(w) \/ SweepCharge(w) \/ SweepChallenged(w) \/ SweepMissed(w) \/ SweepThrows(w)
  \/ AttachCard(w) \/ BookDeposit(w) \/ CreditDeposit(w) \/ BookInstalment(w)
  \/ ClaimInstalment(w) \/ ApplyInstalment(w) \/ Complete(w) \/ ClearAsk(w)
  \/ BookPayoff(w) \/ CreditPayoff(w) \/ OpenIntent(w) \/ RemedyApply(w) \/ ReturnSettle(w)

\* A handler goes on with an agreement that runs, whose intents it leaves as they were.
LEMMA GoesOnQuietly ==
  ASSUME IInv, NEW w \in Workers, NEW a, NEW b, Goes(w, a, b), SameOffer, IntentsKept,
         rto.status # "none", rto'.status # "none",
         b \notin AcceptSteps \cup {"open_charge"},
         Waits(rto), rto'.deposit = rto.deposit,
         a # "idle" \/ (rto'.paid = rto.paid /\ rto'.credited = rto.credited),
         Spared({"overlap"}) /\ b \in LatestSteps \cup PayoffSteps =>
           task'[w].doc.paid = rto'.paid /\ task'[w].doc.credited = rto'.credited
  PROVE  IInv'
<1>1. Typed' /\ Moves(w) /\ task[w].step = a /\ task'[w].step = b
  BY DEF Goes
<1>2. Awaited'
  BY AwaitedKept DEF IInv
<1>3. Current'
  BY <1>1, CurrentKept DEF IInv, Idle
<1> QED
  BY <1>1, <1>2, <1>3, GoesOn

LEMMA SameIntentsKept ==
  ASSUME SameIntents
  PROVE  IntentsKept
BY DEF SameIntents, IntentsKept

LEMMA SameRtoKept ==
  ASSUME SameRto
  PROVE  Money(rto) /\ Waits(rto) /\ rto'.status = rto.status
BY DEF SameRto, Money, Waits

LEMMA HandlesStep ==
  ASSUME IInv, NEW w \in Workers, Handles(w)
  PROVE  IInv'
<1> USE DEF AcceptSteps, LatestSteps, PayoffSteps
<1>1. Typed /\ (rtoIntents # <<>> => rto.status # "none")
  BY DEF IInv, Unbound
<1>2. SameIntents => IntentsKept
  BY SameIntentsKept
<1>3. SameRto => Money(rto) /\ Waits(rto) /\ rto'.status = rto.status
  BY SameRtoKept
<1>4. ASSUME NEW a, NEW b, Goes(w, a, b), a \notin AcceptSteps \cup {"idle"},
             b \in {"idle", "clear", "credit_deposit", "complete"}, SameOffer, IntentsKept,
             Waits(rto), rto'.deposit = rto.deposit,
             rto'.status = rto.status \/ rto'.status # "none"
      PROVE  IInv'
  <2>1. rto.status # "none"
    BY <1>4, BoundBy DEF Goes
  <2> QED
    BY <1>4, <2>1, GoesOnQuietly
<1>5. ASSUME NEW a, NEW b, Goes(w, a, b), a \in LatestSteps \cup PayoffSteps,
             b \in LatestSteps \cup PayoffSteps, task'[w].doc = task[w].doc,
             SameOffer, SameRto, IntentsKept
      PROVE  IInv'
  <2>1. rto.status # "none" /\ task[w].step = a
    BY <1>5, BoundBy DEF Goes
  <2>2. Spared({"overlap"}) => task[w].doc.paid = rto.paid /\ task[w].doc.credited = rto.credited
    BY <1>5, <2>1 DEF IInv, Current
  <2> QED
    BY <1>3, <1>5, <2>1, <2>2, GoesOnQuietly DEF SameRto
<1>6. ASSUME NEW a, NEW kind, NEW n, NEW amount, Goes(w, a, "idle"), a \in {"charge", "open_intent"},
             SameOffer, Money(rto), rtoIntents' = Opened(kind, n, amount, "open"),
             [kind |-> kind, n |-> n, amount |-> amount, status |-> "open"] \in Intents,
             rto'.pending = NextIntent, rto'.status = rto.status,
             rto'.kind \in {"installment", "payoff"}, kind \in Kinds(rto'.kind)
      PROVE  IInv'
  <2>1. Typed' /\ Moves(w) /\ task[w].step = a /\ task'[w].step = "idle"
    BY <1>6 DEF Goes
  <2>2. rto.status # "none"
    BY <1>6, <2>1, BoundBy
  <2>3. Awaited'
    BY <1>6, AwaitedAdded DEF IInv
  <2>4. Current'
    BY <1>6, <2>1, CurrentKept DEF IInv, Money
  <2> QED
    BY <1>6, <2>1, <2>2, <2>3, <2>4, GoesOn
<1>7. ASSUME \/ SweepList(w) \/ PayInstalment(w) \/ PayOff(w) \/ ReturnBegin(w)
             \/ \E to \in Remedies : RemedyRead(w, to)
      PROVE  IInv'
  <2>1. SameOffer /\ SameRto /\ SameIntents /\ rto.status # "none"
    BY <1>1, <1>7, SweepListEffect, PayInstalmentEffect, PayOffEffect, ReturnBeginEffect,
       RemedyReadEffect DEF IInv, Unbound, Unpaid, Running
  <2>2. PICK b \in {"load", "open_intent", "complete", "settle_return", "remedy"} :
               Goes(w, "idle", b)
    BY <1>1, <1>7, SweepListEffect, PayInstalmentEffect, PayOffEffect, ReturnBeginEffect,
       RemedyReadEffect
  <2> QED
    BY <1>2, <1>3, <2>1, <2>2, GoesOnQuietly DEF Money
<1>8. ASSUME NEW i \in DOMAIN rtoIntents, SettleClaim(w, i)
      PROVE  IInv'
  <2>1. /\ SameOffer /\ rto' = [rto EXCEPT !.pending = 0, !.kind = "none"]
        /\ \/ Goes(w, "idle", "book_deposit") \/ Goes(w, "idle", "attach_card")
           \/ Goes(w, "idle", "book_payoff") /\ task'[w].doc = Counts
           \/ Goes(w, "idle", "idle")
           \/ Goes(w, "idle", "book") /\ task'[w].doc = Counts
    BY <1>8, SettleClaimEffect DEF IInv
  <2>2. /\ rto'.pending = 0 /\ rto'.paid = rto.paid /\ rto'.credited = rto.credited
        /\ rto'.status = rto.status
    BY <1>1, <2>1 DEF Typed, Agreements
  <2>3. Awaited'
    BY <2>2 DEF Awaited
  <2>4. Typed' /\ Moves(w) /\ task'[w].step \notin AcceptSteps \cup {"open_charge"}
    BY <2>1 DEF Goes
  <2>5. task'[w].step \in LatestSteps \cup PayoffSteps => task'[w].doc = Counts
    BY <2>1 DEF Goes
  <2>6. Counts.paid = rto.paid /\ Counts.credited = rto.credited
    BY DEF Counts
  <2>7. Current'
    BY <2>2, <2>4, <2>5, <2>6, CurrentKept DEF IInv
  <2>8. rto.status # "none"
    <3>1. i \in 1..Len(rtoIntents) /\ Len(rtoIntents) \in Nat
      BY <1>1 DEF Typed
    <3> QED
      BY <1>1, <3>1
  <2> QED
    BY <2>1, <2>2, <2>3, <2>4, <2>7, <2>8, GoesOn
<1>9. CASE SweepLoad(w)
  <2>1. /\ SameOffer /\ SameIntents /\ Money(rto) /\ Waits(rto) /\ rto'.status = rto.status
        /\ \/ Goes(w, "load", "idle")
           \/ Goes(w, "load", "charge") /\ task'[w].doc = Counts
    BY <1>1, <1>9, SweepLoadEffect
  <2>2. CASE Goes(w, "load", "idle")
    BY <1>2, <1>4, <2>1, <2>2 DEF Money
  <2>3. CASE Goes(w, "load", "charge") /\ task'[w].doc = Counts
    <3>1. rto.status # "none"
      BY <2>3, BoundBy DEF Goes
    <3>2. Counts.paid = rto.paid /\ Counts.credited = rto.credited
      BY DEF Counts
    <3> QED
      BY <1>2, <2>1, <2>3, <3>1, <3>2, GoesOnQuietly DEF Money
  <2> QED
    BY <2>1, <2>2, <2>3
<1>10. CASE SweepCharge(w)
  BY <1>1, <1>5, <1>10, SweepChargeEffect, AddedKept
<1>11. CASE ClaimInstalment(w)
  BY <1>1, <1>2, <1>5, <1>11, ClaimInstalmentEffect
<1>12. CASE BookPayoff(w)
  BY <1>1, <1>2, <1>5, <1>12, BookPayoffEffect
<1>13. CASE BookInstalment(w)
  <2>1. /\ SameOffer /\ SameRto /\ SameIntents
        /\ \/ Goes(w, "book", "claim_instalment") /\ task'[w].doc = task[w].doc
           \/ Goes(w, "book", "clear") \/ Goes(w, "book", "idle")
    BY <1>1, <1>13, BookInstalmentEffect
  <2> QED
    BY <1>2, <1>3, <1>4, <1>5, <2>1 DEF Money
<1>14. CASE SweepChallenged(w)
  BY <1>1, <1>6, <1>14, SweepChallengedEffect DEF Kinds
<1>15. CASE OpenIntent(w)
  <2>1. PICK kind \in {"installment", "payoff"}, n \in 0..Instalments, amount \in Nat :
          /\ Goes(w, "open_intent", "idle") /\ SameOffer /\ Money(rto)
          /\ rtoIntents' = Opened(kind, n, amount, "open")
          /\ [kind |-> kind, n |-> n, amount |-> amount, status |-> "open"] \in Intents
          /\ rto'.pending = NextIntent /\ rto'.kind = kind /\ rto'.status = rto.status
    BY <1>1, <1>15, OpenIntentEffect
  <2>2. kind \in Kinds(rto'.kind)
    BY <2>1 DEF Kinds
  <2> QED
    BY <1>6, <2>1, <2>2
<1>16. CASE SweepMissed(w) \/ SweepThrows(w)
  <2>1. /\ Goes(w, task[w].step, "idle") /\ task[w].step \notin AcceptSteps \cup {"idle"}
        /\ SameOffer /\ Money(rto) /\ Waits(rto) /\ IntentsKept
        /\ rto'.status = rto.status \/ rto'.status = "grace"
    BY <1>1, <1>2, <1>16, SweepMissedEffect, SweepThrowsEffect, AddedKept DEF Goes
  <2> QED
    BY <1>4, <2>1 DEF Money
<1>17. CASE AttachCard(w)
  BY <1>1, <1>2, <1>4, <1>17, AttachCardEffect DEF Money
<1>18. CASE BookDeposit(w)
  BY <1>1, <1>2, <1>3, <1>4, <1>18, BookDepositEffect DEF Money
<1>19. CASE CreditDeposit(w)
  BY <1>1, <1>2, <1>4, <1>19, CreditDepositEffect
<1>20. CASE ApplyInstalment(w)
  BY <1>1, <1>2, <1>4, <1>20, ApplyInstalmentEffect
<1>21. CASE Complete(w)
  <2>1. /\ SameOffer /\ SameIntents /\ Waits(rto)
        /\ rto' = [rto EXCEPT !.status = "completed", !.proof = TRUE]
        /\ Goes(w, "complete", "clear") \/ Goes(w, "complete", "idle")
    BY <1>1, <1>21, CompleteEffect
  <2>2. rto'.deposit = rto.deposit /\ rto'.status # "none"
    BY <1>1, <2>1 DEF Typed, Agreements
  <2> QED
    BY <1>2, <1>4, <2>1, <2>2
<1>22. CASE CreditPayoff(w)
  BY <1>1, <1>2, <1>4, <1>22, CreditPayoffEffect
<1>23. CASE RemedyApply(w)
  BY <1>1, <1>2, <1>4, <1>23, RemedyApplyEffect DEF Money
<1>24. CASE ReturnSettle(w)
  BY <1>1, <1>2, <1>4, <1>24, ReturnSettleEffect DEF Money
<1>25. CASE ClearAsk(w)
  <2>1. /\ Goes(w, "clear", "idle") /\ SameOffer /\ SameIntents /\ Money(rto)
        /\ rto'.status = rto.status
        /\ rto'.pending = rto.pending /\ rto'.kind = rto.kind
    BY <1>1, <1>25, ClearAskEffect
  <2>2. Typed' /\ Moves(w) /\ task[w].step = "clear" /\ task'[w].step = "idle"
    BY <2>1 DEF Goes
  <2>3. rto.status # "none"
    BY <2>2, BoundBy
  <2>4. Awaited'
    BY <2>1 DEF IInv, Awaited, SameIntents, Money
  <2>5. Current'
    BY <2>1, <2>2, CurrentKept DEF IInv, Money
  <2> QED
    BY <2>1, <2>2, <2>3, <2>4, <2>5, GoesOn
<1> QED
  BY <1>7, <1>8, <1>9, <1>10, <1>11, <1>12, <1>13, <1>14, <1>15, <1>16, <1>17, <1>18, <1>19,
     <1>20, <1>21, <1>22, <1>23, <1>24, <1>25 DEF Handles

LEMMA RtoCrashStep ==
  ASSUME IInv, NEW w \in Workers, RtoCrash(w)
  PROVE  IInv'
<1>1. /\ Goes(w, task[w].step, "idle") /\ ~Idle(w)
      /\ SameOffer /\ SameRto /\ SameIntents /\ schedule' = schedule
  BY CrashEffect DEF IInv
<1>2. Typed' /\ Moves(w) /\ task'[w].step = "idle"
  BY <1>1 DEF Goes
<1>3. Unbound' /\ Unlisted'
  BY <1>1, <1>2 DEF IInv, Unbound, Unlisted, Moves, SameRto, SameIntents, SameOffer, Idle
<1>4. OneAccept'
  BY <1>1, <1>2 DEF IInv, OneAccept, Moves, SameRto, AcceptSteps
<1>5. \A S : Spared(S)' => Spared(S)
  BY <1>2, SparedBefore DEF Moves
<1>6. Stocked'
  <2>1. Creating' => Creating
    BY <1>2 DEF Moves, Creating
  <2>2. offer.sold \in Nat /\ offer.left \in Nat /\ Units \in Nat
    BY RtoAssumption DEF IInv, Typed, Offers
  <2> QED
    BY <1>1, <1>5, <2>1, <2>2 DEF IInv, Stocked, SameOffer, SameRto
<1>7. Gated' /\ Alone'
  BY <1>1, <1>2, <1>5 DEF IInv, Gated, Alone, Moves, SameOffer, SameRto, AllIdle, Idle, AcceptSteps
<1>8. Current'
  BY <1>1, <1>2, CurrentKept DEF IInv, LatestSteps, PayoffSteps, SameRto
<1>9. Awaited'
  BY <1>1 DEF IInv, Awaited, SameRto, SameIntents
<1> QED
  BY <1>2, <1>3, <1>4, <1>6, <1>7, <1>8, <1>9 DEF IInv

\* The steps that leave every task as it was.
LEMMA WatchStep ==
  ASSUME IInv,
         \/ Escalate
         \/ \E w \in Workers : PartialPayment(w) \/ Reinstate(w)
         \/ \E i \in DOMAIN rtoIntents : Confirm(i)
  PROVE  IInv'
<1>1. CASE Escalate
  <2>1. /\ Watches /\ SameOffer /\ SameIntents /\ Money(rto) /\ Waits(rto)
        /\ rto.status = "grace" /\ rto'.status = "late"
    BY <1>1, EscalateEffect DEF IInv
  <2>2. Awaited'
    BY <2>1, AwaitedKept, SameIntentsKept DEF IInv, Money
  <2> QED
    BY <2>1, <2>2, LooksOn DEF Money
<1>2. ASSUME NEW w \in Workers, PartialPayment(w)
      PROVE  IInv'
  <2>1. /\ Watches /\ SameOffer /\ Money(rto) /\ Waits(rto) /\ rto'.status = rto.status
        /\ Running /\ IntentsKept
    BY <1>2, PartialPaymentEffect, AddedKept DEF IInv
  <2>2. Awaited'
    BY <2>1, AwaitedKept DEF IInv, Money
  <2> QED
    BY <2>1, <2>2, LooksOn DEF Money, Running
<1>3. ASSUME NEW w \in Workers, Reinstate(w)
      PROVE  IInv'
  <2>1. /\ Watches /\ SameOffer /\ SameIntents /\ Money(rto) /\ Waits(rto)
        /\ rto.status # "none" /\ rto'.status # "none"
    BY <1>3, ReinstateEffect DEF IInv
  <2>2. Awaited'
    BY <2>1, AwaitedKept, SameIntentsKept DEF IInv, Money
  <2> QED
    BY <2>1, <2>2, LooksOn DEF Money
<1>4. ASSUME NEW i \in DOMAIN rtoIntents, Confirm(i)
      PROVE  IInv'
  <2>1. /\ Watches /\ SameOffer /\ SameRto
        /\ rtoIntents' = [rtoIntents EXCEPT ![i] = [@ EXCEPT !.status = "succeeded"]]
    BY <1>4, ConfirmEffect DEF IInv
  <2>2. IntentsKept
    <3>1. rtoIntents[i] \in Intents
      BY DEF IInv, Typed
    <3> DEFINE r == [rtoIntents[i] EXCEPT !.status = "succeeded"]
    <3>2. r.kind = rtoIntents[i].kind /\ r.amount = rtoIntents[i].amount
      BY <3>1 DEF Intents
    <3>3. rtoIntents' = [rtoIntents EXCEPT ![i] = r]
      BY <2>1
    <3> HIDE DEF r
    <3> QED
      BY <3>2, <3>3 DEF IntentsKept
  <2>3. Awaited'
    BY <2>1, <2>2, AwaitedKept, SameRtoKept DEF IInv, Money
  <2>4. rto.status # "none"
    <3>1. i \in 1..Len(rtoIntents) /\ Len(rtoIntents) \in Nat
      BY DEF IInv, Typed
    <3>2. rtoIntents # <<>>
      BY <3>1
    <3> QED
      BY <3>2 DEF IInv, Unbound
  <2> QED
    BY <2>1, <2>3, <2>4, LooksOn DEF SameRto
<1> QED
  BY <1>1, <1>2, <1>3, <1>4

\* What the seller, the operators and other customers do to the offer.
LEMMA OfferSteps ==
  ASSUME IInv,
         \/ Publish \/ TakenByAnother
         \/ \E s \in {"active", "paused", "withdrawn"} : SetOffer(s)
         \/ \E g \in Gates : CloseGate(g)
  PROVE  IInv'
<1>1. /\ AtOnce
      /\ SameRto /\ SameIntents /\ schedule' = schedule
  BY DEF Publish, TakenByAnother, SetOffer, CloseGate, SameRto, SameIntents
<1>2. task' = task /\ befell \subseteq befell' /\ (Spared({"overlap"})' => AllIdle)
  BY <1>1, AtOnceStays
<1>3. /\ offer \in Offers /\ Units \in Nat /\ offer.sold \in Nat /\ offer.left \in Nat
      /\ offer.gates \subseteq Gates
  BY RtoAssumption DEF IInv, Typed, Offers
<1>4. \A S : Spared(S)' => Spared(S)
  BY <1>2, SparedBefore
<1>5. Unbound' /\ OneAccept'
  BY <1>1, <1>2 DEF IInv, Unbound, OneAccept, SameRto, SameIntents
<1>6. Alone' /\ Current' /\ Awaited'
  BY <1>1, <1>2, <1>4 DEF IInv, Alone, Current, Awaited, SameRto, SameIntents, Idle
<1>7. Creating' <=> Creating
  BY <1>2 DEF Creating
<1>8. ASSUME offer' \in Offers, Unlisted', Stocked', Gated'
      PROVE  IInv'
  BY <1>1, <1>2, <1>5, <1>6, <1>8 DEF IInv, Typed, SameRto, SameIntents
<1>9. CASE Publish
  <2>1. /\ offer.status = "none" /\ offer.gates = Gates
        /\ offer' = [offer EXCEPT !.status = "active", !.left = Units]
    BY <1>9 DEF Publish
  <2>2. /\ offer' \in Offers /\ offer'.gates = Gates /\ offer'.status = "active"
        /\ offer'.left = Units /\ offer'.sold = offer.sold
    BY <1>3, <2>1 DEF Offers
  <2>3. offer.sold = 0 /\ rto.status = "none" /\ ~Creating
    BY <2>1 DEF IInv, Unlisted, Creating, Idle
  <2> QED
    BY <1>1, <1>3, <1>7, <1>8, <2>2, <2>3 DEF Unlisted, Stocked, Gated, SameRto
<1>10. CASE TakenByAnother
  <2>1. /\ offer.status = "active" /\ offer.left > 0
        /\ offer' = [offer EXCEPT !.left = @ - 1, !.sold = @ + 1]
    BY <1>10 DEF TakenByAnother, Claimable
  <2>2. /\ offer' \in Offers /\ offer'.gates = offer.gates /\ offer'.status = "active"
        /\ offer'.left = offer.left - 1 /\ offer'.sold = offer.sold + 1
    <3>1. offer.left - 1 \in Nat /\ offer.sold + 1 \in Nat
      BY <1>3, <2>1
    <3> QED
      BY <1>3, <2>1, <3>1 DEF Offers
  <2>3. Unlisted'
    BY <2>2 DEF Unlisted
  <2>4. Gated'
    BY <1>1, <1>2, <1>4, <2>2 DEF IInv, Gated, SameRto
  <2>5. Stocked'
    BY <1>1, <1>3, <1>4, <1>7, <2>2 DEF IInv, Stocked, SameRto
  <2> QED
    BY <1>8, <2>2, <2>3, <2>4, <2>5
<1>11. ASSUME NEW s \in {"active", "paused", "withdrawn"}, SetOffer(s)
       PROVE  IInv'
  <2>1. offer' = [offer EXCEPT !.status = s]
    BY <1>11 DEF SetOffer
  <2>2. /\ offer' \in Offers /\ offer'.gates = offer.gates /\ offer'.status # "none"
        /\ offer'.left = offer.left /\ offer'.sold = offer.sold
    BY <1>3, <2>1 DEF Offers
  <2>3. Unlisted'
    BY <2>2 DEF Unlisted
  <2>4. Gated'
    BY <1>1, <1>2, <1>4, <2>2 DEF IInv, Gated, SameRto
  <2>5. Stocked'
    BY <1>1, <1>4, <1>7, <2>2 DEF IInv, Stocked, SameRto
  <2> QED
    BY <1>8, <2>2, <2>3, <2>4, <2>5
<1>12. ASSUME NEW g \in Gates, CloseGate(g)
       PROVE  IInv'
  <2>1. /\ offer' = [offer EXCEPT !.gates = @ \ {g}]
        /\ offer.status # "none" /\ rto.status = "none"
    BY <1>12 DEF CloseGate
  <2>2. /\ offer' \in Offers /\ offer'.status = offer.status
        /\ offer'.left = offer.left /\ offer'.sold = offer.sold
    BY <1>3, <2>1 DEF Offers
  <2>3. Unlisted'
    BY <2>1, <2>2 DEF Unlisted
  <2>4. Gated'
    BY <1>1, <1>2, <2>1 DEF Gated, SameRto, AllIdle, Idle, AcceptSteps
  <2>5. Stocked'
    BY <1>1, <1>4, <1>7, <2>2 DEF IInv, Stocked, SameRto
  <2> QED
    BY <1>8, <2>2, <2>3, <2>4, <2>5
<1> QED
  BY <1>9, <1>10, <1>11, <1>12

LEMMA InitInvariant == HandlersInit /\ RtoInit => IInv
<1> SUFFICES ASSUME HandlersInit, RtoInit
             PROVE  IInv
  OBVIOUS
<1> USE DEF HandlersInit, RtoInit
<1>1. /\ task = [w \in Workers |-> Resting] /\ \A w \in Workers : task[w].step = "idle"
      /\ befell = {}
  BY DEF Resting
<1>2. /\ rto = NoAgreement /\ rto.status = "none" /\ rto.pending = 0
      /\ rtoIntents = <<>>
  BY DEF NoAgreement
<1>3. Typed
  <2>1. offer \in Offers
    BY DEF Offers
  <2>2. 0 \in 0..Instalments
    BY RtoAssumption
  <2>3. rto \in Agreements
    BY <1>2, <2>2 DEF NoAgreement, Agreements
  <2>4. task \in [Workers -> Tasks]
    BY <1>1, RestingIsTask
  <2> QED
    BY <1>2, <2>1, <2>3, <2>4 DEF Typed
<1>4. Unbound /\ OneAccept /\ Unlisted
  BY <1>1, <1>2 DEF Unbound, OneAccept, Unlisted, AcceptSteps, Idle
<1>5. Stocked
  <2>1. ~Creating
    BY <1>1 DEF Creating
  <2>2. offer.sold = 0 /\ offer.left = 0 /\ Units \in Nat
    BY RtoAssumption
  <2> QED
    BY <1>2, <2>1, <2>2 DEF Stocked
<1>6. Gated /\ Alone /\ Current /\ Awaited
  BY <1>1, <1>2 DEF Gated, Alone, Current, Awaited, AcceptSteps, LatestSteps, PayoffSteps, Idle
<1> QED
  BY <1>3, <1>4, <1>5, <1>6 DEF IInv

\* The disjuncts of Next, by what they act on.
LEMMA NextCases ==
  ASSUME RtoNext
  PROVE  \/ Publish \/ TakenByAnother
         \/ \E s \in {"active", "paused", "withdrawn"} : SetOffer(s)
         \/ \E g \in Gates : CloseGate(g)
         \/ Escalate
         \/ \E i \in DOMAIN rtoIntents : Confirm(i)
         \/ \E w \in Workers :
              \/ PartialPayment(w) \/ Reinstate(w) \/ Handles(w) \/ RtoCrash(w)
              \/ AcceptBegin(w) \/ AcceptClaim(w) \/ AcceptCharge(w) \/ AcceptRefused(w)
              \/ \E d \in Deposits : AcceptCreate(w, d)
BY DEF RtoNext, RtoStart, RtoContinue, Handles

LEMMA Stutter == IInv /\ UNCHANGED rtoVars => IInv'
BY DEF IInv, rtoVars, Typed, Unbound, OneAccept, Unlisted, Stocked, Creating, Gated, Alone, Current,
       Awaited, Spared, Idle, Kinds

LEMMA NextKeepsInvariant == IInv /\ [RtoNext]_rtoVars => IInv'
<1>1. ASSUME IInv, RtoNext
      PROVE  IInv'
  <2>1. CASE \/ Publish \/ TakenByAnother
             \/ \E s \in {"active", "paused", "withdrawn"} : SetOffer(s)
             \/ \E g \in Gates : CloseGate(g)
    BY <1>1, <2>1, OfferSteps
  <2>2. CASE \/ Escalate
             \/ \E w \in Workers : PartialPayment(w) \/ Reinstate(w)
             \/ \E i \in DOMAIN rtoIntents : Confirm(i)
    BY <1>1, <2>2, WatchStep
  <2>3. ASSUME NEW w \in Workers,
               \/ Handles(w) \/ RtoCrash(w)
               \/ AcceptBegin(w) \/ AcceptClaim(w) \/ AcceptCharge(w) \/ AcceptRefused(w)
               \/ \E d \in Deposits : AcceptCreate(w, d)
        PROVE  IInv'
    BY <1>1, <2>3, HandlesStep, RtoCrashStep, AcceptBeginStep, AcceptClaimStep, AcceptChargeStep,
       AcceptRefusedStep, AcceptCreateStep
  <2> QED
    BY <1>1, <2>1, <2>2, <2>3, NextCases
<1> QED
  BY <1>1, Stutter

LEMMA Invariant == RtoSpec => []IInv
BY InitInvariant, NextKeepsInvariant, PTL DEF RtoSpec

-----------------------------------------------------------------------------
(***************************************************************************)
(* What is settled: its sum, and how a step moves it.                      *)
(***************************************************************************)

LEMMA SettledType ==
  ASSUME Typed
  PROVE  /\ IsFiniteSet(DOMAIN rtoIntents)
         /\ DOMAIN Settled = DOMAIN rtoIntents
         /\ \A i \in DOMAIN rtoIntents : Settled[i] \in Nat
         /\ Sigma = SumFunctionOnSet(Settled, DOMAIN rtoIntents)
         /\ Sigma \in Nat
<1>1. DOMAIN rtoIntents = 1..Len(rtoIntents) /\ Len(rtoIntents) \in Nat
  BY DEF Typed
<1>2. IsFiniteSet(DOMAIN rtoIntents)
  BY <1>1, FS_Interval
<1>3. DOMAIN Settled = DOMAIN rtoIntents
  BY DEF Settled
<1>4. \A i \in DOMAIN rtoIntents : Settled[i] \in Nat
  <2> TAKE i \in DOMAIN rtoIntents
  <2>1. rtoIntents[i] \in Intents
    BY DEF Typed
  <2>2. EquityOf(rtoIntents[i]) \in Nat
    BY <2>1 DEF EquityOf, Intents
  <2> QED
    BY <2>2 DEF Settled
<1>5. Sigma = SumFunctionOnSet(Settled, DOMAIN rtoIntents)
  BY <1>3 DEF Sigma, SumFunction
<1>6. SumFunctionOnSet(Settled, DOMAIN rtoIntents) \in Nat
  BY <1>2, <1>4, SumNotNegative
<1> QED
  BY <1>2, <1>3, <1>4, <1>5, <1>6

LEMMA SettledNext ==
  ASSUME Typed'
  PROVE  /\ IsFiniteSet(DOMAIN rtoIntents')
         /\ \A i \in DOMAIN rtoIntents' : Settled'[i] \in Nat
         /\ Sigma' = SumFunctionOnSet(Settled', DOMAIN rtoIntents')
         /\ Sigma' \in Nat
<1>1. DOMAIN rtoIntents' = 1..Len(rtoIntents') /\ Len(rtoIntents') \in Nat
  BY DEF Typed
<1>2. IsFiniteSet(DOMAIN rtoIntents')
  BY <1>1, FS_Interval
<1>3. DOMAIN (Settled') = DOMAIN rtoIntents'
  BY DEF Settled
<1>4. \A i \in DOMAIN rtoIntents' : Settled'[i] \in Nat
  <2> TAKE i \in DOMAIN rtoIntents'
  <2>1. rtoIntents'[i] \in Intents
    BY DEF Typed
  <2>2. EquityOf(rtoIntents'[i]) \in Nat
    BY <2>1 DEF EquityOf, Intents
  <2> QED
    BY <2>2 DEF Settled
<1>5. Sigma' = SumFunctionOnSet(Settled', DOMAIN rtoIntents')
  BY <1>3 DEF Sigma, SumFunction
<1>6. SumFunctionOnSet(Settled', DOMAIN rtoIntents') \in Nat
  BY <1>2, <1>4, SumNotNegative
<1> QED
  BY <1>2, <1>4, <1>5, <1>6

LEMMA SigmaSame ==
  ASSUME SameIntents, rto'.pending = rto.pending
  PROVE  Sigma' = Sigma
BY DEF Sigma, Settled, SameIntents

\* Only intent j counts for more, by d at least.
LEMMA SigmaGrows ==
  ASSUME Typed, Typed', NEW j \in DOMAIN rtoIntents', NEW d \in Nat,
         DOMAIN rtoIntents \subseteq DOMAIN rtoIntents',
         DOMAIN rtoIntents' \ {j} \subseteq DOMAIN rtoIntents,
         \A i \in DOMAIN rtoIntents \ {j} : Settled[i] <= Settled'[i],
         j \in DOMAIN rtoIntents => Settled[j] + d <= Settled'[j],
         j \notin DOMAIN rtoIntents => d <= Settled'[j]
  PROVE  Sigma' >= Sigma + d
<1> DEFINE S == DOMAIN rtoIntents
           T == DOMAIN rtoIntents'
<1>1. IsFiniteSet(T) /\ \A i \in T : Settled'[i] \in Int
  BY SettledNext
<1>2. \A i \in S : Settled[i] \in Int
  BY SettledType
<1>3. Settled'[j] >= (IF j \in S THEN Settled[j] ELSE 0) + d
  BY <1>1, <1>2
<1>4. SumFunctionOnSet(Settled', T) >= SumFunctionOnSet(Settled, S) + d
  <2> DEFINE v == Settled
             u == Settled'
  <2>1. /\ S \in SUBSET T /\ T \ {j} \subseteq S /\ j \in T /\ d \in Int
        /\ \A i \in S : v[i] \in Int
        /\ \A i \in T : u[i] \in Int
        /\ \A i \in S \ {j} : v[i] <= u[i]
        /\ u[j] >= (IF j \in S THEN v[j] ELSE 0) + d
    BY <1>1, <1>2, <1>3
  <2> HIDE DEF v, u, S, T
  <2>2. SumFunctionOnSet(u, T) >= SumFunctionOnSet(v, S) + d
    BY <1>1, <2>1, SumGrowsAt
  <2> QED
    BY <2>2 DEF v, u, S, T
<1> QED
  BY <1>4, SettledType, SettledNext

\* An intent is added, and may be awaited: what was settled still is, and a charge that
\* went through at once counts.
LEMMA SigmaAdded ==
  ASSUME Typed, Typed', Awaited, NEW kind, NEW n, NEW amount, NEW status,
         [kind |-> kind, n |-> n, amount |-> amount, status |-> status] \in Intents,
         rtoIntents' = Opened(kind, n, amount, status),
         rto'.pending \in {rto.pending, NextIntent},
         NEW d \in Nat,
         d = 0 \/ (d = 1 /\ kind = "sweep" /\ status = "succeeded" /\ rto'.pending = rto.pending)
  PROVE  Sigma' >= Sigma + d
<1> DEFINE j == NextIntent
           r == [kind |-> kind, n |-> n, amount |-> amount, status |-> status]
<1>1. /\ DOMAIN rtoIntents' = DOMAIN rtoIntents \cup {j}
      /\ j \in Nat \ {0} /\ j \notin DOMAIN rtoIntents
      /\ \A i \in DOMAIN rtoIntents : rtoIntents'[i] = rtoIntents[i]
      /\ rtoIntents'[j] = r
  <2>1. r \in Intents /\ rtoIntents' = Opened(kind, n, amount, status)
    OBVIOUS
  <2>2. DOMAIN rtoIntents' = DOMAIN rtoIntents \cup {NextIntent}
    BY <2>1, IntentAdded
  <2>3. NextIntent \in Nat \ {0} /\ NextIntent \notin DOMAIN rtoIntents
    BY <2>1, IntentAdded
  <2>4. \A i \in DOMAIN rtoIntents : rtoIntents'[i] = rtoIntents[i]
    BY <2>1, IntentAdded
  <2>5. rtoIntents'[NextIntent] = r
    BY <2>1, IntentAdded
  <2> QED
    BY <2>2, <2>3, <2>4, <2>5
<1>6. rtoIntents'[j].kind = kind /\ rtoIntents'[j].status = status
  BY <1>1
<1>2. rto.pending # j
  BY <1>1 DEF Awaited
<1> HIDE DEF j
<1>3. \A i \in DOMAIN rtoIntents : rto'.pending = i => rto.pending = i
  BY <1>1 DEF j
<1>4. \A i \in DOMAIN rtoIntents : Settled[i] <= Settled'[i]
  <2> TAKE i \in DOMAIN rtoIntents
  <2>1. Settled[i] \in Nat /\ Settled'[i] \in Nat
    BY <1>1, SettledType, SettledNext
  <2>2. Settled[i] = 0 \/ Settled'[i] = Settled[i]
    BY <1>1, <1>3 DEF Settled
  <2> QED
    BY <2>1, <2>2
<1>5. d <= Settled'[j]
  <2>1. Settled'[j] \in Nat
    BY <1>1, SettledNext
  <2>2. CASE d = 0
    BY <2>1, <2>2
  <2>3. CASE d = 1 /\ kind = "sweep" /\ status = "succeeded" /\ rto'.pending = rto.pending
    <3>1. Settled'[j] = 1
      BY <1>1, <1>2, <1>6, <2>3 DEF Settled, EquityOf
    <3> QED
      BY <2>3, <3>1
  <2> QED
    BY <2>2, <2>3
<1> QED
  BY <1>1, <1>4, <1>5, SigmaGrows

\* The awaited payment of intent i is claimed.
LEMMA SigmaClaimed ==
  ASSUME Typed, Typed', SameIntents, NEW i \in DOMAIN rtoIntents,
         rto.pending = i, rto'.pending = 0, rtoIntents[i].status = "succeeded"
  PROVE  Sigma' >= Sigma + EquityOf(rtoIntents[i])
<1>1. rtoIntents' = rtoIntents /\ 0 \notin DOMAIN rtoIntents
  BY DEF SameIntents, Typed
<1>2. \A k \in DOMAIN rtoIntents : Settled[k] \in Nat /\ Settled'[k] \in Nat
  BY <1>1, SettledType, SettledNext
<1>3. Settled[i] = 0 /\ Settled'[i] = EquityOf(rtoIntents[i])
  BY <1>1 DEF Settled
<1>4. \A k \in DOMAIN rtoIntents \ {i} : Settled'[k] = Settled[k]
  <2> TAKE k \in DOMAIN rtoIntents \ {i}
  <2>1. rto.pending # k /\ rto'.pending # k
    BY <1>1
  <2>2. k \in DOMAIN rtoIntents /\ k \in DOMAIN rtoIntents'
    BY <1>1
  <2> QED
    BY <1>1, <2>1, <2>2 DEF Settled
<1>5. EquityOf(rtoIntents[i]) \in Nat
  BY <1>2, <1>3
<1> DEFINE d == EquityOf(rtoIntents[i])
<1>6. d \in Nat /\ Settled[i] + d <= Settled'[i]
  BY <1>2, <1>3, <1>5
<1> HIDE DEF d
<1>7. Sigma' >= Sigma + d
  BY <1>1, <1>2, <1>4, <1>6, SigmaGrows
<1> QED
  BY <1>7 DEF d

\* The customer confirms an intent.
LEMMA SigmaConfirmed ==
  ASSUME Typed, Typed', NEW i \in DOMAIN rtoIntents, rto'.pending = rto.pending,
         rtoIntents[i].status = "open",
         rtoIntents' = [rtoIntents EXCEPT ![i] = [@ EXCEPT !.status = "succeeded"]]
  PROVE  Sigma' >= Sigma
<1>1. DOMAIN rtoIntents' = DOMAIN rtoIntents /\ \A k \in DOMAIN rtoIntents \ {i} : rtoIntents'[k] = rtoIntents[k]
  OBVIOUS
<1>2. \A k \in DOMAIN rtoIntents : Settled[k] \in Nat /\ Settled'[k] \in Nat
  BY <1>1, SettledType, SettledNext
<1>3. Settled[i] = 0
  BY DEF Settled
<1>4. \A k \in DOMAIN rtoIntents \ {i} : Settled'[k] = Settled[k]
  BY <1>1 DEF Settled
<1>5. Settled[i] + 0 <= Settled'[i]
  BY <1>2, <1>3
<1>6. Sigma' >= Sigma + 0
  BY <1>1, <1>2, <1>4, <1>5, SigmaGrows
<1> QED
  BY <1>6, SettledType, SettledNext

-----------------------------------------------------------------------------
(***************************************************************************)
(* What is owned has been earned: the frame.                               *)
(***************************************************************************)

LEMMA HandCases ==
  ASSUME NEW t, NEW deposit
  PROVE  /\ t.step \in {"book", "claim_instalment", "apply"} => InHandOf(t, deposit) = 1
         /\ t.step \in {"book_deposit", "credit_deposit"} => InHandOf(t, deposit) = deposit
         /\ t.step \in PayoffSteps => InHandOf(t, deposit) = t.amount
         /\ t.step \notin {"book", "claim_instalment", "apply", "book_deposit", "credit_deposit"}
                            \cup PayoffSteps => InHandOf(t, deposit) = 0
BY DEF InHandOf, PayoffSteps

LEMMA UndisturbedBefore ==
  ASSUME befell \subseteq befell', Undisturbed'
  PROVE  Undisturbed /\ Spared({"overlap"}) /\ Spared({"overlap"})'
BY DEF Undisturbed, Spared

\* Without overlaps the others rest while a handler takes a step.
LEMMA OthersRest ==
  ASSUME Alone, NEW w \in Workers, Moves(w), Spared({"overlap"})'
  PROVE  \A v \in Workers \ {w} : Idle(v) /\ task'[v] = task[v]
<1>1. Spared({"overlap"})
  BY SparedBefore DEF Moves
<1>2. CASE ~Idle(w)
  BY <1>1, <1>2 DEF Alone, Moves
<1>3. CASE AllIdle
  BY <1>3 DEF AllIdle, Moves
<1> QED
  BY <1>2, <1>3 DEF Moves

\* Who rests has nothing in hand.
LEMMA RestingEarned ==
  ASSUME Typed, Backed, NEW v \in Workers, Idle(v)
  PROVE  EarnedBy(v)
<1>1. InHand(v) = 0
  BY HandCases DEF InHand, Idle, PayoffSteps
<1>2. rto.credited \in Nat
  BY DEF Typed, Agreements
<1>3. Sigma >= rto.credited + InHand(v)
  BY <1>1, <1>2 DEF Backed
<1> QED
  BY <1>3 DEF EarnedBy, Idle, Depositing, LatestSteps, PayoffSteps

LEMMA RestingEarnedNext ==
  ASSUME Typed', Backed', NEW v \in Workers, task'[v].step = "idle"
  PROVE  EarnedBy(v)'
<1>1. InHand(v)' = 0
  BY HandCases DEF InHand, PayoffSteps
<1>2. rto'.credited \in Nat
  BY DEF Typed, Agreements
<1>3. Sigma' >= rto'.credited + InHand(v)'
  BY <1>1, <1>2 DEF Backed
<1> QED
  BY <1>3 DEF EarnedBy, Depositing, LatestSteps, PayoffSteps

\* It is enough to look at the handler that takes the step.
LEMMA EarnedGoes ==
  ASSUME IInv, Earned, NEW w \in Workers, Typed', Moves(w),
         Undisturbed' /\ Enough(w) => Enough(w)'
  PROVE  Earned'
<1> SUFFICES ASSUME Undisturbed'
             PROVE  /\ \A v \in Workers : EarnedBy(v)'
                    /\ Credited' \/ \E v \in Workers : task'[v].step \in Depositing
                    /\ Backed'
  BY DEF Earned
<1>1. Undisturbed /\ Spared({"overlap"})'
  BY UndisturbedBefore DEF Moves
<1>2. \A v \in Workers \ {w} : Idle(v) /\ task'[v] = task[v]
  BY <1>1, OthersRest DEF IInv
<1>3. Enough(w)
  <2>1. EarnedBy(w) /\ Backed /\ (Credited \/ \E v \in Workers : task[v].step \in Depositing)
    BY <1>1 DEF Earned
  <2>2. \A v \in Workers \ {w} : task[v].step \notin Depositing
    BY <1>2 DEF Idle, Depositing
  <2> QED
    BY <2>1, <2>2 DEF Enough
<1>4. Enough(w)'
  BY <1>3
<1>5. EarnedBy(w)' /\ Backed' /\ (Credited' \/ task'[w].step \in Depositing)
  BY <1>4 DEF Enough
<1>6. ASSUME NEW v \in Workers \ {w}
      PROVE  EarnedBy(v)'
  <2>1. task'[v].step = "idle"
    BY <1>2 DEF Idle
  <2> QED
    BY <1>5, <2>1, RestingEarnedNext
<1> QED
  BY <1>5, <1>6

\* No payoff is among the intents that were not there before.
NoNewPayoff ==
  \A i \in DOMAIN rtoIntents' : rtoIntents'[i].kind = "payoff" =>
    /\ i \in DOMAIN rtoIntents /\ rtoIntents[i].kind = "payoff"
    /\ rtoIntents[i].amount = rtoIntents'[i].amount

\* The money of the agreement and what it waits for stay, the payments at most grow.
SameMoney == Money(rto) /\ rto'.kind = rto.kind /\ Sigma' >= Sigma /\ NoNewPayoff

LEMMA BackedKept ==
  ASSUME Typed, Typed', SameMoney, Backed
  PROVE  Backed' /\ Cash' = Cash
<1>1. /\ rto'.credited = rto.credited /\ rto'.paid = rto.paid /\ rto'.deposit = rto.deposit
      /\ rto'.proof = rto.proof /\ rto'.kind = rto.kind
  BY DEF SameMoney, Money
<1>2. Cash' = Cash
  BY <1>1 DEF Cash
<1>3. Sigma' >= rto'.credited
  <2>1. Sigma \in Nat /\ Sigma' \in Nat /\ rto.credited \in Nat
    BY SettledType, SettledNext DEF Typed, Agreements
  <2> QED
    BY <1>1, <2>1 DEF SameMoney, Backed
<1>4. \A i \in DOMAIN rtoIntents' : rtoIntents'[i].kind = "payoff" =>
        rtoIntents'[i].amount + rto'.credited >= Cash'
  BY <1>1, <1>2 DEF SameMoney, NoNewPayoff, Backed
<1> QED
  BY <1>1, <1>2, <1>3, <1>4 DEF Backed

\* The agreement comes to wait for another payment than that of an acceptance.
LEMMA BackedAnew ==
  ASSUME Typed, Typed', Money(rto), rto'.kind # "acceptance", Sigma' >= Sigma, NoNewPayoff, Backed
  PROVE  Backed'
<1>1. /\ rto'.credited = rto.credited /\ rto'.deposit = rto.deposit /\ rto'.proof = rto.proof
      /\ Cash' = Cash
  BY DEF Money, Cash
<1>2. Sigma \in Nat /\ Sigma' \in Nat /\ rto.credited \in Nat
  BY SettledType, SettledNext DEF Typed, Agreements
<1> QED
  BY <1>1, <1>2 DEF Backed, NoNewPayoff

LEMMA CreditedKept ==
  ASSUME SameMoney, Credited
  PROVE  Credited'
BY DEF SameMoney, Money, Credited, Cash

LEMMA QuietMoney ==
  ASSUME SameIntents, Money(rto), rto'.pending = rto.pending, rto'.kind = rto.kind, Typed
  PROVE  SameMoney /\ Sigma' = Sigma
<1>1. Sigma' = Sigma
  BY SigmaSame
<1>2. Sigma \in Nat
  BY SettledType
<1>3. NoNewPayoff
  BY DEF NoNewPayoff, SameIntents
<1> QED
  BY <1>1, <1>2, <1>3 DEF SameMoney

\* An intent that is no payoff is opened, and the agreement may come to wait for it.
LEMMA OpenedMoney ==
  ASSUME Typed, Typed', Awaited, NEW kind, NEW n, NEW amount, NEW status,
         [kind |-> kind, n |-> n, amount |-> amount, status |-> status] \in Intents,
         rtoIntents' = Opened(kind, n, amount, status),
         rto'.pending \in {rto.pending, NextIntent}, kind # "payoff"
  PROVE  Sigma' >= Sigma /\ NoNewPayoff
<1>1. Sigma' >= Sigma + 0
  BY SigmaAdded
<1>2. DOMAIN rtoIntents' = DOMAIN rtoIntents \cup {NextIntent}
  BY IntentAdded
<1>3. \A i \in DOMAIN rtoIntents : rtoIntents'[i] = rtoIntents[i]
  BY IntentAdded
<1>4. rtoIntents'[NextIntent].kind # "payoff"
  BY IntentAdded
<1> HIDE DEF NextIntent
<1>5. NoNewPayoff
  BY <1>2, <1>3, <1>4 DEF NoNewPayoff
<1> QED
  BY <1>1, <1>5, SettledType, SettledNext

\* Steps of a handler that has no payment in hand, and promises none.
Harmless == {"idle", "load", "clear", "remedy", "settle_return", "attach_card", "claim_unit",
             "create_agreement"}

LEMMA HarmlessEnough ==
  ASSUME Typed', Backed', Credited', NEW w \in Workers, task'[w].step \in Harmless
  PROVE  Enough(w)'
<1>1. InHand(w)' = 0
  BY HandCases DEF InHand, PayoffSteps, Harmless
<1>2. rto'.credited \in Nat
  BY DEF Typed, Agreements
<1>3. Sigma' >= rto'.credited + InHand(w)'
  BY <1>1, <1>2 DEF Backed
<1>4. EarnedBy(w)'
  BY <1>3 DEF EarnedBy, Depositing, LatestSteps, PayoffSteps, Harmless
<1> QED
  BY <1>4 DEF Enough

LEMMA QuietEnough ==
  ASSUME Typed, NEW w \in Workers, NEW a, NEW b, Goes(w, a, b), a \notin Depositing,
         b \in Harmless, SameMoney, Enough(w)
  PROVE  Enough(w)'
<1>1. Credited /\ Backed
  BY DEF Enough, Goes
<1>2. Credited' /\ Backed'
  BY <1>1, BackedKept, CreditedKept DEF Goes
<1> QED
  BY <1>2, HarmlessEnough DEF Goes

\* The agreement stays and the handler goes on with what it has in hand.
LEMMA CarriesOn ==
  ASSUME Typed, NEW w \in Workers, NEW a, NEW b, Goes(w, a, b), SameMoney,
         Enough(w), InHand(w)' = InHand(w),
         a \in Depositing <=> b \in Depositing,
         b \in {"book_deposit", "credit_deposit", "complete", "open_intent"}
                 \cup LatestSteps \cup PayoffSteps => rto.kind # "acceptance",
         b \in PayoffSteps \/ (b = "open_intent" /\ task'[w].kind = "payoff") =>
           task'[w].amount + rto.credited >= Cash,
         b = "complete" => rto.credited >= Cash
  PROVE  Enough(w)'
<1>1. EarnedBy(w) /\ Backed /\ (Credited \/ a \in Depositing)
  BY DEF Enough, Goes
<1>2. Backed' /\ Cash' = Cash
  BY <1>1, BackedKept DEF Goes
<1>3. Credited' \/ b \in Depositing
  BY <1>1, CreditedKept
<1>4. rto'.credited = rto.credited /\ rto'.paid = rto.paid /\ rto'.kind = rto.kind
  BY DEF SameMoney, Money
<1>5. b \in Depositing => rto'.credited = 0 /\ rto'.paid = 0
  BY <1>1, <1>4 DEF EarnedBy, Goes
<1>6. Sigma' >= rto'.credited + InHand(w)'
  <2>1. Sigma \in Int /\ Sigma' \in Int /\ Sigma' >= Sigma
    BY SettledType, SettledNext DEF SameMoney, Goes
  <2>2. Sigma >= rto.credited + InHand(w)
    BY <1>1 DEF EarnedBy
  <2>3. rto.credited \in Int /\ InHand(w) \in Int
    <3>1. task[w] \in Tasks /\ rto.credited \in Nat /\ rto.deposit \in Nat
      BY DEF Typed, Agreements
    <3>2. task[w].step \in PayoffSteps => task[w].amount \in Nat
      BY <3>1, TaskForms DEF Payoffs
    <3> QED
      BY <3>1, <3>2, HandCases DEF InHand
  <2> QED
    BY <1>4, <2>1, <2>2, <2>3
<1>7. EarnedBy(w)'
  <2>1. task'[w].step = b
    BY DEF Goes
  <2> QED
    BY <1>2, <1>4, <1>5, <1>6, <2>1 DEF EarnedBy
<1> QED
  BY <1>2, <1>3, <1>7 DEF Enough, Goes

-----------------------------------------------------------------------------
(***************************************************************************)
(* What is owned has been earned: the steps.                               *)
(***************************************************************************)

LEMMA AcceptCreateEnough ==
  ASSUME IInv, NEW w \in Workers, NEW d \in Deposits, AcceptCreate(w, d)
  PROVE  Enough(w)'
<1>1. /\ Goes(w, "create_agreement", "open_charge")
      /\ SameOffer /\ SameBooks /\ SameIntents
      /\ rto' = Accepted(d)
  BY AcceptCreateEffect DEF IInv
<1>2. rto.status = "none"
  BY <1>1 DEF IInv, OneAccept, AcceptSteps, Goes
<1>3. rtoIntents' = <<>>
  BY <1>1, <1>2 DEF IInv, Unbound, SameIntents
<1>4. rto'.credited = 0 /\ rto'.paid = 0 /\ rto'.kind = "none" /\ rto'.proof = FALSE
  BY <1>1 DEF Accepted, NoAgreement
<1>5. Sigma' \in Nat
  BY <1>1, SettledNext DEF Goes
<1>6. InHand(w)' = 0
  BY <1>1, HandCases DEF InHand, PayoffSteps, Goes
<1>7. Backed'
  BY <1>3, <1>4, <1>5 DEF Backed
<1>8. EarnedBy(w)'
  BY <1>1, <1>4, <1>5, <1>6 DEF EarnedBy, LatestSteps, PayoffSteps, Goes
<1> QED
  BY <1>1, <1>7, <1>8 DEF Enough, Depositing, Goes

LEMMA AcceptChargeEnough ==
  ASSUME IInv, NEW w \in Workers, AcceptCharge(w), Enough(w)
  PROVE  Enough(w)'
<1>1. PICK kind \in {"acceptance", "card_setup"} :
        /\ Goes(w, "open_charge", "idle")
        /\ kind = "card_setup" => rto.deposit = 0
        /\ rtoIntents' = Opened(kind, 0, rto.deposit, "open")
        /\ [kind |-> kind, n |-> 0, amount |-> rto.deposit, status |-> "open"] \in Intents
        /\ rto' = [rto EXCEPT !.pending = NextIntent, !.kind = kind]
  BY AcceptChargeEffect DEF IInv
<1>2. rto.credited = 0 /\ rto.paid = 0 /\ Backed
  BY <1>1 DEF Enough, EarnedBy, Depositing, Goes
<1>3. Typed /\ Typed' /\ Awaited
  BY <1>1 DEF IInv, Goes
<1>4. Money(rto) /\ rto'.pending = NextIntent /\ rto'.kind = kind
  BY <1>1, <1>3 DEF Money, Typed, Agreements
<1>5. Sigma' >= Sigma /\ NoNewPayoff
  BY <1>1, <1>3, <1>4, OpenedMoney
<1>6. Sigma' \in Nat
  BY <1>3, SettledNext
<1>7. /\ rto'.credited = 0 /\ rto'.paid = 0 /\ rto'.deposit = rto.deposit /\ rto'.proof = rto.proof
      /\ Cash' = Cash
  BY <1>2, <1>4 DEF Money, Cash
<1>8. Backed'
  BY <1>2, <1>5, <1>6, <1>7 DEF Backed, NoNewPayoff
<1>9. Credited'
  BY <1>1, <1>4, <1>7 DEF Credited
<1> QED
  BY <1>1, <1>3, <1>8, <1>9, HarmlessEnough DEF Harmless, Goes

LEMMA SweepLoadEnough ==
  ASSUME IInv, NEW w \in Workers, SweepLoad(w), Enough(w)
  PROVE  Enough(w)'
<1>1. /\ SameIntents /\ Money(rto) /\ Waits(rto)
      /\ \/ Goes(w, "load", "idle")
         \/ Goes(w, "load", "charge") /\ rto.kind # "acceptance"
  BY SweepLoadEffect DEF IInv
<1>2. SameMoney /\ Typed
  BY <1>1, QuietMoney DEF Waits, IInv
<1>3. CASE Goes(w, "load", "idle")
  BY <1>2, <1>3, QuietEnough DEF Harmless, Depositing
<1>4. CASE Goes(w, "load", "charge") /\ rto.kind # "acceptance"
  <2>1. InHand(w) = 0 /\ InHand(w)' = 0
    BY <1>4, HandCases DEF InHand, PayoffSteps, Goes
  <2> QED
    BY <1>2, <1>4, <2>1, CarriesOn DEF Depositing, PayoffSteps
<1> QED
  BY <1>1, <1>3, <1>4

LEMMA SweepChargeEnough ==
  ASSUME IInv, NEW w \in Workers, SweepCharge(w), Enough(w)
  PROVE  Enough(w)'
<1>1. /\ Goes(w, "charge", "book") /\ SameRto
      /\ rtoIntents' = Opened("sweep", task[w].n, Price, "succeeded")
      /\ [kind |-> "sweep", n |-> task[w].n, amount |-> Price, status |-> "succeeded"] \in Intents
  BY SweepChargeEffect DEF IInv
<1>2. Typed /\ Typed' /\ Awaited /\ Money(rto) /\ Waits(rto)
  BY <1>1, SameRtoKept DEF IInv, Goes
<1>3. rto'.pending = rto.pending
  BY <1>2 DEF Waits
<1> DEFINE n == task[w].n
<1> HIDE DEF n
<1>4. Sigma' >= Sigma + 1
  BY <1>1, <1>2, <1>3, SigmaAdded DEF n
<1>5. Sigma' >= Sigma /\ NoNewPayoff
  BY <1>1, <1>2, <1>3, OpenedMoney DEF n
<1>6. SameMoney
  BY <1>2, <1>5 DEF SameMoney, Waits
<1>7. rto.kind # "acceptance" /\ Credited /\ Backed
  BY <1>1 DEF Enough, EarnedBy, Goes, LatestSteps, Depositing
<1>8. Credited' /\ Backed'
  BY <1>2, <1>6, <1>7, BackedKept, CreditedKept
<1>9. InHand(w)' = 1
  BY <1>1, HandCases DEF InHand, Goes
<1>10. Sigma' >= rto'.credited + InHand(w)'
  <2>1. Sigma \in Nat /\ Sigma' \in Nat /\ rto.credited \in Nat /\ rto'.credited = rto.credited
    BY <1>2, SettledType, SettledNext DEF Typed, Agreements, Money
  <2> QED
    BY <1>4, <1>7, <1>9, <2>1 DEF Backed
<1>11. EarnedBy(w)'
  BY <1>1, <1>2, <1>7, <1>10 DEF EarnedBy, Depositing, PayoffSteps, Goes, Waits
<1> QED
  BY <1>8, <1>11 DEF Enough

LEMMA SweepChallengedEnough ==
  ASSUME IInv, NEW w \in Workers, SweepChallenged(w), Enough(w)
  PROVE  Enough(w)'
<1>1. /\ Goes(w, "charge", "idle") /\ Money(rto)
      /\ rtoIntents' = Opened("sweep", task[w].n, Price, "open")
      /\ [kind |-> "sweep", n |-> task[w].n, amount |-> Price, status |-> "open"] \in Intents
      /\ rto'.pending = NextIntent /\ rto'.kind = "installment"
  BY SweepChallengedEffect DEF IInv
<1>2. Typed /\ Typed' /\ Awaited
  BY <1>1 DEF IInv, Goes
<1> DEFINE n == task[w].n
<1> HIDE DEF n
<1>3. Sigma' >= Sigma /\ NoNewPayoff
  BY <1>1, <1>2, OpenedMoney DEF n
<1>4. rto.kind # "acceptance" /\ Credited /\ Backed
  BY <1>1 DEF Enough, EarnedBy, Goes, LatestSteps, Depositing
<1>5. Backed'
  BY <1>1, <1>2, <1>3, <1>4, BackedAnew
<1>6. Credited'
  BY <1>1, <1>4 DEF Credited, Money, Cash
<1> QED
  BY <1>1, <1>2, <1>5, <1>6, HarmlessEnough DEF Harmless, Goes

LEMMA SweepMissedEnough ==
  ASSUME IInv, NEW w \in Workers, SweepMissed(w), Enough(w)
  PROVE  Enough(w)'
<1>1. /\ Goes(w, "charge", "idle") /\ Money(rto) /\ Waits(rto)
      /\ \/ SameIntents
         \/ /\ rtoIntents' = Opened("sweep", task[w].n, Price, "declined")
            /\ [kind |-> "sweep", n |-> task[w].n, amount |-> Price, status |-> "declined"] \in Intents
  BY SweepMissedEffect DEF IInv
<1>2. Typed /\ Typed' /\ Awaited /\ rto'.pending = rto.pending /\ rto'.kind = rto.kind
  BY <1>1 DEF IInv, Goes, Waits
<1> DEFINE n == task[w].n
<1> HIDE DEF n
<1>3. SameMoney
  <2>1. CASE SameIntents
    BY <1>1, <1>2, <2>1, QuietMoney
  <2>2. CASE ~SameIntents
    <3>1. Sigma' >= Sigma /\ NoNewPayoff
      BY <1>1, <1>2, <2>2, OpenedMoney DEF n
    <3> QED
      BY <1>1, <1>2, <3>1 DEF SameMoney
  <2> QED
    BY <2>1, <2>2
<1> QED
  BY <1>1, <1>2, <1>3, QuietEnough DEF Harmless, Depositing

LEMMA SettleClaimEnough ==
  ASSUME IInv, NEW w \in Workers, NEW i \in DOMAIN rtoIntents, SettleClaim(w, i), Enough(w)
  PROVE  Enough(w)'
<1>1. /\ SameIntents /\ rtoIntents[i].status = "succeeded" /\ rto.pending = i
      /\ rto' = [rto EXCEPT !.pending = 0, !.kind = "none"]
  BY SettleClaimEffect DEF IInv
<1>2. \/ rto.kind = "acceptance" /\ Goes(w, "idle", "book_deposit")
      \/ rto.kind = "card_setup" /\ Goes(w, "idle", "attach_card")
      \/ /\ rto.kind = "payoff" /\ Goes(w, "idle", "book_payoff")
         /\ task'[w].amount = rtoIntents[i].amount
      \/ rto.kind = "installment" /\ Goes(w, "idle", "idle")
      \/ rto.kind = "installment" /\ Goes(w, "idle", "book")
  BY SettleClaimEffect DEF IInv
<1>3. Typed /\ Typed' /\ task[w].step = "idle"
  BY <1>2 DEF IInv, Goes
<1>4. Money(rto) /\ rto'.pending = 0 /\ rto'.kind = "none"
  BY <1>1, <1>3 DEF Money, Typed, Agreements
<1>5. EquityOf(rtoIntents[i]) \in Nat /\ Sigma' >= Sigma + EquityOf(rtoIntents[i])
  <2>1. rtoIntents[i] \in Intents
    BY <1>3 DEF Typed
  <2> QED
    BY <1>1, <1>3, <1>4, <2>1, SigmaClaimed DEF EquityOf, Intents
<1>6. NoNewPayoff
  BY <1>1 DEF NoNewPayoff, SameIntents
<1>7. /\ Sigma \in Nat /\ Sigma' \in Nat /\ rto.credited \in Nat /\ rto.deposit \in Nat
      /\ rto'.credited = rto.credited /\ rto'.paid = rto.paid /\ rto'.deposit = rto.deposit
      /\ Cash' = Cash
  BY <1>3, <1>4, SettledType, SettledNext DEF Typed, Agreements, Money, Cash
<1>8. Backed /\ Credited
  BY <1>3 DEF Enough, Depositing
<1>9. Backed'
  BY <1>3, <1>4, <1>5, <1>6, <1>7, <1>8, BackedAnew
<1>10. rto.kind # "acceptance" => Credited'
  BY <1>7, <1>8 DEF Credited
<1>11. /\ rtoIntents[i].kind \in Kinds(rto.kind)
       /\ rto.kind = "acceptance" => rtoIntents[i].amount = rto.deposit
  BY <1>1, <1>3 DEF IInv, Awaited, Typed
<1>12. ASSUME Sigma >= rto.credited, Sigma' >= Sigma + InHand(w)', InHand(w)' \in Nat
       PROVE  Sigma' >= rto'.credited + InHand(w)'
  BY <1>7, <1>12
<1>13. Sigma >= rto.credited
  BY <1>8 DEF Backed
<1>14. CASE rto.kind = "acceptance" /\ Goes(w, "idle", "book_deposit")
  <2>1. EquityOf(rtoIntents[i]) = rto.deposit
    BY <1>11, <1>14 DEF Kinds, EquityOf
  <2>2. InHand(w)' = rto.deposit
    BY <1>7, <1>14, HandCases DEF InHand, Goes
  <2>3. rto'.credited = 0 /\ rto'.paid = 0
    BY <1>7, <1>8, <1>14 DEF Backed
  <2>4. Sigma' >= rto'.credited + InHand(w)'
    BY <1>5, <1>7, <1>12, <1>13, <2>1, <2>2
  <2>5. EarnedBy(w)'
    BY <1>4, <1>14, <2>3, <2>4 DEF EarnedBy, LatestSteps, PayoffSteps, Goes
  <2> QED
    BY <1>9, <1>14, <2>5 DEF Enough, Depositing, Goes
<1>15. CASE \/ rto.kind = "card_setup" /\ Goes(w, "idle", "attach_card")
            \/ rto.kind = "installment" /\ Goes(w, "idle", "idle")
  BY <1>3, <1>9, <1>10, <1>15, HarmlessEnough DEF Harmless, Goes
<1>16. CASE /\ rto.kind = "payoff" /\ Goes(w, "idle", "book_payoff")
            /\ task'[w].amount = rtoIntents[i].amount
  <2>1. EquityOf(rtoIntents[i]) = rtoIntents[i].amount /\ rtoIntents[i].kind = "payoff"
    BY <1>11, <1>16 DEF Kinds, EquityOf
  <2>2. InHand(w)' = rtoIntents[i].amount
    BY <1>16, HandCases DEF InHand, PayoffSteps, Goes
  <2>3. Sigma' >= rto'.credited + InHand(w)'
    BY <1>5, <1>12, <1>13, <2>1, <2>2
  <2>4. task'[w].amount + rto'.credited >= Cash'
    BY <1>7, <1>8, <1>16, <2>1 DEF Backed
  <2>5. EarnedBy(w)'
    BY <1>4, <1>16, <2>3, <2>4 DEF EarnedBy, LatestSteps, PayoffSteps, Depositing, Goes
  <2> QED
    BY <1>9, <1>10, <1>16, <2>5 DEF Enough
<1>17. CASE rto.kind = "installment" /\ Goes(w, "idle", "book")
  <2>1. EquityOf(rtoIntents[i]) = 1
    BY <1>11, <1>17 DEF Kinds, EquityOf
  <2>2. InHand(w)' = 1
    BY <1>17, HandCases DEF InHand, Goes
  <2>3. Sigma' >= rto'.credited + InHand(w)'
    BY <1>5, <1>12, <1>13, <2>1, <2>2
  <2>4. EarnedBy(w)'
    BY <1>4, <1>17, <2>3 DEF EarnedBy, LatestSteps, PayoffSteps, Depositing, Goes
  <2> QED
    BY <1>9, <1>10, <1>17, <2>4 DEF Enough
<1> QED
  BY <1>2, <1>14, <1>15, <1>16, <1>17

LEMMA BookDepositEnough ==
  ASSUME IInv, NEW w \in Workers, BookDeposit(w), Enough(w)
  PROVE  Enough(w)'
<1>1. Goes(w, "book_deposit", "credit_deposit") /\ SameRto /\ SameIntents
  BY BookDepositEffect DEF IInv
<1>2. Typed /\ Money(rto) /\ Waits(rto) /\ SameMoney
  BY <1>1, SameRtoKept, QuietMoney DEF IInv, Waits
<1>3. InHand(w)' = InHand(w)
  BY <1>1, HandCases DEF InHand, SameRto, Goes
<1>4. rto.kind # "acceptance"
  BY <1>1 DEF Enough, EarnedBy, Goes
<1> QED
  BY <1>1, <1>2, <1>3, <1>4, CarriesOn DEF Depositing, PayoffSteps

LEMMA CreditDepositEnough ==
  ASSUME IInv, NEW w \in Workers, CreditDeposit(w), Enough(w)
  PROVE  Enough(w)'
<1>1. /\ Goes(w, "credit_deposit", "idle") /\ SameIntents /\ Waits(rto)
      /\ rto'.deposit = rto.deposit /\ rto'.paid = rto.paid
      /\ rto'.proof = rto.proof /\ rto'.credited = rto.deposit
  BY CreditDepositEffect DEF IInv
<1>2. Typed /\ Typed'
  BY <1>1 DEF IInv, Goes
<1>3. rto.credited = 0 /\ rto.paid = 0 /\ rto.kind # "acceptance" /\ Backed
  BY <1>1 DEF Enough, EarnedBy, Depositing, Goes
<1>4. /\ Sigma \in Nat /\ Sigma' = Sigma /\ rto.deposit \in Nat
      /\ Cash' = Cash /\ rto'.kind = rto.kind
  BY <1>1, <1>2, SettledType, SigmaSame DEF Typed, Agreements, Cash, Waits
<1>5. Sigma' >= rto'.credited
  <2>1. InHand(w) = rto.deposit
    BY <1>1, HandCases DEF InHand, Goes
  <2> QED
    BY <1>1, <1>3, <1>4, <2>1 DEF Enough, EarnedBy
<1>6. Backed'
  <2>1. /\ Cash \in Nat /\ ~(0 >= Cash)
    BY <1>4, RtoAssumption DEF Cash
  <2>2. ~rto'.proof
    BY <1>1, <1>3, <2>1 DEF Backed
  <2>3. \A i \in DOMAIN rtoIntents' : rtoIntents'[i].kind = "payoff" =>
          rtoIntents'[i].amount + rto'.credited >= Cash'
    <3> SUFFICES ASSUME NEW i \in DOMAIN rtoIntents, rtoIntents[i].kind = "payoff"
                 PROVE  rtoIntents[i].amount + rto'.credited >= Cash
      BY <1>1, <1>4 DEF SameIntents
    <3>1. rtoIntents[i].amount + 0 >= Cash /\ rtoIntents[i] \in Intents
      BY <1>2, <1>3 DEF Backed, Typed
    <3> QED
      BY <1>1, <1>4, <2>1, <3>1 DEF Intents
  <2> QED
    BY <1>3, <1>4, <1>5, <2>2, <2>3 DEF Backed
<1>7. Credited'
  BY <1>1, <1>3, <1>4 DEF Credited
<1> QED
  BY <1>1, <1>2, <1>6, <1>7, HarmlessEnough DEF Harmless, Goes

LEMMA BookInstalmentEnough ==
  ASSUME IInv, NEW w \in Workers, BookInstalment(w), Enough(w)
  PROVE  Enough(w)'
<1>1. /\ SameRto /\ SameIntents
      /\ \/ Goes(w, "book", "claim_instalment")
         \/ Goes(w, "book", "clear")
         \/ Goes(w, "book", "idle")
  BY BookInstalmentEffect DEF IInv
<1>2. Typed /\ Money(rto) /\ Waits(rto) /\ SameMoney
  BY <1>1, SameRtoKept, QuietMoney DEF IInv, Waits
<1>3. CASE Goes(w, "book", "claim_instalment")
  <2>1. InHand(w)' = InHand(w)
    BY <1>3, HandCases DEF InHand, Goes
  <2>2. rto.kind # "acceptance"
    BY <1>3 DEF Enough, EarnedBy, LatestSteps, Goes
  <2> QED
    BY <1>2, <1>3, <2>1, <2>2, CarriesOn DEF Depositing, PayoffSteps
<1>4. CASE Goes(w, "book", "clear") \/ Goes(w, "book", "idle")
  BY <1>2, <1>4, QuietEnough DEF Harmless, Depositing
<1> QED
  BY <1>1, <1>3, <1>4

LEMMA ClaimInstalmentEnough ==
  ASSUME IInv, NEW w \in Workers, ClaimInstalment(w), Enough(w)
  PROVE  Enough(w)'
<1>1. Goes(w, "claim_instalment", "apply") /\ SameRto /\ SameIntents
  BY ClaimInstalmentEffect DEF IInv
<1>2. Typed /\ Money(rto) /\ Waits(rto) /\ SameMoney
  BY <1>1, SameRtoKept, QuietMoney DEF IInv, Waits
<1>3. InHand(w)' = InHand(w)
  BY <1>1, HandCases DEF InHand, Goes
<1>4. rto.kind # "acceptance"
  BY <1>1 DEF Enough, EarnedBy, LatestSteps, Goes
<1> QED
  BY <1>1, <1>2, <1>3, <1>4, CarriesOn DEF Depositing, PayoffSteps

LEMMA ApplyInstalmentEnough ==
  ASSUME IInv, NEW w \in Workers, ApplyInstalment(w), Enough(w), Spared({"overlap"})
  PROVE  Enough(w)'
<1>1. /\ SameIntents /\ Waits(rto) /\ rto'.deposit = rto.deposit /\ rto'.proof = rto.proof
      /\ rto'.paid = task[w].doc.paid + 1 /\ rto'.credited = task[w].doc.credited + 1
      /\ \/ Goes(w, "apply", "complete") /\ LastOf(task[w].doc)
         \/ Goes(w, "apply", "clear")
         \/ Goes(w, "apply", "idle")
  BY ApplyInstalmentEffect DEF IInv
<1>2. Typed /\ Typed' /\ task[w].step = "apply"
  BY <1>1 DEF IInv, Goes
<1>3. task[w].doc.paid = rto.paid /\ task[w].doc.credited = rto.credited
  BY <1>2 DEF IInv, Current, LatestSteps
<1>4. /\ Sigma \in Nat /\ Sigma' = Sigma /\ rto.deposit \in Nat /\ rto.credited \in Nat
      /\ rto.paid \in Nat /\ Cash' = Cash /\ rto'.kind = rto.kind /\ Cash \in Nat
  <2>1. Sigma \in Nat /\ Sigma' = Sigma
    BY <1>1, <1>2, SettledType, SigmaSame DEF Waits
  <2>2. rto.deposit \in Nat /\ rto.credited \in Nat /\ rto.paid \in Nat
    BY <1>2 DEF Typed, Agreements
  <2>3. Cash' = Cash /\ Cash \in Nat /\ rto'.kind = rto.kind
    BY <1>1, <2>2, RtoAssumption DEF Cash, Waits
  <2> QED
    BY <2>1, <2>2, <2>3
<1>5. Backed /\ Credited /\ rto.kind # "acceptance"
  BY <1>2 DEF Enough, EarnedBy, LatestSteps, Depositing
<1>6. rto'.credited = rto.credited + 1 /\ rto'.paid = rto.paid + 1
  BY <1>1, <1>3
<1>7. Sigma' >= rto'.credited
  <2>1. InHand(w) = 1
    BY <1>2, HandCases DEF InHand
  <2> QED
    BY <1>4, <1>6, <2>1 DEF Enough, EarnedBy
<1>8. Backed'
  <2>1. rto'.proof => rto'.credited >= Cash'
    BY <1>1, <1>4, <1>5, <1>6 DEF Backed
  <2>2. ASSUME NEW i \in DOMAIN rtoIntents', rtoIntents'[i].kind = "payoff"
        PROVE  rtoIntents'[i].amount + rto'.credited >= Cash'
    <3>1. /\ rtoIntents[i].amount + rto.credited >= Cash /\ rtoIntents[i] \in Intents
          /\ rtoIntents'[i].amount = rtoIntents[i].amount
      BY <1>1, <1>2, <1>5, <2>2 DEF Backed, Typed, SameIntents
    <3>2. rtoIntents[i].amount \in Nat
      BY <3>1 DEF Intents
    <3> QED
      BY <1>4, <1>6, <3>1, <3>2
  <2> QED
    BY <1>4, <1>5, <1>7, <2>1, <2>2 DEF Backed
<1>9. Credited'
  BY <1>1, <1>4, <1>5, <1>6 DEF Credited
<1>10. CASE Goes(w, "apply", "complete") /\ LastOf(task[w].doc)
  <2>1. rto'.credited >= Cash'
    <3>1. rto.paid + 1 >= Instalments /\ Instalments \in Nat
      BY <1>3, <1>10, RtoAssumption DEF LastOf
    <3>2. rto.credited >= rto.deposit + rto.paid \/ rto.credited >= rto.deposit + Instalments
      BY <1>5 DEF Credited, Cash
    <3>3. rto.credited + 1 >= rto.deposit + Instalments
      BY <1>4, <3>1, <3>2
    <3> QED
      BY <1>4, <1>6, <3>3 DEF Cash
  <2>2. InHand(w)' = 0
    BY <1>10, HandCases DEF InHand, PayoffSteps, Goes
  <2>3. Sigma' >= rto'.credited + InHand(w)'
    BY <1>4, <1>6, <1>7, <2>2
  <2>4. EarnedBy(w)'
    BY <1>4, <1>5, <1>10, <2>1, <2>3 DEF EarnedBy, LatestSteps, PayoffSteps, Depositing, Goes
  <2> QED
    BY <1>8, <1>9, <2>4 DEF Enough
<1>11. CASE Goes(w, "apply", "clear") \/ Goes(w, "apply", "idle")
  BY <1>2, <1>8, <1>9, <1>11, HarmlessEnough DEF Harmless, Goes
<1> QED
  BY <1>1, <1>10, <1>11

LEMMA CompleteEnough ==
  ASSUME IInv, NEW w \in Workers, Complete(w), Enough(w)
  PROVE  Enough(w)'
<1>1. /\ Goes(w, "complete", "clear") \/ Goes(w, "complete", "idle")
      /\ SameIntents
      /\ rto' = [rto EXCEPT !.status = "completed", !.proof = TRUE]
  BY CompleteEffect DEF IInv
<1>2. Typed /\ Typed' /\ task[w].step = "complete"
  BY <1>1 DEF IInv, Goes
<1>3. /\ rto'.credited = rto.credited /\ rto'.paid = rto.paid /\ rto'.deposit = rto.deposit
      /\ rto'.kind = rto.kind /\ rto'.pending = rto.pending /\ Cash' = Cash
  BY <1>1, <1>2 DEF Typed, Agreements, Cash
<1>4. Sigma' = Sigma
  BY <1>1, <1>3, SigmaSame
<1>5. Credited /\ Backed /\ rto.credited >= Cash
  BY <1>2 DEF Enough, EarnedBy, Depositing
<1>6. Credited' /\ Backed'
  BY <1>1, <1>3, <1>4, <1>5 DEF Credited, Backed, SameIntents
<1> QED
  BY <1>1, <1>2, <1>6, HarmlessEnough DEF Harmless, Goes

LEMMA BookPayoffEnough ==
  ASSUME IInv, NEW w \in Workers, BookPayoff(w), Enough(w)
  PROVE  Enough(w)'
<1>1. /\ Goes(w, "book_payoff", "credit_payoff") /\ SameRto /\ SameIntents
      /\ task'[w].amount = task[w].amount
  BY BookPayoffEffect DEF IInv
<1>2. Typed /\ Money(rto) /\ Waits(rto) /\ SameMoney
  BY <1>1, SameRtoKept, QuietMoney DEF IInv, Waits
<1>3. InHand(w)' = InHand(w)
  BY <1>1, HandCases DEF InHand, PayoffSteps, Goes
<1>4. rto.kind # "acceptance" /\ task'[w].amount + rto.credited >= Cash
  BY <1>1 DEF Enough, EarnedBy, PayoffSteps, Goes
<1> QED
  BY <1>1, <1>2, <1>3, <1>4, CarriesOn DEF Depositing, PayoffSteps

LEMMA CreditPayoffEnough ==
  ASSUME IInv, NEW w \in Workers, CreditPayoff(w), Enough(w)
  PROVE  Enough(w)'
<1>1. /\ Goes(w, "credit_payoff", "complete") /\ SameIntents /\ Waits(rto)
      /\ rto'.deposit = rto.deposit /\ rto'.paid = rto.paid
      /\ rto'.proof = rto.proof /\ rto'.credited = Cash
  BY CreditPayoffEffect DEF IInv
<1>2. Typed /\ Typed' /\ task[w].step = "credit_payoff" /\ task'[w].step = "complete"
  BY <1>1 DEF IInv, Goes
<1>3. /\ Sigma \in Nat /\ Sigma' = Sigma /\ rto.deposit \in Nat /\ rto.credited \in Nat
      /\ Cash' = Cash /\ rto'.kind = rto.kind /\ Cash \in Nat
  BY <1>1, <1>2, SettledType, SigmaSame, RtoAssumption DEF Typed, Agreements, Cash, Waits
<1>4. /\ rto.kind # "acceptance" /\ task[w].amount + rto.credited >= Cash
      /\ Sigma >= rto.credited + InHand(w)
  BY <1>2 DEF Enough, EarnedBy, PayoffSteps
<1>5. InHand(w) = task[w].amount /\ task[w].amount \in Nat
  <2>1. task[w] \in Payoffs
    BY <1>2, TaskForms DEF Typed, PayoffSteps
  <2> QED
    BY <1>2, <2>1, HandCases DEF InHand, PayoffSteps, Payoffs
<1>6. Sigma' >= rto'.credited
  BY <1>1, <1>3, <1>4, <1>5
<1>7. Backed'
  <2>1. ASSUME NEW i \in DOMAIN rtoIntents', rtoIntents'[i].kind = "payoff"
        PROVE  rtoIntents'[i].amount + rto'.credited >= Cash'
    <3>1. rtoIntents'[i] \in Intents
      BY <1>2 DEF Typed
    <3>2. rtoIntents'[i].amount \in Nat
      BY <3>1 DEF Intents
    <3> QED
      BY <1>1, <1>3, <3>2
  <2>2. rto'.credited >= Cash'
    BY <1>1, <1>3
  <2> QED
    BY <1>3, <1>4, <1>6, <2>1, <2>2 DEF Backed
<1>8. Credited'
  BY <1>1, <1>3 DEF Credited
<1>9. InHand(w)' = 0
  BY <1>2, HandCases DEF InHand, PayoffSteps
<1>10. Sigma' >= rto'.credited + InHand(w)'
  BY <1>1, <1>3, <1>6, <1>9
<1>11. EarnedBy(w)'
  BY <1>1, <1>2, <1>3, <1>4, <1>10 DEF EarnedBy, LatestSteps, PayoffSteps, Depositing
<1> QED
  BY <1>7, <1>8, <1>11 DEF Enough

LEMMA PayInstalmentEnough ==
  ASSUME IInv, NEW w \in Workers, PayInstalment(w), Enough(w)
  PROVE  Enough(w)'
<1>1. /\ Goes(w, "idle", "open_intent") /\ task'[w].kind = "installment"
      /\ SameRto /\ SameIntents /\ rto.kind # "acceptance"
  BY PayInstalmentEffect DEF IInv
<1>2. Typed /\ Money(rto) /\ Waits(rto) /\ SameMoney
  BY <1>1, SameRtoKept, QuietMoney DEF IInv, Waits
<1>3. InHand(w)' = InHand(w)
  BY <1>1, HandCases DEF InHand, PayoffSteps, Goes
<1> QED
  BY <1>1, <1>2, <1>3, CarriesOn DEF Depositing, PayoffSteps

LEMMA PayOffEnough ==
  ASSUME IInv, NEW w \in Workers, PayOff(w), Enough(w)
  PROVE  Enough(w)'
<1>1. /\ SameRto /\ SameIntents /\ rto.kind # "acceptance"
      /\ \/ /\ Goes(w, "idle", "open_intent")
            /\ task'[w].kind = "payoff" /\ task'[w].amount + rto.credited >= Cash
         \/ Goes(w, "idle", "complete") /\ rto.credited >= Cash
  BY PayOffEffect DEF IInv
<1>2. Typed /\ Money(rto) /\ Waits(rto) /\ SameMoney
  BY <1>1, SameRtoKept, QuietMoney DEF IInv, Waits
<1>3. InHand(w)' = InHand(w)
  BY <1>1, HandCases DEF InHand, PayoffSteps, Goes
<1>4. CASE /\ Goes(w, "idle", "open_intent")
           /\ task'[w].kind = "payoff" /\ task'[w].amount + rto.credited >= Cash
  BY <1>1, <1>2, <1>3, <1>4, CarriesOn DEF Depositing, PayoffSteps
<1>5. CASE Goes(w, "idle", "complete") /\ rto.credited >= Cash
  BY <1>1, <1>2, <1>3, <1>5, CarriesOn DEF Depositing, PayoffSteps
<1> QED
  BY <1>1, <1>4, <1>5

LEMMA OpenIntentEnough ==
  ASSUME IInv, NEW w \in Workers, OpenIntent(w), Enough(w)
  PROVE  Enough(w)'
<1>1. PICK kind \in {"installment", "payoff"}, n \in 0..Instalments, amount \in Nat :
        /\ kind = task[w].kind /\ amount = task[w].amount
        /\ Goes(w, "open_intent", "idle") /\ Money(rto)
        /\ rtoIntents' = Opened(kind, n, amount, "open")
        /\ [kind |-> kind, n |-> n, amount |-> amount, status |-> "open"] \in Intents
        /\ rto'.pending = NextIntent /\ rto'.kind = kind
  BY OpenIntentEffect DEF IInv
<1>2. Typed /\ Typed' /\ Awaited /\ task[w].step = "open_intent"
  BY <1>1 DEF IInv, Goes
<1>3. Backed /\ Credited /\ rto.kind # "acceptance"
  BY <1>2 DEF Enough, EarnedBy, Depositing
<1>4. /\ rto'.credited = rto.credited /\ rto'.paid = rto.paid /\ rto'.deposit = rto.deposit
      /\ rto'.proof = rto.proof /\ Cash' = Cash
  BY <1>1 DEF Money, Cash
<1>5. Credited'
  BY <1>3, <1>4 DEF Credited
<1>6. CASE kind = "installment"
  <2>1. Sigma' >= Sigma /\ NoNewPayoff
    BY <1>1, <1>2, <1>6, OpenedMoney
  <2>2. Backed'
    BY <1>1, <1>2, <1>3, <1>6, <2>1, BackedAnew
  <2> QED
    BY <1>1, <1>2, <1>5, <2>2, HarmlessEnough DEF Harmless, Goes
<1>7. CASE kind = "payoff"
  <2>1. amount + rto.credited >= Cash
    BY <1>1, <1>2, <1>7 DEF Enough, EarnedBy
  <2>2. Sigma' >= Sigma + 0
    BY <1>1, <1>2, SigmaAdded
  <2>3. /\ DOMAIN rtoIntents' = DOMAIN rtoIntents \cup {NextIntent}
        /\ \A i \in DOMAIN rtoIntents : rtoIntents'[i] = rtoIntents[i]
        /\ rtoIntents'[NextIntent].amount = amount
    <3>1. rtoIntents'[NextIntent] = [kind |-> kind, n |-> n, amount |-> amount, status |-> "open"]
      BY <1>1, <1>2, IntentAdded
    <3>2. DOMAIN rtoIntents' = DOMAIN rtoIntents \cup {NextIntent}
      BY <1>1, <1>2, IntentAdded
    <3>3. \A i \in DOMAIN rtoIntents : rtoIntents'[i] = rtoIntents[i]
      BY <1>1, <1>2, IntentAdded
    <3> QED
      BY <3>1, <3>2, <3>3
  <2> HIDE DEF NextIntent
  <2>4. \A i \in DOMAIN rtoIntents' : rtoIntents'[i].kind = "payoff" =>
          rtoIntents'[i].amount + rto'.credited >= Cash'
    BY <1>3, <1>4, <2>1, <2>3 DEF Backed
  <2>5. Sigma' >= rto'.credited
    <3>1. Sigma \in Nat /\ Sigma' \in Nat /\ rto.credited \in Nat
      BY <1>2, SettledType, SettledNext DEF Typed, Agreements
    <3> QED
      BY <1>3, <1>4, <2>2, <3>1 DEF Backed
  <2>6. Backed'
    BY <1>1, <1>3, <1>4, <1>7, <2>4, <2>5 DEF Backed
  <2> QED
    BY <1>1, <1>2, <1>5, <2>6, HarmlessEnough DEF Harmless, Goes
<1> QED
  BY <1>6, <1>7

\* The handlers that leave the money as it is, and have none in hand.
LEMMA OthersEnough ==
  ASSUME IInv, NEW w \in Workers, Enough(w),
         \/ AcceptBegin(w) \/ AcceptClaim(w)
         \/ SweepList(w) \/ ReturnBegin(w) \/ (\E to \in Remedies : RemedyRead(w, to))
         \/ SweepThrows(w) \/ AttachCard(w) \/ ClearAsk(w) \/ RemedyApply(w) \/ ReturnSettle(w)
  PROVE  Enough(w)'
<1> DEFINE Quiet(a, b) == /\ Goes(w, a, b) /\ SameIntents /\ Money(rto)
                          /\ rto'.pending = rto.pending /\ rto'.kind = rto.kind
<1>1. Typed
  BY DEF IInv
<1>2. ASSUME NEW a, NEW b, a \notin Depositing, b \in Harmless, Quiet(a, b)
      PROVE  Enough(w)'
  <2>1. SameMoney
    BY <1>1, <1>2, QuietMoney
  <2> QED
    BY <1>1, <1>2, <2>1, QuietEnough
<1>3. ASSUME NEW a, NEW b, Goes(w, a, b), SameIntents, SameRto
      PROVE  Quiet(a, b)
  BY <1>3, SameRtoKept DEF Waits
<1>4. ASSUME NEW a, NEW b, Goes(w, a, b), SameIntents, Money(rto), Waits(rto)
      PROVE  Quiet(a, b)
  BY <1>4 DEF Waits
<1> HIDE DEF Quiet
<1>5. ASSUME AcceptBegin(w) PROVE Enough(w)'
  BY <1>1, <1>2, <1>3, <1>5, AcceptBeginEffect DEF Depositing, Harmless
<1>6. ASSUME AcceptClaim(w) PROVE Enough(w)'
  <2>1. /\ SameRto /\ SameIntents
        /\ Goes(w, "claim_unit", "create_agreement") \/ Goes(w, "claim_unit", "idle")
    BY <1>1, <1>6, AcceptClaimEffect
  <2> QED
    BY <1>2, <1>3, <2>1 DEF Depositing, Harmless
<1>7. ASSUME SweepList(w) PROVE Enough(w)'
  BY <1>1, <1>2, <1>3, <1>7, SweepListEffect DEF Depositing, Harmless
<1>8. ASSUME ReturnBegin(w) PROVE Enough(w)'
  BY <1>1, <1>2, <1>3, <1>8, ReturnBeginEffect DEF Depositing, Harmless
<1>9. ASSUME NEW to \in Remedies, RemedyRead(w, to) PROVE Enough(w)'
  BY <1>1, <1>2, <1>3, <1>9, RemedyReadEffect DEF Depositing, Harmless
<1>10. ASSUME SweepThrows(w) PROVE Enough(w)'
  <2>1. /\ Goes(w, task[w].step, "idle") /\ SameIntents /\ Money(rto) /\ Waits(rto)
        /\ task[w].step \in {"book", "claim_instalment", "apply"}
    BY <1>1, <1>10, SweepThrowsEffect
  <2> QED
    BY <1>2, <1>4, <2>1 DEF Depositing, Harmless
<1>11. ASSUME AttachCard(w) PROVE Enough(w)'
  BY <1>1, <1>2, <1>4, <1>11, AttachCardEffect DEF Depositing, Harmless
<1>12. ASSUME ClearAsk(w) PROVE Enough(w)'
  <2>1. Quiet("clear", "idle")
    BY <1>1, <1>12, ClearAskEffect DEF Quiet
  <2> QED
    BY <1>2, <2>1 DEF Depositing, Harmless
<1>13. ASSUME RemedyApply(w) PROVE Enough(w)'
  BY <1>1, <1>2, <1>4, <1>13, RemedyApplyEffect DEF Depositing, Harmless
<1>14. ASSUME ReturnSettle(w) PROVE Enough(w)'
  BY <1>1, <1>2, <1>4, <1>14, ReturnSettleEffect DEF Depositing, Harmless
<1> QED
  BY <1>5, <1>6, <1>7, <1>8, <1>9, <1>10, <1>11, <1>12, <1>13, <1>14

\* What others do while the handlers stay where they are.
LEMMA WatchedEarned ==
  ASSUME IInv, Earned, Watches, SameMoney
  PROVE  Earned'
<1> SUFFICES ASSUME Undisturbed'
             PROVE  /\ \A v \in Workers : EarnedBy(v)'
                    /\ Credited' \/ \E v \in Workers : task'[v].step \in Depositing
                    /\ Backed'
  BY DEF Earned
<1>1. Undisturbed /\ Typed /\ Typed' /\ task' = task
  BY UndisturbedBefore DEF Watches, IInv
<1>2. Backed' /\ Cash' = Cash
  BY <1>1, BackedKept DEF Earned
<1>3. Credited' \/ \E v \in Workers : task'[v].step \in Depositing
  BY <1>1, CreditedKept DEF Earned
<1>4. ASSUME NEW v \in Workers
      PROVE  EarnedBy(v)'
  <2>1. EarnedBy(v)
    BY <1>1 DEF Earned
  <2>2. /\ rto'.credited = rto.credited /\ rto'.paid = rto.paid /\ rto'.kind = rto.kind
        /\ rto'.deposit = rto.deposit
    BY DEF SameMoney, Money
  <2>3. InHand(v)' = InHand(v)
    BY <1>1, <2>2 DEF InHand
  <2>4. InHand(v) \in Int
    <3>1. task[v] \in Tasks /\ rto.deposit \in Nat
      BY <1>1 DEF Typed, Agreements
    <3>2. task[v].step \in PayoffSteps => task[v].amount \in Nat
      BY <3>1, TaskForms DEF Payoffs
    <3> QED
      BY <3>1, <3>2, HandCases DEF InHand
  <2>5. Sigma \in Int /\ Sigma' \in Int /\ Sigma' >= Sigma /\ rto.credited \in Int
    BY <1>1, SettledType, SettledNext DEF SameMoney, Typed, Agreements
  <2>6. Sigma >= rto.credited + InHand(v)
    BY <2>1 DEF EarnedBy
  <2>7. Sigma' >= rto'.credited + InHand(v)'
    BY <2>2, <2>3, <2>4, <2>5, <2>6
  <2> QED
    BY <1>1, <1>2, <2>1, <2>2, <2>7 DEF EarnedBy
<1> QED
  BY <1>2, <1>3, <1>4

\* Any step of a handler.
Acts(w) ==
  \/ AcceptBegin(w) \/ AcceptClaim(w) \/ AcceptCharge(w) \/ AcceptRefused(w)
  \/ (\E d \in Deposits : AcceptCreate(w, d))
  \/ Handles(w) \/ RtoCrash(w)

LEMMA ActsMoves ==
  ASSUME IInv, NEW w \in Workers, Acts(w)
  PROVE  Typed' /\ Moves(w) /\ (rto.proof => rto'.proof)
<1> USE DEF Goes, Money, SameRto
<1>1. Typed /\ Awaited
  BY DEF IInv
<1>2. CASE AcceptBegin(w) \/ AcceptClaim(w) \/ AcceptRefused(w) \/ SweepList(w) \/ PayInstalment(w)
  BY <1>1, <1>2, AcceptBeginEffect, AcceptClaimEffect, AcceptRefusedEffect, SweepListEffect,
     PayInstalmentEffect
<1>3. CASE AcceptCharge(w)
  <2>1. PICK kind \in {"acceptance", "card_setup"} :
          /\ Goes(w, "open_charge", "idle")
          /\ rto' = [rto EXCEPT !.pending = NextIntent, !.kind = kind]
    BY <1>1, <1>3, AcceptChargeEffect
  <2> QED
    BY <1>1, <2>1 DEF Typed, Agreements
<1>4. CASE PayOff(w) \/ ReturnBegin(w) \/ SweepLoad(w) \/ SweepCharge(w) \/ SweepChallenged(w)
  BY <1>1, <1>4, PayOffEffect, ReturnBeginEffect, SweepLoadEffect, SweepChargeEffect,
     SweepChallengedEffect
<1>5. CASE SweepMissed(w) \/ SweepThrows(w) \/ AttachCard(w) \/ BookDeposit(w)
  BY <1>1, <1>5, SweepMissedEffect, SweepThrowsEffect, AttachCardEffect, BookDepositEffect
<1>6. CASE CreditDeposit(w) \/ BookInstalment(w) \/ ClaimInstalment(w) \/ ApplyInstalment(w)
  BY <1>1, <1>6, CreditDepositEffect, BookInstalmentEffect, ClaimInstalmentEffect,
     ApplyInstalmentEffect
<1>7. CASE Complete(w)
  <2>1. /\ Goes(w, "complete", "clear") \/ Goes(w, "complete", "idle")
        /\ rto' = [rto EXCEPT !.status = "completed", !.proof = TRUE]
    BY <1>1, <1>7, CompleteEffect
  <2> QED
    BY <1>1, <2>1 DEF Typed, Agreements
<1>8. CASE ClearAsk(w) \/ BookPayoff(w) \/ CreditPayoff(w)
  BY <1>1, <1>8, ClearAskEffect, BookPayoffEffect, CreditPayoffEffect
<1>9. CASE OpenIntent(w)
  BY <1>1, <1>9, OpenIntentEffect
<1>10. CASE RemedyApply(w) \/ ReturnSettle(w) \/ RtoCrash(w)
  BY <1>1, <1>10, RemedyApplyEffect, ReturnSettleEffect, CrashEffect
<1>11. ASSUME NEW d \in Deposits, AcceptCreate(w, d)
       PROVE  Typed' /\ Moves(w) /\ (rto.proof => rto'.proof)
  <2>1. Goes(w, "create_agreement", "open_charge") /\ rto' = Accepted(d)
    BY <1>1, <1>11, AcceptCreateEffect
  <2>2. ~rto.proof
    BY <2>1 DEF IInv, OneAccept, Unbound, AcceptSteps, NoAgreement
  <2> QED
    BY <2>1, <2>2
<1>12. ASSUME NEW i \in DOMAIN rtoIntents, SettleClaim(w, i)
       PROVE  Typed' /\ Moves(w) /\ (rto.proof => rto'.proof)
  <2>1. rto' = [rto EXCEPT !.pending = 0, !.kind = "none"]
    BY <1>1, <1>12, SettleClaimEffect
  <2>2. Typed' /\ Moves(w)
    BY <1>1, <1>12, SettleClaimEffect
  <2> QED
    BY <1>1, <2>1, <2>2 DEF Typed, Agreements
<1>13. CASE \E to \in Remedies : RemedyRead(w, to)
  BY <1>1, <1>13, RemedyReadEffect
<1> QED
  BY <1>2, <1>3, <1>4, <1>5, <1>6, <1>7, <1>8, <1>9, <1>10, <1>11, <1>12, <1>13
     DEF Acts, Handles

LEMMA ActsEnough ==
  ASSUME IInv, NEW w \in Workers, Acts(w), Enough(w), Undisturbed'
  PROVE  Enough(w)'
<1>1. befell \subseteq befell'
  BY ActsMoves DEF Moves
<1>2. Spared({"overlap"}) /\ befell' \cap {"crash", "overlap", "refused"} = {}
  BY <1>1, UndisturbedBefore DEF Undisturbed, Spared
<1>3. ~AcceptRefused(w) /\ ~RtoCrash(w)
  BY <1>2, AcceptRefusedEffect, CrashEffect DEF IInv
<1>4. CASE \/ AcceptBegin(w) \/ AcceptClaim(w) \/ AcceptCharge(w)
           \/ (\E d \in Deposits : AcceptCreate(w, d))
  BY <1>4, OthersEnough, AcceptChargeEnough, AcceptCreateEnough
<1>5. CASE \/ SweepList(w) \/ ReturnBegin(w) \/ (\E to \in Remedies : RemedyRead(w, to))
           \/ SweepThrows(w) \/ AttachCard(w) \/ ClearAsk(w) \/ RemedyApply(w) \/ ReturnSettle(w)
  BY <1>5, OthersEnough
<1>6. CASE \/ PayInstalment(w) \/ PayOff(w) \/ (\E i \in DOMAIN rtoIntents : SettleClaim(w, i))
           \/ OpenIntent(w)
  BY <1>6, PayInstalmentEnough, PayOffEnough, SettleClaimEnough, OpenIntentEnough
<1>7. CASE SweepLoad(w) \/ SweepCharge(w) \/ SweepChallenged(w) \/ SweepMissed(w)
  BY <1>7, SweepLoadEnough, SweepChargeEnough, SweepChallengedEnough, SweepMissedEnough
<1>8. CASE \/ BookDeposit(w) \/ CreditDeposit(w) \/ BookInstalment(w) \/ ClaimInstalment(w)
           \/ ApplyInstalment(w) \/ Complete(w) \/ BookPayoff(w) \/ CreditPayoff(w)
  BY <1>2, <1>8, BookDepositEnough, CreditDepositEnough, BookInstalmentEnough,
     ClaimInstalmentEnough, ApplyInstalmentEnough, CompleteEnough, BookPayoffEnough,
     CreditPayoffEnough
<1> QED
  BY <1>3, <1>4, <1>5, <1>6, <1>7, <1>8 DEF Acts, Handles

LEMMA WatchEarned ==
  ASSUME IInv, Earned,
         \/ Escalate
         \/ \E w \in Workers : PartialPayment(w) \/ Reinstate(w)
         \/ \E i \in DOMAIN rtoIntents : Confirm(i)
  PROVE  Earned'
<1>1. Typed /\ Awaited
  BY DEF IInv
<1>2. ASSUME Escalate PROVE Earned'
  <2>1. Watches /\ SameIntents /\ Money(rto) /\ Waits(rto)
    BY <1>1, <1>2, EscalateEffect
  <2>2. SameMoney
    BY <1>1, <2>1, QuietMoney DEF Waits
  <2> QED
    BY <2>1, <2>2, WatchedEarned
<1>3. ASSUME NEW w \in Workers, PartialPayment(w) PROVE Earned'
  <2>1. /\ Watches /\ Money(rto) /\ Waits(rto)
        /\ rtoIntents' = Opened("partial", 0, 1, "open")
        /\ [kind |-> "partial", n |-> 0, amount |-> 1, status |-> "open"] \in Intents
    BY <1>1, <1>3, PartialPaymentEffect
  <2>2. Typed' /\ rto'.pending = rto.pending /\ rto'.kind = rto.kind
    BY <2>1 DEF Watches, Waits
  <2>3. Sigma' >= Sigma /\ NoNewPayoff
    BY <1>1, <2>1, <2>2, OpenedMoney
  <2> QED
    BY <2>1, <2>2, <2>3, WatchedEarned DEF SameMoney
<1>4. ASSUME NEW w \in Workers, Reinstate(w) PROVE Earned'
  <2>1. Watches /\ SameIntents /\ Money(rto) /\ Waits(rto)
    BY <1>1, <1>4, ReinstateEffect
  <2>2. SameMoney
    BY <1>1, <2>1, QuietMoney DEF Waits
  <2> QED
    BY <2>1, <2>2, WatchedEarned
<1>5. ASSUME NEW i \in DOMAIN rtoIntents, Confirm(i) PROVE Earned'
  <2>1. /\ Watches /\ SameRto /\ rtoIntents[i].status = "open"
        /\ rtoIntents' = [rtoIntents EXCEPT ![i] = [@ EXCEPT !.status = "succeeded"]]
    BY <1>1, <1>5, ConfirmEffect
  <2>2. Typed' /\ Money(rto) /\ rto'.pending = rto.pending /\ rto'.kind = rto.kind
    BY <2>1, SameRtoKept DEF Watches, Waits
  <2>3. Sigma' >= Sigma
    BY <1>1, <2>1, <2>2, SigmaConfirmed
  <2>4. NoNewPayoff
    <3>1. rtoIntents[i] \in Intents
      BY <1>1 DEF Typed
    <3> DEFINE r == [rtoIntents[i] EXCEPT !.status = "succeeded"]
    <3>2. r.kind = rtoIntents[i].kind /\ r.amount = rtoIntents[i].amount
      BY <3>1 DEF Intents
    <3>3. rtoIntents' = [rtoIntents EXCEPT ![i] = r]
      BY <2>1
    <3> HIDE DEF r
    <3> QED
      BY <3>2, <3>3 DEF NoNewPayoff
  <2> QED
    BY <2>1, <2>2, <2>3, <2>4, WatchedEarned DEF SameMoney
<1> QED
  BY <1>2, <1>3, <1>4, <1>5

LEMMA OffersEarned ==
  ASSUME IInv, Typed', Earned,
         \/ Publish \/ TakenByAnother
         \/ \E s \in {"active", "paused", "withdrawn"} : SetOffer(s)
         \/ \E g \in Gates : CloseGate(g)
  PROVE  Earned'
<1>1. AtOnce /\ SameRto /\ SameIntents
  BY DEF Publish, TakenByAnother, SetOffer, CloseGate, SameRto, SameIntents
<1>2. Watches
  BY <1>1, AtOnceStays DEF Watches
<1>3. SameMoney
  BY <1>1, SameRtoKept, QuietMoney DEF Waits, IInv
<1> QED
  BY <1>2, <1>3, WatchedEarned

LEMMA NextKeepsEarned == IInv /\ Earned /\ [RtoNext]_rtoVars => Earned'
<1>1. ASSUME IInv, Earned, RtoNext
      PROVE  Earned'
  <2>1. Typed'
    BY <1>1, NextKeepsInvariant DEF IInv
  <2>2. ASSUME NEW w \in Workers, Acts(w)
        PROVE  Earned'
    BY <1>1, <2>2, ActsMoves, ActsEnough, EarnedGoes
  <2> QED
    BY <1>1, <2>1, <2>2, NextCases, OffersEarned, WatchEarned DEF Acts
<1>2. ASSUME IInv, Earned, UNCHANGED rtoVars
      PROVE  Earned'
  <2>1. Typed' /\ Watches /\ SameRto /\ SameIntents
    BY <1>2, Stutter DEF IInv, rtoVars, Watches, SameRto, SameIntents
  <2>2. SameMoney
    BY <1>2, <2>1, SameRtoKept, QuietMoney DEF Waits, IInv
  <2> QED
    BY <1>2, <2>1, <2>2, WatchedEarned
<1> QED
  BY <1>1, <1>2

LEMMA InitEarned == HandlersInit /\ RtoInit => Earned
<1> SUFFICES ASSUME HandlersInit, RtoInit
             PROVE  Earned
  OBVIOUS
<1>1. IInv
  BY InitInvariant
<1>2. rto = NoAgreement /\ rtoIntents = <<>> /\ \A w \in Workers : Idle(w)
  BY DEF HandlersInit, RtoInit, Resting, Idle
<1>3. /\ rto.credited = 0 /\ rto.paid = 0 /\ rto.deposit = 0 /\ rto.proof = FALSE
      /\ rto.kind = "none"
  BY <1>2 DEF NoAgreement
<1>4. Typed /\ Sigma \in Nat
  BY <1>1, SettledType DEF IInv
<1>5. Backed
  BY <1>2, <1>3, <1>4 DEF Backed
<1>6. Credited
  BY <1>3 DEF Credited
<1> QED
  BY <1>2, <1>4, <1>5, <1>6, RestingEarned DEF Earned

LEMMA EarnedInvariant == RtoSpec => []Earned
BY InitEarned, NextKeepsEarned, Invariant, PTL DEF RtoSpec

\* What was settled was paid.
LEMMA SettledIsPaid ==
  ASSUME Typed
  PROVE  EquityPaid \in Nat /\ EquityPaid >= Sigma
<1> DEFINE Paid == [i \in DOMAIN rtoIntents |->
                      IF rtoIntents[i].status = "succeeded" THEN EquityOf(rtoIntents[i]) ELSE 0]
<1>1. /\ IsFiniteSet(DOMAIN rtoIntents) /\ Sigma \in Nat
      /\ Sigma = SumFunctionOnSet(Settled, DOMAIN rtoIntents)
      /\ \A i \in DOMAIN rtoIntents : Settled[i] \in Nat
  BY SettledType
<1>2. \A i \in DOMAIN rtoIntents : Paid[i] \in Nat
  <2> TAKE i \in DOMAIN rtoIntents
  <2>1. rtoIntents[i] \in Intents
    BY DEF Typed
  <2>2. EquityOf(rtoIntents[i]) \in Nat
    BY <2>1 DEF EquityOf, Intents
  <2> QED
    BY <2>2
<1>3. \A i \in DOMAIN rtoIntents : Settled[i] <= Paid[i]
  BY <1>2 DEF Settled
<1>4. EquityPaid = SumFunctionOnSet(Paid, DOMAIN rtoIntents)
  BY DEF EquityPaid, SumFunction
<1> HIDE DEF Paid
<1>5. SumFunctionOnSet(Paid, DOMAIN rtoIntents) \in Nat
  BY <1>1, <1>2, SumNotNegative
<1>6. SumFunctionOnSet(Settled, DOMAIN rtoIntents) <= SumFunctionOnSet(Paid, DOMAIN rtoIntents)
  BY <1>1, <1>2, <1>3, SumAtLeast
<1> QED
  BY <1>1, <1>4, <1>5, <1>6

\* Proof of ownership is issued only to a customer whose confirmed payments, less rent, cover
\* the cash price; there are never more agreements than goods; and nobody is bound behind a
\* closed gate: for any stock, deposit, number of instalments, payments and handlers.
THEOREM OwnershipEarned == RtoSpec => []RtoOwnershipEarned
<1>1. IInv /\ Earned => RtoOwnershipEarned
  <2> SUFFICES ASSUME IInv, Earned
               PROVE  RtoOwnershipEarned
    OBVIOUS
  <2>1. RtoOwnedIsPaid
    <3> SUFFICES ASSUME Undisturbed, rto.proof
                 PROVE  EquityPaid >= Cash
      BY DEF RtoOwnedIsPaid, Undisturbed
    <3>1. rto.credited >= Cash /\ Sigma >= rto.credited
      BY DEF Earned, Backed
    <3>2. EquityPaid \in Nat /\ EquityPaid >= Sigma /\ Sigma \in Nat
      BY SettledIsPaid, SettledType DEF IInv
    <3>3. rto.credited \in Nat /\ Cash \in Nat
      BY RtoAssumption DEF IInv, Typed, Agreements, Cash
    <3> QED
      BY <3>1, <3>2, <3>3
  <2>2. RtoStockHolds
    <3>1. offer.sold \in Nat /\ offer.left \in Nat /\ Units \in Nat
      BY RtoAssumption DEF IInv, Typed, Offers
    <3> QED
      BY <3>1 DEF IInv, Stocked, RtoStockHolds
  <2>3. RtoGated
    BY DEF IInv, Gated, RtoGated
  <2> QED
    BY <2>1, <2>2, <2>3 DEF RtoOwnershipEarned
<1> QED
  BY <1>1, Invariant, EarnedInvariant, PTL

-----------------------------------------------------------------------------
(***************************************************************************)
(* Ownership is final: the frame.                                          *)
(***************************************************************************)

LEMMA NumbersOf ==
  ASSUME NEW T \in SUBSET (1..Instalments), NEW S \in SUBSET T
  PROVE  /\ Cardinality(S) \in Nat /\ Cardinality(T) \in Nat
         /\ Cardinality(S) <= Cardinality(T) /\ Cardinality(T) <= Instalments
         /\ S # T => Cardinality(S) < Cardinality(T)
         /\ Cardinality(T) >= Instalments => T = 1..Instalments
<1> DEFINE all == 1..Instalments
<1>1. Instalments \in Nat
  BY RtoAssumption
<1>2. IsFiniteSet(all) /\ Cardinality(all) = Instalments
  BY <1>1, FS_Interval
<1>3. IsFiniteSet(T) /\ Cardinality(T) <= Cardinality(all)
      /\ (Cardinality(all) = Cardinality(T) => all = T)
  BY <1>2, FS_Subset
<1>4. IsFiniteSet(S) /\ Cardinality(S) <= Cardinality(T)
      /\ (Cardinality(T) = Cardinality(S) => T = S)
  BY <1>3, FS_Subset
<1>5. Cardinality(S) \in Nat /\ Cardinality(T) \in Nat
  BY <1>3, <1>4, FS_CardinalityType
<1> QED
  BY <1>1, <1>2, <1>3, <1>4, <1>5

BooksKept == BookedN \subseteq BookedN'

LEMMA GrownBooks ==
  ASSUME \A key : Booked(key) => Booked(key)'
  PROVE  BooksKept
BY DEF BooksKept, BookedN

LEMMA SameBooksKept ==
  ASSUME SameBooks
  PROVE  BooksKept
BY DEF BooksKept, BookedN, Booked, SameBooks

LEMMA BookingsGrow ==
  ASSUME BooksKept
  PROVE  /\ Bookings \in Nat /\ Bookings' \in Nat /\ Bookings <= Bookings'
         /\ BookedN # BookedN' => Bookings < Bookings'
<1>1. BookedN' \in SUBSET (1..Instalments) /\ BookedN \in SUBSET BookedN'
  BY DEF BookedN, BooksKept
<1> DEFINE S == BookedN
           T == BookedN'
<1> HIDE DEF S, T
<1>2. /\ Cardinality(S) \in Nat /\ Cardinality(T) \in Nat /\ Cardinality(S) <= Cardinality(T)
      /\ S # T => Cardinality(S) < Cardinality(T)
  BY <1>1, NumbersOf DEF S, T
<1> QED
  BY <1>2 DEF S, T, Bookings

LEMMA FinalBefore ==
  ASSUME befell \subseteq befell', Spared({"crash", "overlap"})'
  PROVE  Spared({"crash", "overlap"}) /\ Spared({"overlap"}) /\ Spared({"overlap"})'
BY DEF Spared

\* It is enough to look at the handler that takes the step.
LEMMA FinalGoes ==
  ASSUME IInv, Final, NEW w \in Workers, Moves(w),
         Spared({"crash", "overlap"})' /\ Finishes(w) => Finishes(w)'
  PROVE  Final'
<1> SUFFICES ASSUME Spared({"crash", "overlap"})'
             PROVE  /\ \A v \in Workers : FinalBy(v)'
                    /\ Counted'
                    /\ rto'.proof \/ Completing' => DueBooked'
                    /\ rto'.proof \/ Completing' \/ Short'
  BY DEF Final
<1>1. Spared({"crash", "overlap"}) /\ Spared({"overlap"})'
  BY FinalBefore DEF Moves
<1>2. \A v \in Workers \ {w} : Idle(v) /\ task'[v] = task[v]
  BY <1>1, OthersRest DEF IInv
<1>3. Completing <=> task[w].step = "complete"
  BY <1>2 DEF Completing, Idle
<1>4. Completing' <=> task'[w].step = "complete"
  BY <1>2 DEF Completing, Idle
<1>5. Finishes(w)
  BY <1>1, <1>3 DEF Final, Finishes
<1>6. Finishes(w)'
  BY <1>5
<1>7. ASSUME NEW v \in Workers \ {w}
      PROVE  FinalBy(v)'
  <2>1. task'[v].step = "idle"
    BY <1>2 DEF Idle
  <2> QED
    BY <2>1 DEF FinalBy, PayoffSteps, Reopening
<1> QED
  BY <1>4, <1>6, <1>7 DEF Finishes

\* What has passed is awaited no more than it was, and its status stays.
DueKept ==
  rto.proof => \/ rto'.kind # "installment" \/ rto'.due = 0
               \/ rto'.kind = rto.kind /\ rto'.due = rto.due

StatusKept == rto.proof => rto'.status = rto.status

LEMMA FinishesOn ==
  ASSUME Typed, NEW w \in Workers, NEW a, NEW b, Goes(w, a, b), Finishes(w), Money(rto),
         DueKept, StatusKept, BooksKept,
         a # "complete", b # "complete",
         b \in {"claim_instalment", "apply"} => rto.paid < Bookings',
         b \in PayoffSteps => rto'.kind = "none",
         rto.proof => b \notin Reopening /\ (b = "book" => task'[w].n \in BookedN')
  PROVE  Finishes(w)'
<1>1. /\ rto'.paid = rto.paid /\ rto'.credited = rto.credited /\ rto'.deposit = rto.deposit
      /\ rto'.proof = rto.proof /\ task'[w].step = b /\ task[w].step = a
  BY DEF Money, Goes
<1>2. FinalBy(w)'
  BY <1>1 DEF FinalBy
<1>3. Counted'
  <2>1. rto'.paid <= Bookings'
    <3>1. rto.paid \in Nat /\ rto.paid <= Bookings
      BY DEF Typed, Agreements, Finishes, Counted
    <3> QED
      BY <1>1, <3>1, BookingsGrow
  <2>2. rto'.proof => rto'.status = "completed"
    BY <1>1 DEF Finishes, Counted, StatusKept
  <2> QED
    BY <2>1, <2>2 DEF Counted
<1>4. rto'.proof => DueBooked'
  BY <1>1 DEF DueKept, Finishes, DueBooked, BooksKept
<1>5. rto'.proof \/ Short'
  BY <1>1 DEF Finishes, Short
<1> QED
  BY <1>1, <1>2, <1>3, <1>4, <1>5 DEF Finishes

LEMMA WatchedFinal ==
  ASSUME IInv, Final, Watches, Money(rto), Waits(rto), StatusKept, BooksKept
  PROVE  Final'
<1> SUFFICES ASSUME Spared({"crash", "overlap"})'
             PROVE  /\ \A v \in Workers : FinalBy(v)'
                    /\ Counted'
                    /\ rto'.proof \/ Completing' => DueBooked'
                    /\ rto'.proof \/ Completing' \/ Short'
  BY DEF Final
<1>1. Spared({"crash", "overlap"}) /\ task' = task
  BY FinalBefore DEF Watches
<1>2. /\ rto'.paid = rto.paid /\ rto'.credited = rto.credited /\ rto'.deposit = rto.deposit
      /\ rto'.proof = rto.proof /\ rto'.kind = rto.kind /\ rto'.due = rto.due
  BY DEF Money, Waits
<1>3. rto.paid \in Nat
  BY DEF IInv, Typed, Agreements
<1>4. \A v \in Workers : FinalBy(v)'
  <2> TAKE v \in Workers
  <2>1. FinalBy(v)
    BY <1>1 DEF Final
  <2>2. rto.paid < Bookings => rto'.paid < Bookings'
    BY <1>2, <1>3, BookingsGrow
  <2> QED
    BY <1>1, <1>2, <2>1, <2>2 DEF FinalBy, BooksKept
<1>5. Counted'
  BY <1>1, <1>2, <1>3, BookingsGrow DEF Final, Counted, StatusKept
<1>6. Completing' <=> Completing
  BY <1>1 DEF Completing
<1>7. rto'.proof \/ Completing' => DueBooked'
  BY <1>1, <1>2, <1>6 DEF Final, DueBooked, BooksKept
<1>8. rto'.proof \/ Completing' \/ Short'
  BY <1>1, <1>2, <1>6 DEF Final, Short
<1> QED
  BY <1>4, <1>5, <1>7, <1>8

-----------------------------------------------------------------------------
(***************************************************************************)
(* Ownership is final: the steps.                                          *)
(***************************************************************************)

\* A step that leaves the counts and what is awaited, and does not complete the agreement.
LEMMA QuietFinishes ==
  ASSUME Typed, NEW w \in Workers, NEW a, NEW b, Goes(w, a, b), Finishes(w), Money(rto),
         rto'.kind = rto.kind, rto'.due \in {rto.due, 0}, StatusKept, BooksKept,
         a # "complete",
         b \in {"idle", "load", "clear", "claim_unit", "create_agreement", "attach_card",
                "credit_deposit"}
  PROVE  Finishes(w)'
<1>1. DueKept
  BY DEF DueKept
<1> QED
  BY <1>1, FinishesOn DEF PayoffSteps, Reopening

\* A step that starts what would reopen an agreement finds it not passed.
LEMMA OpenFinishes ==
  ASSUME Typed, NEW w \in Workers, NEW a, NEW b, Goes(w, a, b), Finishes(w), Money(rto),
         BooksKept, a # "complete", ~rto.proof,
         b \in {"idle", "charge", "book", "open_intent", "remedy", "settle_return"}
  PROVE  Finishes(w)'
<1>1. DueKept /\ StatusKept
  BY DEF DueKept, StatusKept
<1> QED
  BY <1>1, FinishesOn DEF PayoffSteps

\* A running agreement has not passed.
LEMMA RunningNotPassed ==
  ASSUME NEW w \in Workers, Finishes(w), rto.proof
  PROVE  rto.status = "completed" /\ rto.status \in Closed /\ task[w].step \notin Reopening
BY DEF Finishes, FinalBy, Counted, Closed

LEMMA AcceptCreateFinishes ==
  ASSUME IInv, NEW w \in Workers, NEW d \in Deposits, AcceptCreate(w, d)
  PROVE  Finishes(w)'
<1>1. /\ Goes(w, "create_agreement", "open_charge")
      /\ SameOffer /\ SameBooks /\ SameIntents
      /\ rto' = Accepted(d)
  BY AcceptCreateEffect DEF IInv
<1>2. /\ rto'.credited = 0 /\ rto'.paid = 0 /\ rto'.kind = "none" /\ rto'.proof = FALSE
      /\ rto'.deposit = d /\ d \in Nat /\ Instalments \in Nat \ {0}
  BY <1>1, RtoAssumption DEF Accepted, NoAgreement
<1>3. Bookings' \in Nat
  BY <1>1, SameBooksKept, BookingsGrow
<1> QED
  BY <1>1, <1>2, <1>3 DEF Finishes, FinalBy, Counted, DueBooked, Short, PayoffSteps, Goes

LEMMA AcceptChargeFinishes ==
  ASSUME IInv, NEW w \in Workers, AcceptCharge(w), Finishes(w)
  PROVE  Finishes(w)'
<1>1. PICK kind \in {"acceptance", "card_setup"} :
        /\ Goes(w, "open_charge", "idle") /\ SameBooks
        /\ rto' = [rto EXCEPT !.pending = NextIntent, !.kind = kind]
  BY AcceptChargeEffect DEF IInv
<1>2. Money(rto) /\ ~rto.proof /\ Typed
  BY <1>1, RunningNotPassed DEF IInv, Typed, Agreements, Money, Reopening, Goes
<1> QED
  BY <1>1, <1>2, OpenFinishes, SameBooksKept

LEMMA SettleClaimFinishes ==
  ASSUME IInv, NEW w \in Workers, NEW i \in DOMAIN rtoIntents, SettleClaim(w, i), Finishes(w)
  PROVE  Finishes(w)'
<1>1. SameBooks /\ rto' = [rto EXCEPT !.pending = 0, !.kind = "none"]
  BY SettleClaimEffect DEF IInv
<1>2. \/ Goes(w, "idle", "book_deposit") \/ Goes(w, "idle", "attach_card")
      \/ Goes(w, "idle", "book_payoff") \/ Goes(w, "idle", "idle")
      \/ rto.kind = "installment" /\ rto.due # 0 /\ Goes(w, "idle", "book") /\ task'[w].n = rto.due
  BY SettleClaimEffect DEF IInv
<1>3. /\ Typed /\ Money(rto) /\ rto'.kind = "none" /\ DueKept /\ StatusKept /\ BooksKept
  BY <1>1, SameBooksKept DEF IInv, Typed, Agreements, Money, DueKept, StatusKept
<1>4. rto.proof => DueBooked
  BY DEF Finishes
<1>5. ASSUME NEW b, Goes(w, "idle", b),
             b \in {"book_deposit", "attach_card", "book_payoff", "idle"}
      PROVE  Finishes(w)'
  BY <1>3, <1>5, FinishesOn DEF Reopening
<1>6. ASSUME rto.kind = "installment", rto.due # 0, Goes(w, "idle", "book"), task'[w].n = rto.due
      PROVE  Finishes(w)'
  <2>1. rto.proof => task'[w].n \in BookedN'
    BY <1>3, <1>4, <1>6 DEF DueBooked, BooksKept
  <2> QED
    BY <1>3, <1>6, <2>1, FinishesOn DEF Reopening, PayoffSteps
<1> QED
  BY <1>2, <1>5, <1>6

LEMMA CreditDepositFinishes ==
  ASSUME IInv, NEW w \in Workers, CreditDeposit(w), Finishes(w)
  PROVE  Finishes(w)'
<1>1. /\ Goes(w, "credit_deposit", "idle") /\ SameBooks /\ Waits(rto)
      /\ rto'.status = rto.status /\ rto'.deposit = rto.deposit /\ rto'.paid = rto.paid
      /\ rto'.proof = rto.proof /\ rto'.credited = rto.deposit
  BY CreditDepositEffect DEF IInv
<1>2. rto.paid \in Nat /\ rto.deposit \in Nat
  BY DEF IInv, Typed, Agreements
<1>3. BooksKept
  BY <1>1, SameBooksKept
<1>4. Counted'
  BY <1>1, <1>2, <1>3, BookingsGrow DEF Finishes, Counted
<1>5. rto'.proof => DueBooked'
  BY <1>1, <1>3 DEF Finishes, DueBooked, Waits, BooksKept
<1>6. rto'.proof \/ Short'
  BY <1>1, <1>2 DEF Finishes, Short, Goes
<1> QED
  BY <1>1, <1>4, <1>5, <1>6 DEF Finishes, FinalBy, PayoffSteps, Reopening, Goes

LEMMA BookInstalmentFinishes ==
  ASSUME IInv, NEW w \in Workers, BookInstalment(w), Finishes(w)
  PROVE  Finishes(w)'
<1>1. /\ SameOffer /\ SameRto /\ SameIntents
      /\ task[w].n \in 1..Instalments
      /\ \A key : Booked(key) => Booked(key)'
      /\ BookedThen(<<"instalment", task[w].n>>)
      /\ \/ /\ Goes(w, "book", "claim_instalment") /\ ~Booked(<<"instalment", task[w].n>>)
            /\ task'[w].doc = task[w].doc
         \/ Goes(w, "book", "clear") /\ rtoLedger' = rtoLedger
         \/ Goes(w, "book", "idle") /\ rtoLedger' = rtoLedger
  BY BookInstalmentEffect DEF IInv
<1>2. Typed /\ Money(rto) /\ Waits(rto) /\ StatusKept /\ BooksKept /\ DueKept
  BY <1>1, SameRtoKept, GrownBooks DEF IInv, StatusKept, DueKept, Waits
<1>3. CASE Goes(w, "book", "claim_instalment") /\ ~Booked(<<"instalment", task[w].n>>)
  <2>1. task[w].n \notin BookedN
    BY <1>3 DEF BookedN
  <2>2. task[w].n \in BookedN'
    BY <1>1 DEF BookedN, BookedThen, Booked
  <2>3. Bookings < Bookings' /\ Bookings \in Nat /\ Bookings' \in Nat
    BY <1>2, <2>1, <2>2, BookingsGrow
  <2>4. rto.paid <= Bookings /\ rto.paid \in Nat
    BY <1>2 DEF Finishes, Counted, Typed, Agreements
  <2>5. rto.paid < Bookings'
    BY <2>3, <2>4
  <2>6. ~rto.proof
    BY <1>3, <2>1 DEF Finishes, FinalBy, Goes
  <2> QED
    BY <1>2, <1>3, <2>5, <2>6, FinishesOn DEF PayoffSteps
<1>4. CASE Goes(w, "book", "clear") \/ Goes(w, "book", "idle")
  BY <1>2, <1>4, QuietFinishes DEF Waits
<1> QED
  BY <1>1, <1>3, <1>4

LEMMA ClaimInstalmentFinishes ==
  ASSUME IInv, NEW w \in Workers, ClaimInstalment(w), Finishes(w)
  PROVE  Finishes(w)'
<1>1. Goes(w, "claim_instalment", "apply") /\ SameRto /\ SameBooks
  BY ClaimInstalmentEffect DEF IInv
<1>2. Typed /\ Money(rto) /\ Waits(rto) /\ StatusKept /\ BooksKept /\ DueKept
  BY <1>1, SameRtoKept, SameBooksKept DEF IInv, StatusKept, DueKept, Waits
<1>3. rto.paid < Bookings /\ ~rto.proof
  BY <1>1, RunningNotPassed DEF Finishes, FinalBy, Reopening, Goes
<1>4. rto.paid \in Nat
  BY <1>2 DEF Typed, Agreements
<1>5. rto.paid < Bookings'
  BY <1>2, <1>3, <1>4, BookingsGrow
<1> QED
  BY <1>1, <1>2, <1>3, <1>5, FinishesOn DEF PayoffSteps

LEMMA ApplyInstalmentFinishes ==
  ASSUME IInv, NEW w \in Workers, ApplyInstalment(w), Finishes(w), Spared({"overlap"})
  PROVE  Finishes(w)'
<1>1. /\ SameBooks /\ Waits(rto)
      /\ rto'.deposit = rto.deposit /\ rto'.proof = rto.proof
      /\ rto'.paid = task[w].doc.paid + 1 /\ rto'.credited = task[w].doc.credited + 1
      /\ \/ Goes(w, "apply", "complete") /\ LastOf(task[w].doc)
         \/ Goes(w, "apply", "clear") /\ ~LastOf(task[w].doc)
         \/ Goes(w, "apply", "idle") /\ ~LastOf(task[w].doc)
  BY ApplyInstalmentEffect DEF IInv
<1>2. Typed /\ task[w].step = "apply"
  BY <1>1 DEF IInv, Goes
<1>3. task[w].doc.paid = rto.paid /\ task[w].doc.credited = rto.credited
  BY <1>2 DEF IInv, Current, LatestSteps
<1>4. /\ rto'.paid = rto.paid + 1 /\ rto'.credited = rto.credited + 1
      /\ rto.paid \in Nat /\ rto.credited \in Nat /\ rto.deposit \in Nat /\ Instalments \in Nat
      /\ BooksKept
  BY <1>1, <1>2, <1>3, SameBooksKept, RtoAssumption DEF Typed, Agreements
<1>5. rto.paid < Bookings /\ ~rto.proof /\ Short
  BY <1>2, RunningNotPassed DEF Finishes, FinalBy, Reopening
<1>6. rto'.paid <= Bookings' /\ Bookings' \in Nat
  BY <1>4, <1>5, BookingsGrow
<1>7. FinalBy(w)' /\ Counted'
  BY <1>1, <1>5, <1>6 DEF FinalBy, Counted, PayoffSteps, Goes
<1>8. CASE Goes(w, "apply", "complete") /\ LastOf(task[w].doc)
  <2>1. Bookings' >= Instalments
    BY <1>3, <1>4, <1>6, <1>8 DEF LastOf
  <2>2. BookedN' = 1..Instalments
    <3> DEFINE T == BookedN'
    <3>1. T \in SUBSET (1..Instalments) /\ Cardinality(T) >= Instalments
      BY <2>1 DEF BookedN, Bookings
    <3> HIDE DEF T
    <3>2. T = 1..Instalments
      BY <3>1, NumbersOf
    <3> QED
      BY <3>2 DEF T
  <2>3. rto'.due \in 0..Instalments
    BY <1>8 DEF Goes, Typed, Agreements
  <2>4. DueBooked'
    BY <1>4, <2>2, <2>3 DEF DueBooked
  <2> QED
    BY <1>7, <1>8, <2>4 DEF Finishes, Goes
<1>9. CASE /\ Goes(w, "apply", "clear") \/ Goes(w, "apply", "idle")
           /\ ~LastOf(task[w].doc)
  <2>1. Short'
    BY <1>1, <1>3, <1>4, <1>5, <1>9 DEF Short, LastOf
  <2> QED
    BY <1>1, <1>5, <1>7, <1>9, <2>1 DEF Finishes, Goes
<1> QED
  BY <1>1, <1>8, <1>9

LEMMA CompleteFinishes ==
  ASSUME IInv, NEW w \in Workers, Complete(w), Finishes(w)
  PROVE  Finishes(w)'
<1>1. /\ Goes(w, "complete", "clear") \/ Goes(w, "complete", "idle")
      /\ SameBooks
      /\ rto' = [rto EXCEPT !.status = "completed", !.proof = TRUE]
  BY CompleteEffect DEF IInv
<1>2. /\ rto'.paid = rto.paid /\ rto'.kind = rto.kind /\ rto'.due = rto.due
      /\ rto'.status = "completed" /\ rto'.proof /\ rto.paid \in Nat /\ BooksKept
  BY <1>1, SameBooksKept DEF IInv, Typed, Agreements
<1>3. Counted'
  BY <1>2, BookingsGrow DEF Finishes, Counted
<1>4. DueBooked'
  BY <1>1, <1>2 DEF Finishes, DueBooked, BooksKept, Goes
<1> QED
  BY <1>1, <1>2, <1>3, <1>4 DEF Finishes, FinalBy, PayoffSteps, Reopening, Goes

LEMMA CreditPayoffFinishes ==
  ASSUME IInv, NEW w \in Workers, CreditPayoff(w), Finishes(w)
  PROVE  Finishes(w)'
<1>1. /\ Goes(w, "credit_payoff", "complete") /\ SameBooks /\ Waits(rto)
      /\ rto'.status = rto.status /\ rto'.paid = rto.paid /\ rto'.proof = rto.proof
  BY CreditPayoffEffect DEF IInv
<1>2. rto.kind = "none" /\ rto.paid \in Nat /\ BooksKept
  BY <1>1, SameBooksKept DEF Finishes, FinalBy, PayoffSteps, Goes, IInv, Typed, Agreements
<1>3. Counted'
  BY <1>1, <1>2, BookingsGrow DEF Finishes, Counted
<1>4. DueBooked'
  BY <1>1, <1>2 DEF DueBooked, Waits
<1> QED
  BY <1>1, <1>3, <1>4 DEF Finishes, FinalBy, PayoffSteps, Reopening, Goes

LEMMA PayOffFinishes ==
  ASSUME IInv, NEW w \in Workers, PayOff(w), Finishes(w)
  PROVE  Finishes(w)'
<1>1. /\ SameRto /\ SameBooks /\ rto.status \notin Closed
      /\ \/ Goes(w, "idle", "open_intent")
         \/ Goes(w, "idle", "complete") /\ rto.credited >= Cash
  BY PayOffEffect DEF IInv
<1>2. Typed /\ Money(rto) /\ ~rto.proof /\ BooksKept
  BY <1>1, SameRtoKept, SameBooksKept, RunningNotPassed DEF IInv
<1>3. CASE Goes(w, "idle", "open_intent")
  BY <1>2, <1>3, OpenFinishes
<1>4. CASE Goes(w, "idle", "complete") /\ rto.credited >= Cash
  <2>1. Short
    BY <1>2, <1>4 DEF Finishes, Goes
  <2>2. /\ rto.credited \in Nat /\ rto.deposit \in Nat /\ rto.paid \in Nat
        /\ Instalments \in Nat
    BY <1>2, RtoAssumption DEF Typed, Agreements
  <2>3. FALSE
    BY <1>4, <2>1, <2>2 DEF Short, Cash
  <2> QED
    BY <2>3
<1> QED
  BY <1>1, <1>3, <1>4

\* The handlers that leave the agreement as it is, or what is said of it here.
LEMMA QuietActs ==
  ASSUME IInv, NEW w \in Workers, Finishes(w),
         \/ AcceptBegin(w) \/ AcceptClaim(w) \/ AcceptRefused(w) \/ SweepList(w)
         \/ AttachCard(w) \/ BookDeposit(w) \/ ClearAsk(w) \/ BookPayoff(w) \/ SweepThrows(w)
  PROVE  Finishes(w)'
<1>1. Typed
  BY DEF IInv
<1>2. ASSUME NEW a, NEW b, Goes(w, a, b), SameRto, BooksKept, a # "complete",
             b \in {"idle", "load", "claim_unit", "create_agreement", "credit_deposit"}
      PROVE  Finishes(w)'
  <2>1. Money(rto) /\ rto'.kind = rto.kind /\ rto'.due \in {rto.due, 0} /\ StatusKept
    BY <1>2, SameRtoKept DEF Waits, StatusKept
  <2> QED
    BY <1>1, <1>2, <2>1, QuietFinishes
<1>3. CASE AcceptBegin(w) \/ AcceptRefused(w) \/ SweepList(w)
  BY <1>1, <1>2, <1>3, AcceptBeginEffect, AcceptRefusedEffect, SweepListEffect, SameBooksKept
<1>4. CASE AcceptClaim(w)
  <2>1. /\ SameRto /\ SameBooks
        /\ Goes(w, "claim_unit", "create_agreement") \/ Goes(w, "claim_unit", "idle")
    BY <1>1, <1>4, AcceptClaimEffect
  <2> QED
    BY <1>2, <2>1, SameBooksKept
<1>5. ASSUME AttachCard(w) PROVE Finishes(w)'
  <2>1. /\ Goes(w, "attach_card", "idle") /\ SameBooks /\ Money(rto) /\ Waits(rto)
        /\ rto'.status = rto.status
    BY <1>1, <1>5, AttachCardEffect
  <2> QED
    BY <1>1, <2>1, SameBooksKept, QuietFinishes DEF Waits, StatusKept
<1>6. ASSUME BookDeposit(w) PROVE Finishes(w)'
  <2>1. /\ Goes(w, "book_deposit", "credit_deposit") /\ SameRto
        /\ \A key : Booked(key) => Booked(key)'
    BY <1>1, <1>6, BookDepositEffect
  <2> QED
    BY <1>2, <2>1, GrownBooks
<1>7. ASSUME ClearAsk(w) PROVE Finishes(w)'
  <2>1. /\ Goes(w, "clear", "idle") /\ SameBooks /\ Money(rto)
        /\ rto'.status = rto.status /\ rto'.kind = rto.kind /\ rto'.due = 0
    BY <1>1, <1>7, ClearAskEffect
  <2> QED
    BY <1>1, <2>1, SameBooksKept, QuietFinishes DEF StatusKept
<1>8. ASSUME BookPayoff(w) PROVE Finishes(w)'
  <2>1. /\ Goes(w, "book_payoff", "credit_payoff") /\ SameRto
        /\ \A key : Booked(key) => Booked(key)'
    BY <1>1, <1>8, BookPayoffEffect
  <2>2. Money(rto) /\ Waits(rto) /\ StatusKept /\ BooksKept /\ DueKept
    BY <2>1, SameRtoKept, GrownBooks DEF StatusKept, DueKept, Waits
  <2>3. rto'.kind = "none"
    BY <2>1, <2>2 DEF Finishes, FinalBy, PayoffSteps, Waits, Goes
  <2> QED
    BY <1>1, <2>1, <2>2, <2>3, FinishesOn DEF Reopening
<1>9. ASSUME SweepThrows(w) PROVE Finishes(w)'
  <2>1. /\ Goes(w, task[w].step, "idle") /\ task[w].step \in {"book", "claim_instalment", "apply"}
        /\ SameBooks /\ Money(rto) /\ Waits(rto)
        /\ rto'.status = rto.status \/ rto.status \notin Closed
    BY <1>1, <1>9, SweepThrowsEffect
  <2>2. StatusKept
    BY <2>1, RunningNotPassed DEF StatusKept
  <2> QED
    BY <1>1, <2>1, <2>2, SameBooksKept, QuietFinishes DEF Waits
<1> QED
  BY <1>3, <1>4, <1>5, <1>6, <1>7, <1>8, <1>9

\* The handlers that find the agreement running, or are not there once it has passed.
LEMMA RunningActs ==
  ASSUME IInv, NEW w \in Workers, Finishes(w),
         \/ PayInstalment(w) \/ ReturnBegin(w) \/ (\E to \in Remedies : RemedyRead(w, to))
         \/ SweepLoad(w) \/ SweepCharge(w) \/ SweepChallenged(w) \/ SweepMissed(w)
         \/ OpenIntent(w) \/ RemedyApply(w) \/ ReturnSettle(w)
  PROVE  Finishes(w)'
<1>1. Typed
  BY DEF IInv
<1>2. ASSUME NEW a, NEW b, Goes(w, a, b), Money(rto), BooksKept, a # "complete",
             a \in Reopening \/ rto.status \notin Closed \/ rto.status = "return_pending",
             b \in {"idle", "charge", "book", "open_intent", "remedy", "settle_return"}
      PROVE  Finishes(w)'
  <2>1. ~rto.proof
    BY <1>2, RunningNotPassed DEF Goes, Closed
  <2> QED
    BY <1>1, <1>2, <2>1, OpenFinishes
<1>3. CASE PayInstalment(w) \/ ReturnBegin(w) \/ \E to \in Remedies : RemedyRead(w, to)
  <2>1. /\ SameRto /\ SameBooks
        /\ rto.status \notin Closed \/ rto.status = "return_pending"
        /\ \E b \in {"open_intent", "settle_return", "remedy"} : Goes(w, "idle", b)
    BY <1>1, <1>3, PayInstalmentEffect, ReturnBeginEffect, RemedyReadEffect DEF Running
  <2> QED
    BY <1>2, <2>1, SameRtoKept, SameBooksKept
<1>4. CASE SweepLoad(w)
  <2>1. /\ SameBooks /\ Money(rto) /\ Waits(rto) /\ rto'.status = rto.status
        /\ \/ Goes(w, "load", "idle")
           \/ Goes(w, "load", "charge") /\ rto.status \notin Closed
    BY <1>1, <1>4, SweepLoadEffect
  <2>2. CASE Goes(w, "load", "idle")
    BY <1>1, <2>1, <2>2, SameBooksKept, QuietFinishes DEF Waits, StatusKept
  <2>3. CASE Goes(w, "load", "charge") /\ rto.status \notin Closed
    BY <1>2, <2>1, <2>3, SameBooksKept
  <2> QED
    BY <2>1, <2>2, <2>3
<1>5. CASE \/ SweepCharge(w) \/ SweepChallenged(w) \/ SweepMissed(w) \/ OpenIntent(w)
           \/ RemedyApply(w)
  <2>1. /\ Money(rto) /\ SameBooks
        /\ \/ Goes(w, "charge", "book") \/ Goes(w, "charge", "idle")
           \/ Goes(w, "open_intent", "idle") \/ Goes(w, "remedy", "idle")
    BY <1>1, <1>5, SweepChargeEffect, SweepChallengedEffect, SweepMissedEffect, OpenIntentEffect,
       RemedyApplyEffect, SameRtoKept
  <2> QED
    BY <1>2, <2>1, SameBooksKept DEF Reopening
<1>6. CASE ReturnSettle(w)
  <2>1. /\ Goes(w, "settle_return", "idle") /\ Money(rto)
        /\ \A key : Booked(key) => Booked(key)'
    BY <1>1, <1>6, ReturnSettleEffect
  <2> QED
    BY <1>2, <2>1, GrownBooks DEF Reopening
<1> QED
  BY <1>3, <1>4, <1>5, <1>6

LEMMA ActsFinish ==
  ASSUME IInv, NEW w \in Workers, Acts(w), Finishes(w), Spared({"crash", "overlap"})'
  PROVE  Finishes(w)'
<1>1. befell \subseteq befell'
  BY ActsMoves DEF Moves
<1>2. Spared({"overlap"}) /\ "crash" \notin befell'
  BY <1>1, FinalBefore DEF Spared
<1>3. ~RtoCrash(w)
  BY <1>2, CrashEffect DEF IInv
<1>4. CASE \/ AcceptBegin(w) \/ AcceptClaim(w) \/ AcceptRefused(w) \/ SweepList(w)
           \/ AttachCard(w) \/ BookDeposit(w) \/ ClearAsk(w) \/ BookPayoff(w) \/ SweepThrows(w)
  BY <1>4, QuietActs
<1>5. CASE \/ PayInstalment(w) \/ ReturnBegin(w) \/ (\E to \in Remedies : RemedyRead(w, to))
           \/ SweepLoad(w) \/ SweepCharge(w) \/ SweepChallenged(w) \/ SweepMissed(w)
           \/ OpenIntent(w) \/ RemedyApply(w) \/ ReturnSettle(w)
  BY <1>5, RunningActs
<1>6. CASE \/ AcceptCharge(w) \/ (\E d \in Deposits : AcceptCreate(w, d))
           \/ (\E i \in DOMAIN rtoIntents : SettleClaim(w, i)) \/ PayOff(w)
  BY <1>6, AcceptChargeFinishes, AcceptCreateFinishes, SettleClaimFinishes, PayOffFinishes
<1>7. CASE \/ CreditDeposit(w) \/ BookInstalment(w) \/ ClaimInstalment(w)
           \/ ApplyInstalment(w) \/ Complete(w) \/ CreditPayoff(w)
  BY <1>2, <1>7, CreditDepositFinishes, BookInstalmentFinishes, ClaimInstalmentFinishes,
     ApplyInstalmentFinishes, CompleteFinishes, CreditPayoffFinishes
<1> QED
  BY <1>3, <1>4, <1>5, <1>6, <1>7 DEF Acts, Handles

\* What others do while the handlers stay where they are: what has passed stays.
LEMMA WatchFinal ==
  ASSUME IInv, Final,
         \/ Escalate
         \/ \E w \in Workers : PartialPayment(w) \/ Reinstate(w)
         \/ \E i \in DOMAIN rtoIntents : Confirm(i)
         \/ Publish \/ TakenByAnother
         \/ \E s \in {"active", "paused", "withdrawn"} : SetOffer(s)
         \/ \E g \in Gates : CloseGate(g)
  PROVE  (Typed' => Final') /\ (rto.proof => rto'.proof)
<1>1. Typed
  BY DEF IInv
<1>2. ASSUME Spared({"crash", "overlap"}), rto.proof
      PROVE  rto.status = "completed"
  BY <1>2 DEF Final, Counted
<1>3. ASSUME Watches, Money(rto), Waits(rto), BooksKept,
             rto'.status = rto.status \/ rto.status # "completed"
      PROVE  Final' /\ (rto.proof => rto'.proof)
  <2>1. Spared({"crash", "overlap"})' => Spared({"crash", "overlap"})
    BY <1>3, FinalBefore DEF Watches
  <2>2. CASE Spared({"crash", "overlap"})'
    <3>1. StatusKept
      BY <1>2, <1>3, <2>1, <2>2 DEF StatusKept
    <3> QED
      BY <1>3, <3>1, WatchedFinal DEF Money
  <2>3. CASE ~Spared({"crash", "overlap"})'
    BY <1>3, <2>3 DEF Final, Money
  <2> QED
    BY <2>2, <2>3
<1>4. ASSUME Escalate PROVE Final' /\ (rto.proof => rto'.proof)
  <2>1. /\ Watches /\ Money(rto) /\ Waits(rto) /\ rto.status = "grace"
        /\ \A key : Booked(key) => Booked(key)'
    BY <1>1, <1>4, EscalateEffect
  <2> QED
    BY <1>3, <2>1, GrownBooks
<1>5. ASSUME NEW w \in Workers, PartialPayment(w) PROVE Final' /\ (rto.proof => rto'.proof)
  <2>1. /\ Watches /\ Money(rto) /\ Waits(rto) /\ rto'.status = rto.status
        /\ \A key : Booked(key) => Booked(key)'
    BY <1>1, <1>5, PartialPaymentEffect
  <2> QED
    BY <1>3, <2>1, GrownBooks
<1>6. ASSUME NEW w \in Workers, Reinstate(w) PROVE Final' /\ (rto.proof => rto'.proof)
  <2>1. /\ Watches /\ Money(rto) /\ Waits(rto) /\ SameBooks /\ rto.status # "completed"
    BY <1>1, <1>6, ReinstateEffect
  <2> QED
    BY <1>3, <2>1, SameBooksKept
<1>7. ASSUME NEW i \in DOMAIN rtoIntents, Confirm(i) PROVE Final' /\ (rto.proof => rto'.proof)
  <2>1. Watches /\ SameRto /\ SameBooks
    BY <1>1, <1>7, ConfirmEffect
  <2> QED
    BY <1>3, <2>1, SameRtoKept, SameBooksKept
<1>8. ASSUME \/ Publish \/ TakenByAnother
             \/ \E s \in {"active", "paused", "withdrawn"} : SetOffer(s)
             \/ \E g \in Gates : CloseGate(g)
      PROVE  (Typed' => Final') /\ (rto.proof => rto'.proof)
  <2>1. AtOnce /\ SameRto /\ SameBooks
    BY <1>8 DEF Publish, TakenByAnother, SetOffer, CloseGate, SameRto, SameBooks
  <2>2. Typed' => Watches
    BY <2>1, AtOnceStays DEF Watches
  <2> QED
    BY <1>3, <2>1, <2>2, SameRtoKept, SameBooksKept DEF SameRto
<1> QED
  BY <1>4, <1>5, <1>6, <1>7, <1>8

LEMMA NextKeepsFinal ==
  IInv /\ Final /\ [RtoNext]_rtoVars => Final' /\ (rto.proof => rto'.proof)
<1>1. ASSUME IInv, Final, RtoNext
      PROVE  Final' /\ (rto.proof => rto'.proof)
  <2>1. Typed'
    BY <1>1, NextKeepsInvariant DEF IInv
  <2>2. ASSUME NEW w \in Workers, Acts(w)
        PROVE  Final' /\ (rto.proof => rto'.proof)
    BY <1>1, <2>2, ActsMoves, ActsFinish, FinalGoes
  <2> QED
    BY <1>1, <2>1, <2>2, NextCases, WatchFinal DEF Acts
<1>2. ASSUME IInv, Final, UNCHANGED rtoVars
      PROVE  Final' /\ (rto.proof => rto'.proof)
  <2>1. Typed' /\ Watches /\ SameRto /\ SameBooks
    BY <1>2, Stutter DEF IInv, rtoVars, Watches, SameRto, SameBooks
  <2>2. Money(rto) /\ Waits(rto) /\ StatusKept /\ BooksKept
    BY <2>1, SameRtoKept, SameBooksKept DEF StatusKept
  <2> QED
    BY <1>2, <2>1, <2>2, WatchedFinal DEF SameRto
<1> QED
  BY <1>1, <1>2

LEMMA InitFinal == HandlersInit /\ RtoInit => Final
<1> SUFFICES ASSUME HandlersInit, RtoInit
             PROVE  Final
  OBVIOUS
<1>1. rto = NoAgreement /\ \A w \in Workers : task[w].step = "idle"
  BY DEF HandlersInit, RtoInit, Resting
<1>2. /\ rto.credited = 0 /\ rto.paid = 0 /\ rto.deposit = 0 /\ rto.proof = FALSE
      /\ rto.kind = "none"
  BY <1>1 DEF NoAgreement
<1>3. \A w \in Workers : FinalBy(w)
  BY <1>1, <1>2 DEF FinalBy, PayoffSteps
<1>4. Counted
  <2> DEFINE T == BookedN
  <2>1. T \in SUBSET (1..Instalments)
    BY DEF BookedN
  <2> HIDE DEF T
  <2>2. Cardinality(T) \in Nat
    BY <2>1, NumbersOf
  <2> QED
    BY <1>2, <2>2 DEF T, Counted, Bookings
<1>5. Short
  BY <1>2, RtoAssumption DEF Short
<1> QED
  BY <1>1, <1>2, <1>3, <1>4, <1>5 DEF Final, Completing

LEMMA FinalInvariant == RtoSpec => []Final
BY InitFinal, NextKeepsFinal, Invariant, PTL DEF RtoSpec

\* Once ownership has passed, no late payment, sweep, remedy or reinstatement reopens the
\* agreement, for any number of handlers, instalments and mishaps, but for a handler that
\* died or had read the agreement before.
THEOREM OwnershipIsFinal == RtoSpec => RtoOwnedIsFinal
<1>1. IInv /\ Final /\ Final' /\ [RtoNext]_rtoVars =>
        [rto.proof /\ Spared({"overlap", "crash"})' => rto'.status = "completed"]_rtoVars
  <2> SUFFICES ASSUME IInv, Final, Final', [RtoNext]_rtoVars,
                      rto.proof, Spared({"overlap", "crash"})'
               PROVE  rto'.status = "completed"
    OBVIOUS
  <2>1. rto'.proof
    BY NextKeepsFinal
  <2>2. Spared({"crash", "overlap"})'
    BY DEF Spared
  <2> QED
    BY <2>1, <2>2 DEF Final, Counted
<1> QED
  BY <1>1, Invariant, FinalInvariant, PTL DEF RtoSpec, RtoOwnedIsFinal

-----------------------------------------------------------------------------
(***************************************************************************)
(* The books: their form, and what else holds whatever happens.            *)
(***************************************************************************)

\* The keys of entries.
Keys ==
  {<<"initial", 0>>, <<"payoff", 0>>, <<"partial", 0>>}
    \cup {<<"instalment", n>> : n \in 1..Instalments}
    \cup {<<"late_fee", n>> : n \in 1..Instalments}
    \cup {<<"refund", n>> : n \in Nat}

Lines == [key : Keys, amount : Int, credit : Int]

Listed ==
  /\ IsFiniteSet(rtoLedger)
  /\ rtoLedger \subseteq Lines
  /\ rto.status = "none" => rtoLedger = {} /\ rtoStatements = {}

\* How many instalments the books count.
Count == Cardinality(Entries({"instalment"}))

\* A line is new in the books.
Enters(line) == line \in Lines /\ line \notin rtoLedger /\ rtoLedger' = rtoLedger \cup {line}

Line(key, amount, credit) == [key |-> key, amount |-> amount, credit |-> credit]

LEMMA AppendEnters ==
  ASSUME NEW key \in Keys, NEW amount \in Int, NEW credit \in Int,
         AppendLedger(key, amount, credit)
  PROVE  /\ Booked(key) => SameBooks
         /\ ~Booked(key) => Enters(Line(key, amount, credit))
BY DEF AppendLedger, Booked, SameBooks, Enters, Line, Lines

\* What a set of keys adds up to, and how it grows.
LEMMA TotalType ==
  ASSUME Listed, NEW K
  PROVE  /\ Total(Entries(K)) \in Int /\ IsFiniteSet(Entries(K))
         /\ Total(Entries(K)) = SumFunctionOnSet([e \in Entries(K) |-> e.amount], Entries(K))
         /\ Count \in Nat
<1> DEFINE S == Entries(K)
           v == [e \in S |-> e.amount]
<1>1. \A T : IsFiniteSet(Entries(T))
  BY FS_Subset DEF Listed, Entries
<1>2. \A e \in S : v[e] \in Int
  BY DEF Listed, Entries, Lines
<1>3. Total(S) = SumFunctionOnSet(v, S)
  BY DEF Total, SumFunction
<1> HIDE DEF v, S
<1>4. SumFunctionOnSet(v, S) \in Int
  BY <1>1, <1>2, SumTakeOut DEF S
<1>5. Count \in Nat
  BY <1>1, FS_CardinalityType DEF Count
<1> QED
  BY <1>1, <1>3, <1>4, <1>5 DEF S, v

LEMMA TotalSame ==
  ASSUME SameBooks, NEW K
  PROVE  /\ Total(Entries(K))' = Total(Entries(K)) /\ Entries(K)' = Entries(K)
         /\ Equity' = Equity /\ Count' = Count
BY DEF SameBooks, Total, Entries, Equity, Count

LEMMA TotalEnters ==
  ASSUME Listed, NEW line, Enters(line), NEW K
  PROVE  /\ IsFiniteSet(rtoLedger') /\ rtoLedger' \subseteq Lines
         /\ Total(Entries(K))' = Total(Entries(K)) + (IF line.key[1] \in K THEN line.amount ELSE 0)
<1> DEFINE S == Entries(K)
           T == Entries(K)'
           v == [e \in S |-> e.amount]
           u == [e \in T |-> e.amount]
<1>1. IsFiniteSet(rtoLedger') /\ rtoLedger' \subseteq Lines
  BY FS_AddElement DEF Listed, Enters
<1>2. IsFiniteSet(S) /\ Total(S) = SumFunctionOnSet(v, S) /\ Total(S) \in Int
  BY TotalType
<1>3. Total(S)' = SumFunctionOnSet(u, T)
  BY DEF Total, SumFunction
<1>4. CASE line.key[1] \in K
  <2>1. T = S \cup {line} /\ line \notin S
    BY <1>4 DEF Entries, Enters
  <2>2. \A e \in S : e \in T /\ e \in rtoLedger /\ e.amount \in Int /\ v[e] = e.amount /\ u[e] = e.amount
    BY <2>1 DEF Listed, Entries, Lines
  <2>3. u[line] = line.amount /\ line.amount \in Int
    BY <2>1 DEF Enters, Lines
  <2>5. OneMore(v, u, S, line)
    <3>1. \A e \in S : v[e] \in Int /\ u[e] = v[e]
      BY <2>2
    <3> QED
      BY <2>3, <3>1 DEF OneMore
  <2> HIDE DEF u, v, S, T
  <2>4. SumFunctionOnSet(u, S \cup {line}) = SumFunctionOnSet(v, S) + u[line]
    BY <1>2, <2>1, <2>5, SumOneMore
  <2> QED
    BY <1>1, <1>2, <1>3, <1>4, <2>1, <2>3, <2>4 DEF S
<1>5. CASE line.key[1] \notin K
  <2>1. T = S
    BY <1>5 DEF Entries, Enters
  <2>2. Total(S)' = Total(S)
    BY <1>2, <1>3, <2>1
  <2> QED
    BY <1>1, <1>2, <1>5, <2>2
<1> QED
  BY <1>4, <1>5

LEMMA CountEnters ==
  ASSUME Listed, NEW line, Enters(line)
  PROVE  /\ Equity' = Equity + line.credit /\ Equity \in Int
         /\ Count' = Count + (IF line.key[1] = "instalment" THEN 1 ELSE 0)
<1> DEFINE S == rtoLedger
           v == [e \in S |-> e.credit]
           u == [e \in rtoLedger' |-> e.credit]
           C == Entries({"instalment"})
<1>1. rtoLedger' = S \cup {line} /\ line \notin S /\ line.credit \in Int /\ IsFiniteSet(S)
  BY DEF Enters, Lines, Listed
<1>2. \A e \in S : e.credit \in Int
  BY DEF Listed, Lines
<1>3. OneMore(v, u, S, line)
  <2>1. \A e \in S : v[e] = e.credit /\ u[e] = e.credit
    BY <1>1
  <2>2. u[line] = line.credit
    BY <1>1
  <2> QED
    BY <1>1, <1>2, <2>1, <2>2 DEF OneMore
<1>4. u[line] = line.credit
  BY <1>1
<1>5. Equity = SumFunctionOnSet(v, S) /\ Equity' = SumFunctionOnSet(u, rtoLedger')
  BY DEF Equity, SumFunction
<1>6. \A e \in S : v[e] \in Int
  BY <1>2
<1> HIDE DEF v, u
<1>7. SumFunctionOnSet(v, S) \in Int
  BY <1>1, <1>6, SumTakeOut
<1>8. SumFunctionOnSet(u, S \cup {line}) = SumFunctionOnSet(v, S) + u[line]
  BY <1>1, <1>3, SumOneMore
<1>9. Equity' = Equity + line.credit /\ Equity \in Int
  BY <1>1, <1>4, <1>5, <1>7, <1>8
<1>10. IsFiniteSet(C) /\ Count = Cardinality(C) /\ Count \in Nat
  BY TotalType DEF Count
<1>11. CASE line.key[1] = "instalment"
  <2>1. C' = C \cup {line} /\ line \notin C
    BY <1>1, <1>11 DEF Entries
  <2> HIDE DEF C
  <2>2. Cardinality(C \cup {line}) = Cardinality(C) + 1
    BY <1>10, <2>1, FS_AddElement
  <2>3. Count' = Cardinality(C')
    BY DEF Count, C
  <2> QED
    BY <1>9, <1>10, <1>11, <2>1, <2>2, <2>3
<1>12. CASE line.key[1] # "instalment"
  <2>1. Entries({"instalment"})' = Entries({"instalment"})
    BY <1>1, <1>12 DEF Entries
  <2>2. Count' = Count
    BY <2>1 DEF Count
  <2> QED
    BY <1>9, <1>10, <1>12, <2>2
<1> QED
  BY <1>11, <1>12

\* What Stripe collected, and what it collected or will for part payments.
Charged ==
  SumFunction([i \in DOMAIN rtoIntents |->
                 IF rtoIntents[i].status = "succeeded" \/ rtoIntents[i].kind = "partial"
                   THEN rtoIntents[i].amount ELSE 0])

Taken(i) == IF i.status = "succeeded" THEN i.amount ELSE 0

Expected(i) == IF i.status = "succeeded" \/ i.kind = "partial" THEN i.amount ELSE 0

LEMMA CollectedType ==
  ASSUME Typed
  PROVE  /\ Collected \in Nat /\ Charged \in Nat /\ IsFiniteSet(DOMAIN rtoIntents)
         /\ Collected = SumFunctionOnSet([i \in DOMAIN rtoIntents |-> Taken(rtoIntents[i])], DOMAIN rtoIntents)
         /\ Charged = SumFunctionOnSet([i \in DOMAIN rtoIntents |-> Expected(rtoIntents[i])], DOMAIN rtoIntents)
         /\ \A i \in Intents : Taken(i) \in Nat /\ Expected(i) \in Nat
<1> DEFINE S == DOMAIN rtoIntents
           v == [i \in S |-> Taken(rtoIntents[i])]
           u == [i \in S |-> Expected(rtoIntents[i])]
<1>1. IsFiniteSet(S)
  BY SettledType
<1>2. \A i \in Intents : Taken(i) \in Nat /\ Expected(i) \in Nat
  BY DEF Taken, Expected, Intents
<1>3. \A i \in S : v[i] \in Nat /\ u[i] \in Nat
  BY <1>2 DEF Typed
<1>4. Collected = SumFunctionOnSet(v, S) /\ Charged = SumFunctionOnSet(u, S)
  BY DEF Collected, Charged, Taken, Expected, SumFunction
<1> HIDE DEF v, u, S
<1>5. SumFunctionOnSet(v, S) \in Nat /\ SumFunctionOnSet(u, S) \in Nat
  BY <1>1, <1>3, SumNotNegative
<1> QED
  BY <1>1, <1>2, <1>4, <1>5 DEF v, u, S

LEMMA CollectedSame ==
  ASSUME SameIntents
  PROVE  Collected' = Collected /\ Charged' = Charged
BY DEF SameIntents, Collected, Charged

LEMMA CollectedAdded ==
  ASSUME Typed, NEW kind, NEW n, NEW amount, NEW status,
         [kind |-> kind, n |-> n, amount |-> amount, status |-> status] \in Intents,
         rtoIntents' = Opened(kind, n, amount, status)
  PROVE  /\ Collected' = Collected + (IF status = "succeeded" THEN amount ELSE 0)
         /\ Charged' = Charged + (IF status = "succeeded" \/ kind = "partial" THEN amount ELSE 0)
<1> DEFINE r == [kind |-> kind, n |-> n, amount |-> amount, status |-> status]
           S == DOMAIN rtoIntents
           j == NextIntent
<1>1. r \in Intents
  OBVIOUS
<1>2. DOMAIN rtoIntents' = S \cup {j}
  BY IntentAdded
<1>3. j \notin S
  BY IntentAdded
<1>4. \A i \in S : rtoIntents'[i] = rtoIntents[i]
  BY IntentAdded
<1>5. rtoIntents'[j] = r
  BY IntentAdded
<1>6. /\ Taken(r) = IF status = "succeeded" THEN amount ELSE 0
      /\ Expected(r) = IF status = "succeeded" \/ kind = "partial" THEN amount ELSE 0
  BY DEF Taken, Expected
<1>7. /\ Taken(r) \in Nat /\ Expected(r) \in Nat
      /\ \A i \in S : Taken(rtoIntents[i]) \in Nat /\ Expected(rtoIntents[i]) \in Nat
  <2> HIDE DEF r
  <2> QED
    BY <1>1, CollectedType DEF Typed
<1> HIDE DEF r, j
<1>8. Collected' = Collected + Taken(r)
  <2> DEFINE v == [i \in S |-> Taken(rtoIntents[i])]
             u == [i \in DOMAIN rtoIntents' |-> Taken(rtoIntents'[i])]
  <2>1. OneMore(v, u, S, j)
    <3>1. \A i \in S : v[i] = Taken(rtoIntents[i]) /\ u[i] = Taken(rtoIntents[i])
      BY <1>2, <1>4
    <3>2. u[j] = Taken(r)
      BY <1>2, <1>5
    <3> QED
      BY <1>7, <3>1, <3>2 DEF OneMore
  <2>2. u[j] = Taken(r)
    BY <1>2, <1>5
  <2>3. Collected = SumFunctionOnSet(v, S) /\ IsFiniteSet(S)
    BY CollectedType
  <2>4. Collected' = SumFunctionOnSet(u, S \cup {j})
    BY <1>2 DEF Collected, SumFunction, Taken
  <2> HIDE DEF u, v, S
  <2> QED
    BY <1>3, <2>1, <2>2, <2>3, <2>4, SumOneMore
<1>9. Charged' = Charged + Expected(r)
  <2> DEFINE v == [i \in S |-> Expected(rtoIntents[i])]
             u == [i \in DOMAIN rtoIntents' |-> Expected(rtoIntents'[i])]
  <2>1. OneMore(v, u, S, j)
    <3>1. \A i \in S : v[i] = Expected(rtoIntents[i]) /\ u[i] = Expected(rtoIntents[i])
      BY <1>2, <1>4
    <3>2. u[j] = Expected(r)
      BY <1>2, <1>5
    <3> QED
      BY <1>7, <3>1, <3>2 DEF OneMore
  <2>2. u[j] = Expected(r)
    BY <1>2, <1>5
  <2>3. Charged = SumFunctionOnSet(v, S) /\ IsFiniteSet(S)
    BY CollectedType
  <2>4. Charged' = SumFunctionOnSet(u, S \cup {j})
    BY <1>2 DEF Charged, SumFunction, Expected
  <2> HIDE DEF u, v, S
  <2> QED
    BY <1>3, <2>1, <2>2, <2>3, <2>4, SumOneMore
<1> QED
  BY <1>6, <1>8, <1>9

LEMMA CollectedConfirmed ==
  ASSUME Typed, NEW i \in DOMAIN rtoIntents, rtoIntents[i].status = "open",
         rtoIntents' = [rtoIntents EXCEPT ![i] = [@ EXCEPT !.status = "succeeded"]]
  PROVE  /\ Collected' = Collected + rtoIntents[i].amount
         /\ Charged' = Charged + (IF rtoIntents[i].kind = "partial" THEN 0 ELSE rtoIntents[i].amount)
<1> DEFINE S == DOMAIN rtoIntents
           r == [rtoIntents[i] EXCEPT !.status = "succeeded"]
<1>1. /\ rtoIntents[i] \in Intents /\ r \in Intents /\ r.kind = rtoIntents[i].kind
      /\ r.amount = rtoIntents[i].amount /\ r.status = "succeeded"
  <2>1. rtoIntents[i] \in Intents
    BY DEF Typed
  <2> QED
    BY <2>1 DEF Intents
<1>2. DOMAIN rtoIntents' = S /\ rtoIntents'[i] = r /\ \A k \in S \ {i} : rtoIntents'[k] = rtoIntents[k]
  OBVIOUS
<1> HIDE DEF r
<1>3. /\ \A k \in S : Taken(rtoIntents[k]) \in Nat /\ Expected(rtoIntents[k]) \in Nat
      /\ Taken(r) \in Nat /\ Expected(r) \in Nat /\ IsFiniteSet(S)
  BY <1>1, CollectedType DEF Typed
<1>4. /\ Taken(rtoIntents[i]) = 0 /\ Taken(r) = rtoIntents[i].amount
      /\ Expected(rtoIntents[i]) = IF rtoIntents[i].kind = "partial" THEN rtoIntents[i].amount ELSE 0
      /\ Expected(r) = rtoIntents[i].amount /\ rtoIntents[i].amount \in Nat
  BY <1>1 DEF Taken, Expected, Intents
<1>5. ASSUME NEW v \in [S -> Int], NEW u \in [S -> Int], \A k \in S \ {i} : u[k] = v[k]
      PROVE  SumFunctionOnSet(u, S) = SumFunctionOnSet(v, S) - v[i] + u[i]
  BY <1>3, <1>5, SumChange DEF ChangesAt
<1>6. Collected' = Collected - Taken(rtoIntents[i]) + Taken(r)
  <2>1. Collected' = SumFunctionOnSet([k \in S |-> Taken(rtoIntents'[k])], S)
    BY <1>2 DEF Collected, SumFunction, Taken
  <2> QED
    BY <1>2, <1>3, <1>5, <2>1, CollectedType
<1>7. Charged' = Charged - Expected(rtoIntents[i]) + Expected(r)
  <2>1. Charged' = SumFunctionOnSet([k \in S |-> Expected(rtoIntents'[k])], S)
    BY <1>2 DEF Charged, SumFunction, Expected
  <2> QED
    BY <1>2, <1>3, <1>5, <2>1, CollectedType
<1> QED
  BY <1>4, <1>6, <1>7, CollectedType

\* The part of what Stripe took that a handler with task t is about to book.
ClaimedOf(t, deposit) ==
  CASE t.step = "book" -> Price
    [] t.step = "book_deposit" -> deposit
    [] t.step = "book_payoff" -> t.amount
    [] OTHER -> 0

Claims == [w \in Workers |-> ClaimedOf(task[w], rto.deposit)]

Held == SumFunction(Claims)

Booking == {"book", "book_deposit", "book_payoff"}

LEMMA ClaimedCases ==
  ASSUME NEW t \in Tasks, NEW deposit \in Nat
  PROVE  /\ ClaimedOf(t, deposit) \in Nat
         /\ t.step = "book" => ClaimedOf(t, deposit) = 2
         /\ t.step = "book_deposit" => ClaimedOf(t, deposit) = deposit
         /\ t.step = "book_payoff" => ClaimedOf(t, deposit) = t.amount
         /\ t.step \notin Booking => ClaimedOf(t, deposit) = 0
<1>1. t.step = "book_payoff" => t.amount \in Nat
  BY TaskForms DEF PayoffSteps, Payoffs
<1> QED
  BY <1>1 DEF ClaimedOf, Booking, Price

LEMMA HeldType ==
  ASSUME Typed
  PROVE  Held \in Nat /\ Held = SumFunctionOnSet(Claims, Workers) /\ IsFiniteSet(Workers)
           /\ \A w \in Workers : Claims[w] \in Nat /\ Claims[w] = ClaimedOf(task[w], rto.deposit)
<1>1. \A w \in Workers : Claims[w] \in Nat /\ Claims[w] = ClaimedOf(task[w], rto.deposit)
  <2> TAKE w \in Workers
  <2>1. task[w] \in Tasks /\ rto.deposit \in Nat
    BY DEF Typed, Agreements
  <2> QED
    BY <2>1, ClaimedCases DEF Claims
<1>2. IsFiniteSet(Workers)
  BY RtoAssumption
<1>3. Held = SumFunctionOnSet(Claims, Workers)
  BY DEF Held, Claims, SumFunction
<1> HIDE DEF Claims
<1>4. SumFunctionOnSet(Claims, Workers) \in Nat
  BY <1>1, <1>2, SumNotNegative
<1> QED
  BY <1>1, <1>2, <1>3, <1>4

LEMMA HeldSame ==
  ASSUME task' = task, rto'.deposit = rto.deposit
  PROVE  Held' = Held
BY DEF Held, Claims

\* Only what handler w claims changes.
LEMMA HeldMoves ==
  ASSUME Typed, Typed', NEW w \in Workers, Moves(w), rto'.deposit = rto.deposit
  PROVE  Held' = Held - ClaimedOf(task[w], rto.deposit) + ClaimedOf(task'[w], rto.deposit)
<1> DEFINE v == Claims
           u == Claims'
<1>1. \A x \in Workers : v[x] \in Nat /\ v[x] = ClaimedOf(task[x], rto.deposit)
  BY HeldType
<1>2. \A x \in Workers : u[x] \in Nat /\ u[x] = ClaimedOf(task'[x], rto.deposit)
  <2> TAKE x \in Workers
  <2>1. task'[x] \in Tasks /\ rto'.deposit \in Nat
    BY DEF Typed, Agreements
  <2> QED
    BY <2>1, ClaimedCases DEF Claims
<1>3. ChangesAt(v, u, Workers, w)
  <2>1. \A x \in Workers \ {w} : u[x] = v[x]
    BY <1>1, <1>2 DEF Moves
  <2> HIDE DEF v, u
  <2> QED
    BY <1>1, <1>2, <2>1 DEF ChangesAt
<1>4. Held = SumFunctionOnSet(v, Workers) /\ IsFiniteSet(Workers)
  BY HeldType
<1>5. Held' = SumFunctionOnSet(u, Workers)
  BY DEF Held, Claims, SumFunction
<1> HIDE DEF v, u
<1>6. SumFunctionOnSet(u, Workers) = SumFunctionOnSet(v, Workers) - v[w] + u[w]
  BY <1>3, <1>4, SumChange
<1> QED
  BY <1>1, <1>2, <1>4, <1>5, <1>6

\* The steps of a handler that touch neither the ledger nor an intent, and claim no payment.
Rests(w) ==
  \/ AcceptBegin(w) \/ AcceptClaim(w) \/ AcceptRefused(w) \/ SweepList(w) \/ PayInstalment(w)
  \/ PayOff(w) \/ ReturnBegin(w) \/ (\E to \in Remedies : RemedyRead(w, to)) \/ SweepLoad(w)
  \/ SweepThrows(w) \/ AttachCard(w) \/ CreditDeposit(w) \/ ClaimInstalment(w)
  \/ ApplyInstalment(w) \/ Complete(w) \/ ClearAsk(w) \/ CreditPayoff(w) \/ RemedyApply(w)
  \/ RtoCrash(w)

\* The terms of the agreement and what it waits for are as they were.
Settles ==
  /\ rto'.deposit = rto.deposit /\ rto'.arrears = rto.arrears
  /\ rto'.pending = rto.pending /\ rto'.kind = rto.kind

Bookless(w) ==
  /\ Typed' /\ Moves(w) /\ SameBooks /\ SameIntents /\ Settles
  /\ task'[w].step \notin Booking
  /\ PayInstalment(w) \/ PayOff(w) \/ task'[w].step # "open_intent"

LEMMA RestActs ==
  ASSUME IInv, NEW w \in Workers, Rests(w)
  PROVE  Bookless(w)
<1> USE DEF Goes, Money, Waits, SameRto, Settles, Bookless, Booking
<1>1. Typed /\ rto \in Agreements
  BY DEF IInv, Typed
<1>2. CASE AcceptBegin(w)
  BY <1>1, <1>2, AcceptBeginEffect
<1>3. CASE AcceptClaim(w)
  BY <1>1, <1>3, AcceptClaimEffect
<1>4. CASE AcceptRefused(w)
  BY <1>1, <1>4, AcceptRefusedEffect
<1>5. CASE SweepList(w)
  BY <1>1, <1>5, SweepListEffect
<1>6. CASE PayInstalment(w)
  BY <1>1, <1>6, PayInstalmentEffect
<1>7. CASE PayOff(w)
  BY <1>1, <1>7, PayOffEffect
<1>8. CASE ReturnBegin(w)
  BY <1>1, <1>8, ReturnBeginEffect
<1>9. ASSUME NEW to \in Remedies, RemedyRead(w, to) PROVE Bookless(w)
  BY <1>1, <1>9, RemedyReadEffect
<1>10. CASE SweepLoad(w)
  <2>1. rto'.arrears = rto.arrears
    BY <1>1, <1>10 DEF SweepLoad, Agreements
  <2> QED
    BY <1>1, <1>10, <2>1, SweepLoadEffect
<1>11. CASE SweepThrows(w)
  <2>1. rto'.arrears = rto.arrears
    BY <1>1, <1>11 DEF SweepThrows, Missed, Agreements
  <2> QED
    BY <1>1, <1>11, <2>1, SweepThrowsEffect
<1>12. CASE AttachCard(w)
  <2>1. rto'.arrears = rto.arrears
    BY <1>1, <1>12 DEF AttachCard, KeepsCard, Agreements
  <2> QED
    BY <1>1, <1>12, <2>1, AttachCardEffect
<1>13. CASE CreditDeposit(w)
  <2>1. rto'.arrears = rto.arrears
    BY <1>1, <1>13 DEF CreditDeposit, KeepsCard, Agreements
  <2> QED
    BY <1>1, <1>13, <2>1, CreditDepositEffect
<1>14. CASE ClaimInstalment(w)
  BY <1>1, <1>14, ClaimInstalmentEffect
<1>15. CASE ApplyInstalment(w)
  <2>1. rto'.arrears = rto.arrears
    BY <1>1, <1>15 DEF ApplyInstalment, CreditedFrom, Agreements
  <2> QED
    BY <1>1, <1>15, <2>1, ApplyInstalmentEffect
<1>16. CASE Complete(w)
  <2>1. rto'.arrears = rto.arrears /\ rto'.deposit = rto.deposit
    BY <1>1, <1>16 DEF Complete, Agreements
  <2> QED
    BY <1>1, <1>16, <2>1, CompleteEffect
<1>17. CASE ClearAsk(w)
  <2>1. rto'.arrears = rto.arrears
    BY <1>1, <1>17 DEF ClearAsk, KeepsCard, Agreements
  <2> QED
    BY <1>1, <1>17, <2>1, ClearAskEffect
<1>18. CASE CreditPayoff(w)
  <2>1. rto'.arrears = rto.arrears
    BY <1>1, <1>18 DEF CreditPayoff, Agreements
  <2> QED
    BY <1>1, <1>18, <2>1, CreditPayoffEffect
<1>19. CASE RemedyApply(w)
  <2>1. rto'.arrears = rto.arrears
    BY <1>1, <1>19 DEF RemedyApply, Agreements
  <2> QED
    BY <1>1, <1>19, <2>1, RemedyApplyEffect
<1>20. CASE RtoCrash(w)
  BY <1>1, <1>20, CrashEffect
<1> QED
  BY <1>2, <1>3, <1>4, <1>5, <1>6, <1>7, <1>8, <1>9, <1>10, <1>11, <1>12, <1>13, <1>14, <1>15,
     <1>16, <1>17, <1>18, <1>19, <1>20 DEF Rests

\* The steps that only watch the offer.
Offering ==
  \/ Publish \/ TakenByAnother
  \/ \E s \in {"active", "paused", "withdrawn"} : SetOffer(s)
  \/ \E g \in Gates : CloseGate(g)

LEMMA OfferActs ==
  ASSUME Offering
  PROVE  /\ task' = task /\ befell \subseteq befell' /\ SameRto /\ SameIntents /\ SameBooks
         /\ schedule' = schedule /\ rtoStatements' = rtoStatements /\ Settles
<1>1. /\ AtOnce
      /\ SameRto /\ SameIntents /\ SameBooks /\ schedule' = schedule
      /\ rtoStatements' = rtoStatements
  BY DEF Offering, Publish, TakenByAnother, SetOffer, CloseGate, SameRto, SameIntents, SameBooks
<1> QED
  BY <1>1, AtOnceStays DEF Settles, SameRto

\* Which line an operation enters, if its key is not taken.
LEMMA BookDepositEnters ==
  ASSUME Typed, NEW w \in Workers, BookDeposit(w)
  PROVE  /\ Goes(w, "book_deposit", "credit_deposit") /\ SameRto /\ SameIntents /\ SameOffer
         /\ Booked(<<"initial", 0>>) => SameBooks
         /\ ~Booked(<<"initial", 0>>) =>
              Enters(Line(<<"initial", 0>>, rto.deposit, rto.deposit))
         /\ rtoStatements' = rtoStatements
<1>1. <<"initial", 0>> \in Keys /\ rto.deposit \in Int
  BY DEF Keys, Typed, Agreements
<1>2. AppendLedger(<<"initial", 0>>, rto.deposit, rto.deposit) /\ rtoStatements' = rtoStatements
  BY DEF BookDeposit
<1> QED
  BY <1>1, <1>2, AppendEnters, BookDepositEffect

LEMMA BookInstalmentEnters ==
  ASSUME Typed, NEW w \in Workers, BookInstalment(w)
  PROVE  /\ SameOffer /\ SameRto /\ SameIntents /\ rtoStatements' = rtoStatements
         /\ task[w].n \in 1..Instalments
         /\ \/ /\ Goes(w, "book", "claim_instalment") /\ ~Booked(<<"instalment", task[w].n>>)
               /\ task'[w].doc = task[w].doc /\ task'[w].n = task[w].n /\ task'[w].via = task[w].via
               /\ Enters(Line(<<"instalment", task[w].n>>, Price, 1))
            \/ /\ Goes(w, "book", "clear") \/ (Goes(w, "book", "idle") /\ task[w].via = "sweep")
               /\ Booked(<<"instalment", task[w].n>>) /\ SameBooks
<1> DEFINE key == <<"instalment", task[w].n>>
<1>1. task[w].step = "book" /\ task[w] \in Latests /\ ~Idle(w)
  BY TaskForms DEF BookInstalment, At, Typed, LatestSteps, Idle
<1>2. task[w].n \in 1..Instalments /\ task[w].via \in {"sweep", "hook"}
  BY <1>1 DEF Latests
<1>3. key \in Keys /\ Price \in Int /\ 1 \in Int
  BY <1>2 DEF Keys, Price
<1>4. AppendLedger(key, Price, 1) /\ rtoStatements' = rtoStatements
  BY DEF BookInstalment
<1>5. SameOffer /\ SameRto /\ SameIntents
  BY BookInstalmentEffect
<1>6. CASE ~Booked(key)
  <2>1. Goes(w, "book", "claim_instalment")
    BY <1>1, <1>6, BookInstalmentEffect, GotoMoves DEF BookInstalment, LatestSteps, Goes
  <2>2. Goto(w, "claim_instalment")
    BY <1>6 DEF BookInstalment
  <2>3. task'[w].n = task[w].n /\ task'[w].doc = task[w].doc /\ task'[w].via = task[w].via
    BY <1>1, <2>2, GotoMoves DEF LatestSteps
  <2> QED
    BY <1>2, <1>3, <1>4, <1>5, <1>6, <2>1, <2>3, AppendEnters
<1>7. CASE Booked(key)
  <2>1. SameBooks
    BY <1>3, <1>4, <1>7, AppendEnters
  <2>2. Goes(w, "book", "clear") \/ Goes(w, "book", "idle")
    BY <1>7, BookInstalmentEffect
  <2>3. task[w].via = "hook" => Goes(w, "book", "clear")
    <3> SUFFICES ASSUME task[w].via = "hook"
                 PROVE  task'[w].step = "clear"
      BY <2>2 DEF Goes
    <3>1. Becomes(w, [step |-> "clear"])
      BY <1>7 DEF BookInstalment
    <3> QED
      BY <3>1 DEF Becomes, Typed
  <2> QED
    BY <1>2, <1>4, <1>5, <1>7, <2>1, <2>2, <2>3
<1> QED
  BY <1>6, <1>7

LEMMA BookPayoffEnters ==
  ASSUME Typed, NEW w \in Workers, BookPayoff(w)
  PROVE  /\ Goes(w, "book_payoff", "credit_payoff") /\ SameRto /\ SameIntents /\ SameOffer
         /\ task'[w].amount = task[w].amount /\ task'[w].doc = task[w].doc
         /\ rtoStatements' = rtoStatements
         /\ task[w].amount \in Nat /\ task[w].doc \in Docs
         /\ Payoff(task[w].doc) \in Nat
         /\ Payoff(task[w].doc) = task[w].amount \/ "payoff_moved" \in befell'
         /\ Booked(<<"payoff", 0>>) => SameBooks
         /\ ~Booked(<<"payoff", 0>>) =>
              Enters(Line(<<"payoff", 0>>, Payoff(task[w].doc), Payoff(task[w].doc)))
<1>1. task[w].step = "book_payoff" /\ task[w] \in Payoffs
  BY TaskForms DEF BookPayoff, At, Typed, PayoffSteps
<1>2. task[w].amount \in Nat /\ task[w].doc \in Docs /\ task[w].doc.credited \in Nat
  BY <1>1 DEF Payoffs, Docs
<1>3. Payoff(task[w].doc) \in Nat
  BY <1>2, PayoffIsRest
<1>4. <<"payoff", 0>> \in Keys /\ Payoff(task[w].doc) \in Int
  BY <1>3 DEF Keys
<1>5. AppendLedger(<<"payoff", 0>>, Payoff(task[w].doc), Payoff(task[w].doc))
  BY DEF BookPayoff
<1>6. Payoff(task[w].doc) = task[w].amount \/ "payoff_moved" \in befell'
  BY DEF BookPayoff, Befalls
<1>7. rtoStatements' = rtoStatements
  BY DEF BookPayoff
<1> QED
  BY <1>2, <1>3, <1>4, <1>5, <1>6, <1>7, AppendEnters, BookPayoffEffect

LEMMA ReturnSettleEnters ==
  ASSUME Typed, Listed, NEW w \in Workers, ReturnSettle(w)
  PROVE  /\ Goes(w, "settle_return", "idle") /\ SameOffer /\ SameIntents /\ Money(rto)
         /\ Settles /\ rto'.status = "cancelled" /\ rtoStatements' = rtoStatements
         /\ task[w].refund \in Nat
         /\ \/ SameBooks
            \/ /\ Enters(Line(<<"refund", Refunds>>, -task[w].refund, 0))
               /\ Refunds \in Nat
<1>1. task[w].step = "settle_return" /\ task[w] \in Returns
  BY TaskForms DEF ReturnSettle, At, Typed
<1>2. task[w].refund \in Nat
  BY <1>1 DEF Returns
<1>3. Refunds \in Nat
  <2>1. Refunds = Cardinality(Entries({"refund"}))
    BY DEF Refunds, Entries
  <2>2. IsFiniteSet(Entries({"refund"}))
    BY TotalType
  <2> QED
    BY <2>1, <2>2, FS_CardinalityType
<1>4. <<"refund", Refunds>> \in Keys /\ -task[w].refund \in Int /\ 0 \in Int
  BY <1>2, <1>3 DEF Keys
<1>5. SameBooks \/ AppendLedger(<<"refund", Refunds>>, -task[w].refund, 0)
  BY DEF ReturnSettle, SameBooks
<1>6. rto'.arrears = rto.arrears /\ rto'.status = "cancelled" /\ rtoStatements' = rtoStatements
  BY DEF ReturnSettle, Typed, Agreements
<1>7. Settles
  BY <1>6, ReturnSettleEffect DEF Settles, Money, Waits
<1> QED
  BY <1>2, <1>3, <1>4, <1>5, <1>6, <1>7, AppendEnters, ReturnSettleEffect

LEMMA EscalateEnters ==
  ASSUME Typed, Escalate
  PROVE  /\ Watches /\ SameOffer /\ SameIntents /\ Money(rto) /\ Settles /\ rto'.due = rto.due
         /\ rtoStatements' = rtoStatements /\ schedule' = schedule
         /\ rto.status # "none" /\ rto'.status # "none" /\ rto'.ask = rto.ask
         /\ \/ SameBooks
            \/ \E n \in 1..Instalments : Enters(Line(<<"late_fee", n>>, 1, 0))
<1> DEFINE missed == {n \in 1..Instalments : schedule[n] = "missed"}
<1>1. missed # {} /\ AppendLedger(<<"late_fee", Min(missed)>>, 1, 0)
  BY DEF Escalate
<1>2. Min(missed) \in 1..Instalments
  <2>1. missed \in SUBSET (1..Instalments)
    OBVIOUS
  <2> HIDE DEF missed
  <2>2. Min(missed) \in missed
    BY <1>1, <2>1, LeastIsMember
  <2> QED
    BY <2>1, <2>2
<1> HIDE DEF missed
<1>3. <<"late_fee", Min(missed)>> \in Keys /\ 1 \in Int /\ 0 \in Int
  BY <1>2 DEF Keys
<1>4. /\ rto'.arrears = rto.arrears /\ rtoStatements' = rtoStatements /\ schedule' = schedule
      /\ rto'.ask = rto.ask
  BY DEF Escalate, Typed, Agreements
<1>5. SameBooks \/ Enters(Line(<<"late_fee", Min(missed)>>, 1, 0))
  BY <1>1, <1>3, AppendEnters
<1> QED
  BY <1>2, <1>4, <1>5, EscalateEffect DEF Settles, Waits, Money

LEMMA PartialPaymentEnters ==
  ASSUME Typed, NEW w \in Workers, PartialPayment(w)
  PROVE  /\ Watches /\ SameOffer /\ Money(rto) /\ Waits(rto) /\ rto'.status = rto.status
         /\ Running /\ "partial" \in befell' /\ rto.arrears = 0 /\ rto'.arrears # 0
         /\ rtoStatements' = rtoStatements /\ schedule' = schedule /\ rto'.ask = rto.ask
         /\ rtoIntents' = Opened("partial", 0, 1, "open")
         /\ [kind |-> "partial", n |-> 0, amount |-> 1, status |-> "open"] \in Intents
         /\ Booked(<<"partial", 0>>) => SameBooks
         /\ ~Booked(<<"partial", 0>>) => Enters(Line(<<"partial", 0>>, 1, 0))
<1>1. <<"partial", 0>> \in Keys /\ 1 \in Int /\ 0 \in Int
  BY DEF Keys
<1>2. AppendLedger(<<"partial", 0>>, 1, 0)
  BY DEF PartialPayment
<1>3. /\ rto.arrears = 0 /\ rto'.arrears = 1 /\ rtoStatements' = rtoStatements
      /\ schedule' = schedule /\ rto'.ask = rto.ask /\ "partial" \in befell'
  BY DEF PartialPayment, Befalls, Typed, Agreements
<1> QED
  BY <1>1, <1>2, <1>3, AppendEnters, PartialPaymentEffect

-----------------------------------------------------------------------------
(***************************************************************************)
(* The books are in order, whatever happens.                               *)
(***************************************************************************)

\* The agreement awaits a payment if and only if it says what for.
Linked == rto.kind = "none" <=> rto.pending = 0

\* A part payment is booked along with the arrears it is for.
Parted ==
  /\ Booked(<<"partial", 0>>) => rto.arrears # 0
  /\ Spared({"partial"}) => rto.arrears = 0

\* What an intent asks for.
PricedIntent(r) ==
  IF r.kind \in {"sweep", "installment"}
    THEN r.n \in 1..Instalments /\ r.amount = Price
    ELSE /\ r.n = 0
         /\ r.kind = "card_setup" => r.amount = 0
         /\ r.kind = "partial" => r.amount = 1

PricedTask(t) ==
  t.step = "open_intent" =>
    IF t.kind = "installment" THEN t.n \in 1..Instalments /\ t.amount = Price ELSE t.n = 0

Priced ==
  /\ \A i \in DOMAIN rtoIntents : PricedIntent(rtoIntents[i])
  /\ \A w \in Workers : PricedTask(task[w])

Kept == Listed /\ Linked /\ Parted /\ Priced

\* The steps of handlers, by what they do to books and intents.
LEMMA ActsCases ==
  ASSUME NEW w \in Workers, Acts(w)
  PROVE  \/ Rests(w) \/ (\E d \in Deposits : AcceptCreate(w, d)) \/ AcceptCharge(w)
         \/ SweepCharge(w) \/ SweepChallenged(w) \/ SweepMissed(w) \/ OpenIntent(w)
         \/ (\E i \in DOMAIN rtoIntents : SettleClaim(w, i))
         \/ BookDeposit(w) \/ BookInstalment(w) \/ BookPayoff(w) \/ ReturnSettle(w)
BY DEF Acts, Handles, Rests

LEMMA BookedSame ==
  ASSUME SameBooks
  PROVE  \A key : Booked(key)' <=> Booked(key)
BY DEF SameBooks, Booked

LEMMA BookedEnters ==
  ASSUME NEW line, Enters(line)
  PROVE  \A key : Booked(key)' <=> (Booked(key) \/ key = line.key)
BY DEF Enters, Booked

\* The books stay as they are, or there is a new line that is not a part payment.
LEMMA ListedKept ==
  ASSUME Listed, rto.status # "none" => rto'.status # "none",
         SameBooks \/ \E line \in Lines : Enters(line) /\ rto'.status # "none",
         rtoStatements' = rtoStatements \/ rto'.status # "none"
  PROVE  Listed'
<1>1. CASE SameBooks
  BY <1>1 DEF Listed, SameBooks
<1>2. ASSUME NEW line \in Lines, Enters(line), rto'.status # "none" PROVE Listed'
  <2>1. IsFiniteSet(rtoLedger') /\ rtoLedger' \subseteq Lines
    BY <1>2, TotalEnters
  <2> QED
    BY <1>2, <2>1 DEF Listed
<1> QED
  BY <1>1, <1>2

LEMMA PricedSame ==
  ASSUME Priced, NEW w \in Workers, Moves(w), SameIntents, PricedTask(task'[w])
  PROVE  Priced'
<1>1. \A v \in Workers : PricedTask(task'[v])
  BY DEF Priced, Moves
<1>2. \A v \in Workers : PricedTask(task[v])'
  BY <1>1 DEF PricedTask, Price
<1>3. \A i \in DOMAIN rtoIntents' : PricedIntent(rtoIntents'[i])
  BY DEF Priced, SameIntents
<1>4. \A i \in DOMAIN rtoIntents' : PricedIntent(rtoIntents[i])'
  BY <1>3 DEF PricedIntent, Price
<1> QED
  BY <1>2, <1>4 DEF Priced

\* A priced intent is opened.
Adds(kind, n, amount, status) ==
  /\ [kind |-> kind, n |-> n, amount |-> amount, status |-> status] \in Intents
  /\ rtoIntents' = Opened(kind, n, amount, status)

LEMMA PricedAdded ==
  ASSUME Typed, Priced, NEW kind, NEW n, NEW amount, NEW status, Adds(kind, n, amount, status),
         IF kind \in {"sweep", "installment"} THEN n \in 1..Instalments /\ amount = Price
         ELSE n = 0 /\ (kind = "card_setup" => amount = 0) /\ (kind = "partial" => amount = 1),
         \A w \in Workers : task'[w] = task[w] \/ PricedTask(task'[w])
  PROVE  Priced'
<1> DEFINE r == [kind |-> kind, n |-> n, amount |-> amount, status |-> status]
           j == NextIntent
<1>1. r \in Intents /\ rtoIntents' = Opened(kind, n, amount, status)
  BY DEF Adds
<1>2. /\ DOMAIN rtoIntents' = DOMAIN rtoIntents \cup {j}
      /\ \A i \in DOMAIN rtoIntents : rtoIntents'[i] = rtoIntents[i]
  BY <1>1, IntentAdded
<1>3. rtoIntents'[j] = r
  BY <1>1, IntentAdded
<1>4. PricedIntent(r)
  BY DEF PricedIntent
<1> HIDE DEF r, j
<1>5. \A i \in DOMAIN rtoIntents' : PricedIntent(rtoIntents'[i])
  BY <1>2, <1>3, <1>4 DEF Priced
<1>6. \A i \in DOMAIN rtoIntents' : PricedIntent(rtoIntents[i])'
  BY <1>5 DEF PricedIntent, Price
<1>7. \A v \in Workers : PricedTask(task'[v])
  BY DEF Priced
<1>8. \A v \in Workers : PricedTask(task[v])'
  BY <1>7 DEF PricedTask, Price
<1> QED
  BY <1>6, <1>8 DEF Priced

\* What the customer is to pay, and the handlers that open intents.
LEMMA PayInstalmentAsks ==
  ASSUME Typed, NEW w \in Workers, PayInstalment(w)
  PROVE  /\ task'[w] = [step |-> "open_intent", kind |-> "installment", n |-> Target, amount |-> Price]
         /\ Target \in 1..Instalments /\ PricedTask(task'[w])
         /\ Target = rto.ask \/ Target \in Owed
<1> DEFINE t == [step |-> "open_intent", kind |-> "installment", n |-> Target, amount |-> Price]
<1>1. Target \in 1..Instalments /\ (Target = rto.ask \/ Target \in Owed)
  <2>1. CASE rto.ask # 0
    BY <2>1, RtoAssumption DEF Target, Typed, Agreements
  <2>2. CASE rto.ask = 0
    <3>1. Owed \in SUBSET (1..Instalments) /\ Owed # {}
      BY <2>2 DEF PayInstalment, Owed
    <3>2. Min(Owed) \in Owed
      BY <3>1, LeastIsMember
    <3> QED
      BY <2>2, <3>1, <3>2 DEF Target
  <2> QED
    BY <2>1, <2>2
<1>2. task'[w] = t
  BY DEF PayInstalment, Begin, Typed
<1>3. PricedTask(t)
  BY <1>1 DEF PricedTask
<1> QED
  BY <1>1, <1>2, <1>3

LEMMA PayOffAsks ==
  ASSUME Typed, NEW w \in Workers, PayOff(w)
  PROVE  /\ PricedTask(task'[w])
         /\ \/ /\ task'[w] = [step |-> "open_intent", kind |-> "payoff", n |-> 0, amount |-> Payoff(rto)]
               /\ Payoff(rto) > 0
            \/ task'[w] = [step |-> "complete", via |-> "payoff"] /\ ~(Payoff(rto) > 0)
BY DEF PayOff, Begin, Typed, PricedTask

LEMMA OpenIntentAdds ==
  ASSUME Typed, NEW w \in Workers, OpenIntent(w)
  PROVE  /\ task[w].step = "open_intent" /\ task[w].kind \in {"installment", "payoff"}
         /\ task[w].n \in 0..Instalments /\ task[w].amount \in Nat
         /\ Goes(w, "open_intent", "idle")
         /\ Adds(task[w].kind, task[w].n, task[w].amount, "open")
         /\ SameOffer /\ SameBooks /\ Money(rto)
         /\ rto'.arrears = rto.arrears /\ rto'.ask = rto.ask
         /\ rto'.pending = NextIntent /\ rto'.kind = task[w].kind /\ rto'.status = rto.status
         /\ rto'.due = IF task[w].kind = "installment" THEN task[w].n ELSE rto.due
         /\ schedule' = schedule /\ rtoStatements' = rtoStatements
         /\ rto.pending # 0 => "superseded" \in befell'
<1>1. task[w].step = "open_intent" /\ task[w] \in Openings
  BY TaskForms DEF OpenIntent, At, Typed
<1>2. /\ task[w].kind \in {"installment", "payoff"}
      /\ task[w].n \in 0..Instalments /\ task[w].amount \in Nat
  BY <1>1 DEF Openings
<1>3. Adds(task[w].kind, task[w].n, task[w].amount, "open")
  <2>1. [kind |-> task[w].kind, n |-> task[w].n, amount |-> task[w].amount, status |-> "open"] \in Intents
    BY <1>2 DEF Intents
  <2> QED
    BY <2>1 DEF OpenIntent, Adds
<1>4. /\ Goes(w, "open_intent", "idle") /\ SameOffer /\ SameBooks /\ Money(rto)
      /\ rto'.pending = NextIntent /\ rto'.status = rto.status /\ rto'.kind = task[w].kind
  BY OpenIntentEffect
<1>5. /\ rto' = [rto EXCEPT !.pending = NextIntent, !.kind = task[w].kind,
                            !.due = IF task[w].kind = "installment" THEN task[w].n ELSE @]
      /\ schedule' = schedule /\ rtoStatements' = rtoStatements
  BY DEF OpenIntent, Awaits
<1>6. /\ rto'.arrears = rto.arrears /\ rto'.ask = rto.ask
      /\ rto'.due = IF task[w].kind = "installment" THEN task[w].n ELSE rto.due
  BY <1>5 DEF Typed, Agreements
<1>7. rto.pending # 0 => "superseded" \in befell'
  BY DEF OpenIntent, Awaits, FinishAfter, Befalls
<1> QED
  BY <1>1, <1>2, <1>3, <1>4, <1>5, <1>6, <1>7

LEMMA AcceptChargeAdds ==
  ASSUME Typed, NEW w \in Workers, AcceptCharge(w)
  PROVE  /\ \E kind \in {"acceptance", "card_setup"} :
              /\ Adds(kind, 0, rto.deposit, "open") /\ rto'.kind = kind
              /\ kind = IF rto.deposit > 0 THEN "acceptance" ELSE "card_setup"
              /\ kind = "card_setup" => rto.deposit = 0
         /\ rto'.pending = NextIntent
         /\ Goes(w, "open_charge", "idle") /\ SameOffer /\ SameBooks
         /\ Money(rto) /\ rto'.status = rto.status /\ rto'.arrears = rto.arrears
         /\ rto'.ask = rto.ask /\ rto'.due = rto.due
         /\ schedule' = schedule /\ rtoStatements' = rtoStatements
         /\ rto.pending # 0 => "superseded" \in befell'
<1> DEFINE kind == IF rto.deposit > 0 THEN "acceptance" ELSE "card_setup"
<1>1. kind \in {"acceptance", "card_setup"} /\ (kind = "card_setup" => rto.deposit = 0)
  BY DEF Typed, Agreements
<1>2. rtoIntents' = Opened(kind, 0, rto.deposit, "open")
  BY DEF AcceptCharge
<1>3. /\ rto' = [rto EXCEPT !.pending = NextIntent, !.kind = kind]
      /\ schedule' = schedule /\ rtoStatements' = rtoStatements
  BY DEF AcceptCharge, Awaits
<1>4. /\ rto'.kind = kind /\ rto'.pending = NextIntent /\ Money(rto) /\ rto'.status = rto.status
      /\ rto'.arrears = rto.arrears /\ rto'.ask = rto.ask /\ rto'.due = rto.due
  BY <1>3 DEF Typed, Agreements, Money
<1>5. Goes(w, "open_charge", "idle") /\ SameOffer /\ SameBooks
  BY AcceptChargeEffect
<1>6. [kind |-> kind, n |-> 0, amount |-> rto.deposit, status |-> "open"] \in Intents
  <2>1. rto.deposit \in Nat /\ 0 \in 0..Instalments
    BY RtoAssumption DEF Typed, Agreements
  <2> QED
    BY <1>1, <2>1 DEF Intents
<1>7. rto.pending # 0 => "superseded" \in befell'
  BY DEF AcceptCharge, Awaits, FinishAfter, Befalls
<1>8. Adds(kind, 0, rto.deposit, "open")
  BY <1>2, <1>6 DEF Adds
<1>9. kind = IF rto.deposit > 0 THEN "acceptance" ELSE "card_setup"
  OBVIOUS
<1> HIDE DEF kind
<1> QED
  BY <1>1, <1>3, <1>4, <1>5, <1>7, <1>8, <1>9

LEMMA SweepAdds ==
  ASSUME Typed, NEW w \in Workers, SweepCharge(w) \/ SweepChallenged(w) \/ SweepMissed(w)
  PROVE  /\ task[w].step = "charge" /\ task[w].n \in 1..Instalments
         /\ Typed' /\ Moves(w) /\ SameBooks /\ Money(rto) /\ SameOffer
         /\ rto'.arrears = rto.arrears /\ rtoStatements' = rtoStatements
         /\ rto.status # "none" => rto'.status # "none"
         /\ SweepCharge(w) =>
              /\ Goes(w, "charge", "book") /\ Adds("sweep", task[w].n, Price, "succeeded")
              /\ SameRto /\ schedule' = schedule
              /\ task'[w].n = task[w].n /\ task'[w].doc = task[w].doc /\ task'[w].via = task[w].via
         /\ SweepChallenged(w) =>
              /\ Goes(w, "charge", "idle") /\ Adds("sweep", task[w].n, Price, "open")
              /\ rto'.pending = NextIntent /\ rto'.kind = "installment" /\ rto'.due = task[w].n
              /\ rto'.ask = task[w].n /\ schedule' = schedule
              /\ rto.pending # 0 => "superseded" \in befell'
         /\ SweepMissed(w) =>
              /\ Goes(w, "charge", "idle") /\ Waits(rto) /\ "missed" \in befell'
              /\ SameIntents \/ Adds("sweep", task[w].n, Price, "declined")
<1>1. task[w].step = "charge" /\ task[w] \in Latests
  BY TaskForms DEF SweepCharge, SweepChallenged, SweepMissed, At, Typed, LatestSteps
<1>2. task[w].n \in 1..Instalments
  BY <1>1 DEF Latests
<1>3. CASE SweepCharge(w)
  <2>1. /\ Goes(w, "charge", "book") /\ SameRto /\ SameBooks /\ SameOffer
        /\ Adds("sweep", task[w].n, Price, "succeeded")
    BY <1>3, SweepChargeEffect DEF Adds
  <2>2. Goto(w, "book") /\ schedule' = schedule /\ rtoStatements' = rtoStatements
    BY <1>3 DEF SweepCharge
  <2>3. task'[w].n = task[w].n /\ task'[w].doc = task[w].doc /\ task'[w].via = task[w].via
    BY <1>1, <2>2, GotoMoves DEF LatestSteps, Idle
  <2>4. ~SweepChallenged(w) /\ ~SweepMissed(w)
    BY <1>3, <2>1 DEF Goes, SweepChallenged, SweepMissed, Awaits, FinishAfter, Finish, Becomes, Resting, Typed
  <2> QED
    BY <1>1, <1>2, <1>3, <2>1, <2>2, <2>3, <2>4, SameRtoKept DEF Goes, SameRto
<1>4. CASE SweepChallenged(w)
  <2>1. /\ Goes(w, "charge", "idle") /\ SameOffer /\ SameBooks /\ Money(rto)
        /\ Adds("sweep", task[w].n, Price, "open")
        /\ rto'.pending = NextIntent /\ rto'.kind = "installment" /\ rto'.status = rto.status
    BY <1>4, SweepChallengedEffect DEF Adds
  <2>2. /\ rto' = [rto EXCEPT !.pending = NextIntent, !.kind = "installment",
                              !.due = task[w].n, !.ask = task[w].n]
        /\ schedule' = schedule /\ rtoStatements' = rtoStatements
    BY <1>4 DEF SweepChallenged, Awaits
  <2>3. rto'.due = task[w].n /\ rto'.ask = task[w].n /\ rto'.arrears = rto.arrears
    BY <2>2 DEF Typed, Agreements
  <2>4. rto.pending # 0 => "superseded" \in befell'
    BY <1>4 DEF SweepChallenged, Awaits, FinishAfter, Befalls
  <2>5. ~SweepCharge(w)
    BY <2>1, SweepChargeEffect DEF Goes
  <2>6. ASSUME SweepMissed(w) PROVE FALSE
    <3>1. /\ rtoIntents' = rtoIntents \/ rtoIntents' = Opened("sweep", task[w].n, Price, "declined")
          /\ [kind |-> "sweep", n |-> task[w].n, amount |-> Price, status |-> "declined"] \in Intents
      BY <1>2, <2>6 DEF SweepMissed, Intents, Price
    <3>2. NextIntent \in DOMAIN rtoIntents' /\ NextIntent \notin DOMAIN rtoIntents
      BY <2>1, IntentAdded DEF Adds
    <3>3. rtoIntents'[NextIntent] = [kind |-> "sweep", n |-> task[w].n, amount |-> Price, status |-> "open"]
      BY <2>1, IntentAdded DEF Adds
    <3>4. rtoIntents' = Opened("sweep", task[w].n, Price, "declined")
      BY <3>1, <3>2
    <3>5. rtoIntents'[NextIntent] = [kind |-> "sweep", n |-> task[w].n, amount |-> Price, status |-> "declined"]
      BY <3>1, <3>4, IntentAdded
    <3> QED
      BY <3>3, <3>5
  <2> QED
    BY <1>1, <1>2, <1>4, <2>1, <2>2, <2>3, <2>4, <2>5, <2>6 DEF Goes
<1>5. CASE SweepMissed(w) /\ ~SweepChallenged(w)
  <2>1. /\ Goes(w, "charge", "idle") /\ SameOffer /\ SameBooks /\ Money(rto) /\ Waits(rto)
        /\ SameIntents \/ Adds("sweep", task[w].n, Price, "declined")
    BY <1>5, SweepMissedEffect DEF Adds
  <2>2. /\ Missed(w, task[w].n) /\ rtoStatements' = rtoStatements /\ "missed" \in befell'
    BY <1>5 DEF SweepMissed, FinishAfter, Befalls
  <2>3. rto'.arrears = rto.arrears /\ (rto.status # "none" => rto'.status # "none")
    BY <2>2 DEF Missed, Typed, Agreements
  <2>4. ~SweepCharge(w)
    BY <2>1, SweepChargeEffect DEF Goes
  <2> QED
    BY <1>1, <1>2, <1>5, <2>1, <2>2, <2>3, <2>4 DEF Goes
<1> QED
  BY <1>3, <1>4, <1>5

LEMMA SettleClaimTakes ==
  ASSUME Typed, Awaited, NEW w \in Workers, NEW i \in DOMAIN rtoIntents, SettleClaim(w, i)
  PROVE  /\ Typed' /\ Moves(w) /\ Idle(w) /\ SameOffer /\ SameBooks /\ SameIntents /\ Money(rto)
         /\ schedule' = schedule /\ rtoStatements' = rtoStatements
         /\ rtoIntents[i].status = "succeeded" /\ rto.pending = i
         /\ rto'.pending = 0 /\ rto'.kind = "none" /\ rto'.status = rto.status
         /\ rto'.arrears = rto.arrears /\ rto'.due = rto.due /\ rto'.ask = rto.ask
         /\ \/ rto.kind = "acceptance" /\ task'[w] = [step |-> "book_deposit"]
            \/ rto.kind = "card_setup" /\ task'[w] = [step |-> "attach_card"]
            \/ /\ rto.kind = "payoff"
               /\ task'[w] = [step |-> "book_payoff", amount |-> rtoIntents[i].amount, doc |-> Counts]
            \/ rto.kind = "installment" /\ rto.due = 0 /\ task'[w] = Resting
            \/ /\ rto.kind = "installment" /\ rto.due # 0
               /\ task'[w] = [step |-> "book", n |-> rto.due, doc |-> Counts, via |-> "hook"]
<1>1. /\ Typed' /\ Moves(w) /\ SameOffer /\ SameBooks /\ SameIntents /\ schedule' = schedule
      /\ rtoIntents[i].status = "succeeded" /\ rto.pending = i
      /\ rto' = [rto EXCEPT !.pending = 0, !.kind = "none"]
  BY SettleClaimEffect DEF Goes
<1>2. /\ rto'.pending = 0 /\ rto'.kind = "none" /\ rto'.status = rto.status /\ Money(rto)
      /\ rto'.arrears = rto.arrears /\ rto'.due = rto.due /\ rto'.ask = rto.ask
  BY <1>1 DEF Typed, Agreements, Money
<1>3. rtoStatements' = rtoStatements /\ Idle(w)
  BY DEF SettleClaim, Begin
<1>4. rto.kind \in {"acceptance", "card_setup", "installment", "payoff"}
  <2>1. rto.pending # 0
    BY <1>1 DEF Typed
  <2> QED
    BY <2>1 DEF Awaited, Typed, Agreements
<1>5. task'[w] = CASE SettlementOf = "idle" -> Resting
                   [] SettlementOf \in {"attach_card", "book_deposit"} -> [step |-> SettlementOf]
                   [] SettlementOf = "book_payoff" ->
                        [step |-> SettlementOf, amount |-> rtoIntents[i].amount, doc |-> Counts]
                   [] OTHER -> [step |-> SettlementOf, n |-> rto.due, doc |-> Counts, via |-> "hook"]
  BY DEF SettleClaim, Begin, Typed
<1>6. SettlementOf = IF rto.kind = "acceptance" THEN "book_deposit"
                     ELSE IF rto.kind = "card_setup" THEN "attach_card"
                     ELSE IF rto.kind = "payoff" THEN "book_payoff"
                     ELSE IF rto.due = 0 THEN "idle" ELSE "book"
  BY <1>4 DEF SettlementOf
<1>7. CASE rto.kind = "acceptance"
  <2>1. SettlementOf = "book_deposit"
    BY <1>6, <1>7
  <2> QED
    BY <1>1, <1>2, <1>3, <1>5, <1>7, <2>1
<1>8. CASE rto.kind = "card_setup"
  <2>1. SettlementOf = "attach_card"
    BY <1>6, <1>8
  <2> QED
    BY <1>1, <1>2, <1>3, <1>5, <1>8, <2>1
<1>9. CASE rto.kind = "payoff"
  <2>1. SettlementOf = "book_payoff"
    BY <1>6, <1>9
  <2> QED
    BY <1>1, <1>2, <1>3, <1>5, <1>9, <2>1
<1>10. CASE rto.kind = "installment" /\ rto.due = 0
  <2>1. SettlementOf = "idle"
    BY <1>6, <1>10
  <2> QED
    BY <1>1, <1>2, <1>3, <1>5, <1>10, <2>1
<1>11. CASE rto.kind = "installment" /\ rto.due # 0
  <2>1. SettlementOf = "book"
    BY <1>6, <1>11
  <2> QED
    BY <1>1, <1>2, <1>3, <1>5, <1>11, <2>1
<1> QED
  BY <1>4, <1>7, <1>8, <1>9, <1>10, <1>11

LEMMA AcceptCreateAlone ==
  ASSUME IInv, NEW w \in Workers, NEW d \in Deposits, AcceptCreate(w, d)
  PROVE  /\ rto = NoAgreement /\ rto.status = "none" /\ rtoIntents = <<>>
         /\ \A v \in Workers \ {w} : Idle(v)
         /\ Goes(w, "create_agreement", "open_charge") /\ SameBooks /\ SameIntents /\ SameOffer
         /\ d \in Nat /\ rto'.deposit = d /\ rto'.credited = 0 /\ rto'.paid = 0
         /\ rto'.arrears = 0 /\ rto'.pending = 0 /\ rto'.kind = "none" /\ rto'.due = 0
         /\ rto'.ask = 0 /\ rto'.status = "active"
         /\ \A n \in 1..Instalments : schedule'[n] = "scheduled"
         /\ rtoStatements' = rtoStatements
<1>1. /\ Goes(w, "create_agreement", "open_charge") /\ SameBooks /\ SameIntents /\ SameOffer
      /\ rto' = Accepted(d)
  BY AcceptCreateEffect DEF IInv
<1>2. task[w].step = "create_agreement"
  BY <1>1 DEF Goes
<1>3. rto.status = "none"
  BY <1>2 DEF IInv, OneAccept, AcceptSteps
<1>4. /\ rto = NoAgreement /\ rtoIntents = <<>>
      /\ \A v \in Workers : task[v].step \in AcceptSteps \cup {"idle"}
  BY <1>3 DEF IInv, Unbound
<1>5. \A v \in Workers \ {w} : Idle(v)
  BY <1>2, <1>4 DEF IInv, OneAccept, AcceptSteps, Idle
<1>6. /\ rto'.deposit = d /\ rto'.credited = 0 /\ rto'.paid = 0
      /\ rto'.arrears = 0 /\ rto'.pending = 0 /\ rto'.kind = "none" /\ rto'.due = 0
      /\ rto'.ask = 0 /\ rto'.status = "active"
  BY <1>1 DEF Accepted, NoAgreement
<1>7. rtoStatements' = rtoStatements /\ \A n \in 1..Instalments : schedule'[n] = "scheduled"
  BY DEF AcceptCreate
<1> QED
  BY <1>1, <1>3, <1>4, <1>5, <1>6, <1>7, RtoAssumption

\* A handler that has begun on the agreement finds it written.
LEMMA Written ==
  ASSUME IInv, NEW w \in Workers, Acts(w), ~Rests(w), \A d \in Deposits : ~AcceptCreate(w, d)
  PROVE  rto.status # "none" /\ rto'.status # "none"
<1>1. Typed /\ Awaited
  BY DEF IInv
<1>2. ASSUME NEW i \in DOMAIN rtoIntents, SettleClaim(w, i)
      PROVE  rto.status # "none" /\ rto'.status # "none"
  <2>1. rto.status # "none"
    BY DEF IInv, Unbound
  <2> QED
    BY <1>1, <1>2, <2>1, SettleClaimTakes
<1>3. ASSUME task[w].step \notin AcceptSteps \cup {"idle"}
      PROVE  rto.status # "none"
  BY <1>3, BoundBy
<1>4. CASE AcceptCharge(w)
  BY <1>1, <1>3, <1>4, AcceptChargeAdds DEF Goes, AcceptSteps
<1>5. CASE SweepCharge(w) \/ SweepChallenged(w) \/ SweepMissed(w)
  BY <1>1, <1>3, <1>5, SweepAdds DEF AcceptSteps
<1>6. CASE OpenIntent(w)
  BY <1>1, <1>3, <1>6, OpenIntentAdds DEF Goes, AcceptSteps
<1>7. CASE BookDeposit(w)
  BY <1>1, <1>3, <1>7, BookDepositEnters DEF Goes, AcceptSteps, SameRto
<1>8. CASE BookInstalment(w)
  BY <1>1, <1>3, <1>8, BookInstalmentEnters DEF Goes, AcceptSteps, SameRto
<1>9. CASE BookPayoff(w)
  BY <1>1, <1>3, <1>9, BookPayoffEnters DEF Goes, AcceptSteps, SameRto
<1>10. CASE ReturnSettle(w)
  BY <1>1, <1>3, <1>10, ReturnSettleEffect DEF Goes, AcceptSteps
<1> QED
  BY <1>2, <1>4, <1>5, <1>6, <1>7, <1>8, <1>9, <1>10, ActsCases

\* An agreement once made is kept.
LEMMA StaysWritten ==
  ASSUME IInv, NEW w \in Workers, Acts(w), rto.status # "none"
  PROVE  rto'.status # "none"
<1>1. Typed /\ Awaited
  BY DEF IInv
<1>2. CASE Rests(w)
  BY <1>1, <1>2, AcceptBeginEffect, AcceptClaimEffect, AcceptRefusedEffect, SweepListEffect,
     PayInstalmentEffect, PayOffEffect, ReturnBeginEffect, RemedyReadEffect, SweepLoadEffect,
     SweepThrowsEffect, AttachCardEffect, CreditDepositEffect, ClaimInstalmentEffect,
     ApplyInstalmentEffect, ClearAskEffect, CreditPayoffEffect, RemedyApplyEffect, CrashEffect
     DEF Rests, SameRto, Complete, Agreements, Typed
<1>3. ASSUME NEW d \in Deposits, AcceptCreate(w, d) PROVE rto'.status # "none"
  BY <1>3, AcceptCreateAlone
<1> QED
  BY <1>2, <1>3, Written

\* Only a credit or a claim states a split.
LEMMA RestsStates ==
  ASSUME NEW w \in Workers, Rests(w)
  PROVE  rtoStatements' = rtoStatements \/ CreditDeposit(w) \/ ClaimInstalment(w) \/ CreditPayoff(w)
<1>1. CASE \/ AcceptBegin(w) \/ AcceptClaim(w) \/ AcceptRefused(w) \/ SweepList(w)
           \/ PayInstalment(w) \/ PayOff(w) \/ ReturnBegin(w)
           \/ (\E to \in Remedies : RemedyRead(w, to)) \/ SweepLoad(w)
  BY <1>1 DEF AcceptBegin, AcceptClaim, AcceptRefused, SweepList, PayInstalment, PayOff,
              ReturnBegin, RemedyRead, SweepLoad
<1>2. CASE \/ SweepThrows(w) \/ AttachCard(w) \/ ApplyInstalment(w) \/ Complete(w) \/ ClearAsk(w)
           \/ RemedyApply(w) \/ RtoCrash(w)
  BY <1>2 DEF SweepThrows, AttachCard, ApplyInstalment, Complete, ClearAsk, RemedyApply, RtoCrash
<1> QED
  BY <1>1, <1>2 DEF Rests

LEMMA RestsPriced ==
  ASSUME IInv, NEW w \in Workers, Rests(w)
  PROVE  PricedTask(task'[w])
<1>1. Typed
  BY DEF IInv
<1>2. CASE PayInstalment(w)
  BY <1>1, <1>2, PayInstalmentAsks
<1>3. CASE PayOff(w)
  BY <1>1, <1>3, PayOffAsks
<1>4. CASE task'[w].step # "open_intent"
  BY <1>4 DEF PricedTask
<1> QED
  BY <1>2, <1>3, <1>4, RestActs DEF Bookless

LEMMA ListedActs ==
  ASSUME IInv, Kept, NEW w \in Workers, Acts(w)
  PROVE  Listed'
<1>1. Typed /\ Listed
  BY DEF IInv, Kept
<1>2. rto.status # "none" => rto'.status # "none"
  BY StaysWritten
<1>3. CASE Rests(w)
  <2>1. SameBooks
    BY <1>3, RestActs DEF Bookless
  <2>2. rtoStatements' = rtoStatements \/ rto'.status # "none"
    <3>1. CASE CreditDeposit(w) \/ ClaimInstalment(w) \/ CreditPayoff(w)
      <4>1. task[w].step \notin AcceptSteps \cup {"idle"}
        BY <3>1 DEF CreditDeposit, ClaimInstalment, CreditPayoff, At, AcceptSteps
      <4> QED
        BY <1>2, <4>1, BoundBy
    <3> QED
      BY <1>3, <3>1, RestsStates
  <2> QED
    BY <1>1, <1>2, <2>1, <2>2, ListedKept
<1>4. ASSUME NEW d \in Deposits, AcceptCreate(w, d) PROVE Listed'
  <2>1. SameBooks /\ rtoStatements' = rtoStatements
    BY <1>4, AcceptCreateAlone
  <2> QED
    BY <1>1, <1>2, <2>1, ListedKept
<1>5. CASE ~Rests(w) /\ \A d \in Deposits : ~AcceptCreate(w, d)
  <2>1. rto'.status # "none"
    BY <1>5, Written
  <2>2. SameBooks \/ \E line \in Lines : Enters(line)
    <3>1. CASE AcceptCharge(w) \/ SweepCharge(w) \/ SweepChallenged(w) \/ SweepMissed(w) \/ OpenIntent(w)
      BY <1>1, <3>1, AcceptChargeAdds, SweepAdds, OpenIntentAdds
    <3>2. ASSUME NEW i \in DOMAIN rtoIntents, SettleClaim(w, i) PROVE SameBooks
      BY <1>1, <3>2, SettleClaimTakes DEF IInv
    <3>3. ASSUME NEW line, Enters(line) PROVE line \in Lines
      BY <3>3 DEF Enters
    <3>4. CASE BookDeposit(w)
      BY <1>1, <3>3, <3>4, BookDepositEnters
    <3>5. CASE BookInstalment(w)
      BY <1>1, <3>3, <3>5, BookInstalmentEnters
    <3>6. CASE BookPayoff(w)
      BY <1>1, <3>3, <3>6, BookPayoffEnters
    <3>7. CASE ReturnSettle(w)
      BY <1>1, <3>3, <3>7, ReturnSettleEnters
    <3> QED
      BY <1>5, <3>1, <3>2, <3>4, <3>5, <3>6, <3>7, ActsCases
  <2> QED
    BY <1>1, <1>2, <2>1, <2>2, ListedKept
<1> QED
  BY <1>3, <1>4, <1>5

LEMMA LinkedActs ==
  ASSUME IInv, Linked, NEW w \in Workers, Acts(w)
  PROVE  Linked'
<1>1. Typed /\ Awaited
  BY DEF IInv
<1>2. NextIntent # 0
  BY <1>1 DEF NextIntent, Typed
<1>3. CASE Rests(w)
  BY <1>3, RestActs DEF Bookless, Settles, Linked
<1>4. ASSUME NEW d \in Deposits, AcceptCreate(w, d) PROVE Linked'
  BY <1>4, AcceptCreateAlone DEF Linked
<1>5. CASE AcceptCharge(w)
  BY <1>1, <1>2, <1>5, AcceptChargeAdds DEF Linked
<1>6. CASE SweepCharge(w)
  BY <1>1, <1>6, SweepAdds DEF Linked, SameRto
<1>7. CASE SweepChallenged(w)
  BY <1>1, <1>2, <1>7, SweepAdds DEF Linked
<1>8. CASE SweepMissed(w)
  BY <1>1, <1>8, SweepAdds DEF Linked, Waits
<1>9. CASE OpenIntent(w)
  <2>1. rto'.pending = NextIntent /\ rto'.kind \in {"installment", "payoff"}
    BY <1>1, <1>9, OpenIntentAdds
  <2> QED
    BY <1>2, <2>1 DEF Linked
<1>10. ASSUME NEW i \in DOMAIN rtoIntents, SettleClaim(w, i) PROVE Linked'
  BY <1>1, <1>10, SettleClaimTakes DEF Linked
<1>11. CASE BookDeposit(w) \/ BookInstalment(w) \/ BookPayoff(w)
  BY <1>1, <1>11, BookDepositEnters, BookInstalmentEnters, BookPayoffEnters DEF Linked, SameRto
<1>12. CASE ReturnSettle(w)
  BY <1>1, <1>12, ReturnSettleEffect DEF Linked, Waits
<1> QED
  BY <1>3, <1>4, <1>5, <1>6, <1>7, <1>8, <1>9, <1>10, <1>11, <1>12, ActsCases

LEMMA PartedActs ==
  ASSUME IInv, Kept, NEW w \in Workers, Acts(w)
  PROVE  Parted' /\ rto'.arrears = rto.arrears
<1>1. Typed /\ Awaited /\ Listed /\ Parted
  BY DEF IInv, Kept
<1>2. befell \subseteq befell'
  BY ActsMoves DEF Moves
<1>3. ASSUME NEW line, Enters(line), line.key # <<"partial", 0>>
      PROVE  Booked(<<"partial", 0>>)' => Booked(<<"partial", 0>>)
  BY <1>3, BookedEnters
<1>4. SameBooks => (Booked(<<"partial", 0>>)' => Booked(<<"partial", 0>>))
  BY BookedSame
<1>5. /\ rto'.arrears = rto.arrears
      /\ Booked(<<"partial", 0>>)' => Booked(<<"partial", 0>>)
  <2>1. CASE Rests(w)
    BY <1>4, <2>1, RestActs DEF Bookless, Settles
  <2>2. ASSUME NEW d \in Deposits, AcceptCreate(w, d)
        PROVE  rto'.arrears = rto.arrears /\ SameBooks
    BY <2>2, AcceptCreateAlone DEF NoAgreement
  <2>3. CASE AcceptCharge(w) \/ SweepCharge(w) \/ SweepChallenged(w) \/ SweepMissed(w) \/ OpenIntent(w)
    BY <1>1, <1>4, <2>3, AcceptChargeAdds, SweepAdds, OpenIntentAdds
  <2>4. ASSUME NEW i \in DOMAIN rtoIntents, SettleClaim(w, i)
        PROVE  rto'.arrears = rto.arrears /\ SameBooks
    BY <1>1, <2>4, SettleClaimTakes
  <2>5. CASE BookDeposit(w)
    <3>1. SameRto /\ (SameBooks \/ Enters(Line(<<"initial", 0>>, rto.deposit, rto.deposit)))
      BY <1>1, <2>5, BookDepositEnters
    <3> QED
      BY <1>3, <1>4, <3>1 DEF SameRto, Line
  <2>6. CASE BookInstalment(w)
    <3>1. SameRto /\ (SameBooks \/ Enters(Line(<<"instalment", task[w].n>>, Price, 1)))
      BY <1>1, <2>6, BookInstalmentEnters
    <3> QED
      BY <1>3, <1>4, <3>1 DEF SameRto, Line
  <2>7. CASE BookPayoff(w)
    <3>1. SameRto /\ (SameBooks \/ Enters(Line(<<"payoff", 0>>, Payoff(task[w].doc), Payoff(task[w].doc))))
      BY <1>1, <2>7, BookPayoffEnters
    <3> QED
      BY <1>3, <1>4, <3>1 DEF SameRto, Line
  <2>8. CASE ReturnSettle(w)
    <3>1. Settles /\ (SameBooks \/ Enters(Line(<<"refund", Refunds>>, -task[w].refund, 0)))
      BY <1>1, <2>8, ReturnSettleEnters
    <3> QED
      BY <1>3, <1>4, <3>1 DEF Settles, Line
  <2> QED
    BY <1>4, <2>1, <2>2, <2>3, <2>4, <2>5, <2>6, <2>7, <2>8, ActsCases
<1>6. Spared({"partial"})' => Spared({"partial"})
  BY <1>2, SparedBefore
<1> QED
  BY <1>1, <1>5, <1>6 DEF Parted

LEMMA PricedActs ==
  ASSUME IInv, Kept, NEW w \in Workers, Acts(w)
  PROVE  Priced'
<1>1. Typed /\ Awaited /\ Listed /\ Priced
  BY DEF IInv, Kept
<1>2. Moves(w)
  BY ActsMoves
<1>3. ASSUME SameIntents, task'[w].step # "open_intent" PROVE Priced'
  BY <1>1, <1>2, <1>3, PricedSame DEF PricedTask
<1>4. ASSUME task'[w].step # "open_intent"
      PROVE  \A v \in Workers : task'[v] = task[v] \/ PricedTask(task'[v])
  BY <1>2, <1>4 DEF Moves, PricedTask
<1>5. CASE Rests(w)
  BY <1>1, <1>2, <1>5, RestActs, RestsPriced, PricedSame DEF Bookless
<1>6. ASSUME NEW d \in Deposits, AcceptCreate(w, d) PROVE Priced'
  BY <1>3, <1>6, AcceptCreateAlone DEF Goes
<1>7. CASE AcceptCharge(w)
  <2>1. PICK kind \in {"acceptance", "card_setup"} :
          Adds(kind, 0, rto.deposit, "open") /\ (kind = "card_setup" => rto.deposit = 0)
    BY <1>1, <1>7, AcceptChargeAdds
  <2>2. task'[w].step # "open_intent"
    BY <1>1, <1>7, AcceptChargeAdds DEF Goes
  <2> QED
    BY <1>1, <1>4, <2>1, <2>2, PricedAdded
<1>8. CASE SweepCharge(w)
  BY <1>1, <1>4, <1>8, SweepAdds, PricedAdded DEF Goes
<1>9. CASE SweepChallenged(w)
  BY <1>1, <1>4, <1>9, SweepAdds, PricedAdded DEF Goes
<1>10. CASE SweepMissed(w)
  <2>1. /\ SameIntents \/ Adds("sweep", task[w].n, Price, "declined")
        /\ task[w].n \in 1..Instalments /\ task'[w].step # "open_intent"
    BY <1>1, <1>10, SweepAdds DEF Goes
  <2> QED
    BY <1>1, <1>3, <1>4, <2>1, PricedAdded
<1>11. CASE OpenIntent(w)
  <2>1. /\ Adds(task[w].kind, task[w].n, task[w].amount, "open")
        /\ task[w].kind \in {"installment", "payoff"}
        /\ task[w].step = "open_intent" /\ task'[w].step # "open_intent"
    BY <1>1, <1>11, OpenIntentAdds DEF Goes
  <2>2. PricedTask(task[w])
    BY <1>1 DEF Priced
  <2>3. IF task[w].kind = "installment" THEN task[w].n \in 1..Instalments /\ task[w].amount = Price
        ELSE task[w].n = 0
    BY <2>1, <2>2 DEF PricedTask
  <2> QED
    BY <1>1, <1>4, <2>1, <2>3, PricedAdded
<1>12. ASSUME NEW i \in DOMAIN rtoIntents, SettleClaim(w, i) PROVE Priced'
  <2>1. SameIntents
    BY <1>1, <1>12, SettleClaimTakes
  <2>2. task'[w].step # "open_intent"
    BY <1>1, <1>12, SettleClaimEffect DEF Goes
  <2> QED
    BY <1>3, <2>1, <2>2
<1>13. CASE BookDeposit(w)
  BY <1>1, <1>3, <1>13, BookDepositEnters DEF Goes
<1>14. CASE BookInstalment(w)
  BY <1>1, <1>3, <1>14, BookInstalmentEnters DEF Goes
<1>15. CASE BookPayoff(w)
  BY <1>1, <1>3, <1>15, BookPayoffEnters DEF Goes
<1>16. CASE ReturnSettle(w)
  BY <1>1, <1>3, <1>16, ReturnSettleEffect DEF Goes
<1> QED
  BY <1>5, <1>6, <1>7, <1>8, <1>9, <1>10, <1>11, <1>12, <1>13, <1>14, <1>15, <1>16, ActsCases

\* What the agreement says while the handlers stay where they are.
LEMMA ConfirmSays ==
  ASSUME Typed, NEW i \in DOMAIN rtoIntents, Confirm(i)
  PROVE  /\ Watches /\ SameOffer /\ SameRto /\ SameBooks /\ schedule' = schedule
         /\ rtoStatements' = rtoStatements /\ rtoIntents[i].status = "open"
         /\ DOMAIN rtoIntents' = DOMAIN rtoIntents
         /\ \A j \in DOMAIN rtoIntents :
              /\ rtoIntents'[j].kind = rtoIntents[j].kind /\ rtoIntents'[j].n = rtoIntents[j].n
              /\ rtoIntents'[j].amount = rtoIntents[j].amount
              /\ rtoIntents'[j].status = IF j = i THEN "succeeded" ELSE rtoIntents[j].status
<1>1. /\ Watches /\ SameOffer /\ SameRto /\ SameBooks /\ schedule' = schedule
      /\ rtoIntents[i].status = "open"
      /\ rtoIntents' = [rtoIntents EXCEPT ![i] = [@ EXCEPT !.status = "succeeded"]]
  BY ConfirmEffect
<1>2. rtoIntents[i] \in Intents
  BY DEF Typed
<1> DEFINE r == [rtoIntents[i] EXCEPT !.status = "succeeded"]
<1>3. /\ r.kind = rtoIntents[i].kind /\ r.n = rtoIntents[i].n /\ r.amount = rtoIntents[i].amount
      /\ r.status = "succeeded"
  BY <1>2 DEF Intents
<1>4. rtoIntents' = [rtoIntents EXCEPT ![i] = r]
  BY <1>1
<1>5. rtoStatements' = rtoStatements
  BY DEF Confirm
<1> HIDE DEF r
<1>6. DOMAIN rtoIntents' = DOMAIN rtoIntents
  BY <1>4
<1> QED
  BY <1>1, <1>3, <1>4, <1>5, <1>6

LEMMA ReinstateSays ==
  ASSUME Typed, NEW w \in Workers, Reinstate(w)
  PROVE  /\ Watches /\ SameOffer /\ SameIntents /\ SameBooks /\ Money(rto) /\ Settles
         /\ rto'.due = rto.due /\ rto'.ask = rto.ask /\ schedule' = schedule
         /\ rtoStatements' = rtoStatements /\ rto.status # "none" /\ rto'.status # "none"
<1>1. rto' = [rto EXCEPT !.status = "active"] /\ schedule' = schedule /\ rtoStatements' = rtoStatements
  BY DEF Reinstate
<1>2. rto'.arrears = rto.arrears /\ rto'.ask = rto.ask
  BY <1>1 DEF Typed, Agreements
<1> QED
  BY <1>1, <1>2, ReinstateEffect DEF Settles, Waits, Money

LEMMA KeptWatch ==
  ASSUME IInv, Kept,
         \/ Escalate
         \/ \E w \in Workers : PartialPayment(w) \/ Reinstate(w)
         \/ \E i \in DOMAIN rtoIntents : Confirm(i)
  PROVE  Kept'
<1>1. Typed /\ Listed /\ Linked /\ Parted /\ Priced
  BY DEF IInv, Kept
<1>2. ASSUME task' = task, SameIntents PROVE Priced'
  <2>1. \A v \in Workers : PricedTask(task[v])'
    BY <1>1, <1>2 DEF Priced, PricedTask, Price
  <2>2. \A i \in DOMAIN rtoIntents' : PricedIntent(rtoIntents[i])'
    BY <1>1, <1>2 DEF Priced, SameIntents, PricedIntent, Price
  <2> QED
    BY <2>1, <2>2 DEF Priced
<1>3. ASSUME NEW line, Enters(line) PROVE line \in Lines
  BY <1>3 DEF Enters
<1>4. ASSUME Watches, Settles, (Booked(<<"partial", 0>>)' => Booked(<<"partial", 0>>))
      PROVE  Linked' /\ Parted'
  <2>1. Spared({"partial"})' => Spared({"partial"})
    BY <1>4, SparedBefore DEF Watches
  <2> QED
    BY <1>1, <1>4, <2>1 DEF Settles, Linked, Parted
<1>5. CASE Escalate
  <2>1. /\ Watches /\ SameIntents /\ Settles /\ rtoStatements' = rtoStatements
        /\ rto'.status # "none"
        /\ SameBooks \/ \E n \in 1..Instalments : Enters(Line(<<"late_fee", n>>, 1, 0))
    BY <1>1, <1>5, EscalateEnters
  <2>2. SameBooks \/ \E line \in Lines : Enters(line)
    BY <1>3, <2>1
  <2>3. Listed'
    BY <1>1, <2>1, <2>2, ListedKept
  <2>4. Booked(<<"partial", 0>>)' => Booked(<<"partial", 0>>)
    <3>1. ASSUME NEW n \in 1..Instalments, Enters(Line(<<"late_fee", n>>, 1, 0))
          PROVE  Booked(<<"partial", 0>>)' => Booked(<<"partial", 0>>)
      BY <3>1, BookedEnters DEF Line
    <3> QED
      BY <2>1, <3>1, BookedSame
  <2> QED
    BY <1>2, <1>4, <2>1, <2>3, <2>4 DEF Kept, Watches
<1>6. ASSUME NEW w \in Workers, Reinstate(w) PROVE Kept'
  <2>1. /\ Watches /\ SameIntents /\ SameBooks /\ Settles /\ rtoStatements' = rtoStatements
        /\ rto'.status # "none"
    BY <1>1, <1>6, ReinstateSays
  <2>2. Listed'
    BY <1>1, <2>1, ListedKept
  <2> QED
    BY <1>2, <1>4, <2>1, <2>2, BookedSame DEF Kept, Watches
<1>7. ASSUME NEW w \in Workers, PartialPayment(w) PROVE Kept'
  <2>1. /\ Watches /\ Waits(rto) /\ rto'.status = rto.status /\ Running
        /\ "partial" \in befell' /\ rto'.arrears # 0 /\ rtoStatements' = rtoStatements
        /\ Adds("partial", 0, 1, "open")
        /\ SameBooks \/ Enters(Line(<<"partial", 0>>, 1, 0))
    BY <1>1, <1>7, PartialPaymentEnters DEF Adds
  <2>2. SameBooks \/ \E line \in Lines : Enters(line)
    BY <1>3, <2>1
  <2>3. Listed'
    BY <1>1, <2>1, <2>2, ListedKept DEF Running
  <2>4. Priced'
    BY <1>1, <2>1, PricedAdded DEF Watches
  <2> QED
    BY <1>1, <2>1, <2>3, <2>4 DEF Kept, Linked, Parted, Waits, Spared
<1>8. ASSUME NEW i \in DOMAIN rtoIntents, Confirm(i) PROVE Kept'
  <2>1. /\ Watches /\ SameRto /\ SameBooks /\ rtoStatements' = rtoStatements
        /\ DOMAIN rtoIntents' = DOMAIN rtoIntents
        /\ \A j \in DOMAIN rtoIntents :
              /\ rtoIntents'[j].kind = rtoIntents[j].kind /\ rtoIntents'[j].n = rtoIntents[j].n
              /\ rtoIntents'[j].amount = rtoIntents[j].amount
    BY <1>1, <1>8, ConfirmSays
  <2>2. Listed'
    BY <1>1, <2>1, ListedKept DEF SameRto
  <2>3. \A v \in Workers : PricedTask(task[v])'
    BY <1>1, <2>1 DEF Priced, PricedTask, Price, Watches
  <2>4. \A j \in DOMAIN rtoIntents' : PricedIntent(rtoIntents[j])'
    BY <1>1, <2>1 DEF Priced, PricedIntent, Price
  <2> QED
    BY <1>4, <2>1, <2>2, <2>3, <2>4, BookedSame DEF Kept, Priced, Settles, SameRto
<1> QED
  BY <1>5, <1>6, <1>7, <1>8

\* Nothing that is said here changes.
LEMMA KeptStill ==
  ASSUME Kept, task' = task, befell \subseteq befell', SameRto, SameIntents, SameBooks,
         rtoStatements' = rtoStatements
  PROVE  Kept'
<1>1. Listed'
  BY ListedKept DEF Kept, SameRto
<1>2. \A v \in Workers : PricedTask(task[v])'
  BY DEF Kept, Priced, PricedTask, Price
<1>3. \A i \in DOMAIN rtoIntents' : PricedIntent(rtoIntents[i])'
  BY DEF Kept, Priced, SameIntents, PricedIntent, Price
<1>4. Parted'
  BY BookedSame, SparedBefore DEF Kept, Parted, SameRto
<1> QED
  BY <1>1, <1>2, <1>3, <1>4 DEF Kept, Priced, Linked, SameRto

LEMMA NextKeepsBooks == IInv /\ Kept /\ [RtoNext]_rtoVars => Kept'
<1>1. ASSUME IInv, Kept, RtoNext
      PROVE  Kept'
  <2>1. ASSUME NEW w \in Workers, Acts(w) PROVE Kept'
    BY <1>1, <2>1, ListedActs, LinkedActs, PartedActs, PricedActs DEF Kept
  <2>2. CASE Offering
    BY <1>1, <2>2, OfferActs, KeptStill
  <2> QED
    BY <1>1, <2>1, <2>2, NextCases, KeptWatch DEF Acts, Offering
<1>2. ASSUME IInv, Kept, UNCHANGED rtoVars
      PROVE  Kept'
  BY <1>2, KeptStill DEF rtoVars, SameRto, SameIntents, SameBooks
<1> QED
  BY <1>1, <1>2

LEMMA InitKept == HandlersInit /\ RtoInit => Kept
<1> SUFFICES ASSUME HandlersInit, RtoInit
             PROVE  Kept
  OBVIOUS
<1>1. /\ rto.kind = "none" /\ rto.pending = 0 /\ rto.arrears = 0 /\ rtoLedger = {}
      /\ rtoStatements = {} /\ DOMAIN rtoIntents = {}
  BY DEF RtoInit, NoAgreement
<1>2. Listed
  BY <1>1, FS_EmptySet DEF Listed
<1>3. \A w \in Workers : task[w].step = "idle"
  BY DEF HandlersInit, Resting
<1>4. Priced
  BY <1>1, <1>3 DEF Priced, PricedTask
<1> QED
  BY <1>1, <1>2, <1>4 DEF Kept, Linked, Parted, Booked

LEMMA KeptInvariant == RtoSpec => []Kept
BY InitKept, NextKeepsBooks, Invariant, PTL DEF RtoSpec

-----------------------------------------------------------------------------
(***************************************************************************)
(* Where the money is: in the books, with a handler that is about to book  *)
(* it, or paid for an intent the agreement still awaits.                   *)
(***************************************************************************)

AwaitedSum ==
  IF rto.pending # 0 /\ rtoIntents[rto.pending].status = "succeeded"
    THEN rtoIntents[rto.pending].amount ELSE 0

Balance(K) == Total(Entries(K)) + Held + AwaitedSum

LEMMA AwaitedSumType ==
  ASSUME Typed, Awaited
  PROVE  AwaitedSum \in Nat
<1>1. CASE rto.pending # 0
  <2>1. rtoIntents[rto.pending] \in Intents
    BY <1>1 DEF Awaited, Typed
  <2>2. rtoIntents[rto.pending].amount \in Nat
    BY <2>1 DEF Intents
  <2> QED
    BY <2>2 DEF AwaitedSum
<1>2. CASE rto.pending = 0
  BY <1>2 DEF AwaitedSum
<1> QED
  BY <1>1, <1>2

LEMMA AwaitedSumSame ==
  ASSUME SameIntents, rto'.pending = rto.pending
  PROVE  AwaitedSum' = AwaitedSum
BY DEF SameIntents, AwaitedSum

LEMMA AwaitedSumAdds ==
  ASSUME Typed, Awaited, NEW kind, NEW n, NEW amount, NEW status, Adds(kind, n, amount, status)
  PROVE  /\ rto'.pending = rto.pending => AwaitedSum' = AwaitedSum
         /\ rto'.pending = NextIntent /\ status = "open" => AwaitedSum' = 0
<1> DEFINE r == [kind |-> kind, n |-> n, amount |-> amount, status |-> status]
           j == NextIntent
<1>1. r \in Intents /\ rtoIntents' = Opened(kind, n, amount, status)
  BY DEF Adds
<1>2. \A i \in DOMAIN rtoIntents : rtoIntents'[i] = rtoIntents[i]
  BY <1>1, IntentAdded
<1>3. rtoIntents'[j] = r
  BY <1>1, IntentAdded
<1>4. r.status = status
  OBVIOUS
<1> HIDE DEF r, j
<1>5. ASSUME rto'.pending = rto.pending PROVE AwaitedSum' = AwaitedSum
  <2>1. CASE rto.pending # 0
    <3>1. rto.pending \in DOMAIN rtoIntents
      BY <2>1 DEF Awaited
    <3>2. rtoIntents'[rto.pending] = rtoIntents[rto.pending]
      BY <1>2, <3>1
    <3> QED
      BY <1>5, <2>1, <3>2 DEF AwaitedSum
  <2>2. CASE rto.pending = 0
    BY <1>5, <2>2 DEF AwaitedSum
  <2> QED
    BY <2>1, <2>2
<1>6. ASSUME rto'.pending = j, status = "open" PROVE AwaitedSum' = 0
  BY <1>3, <1>4, <1>6 DEF AwaitedSum
<1> QED
  BY <1>5, <1>6 DEF j

\* Handler w passes from step a to a step that claims nothing.
LEMMA HeldLeaves ==
  ASSUME Typed, Typed', NEW w \in Workers, Moves(w), rto'.deposit = rto.deposit,
         task'[w].step \notin Booking
  PROVE  /\ ClaimedOf(task[w], rto.deposit) \in Nat
         /\ Held' = Held - ClaimedOf(task[w], rto.deposit)
         /\ task[w].step \notin Booking => Held' = Held
<1>1. task[w] \in Tasks /\ task'[w] \in Tasks /\ rto.deposit \in Nat
  BY DEF Typed, Agreements
<1>2. ClaimedOf(task[w], rto.deposit) \in Nat /\ ClaimedOf(task'[w], rto.deposit) = 0
  BY <1>1, ClaimedCases
<1>3. task[w].step \notin Booking => ClaimedOf(task[w], rto.deposit) = 0
  BY <1>1, ClaimedCases
<1>4. Held' = Held - ClaimedOf(task[w], rto.deposit) + ClaimedOf(task'[w], rto.deposit)
  BY HeldMoves
<1>5. Held \in Nat
  BY HeldType
<1> QED
  BY <1>2, <1>3, <1>4, <1>5

\* How the sums move in a step.
Shifts(K, entered, held, awaited, taken, expected) ==
  /\ Total(Entries(K))' = Total(Entries(K)) + entered
  /\ Held' = Held + held
  /\ AwaitedSum' = AwaitedSum + awaited
  /\ Collected' = Collected + taken
  /\ Charged' = Charged + expected

LEMMA SumsType ==
  ASSUME IInv, Kept, NEW K
  PROVE  /\ Total(Entries(K)) \in Int /\ Held \in Nat /\ AwaitedSum \in Nat
         /\ Collected \in Nat /\ Charged \in Nat
BY TotalType, HeldType, AwaitedSumType, CollectedType DEF IInv, Kept

LEMMA RestsShift ==
  ASSUME IInv, Kept, NEW K, NEW w \in Workers, Rests(w)
  PROVE  \E claim \in Nat : Shifts(K, 0, -claim, 0, 0, 0) /\ (task[w].step \notin Booking => claim = 0)
<1> DEFINE claim == ClaimedOf(task[w], rto.deposit)
<1>1. Bookless(w)
  BY RestActs
<1>2. claim \in Nat /\ Held' = Held - claim /\ (task[w].step \notin Booking => Held' = Held)
  BY <1>1, HeldLeaves DEF Bookless, Settles, IInv
<1>3. /\ Total(Entries(K))' = Total(Entries(K)) /\ AwaitedSum' = AwaitedSum
      /\ Collected' = Collected /\ Charged' = Charged
  BY <1>1, TotalSame, AwaitedSumSame, CollectedSame DEF Bookless, Settles
<1>4. /\ Total(Entries(K)) \in Int /\ Held \in Nat /\ AwaitedSum \in Nat
      /\ Collected \in Nat /\ Charged \in Nat
  BY SumsType
<1> HIDE DEF claim
<1>5. Shifts(K, 0, -claim, 0, 0, 0) /\ (task[w].step \notin Booking => claim = 0)
  BY <1>2, <1>3, <1>4 DEF Shifts
<1> QED
  BY <1>2, <1>5

LEMMA CreateShift ==
  ASSUME IInv, IInv', Kept, NEW K, NEW w \in Workers, NEW d \in Deposits, AcceptCreate(w, d)
  PROVE  Shifts(K, 0, 0, 0, 0, 0)
<1>1. /\ rto = NoAgreement /\ rto'.pending = 0 /\ SameBooks /\ SameIntents
      /\ \A v \in Workers \ {w} : Idle(v)
      /\ Goes(w, "create_agreement", "open_charge")
  BY AcceptCreateAlone
<1>2. rto'.pending = rto.pending
  BY <1>1 DEF NoAgreement
<1>3. \A v \in Workers : task[v].step \notin Booking /\ task'[v].step \notin Booking
  BY <1>1 DEF Goes, Moves, Idle, Booking
<1>4. Held = 0 /\ Held' = 0
  <2>1. /\ Held = SumFunctionOnSet(Claims, Workers) /\ IsFiniteSet(Workers)
        /\ Held' = SumFunctionOnSet(Claims, Workers)'
    BY RtoAssumption DEF Held, Claims, SumFunction
  <2>2. \A v \in Workers : Claims[v] = 0
    <3> TAKE v \in Workers
    <3>1. task[v] \in Tasks /\ rto.deposit \in Nat
      BY DEF IInv, Typed, Agreements
    <3> QED
      BY <1>3, <3>1, ClaimedCases DEF Claims
  <2>3. \A v \in Workers : Claims'[v] = 0
    <3> TAKE v \in Workers
    <3>1. task'[v] \in Tasks /\ rto'.deposit \in Nat
      BY DEF IInv, Typed, Agreements
    <3>2. ClaimedOf(task'[v], rto'.deposit) = 0
      BY <1>3, <3>1, ClaimedCases
    <3> QED
      BY <3>2 DEF Claims
  <2>4. SumFunctionOnSet(Claims, Workers)' = SumFunctionOnSet(Claims', Workers)
    OBVIOUS
  <2> QED
    BY <2>1, <2>2, <2>3, <2>4, SumNothing
<1>5. /\ Total(Entries(K))' = Total(Entries(K)) /\ AwaitedSum' = AwaitedSum
      /\ Collected' = Collected /\ Charged' = Charged
  BY <1>1, <1>2, TotalSame, AwaitedSumSame, CollectedSame
<1>6. /\ Total(Entries(K)) \in Int /\ AwaitedSum \in Nat
      /\ Collected \in Nat /\ Charged \in Nat
  BY SumsType
<1> QED
  BY <1>4, <1>5, <1>6 DEF Shifts

LEMMA AddedSums ==
  ASSUME Typed, NEW kind, NEW n, NEW amount, NEW status, Adds(kind, n, amount, status)
  PROVE  /\ Collected' = Collected + (IF status = "succeeded" THEN amount ELSE 0)
         /\ Charged' = Charged + (IF status = "succeeded" \/ kind = "partial" THEN amount ELSE 0)
BY CollectedAdded DEF Adds

\* An intent that waits for the customer is awaited instead of another.
LEMMA OpensShift ==
  ASSUME IInv, Kept, NEW K, NEW w \in Workers,
         AcceptCharge(w) \/ SweepChallenged(w) \/ OpenIntent(w)
  PROVE  /\ Shifts(K, 0, 0, -AwaitedSum, 0, 0)
         /\ AwaitedSum # 0 => "superseded" \in befell'
<1>1. Typed /\ Awaited /\ Linked
  BY DEF IInv, Kept
<1>2. \E kind, n, amount :
        /\ Adds(kind, n, amount, "open") /\ kind # "partial"
        /\ rto'.pending = NextIntent /\ SameBooks /\ rto'.deposit = rto.deposit
        /\ task[w].step \notin Booking /\ task'[w].step \notin Booking /\ Typed' /\ Moves(w)
        /\ rto.pending # 0 => "superseded" \in befell'
  <2>1. CASE AcceptCharge(w)
    <3>1. PICK kind \in {"acceptance", "card_setup"} : Adds(kind, 0, rto.deposit, "open")
      BY <1>1, <2>1, AcceptChargeAdds
    <3>2. /\ rto'.pending = NextIntent /\ SameBooks /\ rto'.deposit = rto.deposit
          /\ Goes(w, "open_charge", "idle")
          /\ rto.pending # 0 => "superseded" \in befell'
      BY <1>1, <2>1, AcceptChargeAdds DEF Money
    <3> QED
      BY <3>1, <3>2 DEF Goes, Booking
  <2>2. CASE SweepChallenged(w)
    <3>1. /\ Adds("sweep", task[w].n, Price, "open")
          /\ rto'.pending = NextIntent /\ SameBooks /\ rto'.deposit = rto.deposit
          /\ Goes(w, "charge", "idle")
          /\ rto.pending # 0 => "superseded" \in befell'
      BY <1>1, <2>2, SweepAdds DEF Money
    <3> QED
      BY <3>1 DEF Goes, Booking
  <2>3. CASE OpenIntent(w)
    <3>1. /\ Adds(task[w].kind, task[w].n, task[w].amount, "open")
          /\ task[w].kind \in {"installment", "payoff"}
          /\ rto'.pending = NextIntent /\ SameBooks /\ rto'.deposit = rto.deposit
          /\ Goes(w, "open_intent", "idle")
          /\ rto.pending # 0 => "superseded" \in befell'
      BY <1>1, <2>3, OpenIntentAdds DEF Money
    <3> QED
      BY <3>1 DEF Goes, Booking
  <2> QED
    BY <2>1, <2>2, <2>3
<1>3. PICK kind, n, amount :
        /\ Adds(kind, n, amount, "open") /\ kind # "partial"
        /\ rto'.pending = NextIntent /\ SameBooks /\ rto'.deposit = rto.deposit
        /\ task[w].step \notin Booking /\ task'[w].step \notin Booking /\ Typed' /\ Moves(w)
        /\ rto.pending # 0 => "superseded" \in befell'
  BY <1>2
<1>4. Collected' = Collected + 0 /\ Charged' = Charged + 0
  BY <1>1, <1>3, AddedSums
<1>5. AwaitedSum' = 0
  BY <1>1, <1>3, AwaitedSumAdds
<1>6. Held' = Held
  BY <1>1, <1>3, HeldLeaves
<1>7. Total(Entries(K))' = Total(Entries(K))
  BY <1>3, TotalSame
<1>8. /\ Total(Entries(K)) \in Int /\ Held \in Nat /\ AwaitedSum \in Nat
      /\ Collected \in Nat /\ Charged \in Nat
  BY SumsType
<1>9. Shifts(K, 0, 0, -AwaitedSum, 0, 0)
  BY <1>4, <1>5, <1>6, <1>7, <1>8 DEF Shifts
<1> QED
  BY <1>3, <1>9 DEF AwaitedSum

LEMMA ChargeShift ==
  ASSUME IInv, Kept, NEW K, NEW w \in Workers, SweepCharge(w)
  PROVE  Shifts(K, 0, 2, 0, 2, 2)
<1>1. Typed /\ Awaited
  BY DEF IInv
<1>2. /\ Goes(w, "charge", "book") /\ Adds("sweep", task[w].n, Price, "succeeded")
      /\ SameRto /\ SameBooks
  BY <1>1, SweepAdds
<1>3. Collected' = Collected + 2 /\ Charged' = Charged + 2
  BY <1>1, <1>2, AddedSums DEF Price
<1>4. AwaitedSum' = AwaitedSum
  BY <1>1, <1>2, AwaitedSumAdds DEF SameRto
<1>5. Held' = Held - ClaimedOf(task[w], rto.deposit) + ClaimedOf(task'[w], rto.deposit)
  BY <1>1, <1>2, HeldMoves DEF Goes, SameRto
<1>6. task[w] \in Tasks /\ task'[w] \in Tasks /\ rto.deposit \in Nat
  BY <1>1, <1>2 DEF Typed, Goes, Agreements
<1>7. ClaimedOf(task[w], rto.deposit) = 0
  BY <1>2, <1>6, ClaimedCases DEF Goes, Booking
<1>8. ClaimedOf(task'[w], rto.deposit) = 2
  BY <1>2, <1>6, ClaimedCases DEF Goes
<1>9. Total(Entries(K))' = Total(Entries(K))
  BY <1>2, TotalSame
<1> QED
  BY <1>3, <1>4, <1>5, <1>7, <1>8, <1>9, SumsType DEF Shifts

LEMMA MissedShift ==
  ASSUME IInv, Kept, NEW K, NEW w \in Workers, SweepMissed(w)
  PROVE  Shifts(K, 0, 0, 0, 0, 0)
<1>1. Typed /\ Awaited
  BY DEF IInv
<1>2. /\ Goes(w, "charge", "idle") /\ Waits(rto) /\ SameBooks /\ Money(rto)
      /\ SameIntents \/ Adds("sweep", task[w].n, Price, "declined")
  BY <1>1, SweepAdds
<1>3. Held' = Held
  BY <1>1, <1>2, HeldLeaves DEF Goes, Booking, Money
<1>4. Total(Entries(K))' = Total(Entries(K))
  BY <1>2, TotalSame
<1>5. CASE SameIntents
  <2>1. AwaitedSum' = AwaitedSum /\ Collected' = Collected /\ Charged' = Charged
    BY <1>2, <1>5, AwaitedSumSame, CollectedSame DEF Waits
  <2> QED
    BY <1>3, <1>4, <2>1, SumsType DEF Shifts
<1>6. CASE Adds("sweep", task[w].n, Price, "declined")
  <2>1. Collected' = Collected + 0 /\ Charged' = Charged + 0
    BY <1>1, <1>6, AddedSums
  <2>2. AwaitedSum' = AwaitedSum
    BY <1>1, <1>2, <1>6, AwaitedSumAdds DEF Waits
  <2> QED
    BY <1>3, <1>4, <2>1, <2>2, SumsType DEF Shifts
<1> QED
  BY <1>2, <1>5, <1>6

LEMMA ClaimShift ==
  ASSUME IInv, Kept, NEW K, NEW w \in Workers, NEW i \in DOMAIN rtoIntents, SettleClaim(w, i)
  PROVE  \E claim \in Nat :
           /\ Shifts(K, 0, claim, -AwaitedSum, 0, 0)
           /\ claim <= AwaitedSum
           /\ claim = AwaitedSum \/ (rto.kind = "installment" /\ rto.due = 0)
<1>1. Typed /\ Awaited /\ Priced
  BY DEF IInv, Kept
<1>2. /\ Typed' /\ Moves(w) /\ Idle(w) /\ SameBooks /\ SameIntents /\ Money(rto)
      /\ rtoIntents[i].status = "succeeded" /\ rto.pending = i /\ rto'.pending = 0
  BY <1>1, SettleClaimTakes
<1>3. task[w] \in Tasks /\ task'[w] \in Tasks /\ rto.deposit \in Nat /\ rtoIntents[i] \in Intents
  BY <1>1, <1>2 DEF Typed, Agreements
<1> DEFINE claim == ClaimedOf(task'[w], rto.deposit)
           a == rtoIntents[i].amount
<1>4. claim \in Nat /\ a \in Nat
  BY <1>3, ClaimedCases DEF Intents
<1>5. Held' = Held + claim
  <2>1. Held' = Held - ClaimedOf(task[w], rto.deposit) + ClaimedOf(task'[w], rto.deposit)
    BY <1>1, <1>2, HeldMoves DEF Money
  <2>2. ClaimedOf(task[w], rto.deposit) = 0
    BY <1>2, <1>3, ClaimedCases DEF Idle, Booking
  <2> QED
    BY <1>4, <2>1, <2>2, SumsType
<1>6. i # 0
  BY <1>1 DEF Typed
<1>7. AwaitedSum = a /\ AwaitedSum' = 0
  BY <1>2, <1>6 DEF AwaitedSum
<1>8. /\ Total(Entries(K))' = Total(Entries(K)) /\ Collected' = Collected /\ Charged' = Charged
  BY <1>2, TotalSame, CollectedSame
<1>9. /\ rtoIntents[i].kind \in Kinds(rto.kind)
      /\ rto.kind = "acceptance" => a = rto.deposit
      /\ PricedIntent(rtoIntents[i])
  BY <1>1, <1>2, <1>6 DEF Awaited, Priced
<1>10. claim <= a /\ (claim = a \/ (rto.kind = "installment" /\ rto.due = 0))
  <2>1. CASE rto.kind = "acceptance" /\ task'[w] = [step |-> "book_deposit"]
    <3>1. claim = rto.deposit
      BY <1>3, <2>1, ClaimedCases
    <3> QED
      BY <1>4, <1>9, <2>1, <3>1
  <2>2. CASE rto.kind = "card_setup" /\ task'[w] = [step |-> "attach_card"]
    <3>1. claim = 0
      BY <1>3, <2>2, ClaimedCases DEF Booking
    <3>2. a = 0
      BY <1>9, <2>2 DEF Kinds, PricedIntent
    <3> QED
      BY <3>1, <3>2
  <2>3. CASE /\ rto.kind = "payoff"
             /\ task'[w] = [step |-> "book_payoff", amount |-> a, doc |-> Counts]
    <3>1. claim = a
      BY <1>3, <2>3, ClaimedCases
    <3> QED
      BY <1>4, <3>1
  <2>4. CASE rto.kind = "installment" /\ rto.due = 0 /\ task'[w] = Resting
    <3>1. claim = 0
      BY <1>3, <2>4, ClaimedCases DEF Booking, Resting
    <3> QED
      BY <1>4, <2>4, <3>1
  <2>5. CASE /\ rto.kind = "installment" /\ rto.due # 0
             /\ task'[w] = [step |-> "book", n |-> rto.due, doc |-> Counts, via |-> "hook"]
    <3>1. claim = 2
      BY <1>3, <2>5, ClaimedCases
    <3>2. a = 2
      BY <1>9, <2>5 DEF Kinds, PricedIntent, Price
    <3> QED
      BY <3>1, <3>2
  <2> QED
    BY <1>1, <2>1, <2>2, <2>3, <2>4, <2>5, SettleClaimTakes
<1> HIDE DEF claim, a
<1>11. Shifts(K, 0, claim, -AwaitedSum, 0, 0)
  BY <1>4, <1>5, <1>7, <1>8, SumsType DEF Shifts
<1> QED
  BY <1>4, <1>7, <1>10, <1>11

\* A line is entered, or its key was taken.
LEMMA EntersShift ==
  ASSUME IInv, Kept, NEW K, NEW held \in Int, Held' = Held + held, SameIntents,
         rto'.pending = rto.pending
  PROVE  /\ SameBooks => Shifts(K, 0, held, 0, 0, 0)
         /\ \A line \in Lines : Enters(line) =>
              Shifts(K, IF line.key[1] \in K THEN line.amount ELSE 0, held, 0, 0, 0)
<1>1. AwaitedSum' = AwaitedSum /\ Collected' = Collected /\ Charged' = Charged
  BY AwaitedSumSame, CollectedSame
<1>2. Listed
  BY DEF Kept
<1>3. AwaitedSum \in Nat /\ Collected \in Nat /\ Charged \in Nat /\ Total(Entries(K)) \in Int
  BY SumsType
<1>4. SameBooks => Total(Entries(K))' = Total(Entries(K))
  BY TotalSame
<1>5. \A line \in Lines : Enters(line) =>
        Total(Entries(K))' = Total(Entries(K)) + (IF line.key[1] \in K THEN line.amount ELSE 0)
  BY <1>2, TotalEnters
<1> QED
  BY <1>1, <1>3, <1>4, <1>5 DEF Shifts

LEMMA BookShift ==
  ASSUME IInv, Kept, NEW K, NEW w \in Workers,
         BookDeposit(w) \/ BookInstalment(w) \/ BookPayoff(w)
  PROVE  \E claim \in Nat :
           \/ Shifts(K, 0, -claim, 0, 0, 0)
              /\ \/ BookDeposit(w) /\ (Booked(<<"initial", 0>>) \/ "initial" \notin K)
                 \/ BookInstalment(w) /\ (task[w].n \in BookedN \/ "instalment" \notin K)
                 \/ BookPayoff(w) /\ (Booked(<<"payoff", 0>>) \/ "payoff" \notin K)
           \/ Shifts(K, claim, -claim, 0, 0, 0)
           \/ "payoff" \in K /\ "payoff_moved" \in befell'
<1>1. Typed /\ Listed
  BY DEF IInv, Kept
<1>2. task[w] \in Tasks /\ rto.deposit \in Nat
  BY <1>1 DEF Typed, Agreements
<1>3. CASE BookDeposit(w)
  <2>1. /\ Goes(w, "book_deposit", "credit_deposit") /\ SameRto /\ SameIntents
        /\ Booked(<<"initial", 0>>) => SameBooks
        /\ ~Booked(<<"initial", 0>>) => Enters(Line(<<"initial", 0>>, rto.deposit, rto.deposit))
    BY <1>1, <1>3, BookDepositEnters
  <2>2. Held' = Held - ClaimedOf(task[w], rto.deposit)
    BY <1>1, <2>1, HeldLeaves DEF Goes, Booking, SameRto
  <2>3. ClaimedOf(task[w], rto.deposit) = rto.deposit
    BY <1>2, <2>1, ClaimedCases DEF Goes
  <2>4. Held' = Held + (-rto.deposit)
    BY <1>2, <2>2, <2>3, SumsType
  <2>5. /\ SameBooks => Shifts(K, 0, -rto.deposit, 0, 0, 0)
        /\ \A line \in Lines : Enters(line) =>
              Shifts(K, IF line.key[1] \in K THEN line.amount ELSE 0, -rto.deposit, 0, 0, 0)
    <3>1. -rto.deposit \in Int /\ rto'.pending = rto.pending
      BY <1>2, <2>1 DEF SameRto
    <3> QED
      BY <2>1, <2>4, <3>1, EntersShift
  <2>6. ASSUME ~Booked(<<"initial", 0>>)
        PROVE  Shifts(K, IF "initial" \in K THEN rto.deposit ELSE 0, -rto.deposit, 0, 0, 0)
    <3> DEFINE line == Line(<<"initial", 0>>, rto.deposit, rto.deposit)
    <3>1. Enters(line) /\ line \in Lines
      BY <2>1, <2>6 DEF Enters
    <3>2. line.key[1] = "initial" /\ line.amount = rto.deposit
      BY DEF Line
    <3> HIDE DEF line
    <3> QED
      BY <2>5, <3>1, <3>2
  <2> QED
    BY <1>2, <1>3, <2>1, <2>5, <2>6
<1>4. CASE BookInstalment(w)
  <2> DEFINE n == task[w].n
  <2>1. /\ SameRto /\ SameIntents /\ n \in 1..Instalments
        /\ \/ /\ Goes(w, "book", "claim_instalment") /\ ~Booked(<<"instalment", n>>)
              /\ Enters(Line(<<"instalment", n>>, Price, 1))
           \/ /\ Goes(w, "book", "clear") \/ Goes(w, "book", "idle")
              /\ Booked(<<"instalment", n>>) /\ SameBooks
    BY <1>1, <1>4, BookInstalmentEnters
  <2>2. Held' = Held - ClaimedOf(task[w], rto.deposit)
    BY <1>1, <2>1, HeldLeaves DEF Goes, Booking, SameRto
  <2>3. ClaimedOf(task[w], rto.deposit) = 2
    BY <1>2, <2>1, ClaimedCases DEF Goes
  <2>4. Held' = Held + (-2)
    BY <2>2, <2>3, SumsType
  <2>5. /\ SameBooks => Shifts(K, 0, -2, 0, 0, 0)
        /\ \A line \in Lines : Enters(line) =>
              Shifts(K, IF line.key[1] \in K THEN line.amount ELSE 0, -2, 0, 0, 0)
    <3>1. -2 \in Int /\ rto'.pending = rto.pending
      BY <2>1 DEF SameRto
    <3> QED
      BY <2>1, <2>4, <3>1, EntersShift
  <2>6. CASE ~Booked(<<"instalment", n>>)
    <3> DEFINE line == Line(<<"instalment", n>>, Price, 1)
    <3>1. Enters(line) /\ line \in Lines
      BY <2>1, <2>6 DEF Enters
    <3>2. line.key[1] = "instalment" /\ line.amount = 2
      BY DEF Line, Price
    <3> HIDE DEF line
    <3>3. Shifts(K, IF "instalment" \in K THEN 2 ELSE 0, -2, 0, 0, 0)
      BY <2>5, <3>1, <3>2
    <3> QED
      BY <1>4, <3>3
  <2>7. CASE Booked(<<"instalment", n>>)
    <3>1. n \in BookedN
      BY <2>1, <2>7 DEF BookedN
    <3> QED
      BY <1>4, <2>1, <2>5, <2>7, <3>1
  <2> QED
    BY <2>6, <2>7
<1>5. CASE BookPayoff(w)
  <2> DEFINE a == task[w].amount
             p == Payoff(task[w].doc)
  <2>1. /\ Goes(w, "book_payoff", "credit_payoff") /\ SameRto /\ SameIntents
        /\ a \in Nat /\ p \in Nat
        /\ p = a \/ "payoff_moved" \in befell'
        /\ Booked(<<"payoff", 0>>) => SameBooks
        /\ ~Booked(<<"payoff", 0>>) => Enters(Line(<<"payoff", 0>>, p, p))
    BY <1>1, <1>5, BookPayoffEnters
  <2> HIDE DEF p
  <2>2. Held' = Held - ClaimedOf(task[w], rto.deposit)
    BY <1>1, <2>1, HeldLeaves DEF Goes, Booking, SameRto
  <2>3. ClaimedOf(task[w], rto.deposit) = a
    BY <1>2, <2>1, ClaimedCases DEF Goes
  <2>4. Held' = Held + (-a)
    BY <2>1, <2>2, <2>3, SumsType
  <2>5. /\ SameBooks => Shifts(K, 0, -a, 0, 0, 0)
        /\ \A line \in Lines : Enters(line) =>
              Shifts(K, IF line.key[1] \in K THEN line.amount ELSE 0, -a, 0, 0, 0)
    <3>1. -a \in Int /\ rto'.pending = rto.pending
      BY <2>1 DEF SameRto
    <3> QED
      BY <2>1, <2>4, <3>1, EntersShift
  <2>6. ASSUME ~Booked(<<"payoff", 0>>)
        PROVE  Shifts(K, IF "payoff" \in K THEN p ELSE 0, -a, 0, 0, 0)
    <3> DEFINE line == Line(<<"payoff", 0>>, p, p)
    <3>1. Enters(line) /\ line \in Lines
      BY <2>1, <2>6 DEF Enters
    <3>2. line.key[1] = "payoff" /\ line.amount = p
      BY DEF Line
    <3> HIDE DEF line
    <3> QED
      BY <2>5, <3>1, <3>2
  <2> QED
    BY <1>5, <2>1, <2>5, <2>6
<1> QED
  BY <1>3, <1>4, <1>5

LEMMA ReturnShift ==
  ASSUME IInv, Kept, NEW K, "refund" \notin K, NEW w \in Workers, ReturnSettle(w)
  PROVE  Shifts(K, 0, 0, 0, 0, 0)
<1>1. Typed /\ Listed
  BY DEF IInv, Kept
<1>2. /\ Goes(w, "settle_return", "idle") /\ SameIntents /\ Settles
      /\ SameBooks \/ Enters(Line(<<"refund", Refunds>>, -task[w].refund, 0))
  BY <1>1, ReturnSettleEnters
<1>3. Held' = Held + 0
  BY <1>1, <1>2, HeldLeaves, SumsType DEF Goes, Booking, Settles
<1>4. /\ SameBooks => Shifts(K, 0, 0, 0, 0, 0)
      /\ \A line \in Lines : Enters(line) =>
            Shifts(K, IF line.key[1] \in K THEN line.amount ELSE 0, 0, 0, 0, 0)
  <2>1. 0 \in Int /\ rto'.pending = rto.pending /\ SameIntents
    BY <1>2 DEF Settles
  <2> QED
    BY <1>3, <2>1, EntersShift
<1> DEFINE line == Line(<<"refund", Refunds>>, -task[w].refund, 0)
<1>5. line.key[1] = "refund"
  BY DEF Line
<1>6. Enters(line) => line \in Lines
  BY DEF Enters
<1>7. SameBooks \/ Enters(line)
  BY <1>2
<1> HIDE DEF line
<1>8. ASSUME Enters(line) PROVE Shifts(K, 0, 0, 0, 0, 0)
  <2>1. Shifts(K, IF line.key[1] \in K THEN line.amount ELSE 0, 0, 0, 0, 0)
    BY <1>4, <1>6, <1>8
  <2> QED
    BY <1>5, <2>1
<1> QED
  BY <1>4, <1>7, <1>8

LEMMA ConfirmShift ==
  ASSUME IInv, Kept, NEW K, NEW i \in DOMAIN rtoIntents, Confirm(i)
  PROVE  LET a == rtoIntents[i].amount IN
           /\ a \in Nat
           /\ Shifts(K, 0, 0, IF rto.pending = i THEN a ELSE 0, a,
                     IF rtoIntents[i].kind = "partial" THEN 0 ELSE a)
<1> DEFINE a == rtoIntents[i].amount
<1>1. Typed /\ Awaited
  BY DEF IInv
<1>2. /\ Watches /\ SameRto /\ SameBooks /\ rtoIntents[i].status = "open"
      /\ DOMAIN rtoIntents' = DOMAIN rtoIntents
      /\ \A j \in DOMAIN rtoIntents :
           /\ rtoIntents'[j].amount = rtoIntents[j].amount
           /\ rtoIntents'[j].status = IF j = i THEN "succeeded" ELSE rtoIntents[j].status
  BY <1>1, ConfirmSays
<1>3. /\ Collected' = Collected + a
      /\ Charged' = Charged + (IF rtoIntents[i].kind = "partial" THEN 0 ELSE a)
  <2>1. /\ rtoIntents[i].status = "open"
        /\ rtoIntents' = [rtoIntents EXCEPT ![i] = [@ EXCEPT !.status = "succeeded"]]
    BY <1>1, ConfirmEffect
  <2> QED
    BY <1>1, <2>1, CollectedConfirmed
<1>4. a \in Nat /\ i # 0
  <2>1. rtoIntents[i] \in Intents
    BY <1>1 DEF Typed
  <2> QED
    BY <1>1, <2>1 DEF Intents, Typed
<1>5. AwaitedSum' = AwaitedSum + (IF rto.pending = i THEN a ELSE 0)
  <2>1. CASE rto.pending = 0
    BY <1>2, <1>4, <2>1 DEF AwaitedSum, SameRto
  <2>2. CASE rto.pending = i
    BY <1>2, <1>4, <2>2 DEF AwaitedSum, SameRto
  <2>3. CASE rto.pending # i /\ rto.pending # 0
    <3>1. rto.pending \in DOMAIN rtoIntents
      BY <1>1, <2>3 DEF Awaited
    <3>2. /\ rtoIntents'[rto.pending].amount = rtoIntents[rto.pending].amount
          /\ rtoIntents'[rto.pending].status = rtoIntents[rto.pending].status
      BY <1>2, <2>3, <3>1
    <3>3. AwaitedSum' = AwaitedSum
      BY <1>2, <3>2 DEF AwaitedSum, SameRto
    <3> QED
      BY <2>3, <3>3, SumsType
  <2> QED
    BY <2>1, <2>2, <2>3
<1>6. Held' = Held
  BY <1>2, HeldSame DEF Watches, SameRto
<1>7. Total(Entries(K))' = Total(Entries(K))
  BY <1>2, TotalSame
<1> QED
  BY <1>3, <1>4, <1>5, <1>6, <1>7, SumsType DEF Shifts

\* What no handler takes part in, and no payment is confirmed by.
LEMMA WatchShift ==
  ASSUME IInv, Kept, NEW K, K \subseteq Received,
         \/ Escalate \/ Offering
         \/ \E w \in Workers : PartialPayment(w) \/ Reinstate(w)
  PROVE  \/ Shifts(K, 0, 0, 0, 0, 0)
         \/ \E entered \in {0, 1} :
              /\ Shifts(K, entered, 0, 0, 0, 1) /\ "partial" \in befell'
              /\ entered = IF "partial" \in K THEN 1 ELSE 0
<1>1. Typed /\ Listed /\ Awaited
  BY DEF IInv, Kept
<1>2. ASSUME task' = task, rto'.deposit = rto.deposit PROVE Held' = Held + 0
  BY <1>2, HeldSame, SumsType
<1>3. ASSUME task' = task, Settles, SameIntents
      PROVE  /\ SameBooks => Shifts(K, 0, 0, 0, 0, 0)
             /\ \A line \in Lines : Enters(line) =>
                  Shifts(K, IF line.key[1] \in K THEN line.amount ELSE 0, 0, 0, 0, 0)
  <2>1. 0 \in Int /\ rto'.pending = rto.pending /\ Held' = Held + 0
    BY <1>2, <1>3 DEF Settles
  <2> QED
    BY <1>3, <2>1, EntersShift
<1>4. CASE Escalate
  <2>1. /\ task' = task /\ SameIntents /\ Settles
        /\ SameBooks \/ \E n \in 1..Instalments : Enters(Line(<<"late_fee", n>>, 1, 0))
    BY <1>1, <1>4, EscalateEnters DEF Watches
  <2>2. ASSUME NEW n \in 1..Instalments, Enters(Line(<<"late_fee", n>>, 1, 0))
        PROVE  Shifts(K, 0, 0, 0, 0, 0)
    <3> DEFINE line == Line(<<"late_fee", n>>, 1, 0)
    <3>1. line.key[1] = "late_fee"
      BY DEF Line
    <3>2. line \in Lines /\ Enters(line)
      BY <2>2 DEF Enters
    <3> HIDE DEF line
    <3>3. Shifts(K, IF line.key[1] \in K THEN line.amount ELSE 0, 0, 0, 0, 0)
      BY <1>3, <2>1, <3>2
    <3>4. "late_fee" \notin K
      BY DEF Received
    <3> QED
      BY <3>1, <3>3, <3>4
  <2> QED
    BY <1>3, <2>1, <2>2
<1>5. CASE Offering
  BY <1>3, <1>5, OfferActs
<1>6. ASSUME NEW w \in Workers, Reinstate(w) PROVE Shifts(K, 0, 0, 0, 0, 0)
  BY <1>1, <1>3, <1>6, ReinstateSays DEF Watches
<1>7. ASSUME NEW w \in Workers, PartialPayment(w)
      PROVE  \E entered \in {0, 1} :
              /\ Shifts(K, entered, 0, 0, 0, 1) /\ "partial" \in befell'
              /\ entered = IF "partial" \in K THEN 1 ELSE 0
  <2> DEFINE line == Line(<<"partial", 0>>, 1, 0)
             entered == IF "partial" \in K THEN 1 ELSE 0
  <2>1. ~Booked(<<"partial", 0>>)
    BY <1>1, <1>7, PartialPaymentEnters DEF Kept, Parted
  <2>2. /\ task' = task /\ Waits(rto) /\ Money(rto) /\ "partial" \in befell'
        /\ Adds("partial", 0, 1, "open") /\ Enters(line)
    BY <1>1, <1>7, <2>1, PartialPaymentEnters DEF Adds, Watches
  <2>3. Collected' = Collected + 0 /\ Charged' = Charged + 1
    BY <1>1, <2>2, AddedSums
  <2>4. AwaitedSum' = AwaitedSum
    BY <1>1, <2>2, AwaitedSumAdds DEF Waits
  <2>5. Held' = Held + 0
    BY <1>2, <2>2 DEF Money
  <2>6. line.key[1] = "partial" /\ line.amount = 1
    BY DEF Line
  <2> HIDE DEF line
  <2>7. Total(Entries(K))' = Total(Entries(K)) + entered
    <3>1. Total(Entries(K))' = Total(Entries(K)) + (IF line.key[1] \in K THEN line.amount ELSE 0)
      BY <1>1, <2>2, TotalEnters
    <3> QED
      BY <2>6, <3>1
  <2>8. entered \in {0, 1}
    OBVIOUS
  <2> HIDE DEF entered
  <2>9. Shifts(K, entered, 0, 0, 0, 1)
    BY <2>3, <2>4, <2>5, <2>7, <2>8, SumsType DEF Shifts
  <2> QED
    BY <2>2, <2>8, <2>9 DEF entered
<1> QED
  BY <1>4, <1>5, <1>6, <1>7

-----------------------------------------------------------------------------
(***************************************************************************)
(* What the books say was received was collected.                          *)
(***************************************************************************)

Covers(K) == Balance(K) <= Collected

Covered ==
  /\ Covers({"initial", "instalment"})
  /\ Spared({"payoff_moved"}) => Covers({"initial", "instalment", "payoff"})

\* No step moves more into the books and on to them than Stripe collects.
LEMMA CoversActs ==
  ASSUME IInv, IInv', Kept, NEW K \in SUBSET {"initial", "instalment", "payoff"}, Covers(K),
         NEW w \in Workers, Acts(w), "payoff" \in K => "payoff_moved" \notin befell'
  PROVE  Covers(K)'
<1>1. /\ Total(Entries(K)) \in Int /\ Held \in Nat /\ AwaitedSum \in Nat
      /\ Collected \in Nat /\ Charged \in Nat
  BY SumsType
<1>2. Total(Entries(K)) + Held + AwaitedSum <= Collected
  BY DEF Covers, Balance
<1>3. ASSUME NEW e \in Int, NEW h \in Int, NEW a \in Int, NEW t \in Int, NEW x \in Int,
             Shifts(K, e, h, a, t, x), e + h + a <= t
      PROVE  Covers(K)'
  <2>1. Balance(K)' = Total(Entries(K))' + Held' + AwaitedSum'
    BY DEF Balance
  <2> QED
    BY <1>1, <1>2, <1>3, <2>1 DEF Shifts, Covers
<1>4. CASE Rests(w)
  <2>1. PICK claim \in Nat : Shifts(K, 0, -claim, 0, 0, 0)
    BY <1>4, RestsShift
  <2> QED
    BY <1>3, <2>1
<1>5. ASSUME NEW d \in Deposits, AcceptCreate(w, d) PROVE Covers(K)'
  BY <1>3, <1>5, CreateShift
<1>6. CASE AcceptCharge(w) \/ SweepChallenged(w) \/ OpenIntent(w)
  <2>1. Shifts(K, 0, 0, -AwaitedSum, 0, 0)
    BY <1>6, OpensShift
  <2> QED
    BY <1>1, <1>3, <2>1
<1>7. CASE SweepCharge(w)
  BY <1>3, <1>7, ChargeShift
<1>8. CASE SweepMissed(w)
  BY <1>3, <1>8, MissedShift
<1>9. ASSUME NEW i \in DOMAIN rtoIntents, SettleClaim(w, i) PROVE Covers(K)'
  <2>1. PICK claim \in Nat : Shifts(K, 0, claim, -AwaitedSum, 0, 0) /\ claim <= AwaitedSum
    BY <1>9, ClaimShift
  <2>2. claim \in Int /\ -AwaitedSum \in Int /\ 0 + claim + -AwaitedSum <= 0
    BY <1>1, <2>1
  <2> QED
    BY <1>3, <2>1, <2>2
<1>10. CASE BookDeposit(w) \/ BookInstalment(w) \/ BookPayoff(w)
  <2>1. PICK claim \in Nat : \/ Shifts(K, 0, -claim, 0, 0, 0)
                             \/ Shifts(K, claim, -claim, 0, 0, 0)
    BY <1>10, BookShift
  <2> QED
    BY <1>3, <2>1
<1>11. CASE ReturnSettle(w)
  BY <1>3, <1>11, ReturnShift
<1> QED
  BY <1>4, <1>5, <1>6, <1>7, <1>8, <1>9, <1>10, <1>11, ActsCases

LEMMA CoversWatch ==
  ASSUME IInv, Kept, NEW K \in SUBSET {"initial", "instalment", "payoff"}, Covers(K),
         \/ Escalate \/ Offering
         \/ \E w \in Workers : PartialPayment(w) \/ Reinstate(w)
         \/ \E i \in DOMAIN rtoIntents : Confirm(i)
  PROVE  Covers(K)'
<1>1. /\ Total(Entries(K)) \in Int /\ Held \in Nat /\ AwaitedSum \in Nat
      /\ Collected \in Nat /\ Charged \in Nat
  BY SumsType
<1>2. Total(Entries(K)) + Held + AwaitedSum <= Collected
  BY DEF Covers, Balance
<1>3. ASSUME NEW a \in Int, NEW t \in Int, NEW x \in Int, Shifts(K, 0, 0, a, t, x), a <= t
      PROVE  Covers(K)'
  <2>1. Balance(K)' = Total(Entries(K))' + Held' + AwaitedSum'
    BY DEF Balance
  <2> QED
    BY <1>1, <1>2, <1>3, <2>1 DEF Shifts, Covers
<1>4. ASSUME NEW i \in DOMAIN rtoIntents, Confirm(i) PROVE Covers(K)'
  <2> DEFINE a == rtoIntents[i].amount
  <2>1. /\ a \in Nat
        /\ Shifts(K, 0, 0, IF rto.pending = i THEN a ELSE 0, a,
                  IF rtoIntents[i].kind = "partial" THEN 0 ELSE a)
    BY <1>4, ConfirmShift
  <2> HIDE DEF a
  <2> QED
    BY <1>3, <2>1
<1>5. CASE Escalate \/ Offering \/ \E w \in Workers : PartialPayment(w) \/ Reinstate(w)
  <2>1. K \subseteq Received /\ "partial" \notin K
    BY DEF Received
  <2>2. Shifts(K, 0, 0, 0, 0, 0) \/ Shifts(K, 0, 0, 0, 0, 1)
    BY <1>5, <2>1, WatchShift
  <2> QED
    BY <1>3, <2>2
<1> QED
  BY <1>4, <1>5

LEMMA CoversStill ==
  ASSUME UNCHANGED rtoVars, NEW K, Covers(K)
  PROVE  Covers(K)'
BY DEF rtoVars, Covers, Balance, Total, Entries, Held, Claims, AwaitedSum, Collected

LEMMA NextKeepsCovered == IInv /\ Kept /\ Covered /\ [RtoNext]_rtoVars => Covered'
<1> DEFINE K2 == {"initial", "instalment"}
           K3 == {"initial", "instalment", "payoff"}
<1> SUFFICES ASSUME IInv, Kept, Covered, [RtoNext]_rtoVars
             PROVE  Covered'
  OBVIOUS
<1>1. IInv'
  BY NextKeepsInvariant
<1>2. /\ K2 \in SUBSET {"initial", "instalment", "payoff"}
      /\ K3 \in SUBSET {"initial", "instalment", "payoff"}
      /\ "payoff" \notin K2
  OBVIOUS
<1>3. Covers(K2) /\ (Spared({"payoff_moved"}) => Covers(K3))
  BY DEF Covered
<1>4. Spared({"payoff_moved"})' => "payoff_moved" \notin befell'
  BY DEF Spared
<1> HIDE DEF K2, K3
<1>5. befell \subseteq befell' /\ Covers(K2)' /\ (Spared({"payoff_moved"})' => Covers(K3)')
  <2>1. ASSUME NEW w \in Workers, Acts(w)
        PROVE  befell \subseteq befell' /\ Covers(K2)' /\ (Spared({"payoff_moved"})' => Covers(K3)')
    <3>1. befell \subseteq befell'
      BY <2>1, ActsMoves DEF Moves
    <3>2. Spared({"payoff_moved"})' => Spared({"payoff_moved"})
      BY <3>1, SparedBefore
    <3> QED
      BY <1>1, <1>2, <1>3, <1>4, <2>1, <3>1, <3>2, CoversActs
  <2>2. ASSUME \/ Escalate \/ Offering
               \/ \E w \in Workers : PartialPayment(w) \/ Reinstate(w)
               \/ \E i \in DOMAIN rtoIntents : Confirm(i)
        PROVE  befell \subseteq befell' /\ Covers(K2)' /\ (Spared({"payoff_moved"})' => Covers(K3)')
    <3>1. Typed
      BY DEF IInv
    <3>2. befell \subseteq befell'
      BY <2>2, <3>1, EscalateEffect, OfferActs, PartialPaymentEffect, ReinstateEffect, ConfirmEffect
         DEF Watches
    <3>3. Spared({"payoff_moved"})' => Spared({"payoff_moved"})
      BY <3>2, SparedBefore
    <3> QED
      BY <1>2, <1>3, <2>2, <3>2, <3>3, CoversWatch
  <2>3. CASE UNCHANGED rtoVars
    BY <1>3, <2>3, CoversStill DEF rtoVars, Spared
  <2> QED
    BY <2>1, <2>2, <2>3, NextCases DEF Acts, Offering
<1> QED
  BY <1>5 DEF Covered, K2, K3

LEMMA InitCovered == HandlersInit /\ RtoInit => Covered
<1> SUFFICES ASSUME HandlersInit, RtoInit, NEW K
             PROVE  Covers(K)
  BY DEF Covered
<1>1. IInv /\ Kept
  BY InitInvariant, InitKept
<1>2. rto.pending = 0 /\ rtoLedger = {} /\ \A w \in Workers : task[w].step = "idle"
  BY DEF HandlersInit, RtoInit, NoAgreement, Resting
<1>3. Entries(K) = {}
  BY <1>2 DEF Entries
<1>4. Total(Entries(K)) = 0
  BY <1>3, SumEmpty DEF Total, SumFunction
<1>5. AwaitedSum = 0
  BY <1>2 DEF AwaitedSum
<1>6. Held = 0
  <2>1. \A w \in Workers : Claims[w] = 0
    <3> TAKE w \in Workers
    <3>1. task[w] \in Tasks /\ rto.deposit \in Nat
      BY <1>1 DEF IInv, Typed, Agreements
    <3> QED
      BY <1>2, <3>1, ClaimedCases DEF Claims, Booking
  <2> QED
    BY <1>1, <2>1, HeldType, SumNothing DEF IInv
<1>7. Collected \in Nat
  BY <1>1, SumsType
<1> QED
  BY <1>4, <1>5, <1>6, <1>7 DEF Covers, Balance

LEMMA CoveredInvariant == RtoSpec => []Covered
BY InitCovered, NextKeepsCovered, Invariant, KeptInvariant, PTL DEF RtoSpec

LEMMA LedgerBacked == IInv /\ Kept /\ Covered => RtoLedgerBacked
<1> SUFFICES ASSUME IInv, Kept, Covered, Spared({"partial", "payoff_moved"})
             PROVE  Total(Entries(Received)) <= Collected
  BY DEF RtoLedgerBacked
<1>1. Spared({"partial"}) /\ Spared({"payoff_moved"})
  BY DEF Spared
<1>2. ~Booked(<<"partial", 0>>)
  BY <1>1 DEF Kept, Parted
<1>3. Entries(Received) = Entries({"initial", "instalment", "payoff"})
  <2>1. \A e \in rtoLedger : e.key[1] # "partial"
    <3> SUFFICES ASSUME NEW e \in rtoLedger, e.key[1] = "partial" PROVE FALSE
      OBVIOUS
    <3>1. e.key \in Keys
      BY DEF Kept, Listed, Lines
    <3>2. e.key = <<"partial", 0>>
      BY <3>1 DEF Keys
    <3> QED
      BY <1>2, <3>2 DEF Booked
  <2> QED
    BY <2>1 DEF Entries, Received
<1>4. Covers({"initial", "instalment", "payoff"})
  BY <1>1 DEF Covered
<1> QED
  BY <1>3, <1>4, SumsType DEF Covers, Balance

-----------------------------------------------------------------------------
(***************************************************************************)
(* Splits are stated for what was booked.                                  *)
(***************************************************************************)

Splits == {"initial", "instalment", "payoff"}

\* The payments booked, which are to be split.
SplitKeys == {e.key : e \in Entries(Splits)}

\* The payment a handler with task t is about to state.
About(t) ==
  CASE t.step = "credit_deposit" -> {<<"initial", 0>>}
    [] t.step = "claim_instalment" -> {<<"instalment", t.n>>}
    [] t.step = "credit_payoff" -> {<<"payoff", 0>>}
    [] OTHER -> {}

Stating == {"credit_deposit", "claim_instalment", "credit_payoff"}

Stated ==
  /\ rtoStatements \subseteq SplitKeys
  /\ \A w \in Workers : About(task[w]) \subseteq SplitKeys
  /\ Spared({"crash", "thrown"}) =>
       \A key \in SplitKeys : key \in rtoStatements \/ \E w \in Workers : key \in About(task[w])

LEMMA AboutCases ==
  ASSUME NEW t
  PROVE  /\ t.step = "credit_deposit" => About(t) = {<<"initial", 0>>}
         /\ t.step = "claim_instalment" => About(t) = {<<"instalment", t.n>>}
         /\ t.step = "credit_payoff" => About(t) = {<<"payoff", 0>>}
         /\ t.step \notin Stating => About(t) = {}
BY DEF About, Stating

LEMMA SplitKeysSame ==
  ASSUME SameBooks
  PROVE  SplitKeys' = SplitKeys
BY DEF SameBooks, SplitKeys, Entries

LEMMA SplitKeysEnter ==
  ASSUME NEW line, Enters(line)
  PROVE  /\ line.key[1] \in Splits => SplitKeys' = SplitKeys \cup {line.key}
         /\ line.key[1] \notin Splits => SplitKeys' = SplitKeys
<1>1. CASE line.key[1] \in Splits
  <2>1. Entries(Splits)' = Entries(Splits) \cup {line}
    BY <1>1 DEF Enters, Entries
  <2> QED
    BY <1>1, <2>1 DEF SplitKeys
<1>2. CASE line.key[1] \notin Splits
  <2>1. Entries(Splits)' = Entries(Splits)
    BY <1>2 DEF Enters, Entries
  <2> QED
    BY <1>2, <2>1 DEF SplitKeys
<1> QED
  BY <1>1, <1>2

LEMMA SplitKeysBooked ==
  ASSUME NEW key, key[1] \in Splits, Booked(key)
  PROVE  key \in SplitKeys
BY DEF Booked, SplitKeys, Entries

\* Handler w books, states or breaks off.
LEMMA StatedGoes ==
  ASSUME Stated, NEW w \in Workers, Moves(w), SplitKeys \subseteq SplitKeys',
         rtoStatements \subseteq rtoStatements', rtoStatements' \subseteq SplitKeys',
         About(task'[w]) \subseteq SplitKeys',
         Spared({"crash", "thrown"})' =>
           /\ SplitKeys' \subseteq SplitKeys \cup About(task'[w])
           /\ About(task[w]) \subseteq rtoStatements' \cup About(task'[w])
  PROVE  Stated'
<1>1. \A v \in Workers : About(task'[v]) \subseteq SplitKeys'
  BY DEF Stated, Moves
<1>2. ASSUME Spared({"crash", "thrown"})', NEW key \in SplitKeys'
      PROVE  key \in rtoStatements' \/ \E v \in Workers : key \in About(task'[v])
  <2>1. Spared({"crash", "thrown"})
    BY <1>2, SparedBefore DEF Moves
  <2>2. CASE key \in About(task'[w])
    BY <2>2
  <2>3. CASE key \in SplitKeys
    <3>1. key \in rtoStatements \/ \E v \in Workers : key \in About(task[v])
      BY <2>1, <2>3 DEF Stated
    <3>2. ASSUME NEW v \in Workers, key \in About(task[v])
          PROVE  key \in rtoStatements' \/ \E x \in Workers : key \in About(task'[x])
      <4>1. CASE v = w
        BY <1>2, <3>2, <4>1
      <4>2. CASE v # w
        BY <3>2, <4>2 DEF Moves
      <4> QED
        BY <4>1, <4>2
    <3> QED
      BY <3>1, <3>2
  <2> QED
    BY <1>2, <2>2, <2>3
<1>3. \A v \in Workers : About(task[v])' = About(task'[v])
  BY DEF About
<1>4. rtoStatements' \subseteq SplitKeys'
  OBVIOUS
<1> QED
  BY <1>1, <1>2, <1>3, <1>4 DEF Stated

LEMMA RestsSteps ==
  ASSUME IInv, NEW w \in Workers, Rests(w)
  PROVE  /\ task'[w].step \notin Stating
         /\ \/ task[w].step \notin Stating
            \/ CreditDeposit(w) \/ ClaimInstalment(w) \/ CreditPayoff(w)
            \/ "crash" \in befell' \/ "thrown" \in befell'
<1>1. Typed
  BY DEF IInv
<1> USE DEF Goes, Stating
<1>2. CASE \/ AcceptBegin(w) \/ AcceptClaim(w) \/ AcceptRefused(w) \/ SweepList(w)
           \/ PayInstalment(w) \/ PayOff(w) \/ ReturnBegin(w)
           \/ (\E to \in Remedies : RemedyRead(w, to))
  BY <1>1, <1>2, AcceptBeginEffect, AcceptClaimEffect, AcceptRefusedEffect, SweepListEffect,
     PayInstalmentEffect, PayOffEffect, ReturnBeginEffect, RemedyReadEffect
<1>3. CASE SweepLoad(w) \/ AttachCard(w) \/ ApplyInstalment(w) \/ Complete(w) \/ ClearAsk(w) \/ RemedyApply(w)
  BY <1>1, <1>3, SweepLoadEffect, AttachCardEffect, ApplyInstalmentEffect, CompleteEffect,
     ClearAskEffect, RemedyApplyEffect
<1>4. CASE CreditDeposit(w) \/ ClaimInstalment(w) \/ CreditPayoff(w)
  BY <1>1, <1>4, CreditDepositEffect, ClaimInstalmentEffect, CreditPayoffEffect
<1>5. CASE SweepThrows(w)
  <2>1. "thrown" \in befell'
    BY <1>5 DEF SweepThrows, FinishAfter, Befalls
  <2> QED
    BY <1>1, <1>5, <2>1, SweepThrowsEffect
<1>6. CASE RtoCrash(w)
  BY <1>1, <1>6, CrashEffect
<1> QED
  BY <1>2, <1>3, <1>4, <1>5, <1>6 DEF Rests

LEMMA StatedActs ==
  ASSUME IInv, Kept, Stated, NEW w \in Workers, Acts(w)
  PROVE  Stated'
<1>1. Typed /\ Awaited /\ Listed
  BY DEF IInv, Kept
<1>2. Moves(w) /\ rtoStatements \subseteq SplitKeys /\ About(task[w]) \subseteq SplitKeys
  BY ActsMoves DEF Stated
<1>3. ASSUME SameBooks, rtoStatements' = rtoStatements, task[w].step \notin Stating,
             task'[w].step \notin Stating
      PROVE  Stated'
  BY <1>2, <1>3, SplitKeysSame, AboutCases, StatedGoes
<1>4. CASE Rests(w)
  <2>1. SameBooks
    BY <1>4, RestActs DEF Bookless
  <2>2. SplitKeys' = SplitKeys
    BY <2>1, SplitKeysSame
  <2>3. About(task'[w]) = {}
    BY <1>4, RestsSteps, AboutCases
  <2>4. CASE CreditDeposit(w) \/ ClaimInstalment(w) \/ CreditPayoff(w)
    <3>1. rtoStatements' = rtoStatements \cup About(task[w])
      BY <2>4, AboutCases DEF CreditDeposit, ClaimInstalment, CreditPayoff, At
    <3> QED
      BY <1>2, <2>2, <2>3, <3>1, StatedGoes
  <2>5. CASE ~(CreditDeposit(w) \/ ClaimInstalment(w) \/ CreditPayoff(w))
    <3>1. rtoStatements' = rtoStatements
      BY <1>4, <2>5, RestsStates
    <3>2. Spared({"crash", "thrown"})' => About(task[w]) = {}
      BY <1>4, <2>5, RestsSteps, AboutCases DEF Spared
    <3> QED
      BY <1>2, <2>2, <2>3, <3>1, <3>2, StatedGoes
  <2> QED
    BY <2>4, <2>5
<1>5. CASE (\E d \in Deposits : AcceptCreate(w, d)) \/ AcceptCharge(w) \/ OpenIntent(w)
  <2>1. /\ SameBooks /\ rtoStatements' = rtoStatements
        /\ \/ Goes(w, "create_agreement", "open_charge")
           \/ Goes(w, "open_charge", "idle") \/ Goes(w, "open_intent", "idle")
    BY <1>1, <1>5, AcceptCreateAlone, AcceptChargeAdds, OpenIntentAdds
  <2> QED
    BY <1>3, <2>1 DEF Goes, Stating
<1>6. CASE SweepCharge(w) \/ SweepChallenged(w) \/ SweepMissed(w)
  <2>1. /\ SameBooks /\ rtoStatements' = rtoStatements
        /\ Goes(w, "charge", "idle") \/ Goes(w, "charge", "book")
    BY <1>1, <1>6, SweepAdds
  <2> QED
    BY <1>3, <2>1 DEF Goes, Stating
<1>7. ASSUME NEW i \in DOMAIN rtoIntents, SettleClaim(w, i) PROVE Stated'
  <2>1. SameBooks /\ rtoStatements' = rtoStatements /\ Idle(w)
    BY <1>1, <1>7, SettleClaimTakes
  <2>2. task'[w].step \notin Stating
    BY <1>1, <1>7, SettleClaimEffect DEF Goes, Stating
  <2> QED
    BY <1>3, <2>1, <2>2 DEF Idle, Stating
<1>8. ASSUME NEW key, key[1] \in Splits, About(task'[w]) = {key}, About(task[w]) = {},
              rtoStatements' = rtoStatements,
              Booked(key) => SameBooks,
              ~Booked(key) => \E line : Enters(line) /\ line.key = key
       PROVE  Stated'
  <2>1. CASE Booked(key)
    <3>1. SplitKeys' = SplitKeys /\ key \in SplitKeys
      BY <1>8, <2>1, SplitKeysSame, SplitKeysBooked
    <3> QED
      BY <1>2, <1>8, <3>1, StatedGoes
  <2>2. CASE ~Booked(key)
    <3>1. SplitKeys' = SplitKeys \cup {key}
      BY <1>8, <2>2, SplitKeysEnter
    <3> QED
      BY <1>2, <1>8, <3>1, StatedGoes
  <2> QED
    BY <2>1, <2>2
<1>9. CASE BookDeposit(w)
  <2>1. /\ Goes(w, "book_deposit", "credit_deposit") /\ rtoStatements' = rtoStatements
        /\ Booked(<<"initial", 0>>) => SameBooks
        /\ ~Booked(<<"initial", 0>>) => Enters(Line(<<"initial", 0>>, rto.deposit, rto.deposit))
    BY <1>1, <1>9, BookDepositEnters
  <2>2. About(task'[w]) = {<<"initial", 0>>} /\ About(task[w]) = {}
    BY <2>1, AboutCases DEF Goes, Stating
  <2>3. Line(<<"initial", 0>>, rto.deposit, rto.deposit).key = <<"initial", 0>>
    BY DEF Line
  <2> QED
    BY <1>8, <2>1, <2>2, <2>3 DEF Splits
<1>10. CASE BookPayoff(w)
  <2> DEFINE p == Payoff(task[w].doc)
  <2>1. /\ Goes(w, "book_payoff", "credit_payoff") /\ rtoStatements' = rtoStatements
        /\ Booked(<<"payoff", 0>>) => SameBooks
        /\ ~Booked(<<"payoff", 0>>) => Enters(Line(<<"payoff", 0>>, p, p))
    BY <1>1, <1>10, BookPayoffEnters
  <2> HIDE DEF p
  <2>2. About(task'[w]) = {<<"payoff", 0>>} /\ About(task[w]) = {}
    BY <2>1, AboutCases DEF Goes, Stating
  <2>3. Line(<<"payoff", 0>>, p, p).key = <<"payoff", 0>>
    BY DEF Line
  <2> QED
    BY <1>8, <2>1, <2>2, <2>3 DEF Splits
<1>11. CASE BookInstalment(w)
  <2> DEFINE key == <<"instalment", task[w].n>>
  <2>1. /\ rtoStatements' = rtoStatements
        /\ \/ /\ Goes(w, "book", "claim_instalment") /\ ~Booked(key)
              /\ task'[w].n = task[w].n /\ Enters(Line(key, Price, 1))
           \/ /\ Goes(w, "book", "clear") \/ Goes(w, "book", "idle")
              /\ SameBooks
    BY <1>1, <1>11, BookInstalmentEnters
  <2>2. CASE Goes(w, "book", "clear") \/ Goes(w, "book", "idle")
    <3>1. SameBooks
      BY <2>1, <2>2 DEF Goes
    <3> QED
      BY <1>3, <2>1, <2>2, <3>1 DEF Goes, Stating
  <2>3. CASE /\ Goes(w, "book", "claim_instalment") /\ ~Booked(key)
             /\ task'[w].n = task[w].n /\ Enters(Line(key, Price, 1))
    <3>1. About(task'[w]) = {key} /\ About(task[w]) = {}
      BY <2>3, AboutCases DEF Goes, Stating
    <3>2. Line(key, Price, 1).key = key
      BY DEF Line
    <3>3. key[1] = "instalment"
      OBVIOUS
    <3> HIDE DEF key
    <3> QED
      BY <1>8, <2>1, <2>3, <3>1, <3>2, <3>3 DEF Splits
  <2> QED
    BY <2>1, <2>2, <2>3
<1>12. CASE ReturnSettle(w)
  <2> DEFINE line == Line(<<"refund", Refunds>>, -task[w].refund, 0)
  <2>1. /\ Goes(w, "settle_return", "idle") /\ rtoStatements' = rtoStatements
        /\ SameBooks \/ Enters(line)
    BY <1>1, <1>12, ReturnSettleEnters
  <2>2. line.key[1] \notin Splits
    BY DEF Line, Splits
  <2> HIDE DEF line
  <2>3. SplitKeys' = SplitKeys
    BY <2>1, <2>2, SplitKeysSame, SplitKeysEnter
  <2>4. About(task'[w]) = {} /\ About(task[w]) = {}
    BY <2>1, AboutCases DEF Goes, Stating
  <2> QED
    BY <1>2, <2>1, <2>3, <2>4, StatedGoes
<1> QED
  BY <1>4, <1>5, <1>6, <1>7, <1>9, <1>10, <1>11, <1>12, ActsCases

LEMMA StatedStill ==
  ASSUME Stated, task' = task, befell \subseteq befell', rtoStatements' = rtoStatements,
         SplitKeys' = SplitKeys
  PROVE  Stated'
<1>1. Spared({"crash", "thrown"})' => Spared({"crash", "thrown"})
  BY SparedBefore
<1>2. \A v \in Workers : About(task[v])' = About(task[v])
  BY DEF About
<1> QED
  BY <1>1, <1>2 DEF Stated

LEMMA NextKeepsStated == IInv /\ Kept /\ Stated /\ [RtoNext]_rtoVars => Stated'
<1> SUFFICES ASSUME IInv, Kept, Stated, [RtoNext]_rtoVars
             PROVE  Stated'
  OBVIOUS
<1>1. Typed
  BY DEF IInv
<1>2. ASSUME NEW w \in Workers, Acts(w) PROVE Stated'
  BY <1>2, StatedActs
<1>3. CASE Escalate
  <2>1. /\ Watches /\ rtoStatements' = rtoStatements
        /\ SameBooks \/ \E n \in 1..Instalments : Enters(Line(<<"late_fee", n>>, 1, 0))
    BY <1>1, <1>3, EscalateEnters
  <2>2. ASSUME NEW n \in 1..Instalments, Enters(Line(<<"late_fee", n>>, 1, 0))
        PROVE  SplitKeys' = SplitKeys
    <3>1. Line(<<"late_fee", n>>, 1, 0).key[1] \notin Splits
      BY DEF Line, Splits
    <3> QED
      BY <2>2, <3>1, SplitKeysEnter
  <2> QED
    BY <2>1, <2>2, SplitKeysSame, StatedStill DEF Watches
<1>4. ASSUME NEW w \in Workers, PartialPayment(w) PROVE Stated'
  <2>1. /\ Watches /\ rtoStatements' = rtoStatements
        /\ SameBooks \/ Enters(Line(<<"partial", 0>>, 1, 0))
    BY <1>1, <1>4, PartialPaymentEnters
  <2>2. Line(<<"partial", 0>>, 1, 0).key[1] \notin Splits
    BY DEF Line, Splits
  <2> QED
    BY <2>1, <2>2, SplitKeysSame, SplitKeysEnter, StatedStill DEF Watches
<1>5. ASSUME NEW w \in Workers, Reinstate(w) PROVE Stated'
  BY <1>1, <1>5, ReinstateSays, SplitKeysSame, StatedStill DEF Watches
<1>6. ASSUME NEW i \in DOMAIN rtoIntents, Confirm(i) PROVE Stated'
  <2>1. Watches /\ SameBooks /\ rtoStatements' = rtoStatements
    BY <1>1, <1>6, ConfirmSays
  <2> QED
    BY <2>1, SplitKeysSame, StatedStill DEF Watches
<1>7. CASE Offering
  BY <1>7, OfferActs, SplitKeysSame, StatedStill
<1>8. CASE UNCHANGED rtoVars
  BY <1>8, SplitKeysSame, StatedStill DEF rtoVars, SameBooks
<1> QED
  BY <1>2, <1>3, <1>4, <1>5, <1>6, <1>7, <1>8, NextCases DEF Acts, Offering

LEMMA InitStated == HandlersInit /\ RtoInit => Stated
BY DEF HandlersInit, RtoInit, Resting, Stated, SplitKeys, Entries, About

LEMMA StatedInvariant == RtoSpec => []Stated
BY InitStated, NextKeepsStated, Invariant, KeptInvariant, PTL DEF RtoSpec

LEMMA SplitsFollow == Stated => RtoSplitsFollowLedger
<1> SUFFICES ASSUME Stated, Spared({"crash", "thrown"}), AllIdle
             PROVE  SplitKeys = rtoStatements
  BY DEF RtoSplitsFollowLedger, SplitKeys, Splits
<1>1. \A w \in Workers : About(task[w]) = {}
  BY AboutCases DEF AllIdle, Idle, Stating
<1> QED
  BY <1>1 DEF Stated

-----------------------------------------------------------------------------
(***************************************************************************)
(* The counters of the agreement agree with its books.                     *)
(***************************************************************************)

\* Steps that are taken only once the deposit, if any, is no longer awaited.
Settling == LatestSteps \cup PayoffSteps \cup {"book_deposit", "credit_deposit"}

\* Steps between a line of the books and its credit.
Crediting == {"credit_deposit", "credit_payoff", "claim_instalment", "apply"}

\* Someone is about to ask for the payoff, or to book it.
PayoffAhead(t) == t.step = "book_payoff" \/ (t.step = "open_intent" /\ t.kind = "payoff")

\* The deposit comes first.
DepositFirst(t) ==
  /\ t.step \in Depositing \/ rto.kind = "acceptance" => rto.credited = 0 /\ rto.paid = 0
  /\ t.step \in {"open_charge", "book_deposit"} \/ rto.kind = "acceptance" =>
       ~Booked(<<"initial", 0>>)
  /\ t.step \in Settling => rto.kind # "acceptance"

\* A payoff is booked once, and then credited.
PaidOffOnce(t) ==
  /\ PayoffAhead(t) \/ rto.kind = "payoff" => ~Booked(<<"payoff", 0>>)
  /\ t.step = "credit_payoff" => Booked(<<"payoff", 0>>)
  /\ Booked(<<"payoff", 0>>) => rto.credited >= Cash \/ t.step = "credit_payoff"
  /\ ~Booked(<<"payoff", 0>>) => rto.credited <= rto.deposit + rto.paid

\* What was booked and is not counted yet.
Uncounted(t) == IF t.step \in {"claim_instalment", "apply"} THEN 1 ELSE 0

CountsAgree(t) ==
  /\ Count = rto.paid + Uncounted(t)
  /\ Equity = CASE t.step = "credit_deposit" -> rto.deposit
                [] t.step = "credit_payoff" -> Cash
                [] OTHER -> rto.credited + Uncounted(t)

Tallies(t) == DepositFirst(t) /\ PaidOffOnce(t) /\ CountsAgree(t)

Tally ==
  Spared(Interrupted) =>
    /\ \A w \in Workers : ~Idle(w) => Tallies(task[w])
    /\ AllIdle => Tallies(Resting)

LEMMA UninterruptedBefore ==
  ASSUME befell \subseteq befell', Spared(Interrupted)'
  PROVE  /\ Spared(Interrupted) /\ Spared({"overlap"}) /\ Spared({"overlap"})'
         /\ Spared({"crash", "overlap"}) /\ "crash" \notin befell' /\ "thrown" \notin befell'
BY DEF Spared, Interrupted

\* Whoever rests sees what all do who rest.
LEMMA TalliesIdle ==
  ASSUME NEW t, t.step = "idle"
  PROVE  Tallies(t) <=> Tallies(Resting)
BY DEF Tallies, DepositFirst, PaidOffOnce, CountsAgree, PayoffAhead, Uncounted, Resting,
       Depositing, Settling, LatestSteps, PayoffSteps

LEMMA TallyHere ==
  ASSUME IInv, Tally, NEW w \in Workers, Moves(w), Spared(Interrupted)'
  PROVE  Tallies(task[w])
<1>1. Spared(Interrupted) /\ Spared({"overlap"})'
  BY UninterruptedBefore DEF Moves
<1>2. \A v \in Workers \ {w} : Idle(v) /\ task'[v] = task[v]
  BY <1>1, OthersRest DEF IInv
<1>3. CASE Idle(w)
  <2>1. AllIdle
    BY <1>2, <1>3 DEF AllIdle
  <2> QED
    BY <1>1, <1>3, <2>1, TalliesIdle DEF Tally, Idle
<1>4. CASE ~Idle(w)
  BY <1>1, <1>4 DEF Tally
<1> QED
  BY <1>3, <1>4

\* It is enough to look at the handler that takes the step.
LEMMA TallyGoes ==
  ASSUME IInv, Tally, NEW w \in Workers, Moves(w),
         Spared(Interrupted)' /\ Tallies(task[w]) => Tallies(task[w])'
  PROVE  Tally'
<1> SUFFICES ASSUME Spared(Interrupted)'
             PROVE  /\ \A v \in Workers : ~Idle(v)' => Tallies(task[v])'
                    /\ AllIdle' => Tallies(Resting)'
  BY DEF Tally
<1>1. Spared(Interrupted) /\ Spared({"overlap"})'
  BY UninterruptedBefore DEF Moves
<1>2. \A v \in Workers \ {w} : Idle(v) /\ task'[v] = task[v]
  BY <1>1, OthersRest DEF IInv
<1>3. Tallies(task[w])
  BY <1>1, TallyHere
<1>4. Tallies(task[w])'
  BY <1>3
<1>5. \A v \in Workers : ~Idle(v)' => v = w
  BY <1>2 DEF Idle
<1>6. AllIdle' => Tallies(Resting)'
  <2> SUFFICES ASSUME task'[w].step = "idle"
               PROVE  Tallies(Resting)'
    BY DEF AllIdle, Idle
  <2> QED
    BY <1>4 DEF Tallies, DepositFirst, PaidOffOnce, CountsAgree, PayoffAhead, Uncounted, Resting,
       Depositing, Settling, LatestSteps, PayoffSteps
<1> QED
  BY <1>4, <1>5, <1>6

\* The books say the same of deposit, payoff, equity and instalments.
SameTally ==
  /\ Equity' = Equity /\ Count' = Count
  /\ Booked(<<"initial", 0>>)' <=> Booked(<<"initial", 0>>)
  /\ Booked(<<"payoff", 0>>)' <=> Booked(<<"payoff", 0>>)

LEMMA SameBooksTally ==
  ASSUME SameBooks
  PROVE  SameTally
BY TotalSame, BookedSame DEF SameTally

\* A line of another kind, which credits nothing, changes none of that.
LEMMA OtherLineTally ==
  ASSUME Listed, NEW line, Enters(line), line.key[1] \in {"late_fee", "partial", "refund"},
         line.credit = 0
  PROVE  SameTally
<1>1. Equity' = Equity /\ Count' = Count
  <2>1. Count \in Nat
    BY TotalType
  <2>2. /\ Equity' = Equity + line.credit /\ Equity \in Int
        /\ Count' = Count + (IF line.key[1] = "instalment" THEN 1 ELSE 0)
    BY CountEnters
  <2> QED
    BY <2>1, <2>2
<1>2. line.key # <<"initial", 0>> /\ line.key # <<"payoff", 0>>
  <2>1. <<"initial", 0>>[1] = "initial" /\ <<"payoff", 0>>[1] = "payoff"
    OBVIOUS
  <2> QED
    BY <2>1
<1> QED
  BY <1>1, <1>2, BookedEnters DEF SameTally

\* A step that changes neither counts nor books.
LEMMA TalliesOn ==
  ASSUME NEW w \in Workers, Tallies(task[w]), Money(rto), SameTally,
         \/ task[w].step \notin Crediting /\ task'[w].step \notin Crediting
         \/ /\ task[w].step \in {"claim_instalment", "apply"}
            /\ task'[w].step \in {"claim_instalment", "apply"},
         rto'.kind = "acceptance" =>
           (rto.kind = "acceptance" \/ task[w].step = "open_charge") /\ task'[w].step \notin Settling,
         task'[w].step \in {"open_charge", "book_deposit"} =>
           task[w].step \in {"open_charge", "book_deposit"} \/ rto.kind = "acceptance",
         PayoffAhead(task'[w]) \/ rto'.kind = "payoff" =>
           PayoffAhead(task[w]) \/ rto.kind = "payoff" \/ ~Booked(<<"payoff", 0>>)
  PROVE  Tallies(task[w])'
<1>1. DepositFirst(task[w]) /\ PaidOffOnce(task[w]) /\ CountsAgree(task[w])
  BY DEF Tallies
<1>2. DepositFirst(task[w])'
  BY <1>1 DEF DepositFirst, Money, SameTally, Depositing, Crediting
<1>3. PaidOffOnce(task[w])'
  <2>1. PayoffAhead(task[w])' <=> PayoffAhead(task'[w])
    BY DEF PayoffAhead
  <2>2. Cash' = Cash
    BY DEF Cash, Money
  <2>3. task'[w].step = "credit_payoff" <=> task[w].step = "credit_payoff"
    BY DEF Crediting
  <2> QED
    BY <1>1, <2>1, <2>2, <2>3 DEF PaidOffOnce, Money, SameTally
<1>4. CountsAgree(task[w])'
  <2>1. Uncounted(task[w])' = Uncounted(task[w])
    BY DEF Uncounted, Crediting
  <2> QED
    BY <1>1, <2>1 DEF CountsAgree, Money, SameTally, Crediting
<1> QED
  BY <1>2, <1>3, <1>4 DEF Tallies

\* The steps that open, claim, charge and remedy.
LEMMA QuietTallies ==
  ASSUME IInv, Kept, NEW w \in Workers, Tallies(task[w]), Spared(Interrupted)',
         \/ AcceptBegin(w) \/ AcceptClaim(w) \/ AcceptRefused(w) \/ SweepList(w)
         \/ PayInstalment(w) \/ ReturnBegin(w) \/ (\E to \in Remedies : RemedyRead(w, to))
         \/ SweepLoad(w) \/ AttachCard(w) \/ ClaimInstalment(w) \/ ClearAsk(w) \/ RemedyApply(w)
  PROVE  Tallies(task[w])'
<1> USE DEF Goes, Money, Waits, SameRto, Crediting, Settling, LatestSteps, PayoffSteps, PayoffAhead
<1>1. Typed
  BY DEF IInv
<1>2. CASE AcceptBegin(w)
  BY <1>1, <1>2, AcceptBeginEffect, SameBooksTally, TalliesOn
<1>3. CASE AcceptClaim(w)
  BY <1>1, <1>3, AcceptClaimEffect, SameBooksTally, TalliesOn
<1>4. CASE AcceptRefused(w)
  BY <1>1, <1>4, AcceptRefusedEffect, SameBooksTally, TalliesOn
<1>5. CASE SweepList(w)
  BY <1>1, <1>5, SweepListEffect, SameBooksTally, TalliesOn
<1>6. CASE PayInstalment(w)
  BY <1>1, <1>6, PayInstalmentEffect, SameBooksTally, TalliesOn
<1>7. CASE ReturnBegin(w)
  BY <1>1, <1>7, ReturnBeginEffect, SameBooksTally, TalliesOn
<1>8. ASSUME NEW to \in Remedies, RemedyRead(w, to) PROVE Tallies(task[w])'
  BY <1>1, <1>8, RemedyReadEffect, SameBooksTally, TalliesOn
<1>9. CASE SweepLoad(w)
  BY <1>1, <1>9, SweepLoadEffect, SameBooksTally, TalliesOn
<1>10. CASE AttachCard(w)
  BY <1>1, <1>10, AttachCardEffect, SameBooksTally, TalliesOn
<1>11. CASE ClaimInstalment(w)
  <2>1. rto.kind # "acceptance"
    BY <1>1, <1>11, ClaimInstalmentEffect DEF Tallies, DepositFirst
  <2> QED
    BY <1>1, <1>11, <2>1, ClaimInstalmentEffect, SameBooksTally, TalliesOn
<1>12. CASE ClearAsk(w)
  BY <1>1, <1>12, ClearAskEffect, SameBooksTally, TalliesOn
<1>13. CASE RemedyApply(w)
  BY <1>1, <1>13, RemedyApplyEffect, SameBooksTally, TalliesOn
<1> QED
  BY <1>2, <1>3, <1>4, <1>5, <1>6, <1>7, <1>8, <1>9, <1>10, <1>11, <1>12, <1>13

LEMMA OpeningTallies ==
  ASSUME IInv, Kept, NEW w \in Workers, Tallies(task[w]), Spared(Interrupted)',
         \/ AcceptCharge(w) \/ SweepCharge(w) \/ SweepChallenged(w) \/ SweepMissed(w)
         \/ OpenIntent(w) \/ (\E i \in DOMAIN rtoIntents : SettleClaim(w, i)) \/ PayOff(w)
         \/ ReturnSettle(w)
  PROVE  Tallies(task[w])'
<1> USE DEF Goes, Money, Waits, SameRto, Crediting, Settling, LatestSteps, PayoffSteps, PayoffAhead
<1>1. Typed /\ Awaited /\ Listed
  BY DEF IInv, Kept
<1>2. CASE AcceptCharge(w)
  BY <1>1, <1>2, AcceptChargeAdds, SameBooksTally, TalliesOn
<1>3. CASE SweepCharge(w)
  <2>1. /\ Goes(w, "charge", "book") /\ SameRto /\ SameBooks /\ Money(rto)
    BY <1>1, <1>3, SweepAdds
  <2>2. rto.kind # "acceptance"
    BY <2>1 DEF Tallies, DepositFirst
  <2> QED
    BY <2>1, <2>2, SameBooksTally, TalliesOn
<1>4. CASE SweepChallenged(w)
  <2>1. /\ Goes(w, "charge", "idle") /\ SameBooks /\ Money(rto) /\ rto'.kind = "installment"
    BY <1>1, <1>4, SweepAdds
  <2> QED
    BY <2>1, SameBooksTally, TalliesOn
<1>5. CASE SweepMissed(w)
  <2>1. /\ Goes(w, "charge", "idle") /\ SameBooks /\ Money(rto) /\ Waits(rto)
    BY <1>1, <1>5, SweepAdds
  <2> QED
    BY <2>1, SameBooksTally, TalliesOn
<1>6. CASE OpenIntent(w)
  BY <1>1, <1>6, OpenIntentAdds, SameBooksTally, TalliesOn
<1>7. ASSUME NEW i \in DOMAIN rtoIntents, SettleClaim(w, i) PROVE Tallies(task[w])'
  <2>1. SameBooks /\ Money(rto) /\ rto'.kind = "none" /\ Idle(w)
    BY <1>1, <1>7, SettleClaimTakes
  <2>2. \/ rto.kind = "acceptance" /\ task'[w].step = "book_deposit"
        \/ rto.kind = "payoff" /\ task'[w].step = "book_payoff"
        \/ task'[w].step \in {"attach_card", "idle", "book"}
    BY <1>1, <1>7, SettleClaimEffect
  <2> QED
    BY <2>1, <2>2, SameBooksTally, TalliesOn DEF Idle
<1>8. CASE PayOff(w)
  <2>1. /\ SameRto /\ SameBooks /\ rto.kind # "acceptance" /\ task[w].step = "idle"
        /\ task'[w].step = "complete" \/ (task'[w].step = "open_intent" /\ Payoff(rto) > 0)
    BY <1>1, <1>8, PayOffEffect, PayOffAsks
  <2>2. ASSUME Payoff(rto) > 0 PROVE ~Booked(<<"payoff", 0>>)
    <3>1. ~(rto.credited >= Cash)
      <4>1. rto.credited \in Nat /\ Cash \in Nat
        BY <1>1, PayoffIsRest DEF Typed, Agreements
      <4>2. ASSUME rto.credited >= Cash PROVE FALSE
        <5>1. Max({0, Cash - rto.credited}) = 0
          <6>1. \E x \in {0, Cash - rto.credited} : \A y \in {0, Cash - rto.credited} : x >= y
            BY <4>1, <4>2
          <6>2. Max({0, Cash - rto.credited}) \in {0, Cash - rto.credited} /\ Max({0, Cash - rto.credited}) >= 0
            BY <6>1 DEF Max
          <6> QED
            BY <4>1, <4>2, <6>2
        <5> QED
          BY <2>2, <5>1 DEF Payoff
      <4> QED
        BY <4>2
    <3> QED
      BY <2>1, <3>1 DEF Tallies, PaidOffOnce
  <2> QED
    BY <2>1, <2>2, SameBooksTally, TalliesOn
<1>9. CASE ReturnSettle(w)
  <2> DEFINE line == Line(<<"refund", Refunds>>, -task[w].refund, 0)
  <2>1. /\ Goes(w, "settle_return", "idle") /\ Money(rto) /\ rto'.kind = rto.kind
        /\ SameBooks \/ Enters(line)
    BY <1>1, <1>9, ReturnSettleEnters DEF Settles
  <2>2. line.key[1] = "refund" /\ line.credit = 0
    BY DEF Line
  <2> HIDE DEF line
  <2>3. SameTally
    BY <1>1, <2>1, <2>2, SameBooksTally, OtherLineTally
  <2> QED
    BY <2>1, <2>3, TalliesOn
<1> QED
  BY <1>2, <1>3, <1>4, <1>5, <1>6, <1>7, <1>8, <1>9

LEMMA AcceptCreateTallies ==
  ASSUME IInv, Kept, NEW w \in Workers, Tallies(task[w]), NEW d \in Deposits, AcceptCreate(w, d)
  PROVE  Tallies(task[w])'
<1>1. /\ rto = NoAgreement /\ rto.status = "none" /\ SameBooks
      /\ Goes(w, "create_agreement", "open_charge")
      /\ d \in Nat /\ rto'.deposit = d /\ rto'.credited = 0 /\ rto'.paid = 0
      /\ rto'.kind = "none"
  BY AcceptCreateAlone
<1>2. rtoLedger = {}
  BY <1>1 DEF Kept, Listed
<1>3. \A key : ~Booked(key)' /\ ~Booked(key)
  BY <1>1, <1>2 DEF Booked, SameBooks
<1>4. rto.credited = 0 /\ rto.paid = 0
  BY <1>1 DEF NoAgreement
<1>5. Equity = 0 /\ Count = 0
  BY <1>1, <1>4 DEF Tallies, CountsAgree, Uncounted, Goes
<1>6. Equity' = 0 /\ Count' = 0
  BY <1>1, <1>5, TotalSame
<1>7. task'[w].step = "open_charge"
  BY <1>1 DEF Goes
<1>8. DepositFirst(task[w])'
  BY <1>1, <1>3, <1>7 DEF DepositFirst, Settling, LatestSteps, PayoffSteps
<1>9. PaidOffOnce(task[w])'
  BY <1>1, <1>3, <1>7 DEF PaidOffOnce, PayoffAhead
<1>10. CountsAgree(task[w])'
  BY <1>1, <1>6, <1>7 DEF CountsAgree, Uncounted
<1> QED
  BY <1>8, <1>9, <1>10 DEF Tallies

LEMMA DepositTallies ==
  ASSUME IInv, Kept, NEW w \in Workers, Tallies(task[w]), BookDeposit(w) \/ CreditDeposit(w)
  PROVE  Tallies(task[w])'
<1>1. Typed /\ Listed /\ rto.deposit \in Nat /\ Cash \in Nat /\ Cash > 0
  BY RtoAssumption DEF IInv, Kept, Typed, Agreements, Cash
<1>2. DepositFirst(task[w]) /\ PaidOffOnce(task[w]) /\ CountsAgree(task[w])
  BY DEF Tallies
<1>3. CASE BookDeposit(w)
  <2> DEFINE line == Line(<<"initial", 0>>, rto.deposit, rto.deposit)
  <2>1. /\ Goes(w, "book_deposit", "credit_deposit") /\ SameRto
        /\ ~Booked(<<"initial", 0>>) => Enters(line)
    BY <1>1, <1>3, BookDepositEnters
  <2>2. task[w].step = "book_deposit" /\ task'[w].step = "credit_deposit" /\ rto' = rto
    BY <2>1 DEF Goes, SameRto
  <2>3. /\ rto.credited = 0 /\ rto.paid = 0 /\ ~Booked(<<"initial", 0>>)
        /\ rto.kind # "acceptance" /\ Equity = 0 /\ Count = 0
    BY <1>2, <2>2 DEF DepositFirst, CountsAgree, Uncounted, Depositing, Settling
  <2>4. line.key = <<"initial", 0>> /\ line.credit = rto.deposit
    BY DEF Line
  <2>5. Enters(line)
    BY <2>1, <2>3
  <2> HIDE DEF line
  <2>6. Equity' = rto.deposit /\ Count' = 0
    <3>1. line.key[1] # "instalment"
      BY <2>4
    <3> QED
      BY <1>1, <2>3, <2>4, <2>5, <3>1, CountEnters
  <2>7. Booked(<<"payoff", 0>>)' <=> Booked(<<"payoff", 0>>)
    <3>1. line.key # <<"payoff", 0>>
      BY <2>4
    <3> QED
      BY <2>5, <3>1, BookedEnters
  <2>8. DepositFirst(task[w])'
    BY <2>2, <2>3 DEF DepositFirst, Depositing
  <2>9. PaidOffOnce(task[w])'
    <3>1. Cash' = Cash
      BY <2>2 DEF Cash
    <3> QED
      BY <1>2, <2>2, <2>7, <3>1 DEF PaidOffOnce, PayoffAhead
  <2>10. CountsAgree(task[w])'
    BY <2>2, <2>3, <2>6 DEF CountsAgree, Uncounted
  <2> QED
    BY <2>8, <2>9, <2>10 DEF Tallies
<1>4. CASE CreditDeposit(w)
  <2>1. /\ Goes(w, "credit_deposit", "idle") /\ SameBooks /\ Waits(rto)
        /\ rto'.deposit = rto.deposit /\ rto'.paid = rto.paid /\ rto'.credited = rto.deposit
    BY <1>1, <1>4, CreditDepositEffect
  <2>2. task[w].step = "credit_deposit" /\ task'[w].step = "idle" /\ rto'.kind = rto.kind
    BY <2>1 DEF Goes, Waits
  <2>3. /\ rto.credited = 0 /\ rto.paid = 0
        /\ rto.kind # "acceptance" /\ Equity = rto.deposit /\ Count = 0
    BY <1>2, <2>2 DEF DepositFirst, CountsAgree, Uncounted, Depositing, Settling
  <2>4. ~Booked(<<"payoff", 0>>)
    BY <1>1, <1>2, <2>2, <2>3 DEF PaidOffOnce
  <2>5. ~Booked(<<"payoff", 0>>)' /\ Equity' = rto.deposit /\ Count' = 0
    BY <2>1, <2>3, <2>4, BookedSame, TotalSame
  <2>6. DepositFirst(task[w])'
    BY <2>2, <2>3 DEF DepositFirst, Depositing, Settling, LatestSteps, PayoffSteps
  <2>7. PaidOffOnce(task[w])'
    BY <1>1, <2>1, <2>2, <2>3, <2>5 DEF PaidOffOnce, PayoffAhead
  <2>8. CountsAgree(task[w])'
    BY <1>1, <2>1, <2>2, <2>3, <2>5 DEF CountsAgree, Uncounted
  <2> QED
    BY <2>6, <2>7, <2>8 DEF Tallies
<1> QED
  BY <1>3, <1>4

LEMMA InstalmentTallies ==
  ASSUME IInv, Kept, NEW w \in Workers, Tallies(task[w]), Spared(Interrupted)',
         BookInstalment(w) \/ ApplyInstalment(w)
  PROVE  Tallies(task[w])'
<1>1. Typed /\ Listed /\ rto.deposit \in Nat /\ rto.paid \in Nat /\ rto.credited \in Nat
  BY DEF IInv, Kept, Typed, Agreements
<1>2. DepositFirst(task[w]) /\ PaidOffOnce(task[w]) /\ CountsAgree(task[w])
  BY DEF Tallies
<1>3. CASE BookInstalment(w)
  <2> DEFINE key == <<"instalment", task[w].n>>
             line == Line(key, Price, 1)
  <2>1. /\ SameRto
        /\ \/ Goes(w, "book", "claim_instalment") /\ Enters(line)
           \/ (Goes(w, "book", "clear") \/ Goes(w, "book", "idle")) /\ SameBooks
    BY <1>1, <1>3, BookInstalmentEnters
  <2>2. CASE (Goes(w, "book", "clear") \/ Goes(w, "book", "idle")) /\ SameBooks
    BY <2>1, <2>2, SameBooksTally, SameRtoKept, TalliesOn
       DEF Goes, Money, Waits, Crediting, Settling, LatestSteps, PayoffSteps, PayoffAhead
  <2>3. CASE Goes(w, "book", "claim_instalment") /\ Enters(line)
    <3>1. task[w].step = "book" /\ task'[w].step = "claim_instalment" /\ rto' = rto
      BY <2>1, <2>3 DEF Goes, SameRto
    <3>2. line.key[1] = "instalment" /\ line.credit = 1
      BY DEF Line
    <3>3. line.key # <<"initial", 0>> /\ line.key # <<"payoff", 0>>
      <4>1. <<"initial", 0>>[1] = "initial" /\ <<"payoff", 0>>[1] = "payoff"
        OBVIOUS
      <4> HIDE DEF line
      <4> QED
        BY <3>2, <4>1
    <3> HIDE DEF line
    <3>4. /\ Booked(<<"initial", 0>>)' <=> Booked(<<"initial", 0>>)
          /\ Booked(<<"payoff", 0>>)' <=> Booked(<<"payoff", 0>>)
      BY <2>3, <3>3, BookedEnters
    <3>5. Equity' = Equity + 1 /\ Count' = Count + 1
      BY <1>1, <2>3, <3>2, CountEnters
    <3>6. DepositFirst(task[w])'
      BY <1>2, <3>1, <3>4 DEF DepositFirst, Depositing, Settling, LatestSteps
    <3>7. PaidOffOnce(task[w])'
      <4>1. Cash' = Cash
        BY <3>1 DEF Cash
      <4> QED
        BY <1>2, <3>1, <3>4, <4>1 DEF PaidOffOnce, PayoffAhead
    <3>8. CountsAgree(task[w])'
      BY <1>1, <1>2, <3>1, <3>5 DEF CountsAgree, Uncounted
    <3> QED
      BY <3>6, <3>7, <3>8 DEF Tallies
  <2> QED
    BY <2>1, <2>2, <2>3
<1>4. CASE ApplyInstalment(w)
  <2>1. /\ SameBooks /\ Waits(rto) /\ rto'.deposit = rto.deposit
        /\ rto'.paid = task[w].doc.paid + 1 /\ rto'.credited = task[w].doc.credited + 1
        /\ task[w].step = "apply" /\ task'[w].step \in {"complete", "clear", "idle"}
    BY <1>1, <1>4, ApplyInstalmentEffect DEF Goes
  <2>2. task[w].doc.paid = rto.paid /\ task[w].doc.credited = rto.credited
    <3>1. Spared({"overlap"})
      BY ActsMoves, UninterruptedBefore, <1>4 DEF Moves, Acts, Handles
    <3> QED
      BY <2>1, <3>1 DEF IInv, Current, LatestSteps
  <2>3. rto'.paid = rto.paid + 1 /\ rto'.credited = rto.credited + 1 /\ rto'.kind = rto.kind
    BY <2>1, <2>2 DEF Waits
  <2>4. rto.kind # "acceptance"
    BY <1>2, <2>1 DEF DepositFirst, Settling, LatestSteps
  <2>5. /\ Booked(<<"payoff", 0>>)' <=> Booked(<<"payoff", 0>>)
        /\ Equity' = Equity /\ Count' = Count
    BY <2>1, BookedSame, TotalSame
  <2>6. DepositFirst(task[w])'
    BY <2>1, <2>3, <2>4 DEF DepositFirst, Depositing
  <2>7. PaidOffOnce(task[w])'
    <3>1. Cash' = Cash /\ Cash \in Nat
      BY <1>1, <2>1, RtoAssumption DEF Cash
    <3> QED
      BY <1>1, <1>2, <2>1, <2>3, <2>5, <3>1 DEF PaidOffOnce, PayoffAhead
  <2>8. CountsAgree(task[w])'
    BY <1>1, <1>2, <2>1, <2>3, <2>5 DEF CountsAgree, Uncounted
  <2> QED
    BY <2>6, <2>7, <2>8 DEF Tallies
<1> QED
  BY <1>3, <1>4

\* Until the payoff, no more is credited than the price.
LEMMA AtMostCash ==
  ASSUME IInv, Final, NEW w \in Workers, Tallies(task[w]), Spared({"crash", "overlap"}),
         ~Booked(<<"payoff", 0>>)
  PROVE  rto.credited <= Cash /\ rto.credited \in Nat /\ Cash \in Nat /\ Payoff(rto) = Cash - rto.credited
<1>1. rto.credited \in Nat /\ rto.deposit \in Nat /\ rto.paid \in Nat /\ Instalments \in Nat
  BY RtoAssumption DEF IInv, Typed, Agreements
<1>2. rto.paid <= Bookings /\ Bookings <= Instalments /\ Bookings \in Nat
  <2>1. BookedN \in SUBSET (1..Instalments)
    BY DEF BookedN
  <2> QED
    BY <2>1, NumbersOf DEF Final, Counted, Bookings
<1>3. rto.credited <= rto.deposit + rto.paid
  BY DEF Tallies, PaidOffOnce
<1>4. rto.credited <= Cash /\ Cash \in Nat
  BY <1>1, <1>2, <1>3 DEF Cash
<1> DEFINE a == Cash - rto.credited
<1>5. a \in Nat
  BY <1>1, <1>4
<1> HIDE DEF a
<1>6. Max({0, a}) = a
  <2>1. \E x \in {0, a} : \A y \in {0, a} : x >= y
    BY <1>5
  <2>2. Max({0, a}) \in {0, a} /\ Max({0, a}) >= a
    BY <2>1 DEF Max
  <2> QED
    BY <1>5, <2>2
<1> QED
  BY <1>1, <1>4, <1>6 DEF Payoff, a

LEMMA PayoffTallies ==
  ASSUME IInv, Kept, Final, NEW w \in Workers, Tallies(task[w]), Spared(Interrupted)',
         BookPayoff(w) \/ CreditPayoff(w) \/ Complete(w)
  PROVE  Tallies(task[w])'
<1>1. Typed /\ Listed /\ rto.deposit \in Nat /\ rto.paid \in Nat /\ rto.credited \in Nat
  BY DEF IInv, Kept, Typed, Agreements
<1>2. DepositFirst(task[w]) /\ PaidOffOnce(task[w]) /\ CountsAgree(task[w])
  BY DEF Tallies
<1>3. Spared({"overlap"}) /\ Spared({"crash", "overlap"})
  BY ActsMoves, UninterruptedBefore DEF Moves, Acts, Handles
<1>4. CASE BookPayoff(w)
  <2> DEFINE p == Payoff(task[w].doc)
             line == Line(<<"payoff", 0>>, p, p)
  <2>1. /\ Goes(w, "book_payoff", "credit_payoff") /\ SameRto
        /\ ~Booked(<<"payoff", 0>>) => Enters(line)
    BY <1>1, <1>4, BookPayoffEnters
  <2>2. task[w].step = "book_payoff" /\ task'[w].step = "credit_payoff" /\ rto' = rto
    BY <2>1 DEF Goes, SameRto
  <2>3. /\ ~Booked(<<"payoff", 0>>) /\ rto.kind # "acceptance" /\ Equity = rto.credited
        /\ Count = rto.paid
    BY <1>1, <1>2, <2>2 DEF DepositFirst, PaidOffOnce, PayoffAhead, CountsAgree, Uncounted,
                         Settling, PayoffSteps
  <2>4. task[w].doc.credited = rto.credited
    BY <1>3, <2>2 DEF IInv, Current, PayoffSteps
  <2>5. p = Cash - rto.credited /\ Cash \in Nat
    <3>1. p = Payoff(rto)
      BY <2>4 DEF Payoff
    <3> HIDE DEF p
    <3> QED
      BY <1>3, <2>3, <3>1, AtMostCash
  <2>6. line.key = <<"payoff", 0>> /\ line.credit = p
    BY DEF Line
  <2>7. Enters(line)
    BY <2>1, <2>3
  <2> HIDE DEF line, p
  <2>8. line.key[1] # "instalment" /\ line.key # <<"initial", 0>>
    BY <2>6
  <2>9. Equity' = Cash /\ Count' = rto.paid
    BY <1>1, <2>3, <2>5, <2>6, <2>7, <2>8, CountEnters
  <2>10. Booked(<<"initial", 0>>)' <=> Booked(<<"initial", 0>>)
    BY <2>7, <2>8, BookedEnters
  <2>11. Booked(<<"payoff", 0>>)'
    BY <2>6, <2>7, BookedEnters
  <2>12. DepositFirst(task[w])'
    BY <1>2, <2>2, <2>3, <2>10 DEF DepositFirst, Depositing
  <2>13. PaidOffOnce(task[w])'
    <3>1. rto'.kind # "payoff"
      BY <1>3, <2>2 DEF Final, FinalBy, PayoffSteps
    <3> QED
      BY <2>2, <2>11, <3>1 DEF PaidOffOnce, PayoffAhead
  <2>14. CountsAgree(task[w])'
    <3>1. Cash' = Cash
      BY <2>2 DEF Cash
    <3> QED
      BY <1>1, <2>2, <2>9, <3>1 DEF CountsAgree, Uncounted
  <2> QED
    BY <2>12, <2>13, <2>14 DEF Tallies
<1>5. CASE CreditPayoff(w)
  <2>1. /\ Goes(w, "credit_payoff", "complete") /\ SameBooks /\ Waits(rto)
        /\ rto'.deposit = rto.deposit /\ rto'.paid = rto.paid /\ rto'.credited = Cash
    BY <1>1, <1>5, CreditPayoffEffect
  <2>2. task[w].step = "credit_payoff" /\ task'[w].step = "complete" /\ rto'.kind = rto.kind
    BY <2>1 DEF Goes, Waits
  <2>3. rto.kind # "acceptance" /\ Equity = Cash /\ Count = rto.paid
    BY <1>1, <1>2, <2>2 DEF DepositFirst, CountsAgree, Uncounted, Settling, PayoffSteps
  <2>4. SameTally /\ Cash' = Cash /\ Cash \in Nat
    BY <1>1, <2>1, SameBooksTally, RtoAssumption DEF Cash
  <2>5. DepositFirst(task[w])'
    BY <2>2, <2>3 DEF DepositFirst, Depositing, Settling, LatestSteps, PayoffSteps
  <2>6. PaidOffOnce(task[w])'
    <3>1. rto.kind # "payoff"
      BY <1>3, <2>2 DEF Final, FinalBy, PayoffSteps
    <3> QED
      BY <1>2, <2>1, <2>2, <2>4, <3>1 DEF PaidOffOnce, PayoffAhead, SameTally
  <2>7. CountsAgree(task[w])'
    BY <1>1, <2>1, <2>2, <2>3, <2>4 DEF CountsAgree, Uncounted, SameTally
  <2> QED
    BY <2>5, <2>6, <2>7 DEF Tallies
<1>6. CASE Complete(w)
  <2>1. SameBooks /\ Waits(rto) /\ rto' = [rto EXCEPT !.status = "completed", !.proof = TRUE]
    BY <1>1, <1>6, CompleteEffect
  <2>2. rto'.credited = rto.credited /\ rto'.paid = rto.paid /\ rto'.deposit = rto.deposit
    BY <1>1, <2>1 DEF Typed, Agreements
  <2>3. /\ task[w].step = "complete" /\ task'[w].step \in {"clear", "idle"}
        /\ rto'.kind = rto.kind
    BY <1>1, <1>6, <2>1, CompleteEffect DEF Goes, Waits
  <2>4. SameTally /\ Cash' = Cash
    BY <2>1, <2>2, SameBooksTally DEF Cash
  <2>5. DepositFirst(task[w])'
    BY <1>2, <2>2, <2>3, <2>4
       DEF DepositFirst, Depositing, Settling, LatestSteps, PayoffSteps, SameTally
  <2>6. PaidOffOnce(task[w])'
    BY <1>2, <2>2, <2>3, <2>4 DEF PaidOffOnce, PayoffAhead, SameTally
  <2>7. CountsAgree(task[w])'
    BY <1>2, <2>2, <2>3, <2>4 DEF CountsAgree, Uncounted, SameTally
  <2> QED
    BY <2>5, <2>6, <2>7 DEF Tallies
<1> QED
  BY <1>4, <1>5, <1>6

LEMMA TallyActs ==
  ASSUME IInv, Kept, Final, Tally, NEW w \in Workers, Acts(w)
  PROVE  Tally'
<1>1. Typed /\ Moves(w)
  BY ActsMoves DEF IInv
<1>2. ASSUME Spared(Interrupted)', Tallies(task[w])
      PROVE  Tallies(task[w])'
  <2>1. ~RtoCrash(w) /\ ~SweepThrows(w)
    <3>1. "crash" \notin befell' /\ "thrown" \notin befell'
      BY <1>1, <1>2, UninterruptedBefore DEF Moves
    <3>2. SweepThrows(w) => "thrown" \in befell'
      BY DEF SweepThrows, FinishAfter, Befalls
    <3> QED
      BY <1>1, <3>1, <3>2, CrashEffect
  <2>2. ASSUME NEW d \in Deposits, AcceptCreate(w, d) PROVE Tallies(task[w])'
    BY <1>2, <2>2, AcceptCreateTallies
  <2> QED
    BY <1>2, <2>1, <2>2, QuietTallies, OpeningTallies, DepositTallies, InstalmentTallies,
       PayoffTallies DEF Acts, Handles
<1> QED
  BY <1>1, <1>2, TallyGoes

\* Steps no handler takes change neither counts nor what is awaited.
LEMMA TallyStill ==
  ASSUME Tally, task' = task, befell \subseteq befell', SameTally, Money(rto),
         rto'.kind = rto.kind
  PROVE  Tally'
<1>1. Spared(Interrupted)' => Spared(Interrupted)
  BY UninterruptedBefore
<1>2. Cash' = Cash
  BY DEF Cash, Money
<1>3. ASSUME NEW t, Tallies(t)
      PROVE  /\ DepositFirst(t) /\ PaidOffOnce(t) /\ CountsAgree(t)
  BY <1>3 DEF Tallies
<1>4. ASSUME NEW w \in Workers, Tallies(task[w])
      PROVE  Tallies(task[w])'
  <2>1. DepositFirst(task[w])'
    BY <1>3, <1>4 DEF DepositFirst, Money, SameTally
  <2>2. PaidOffOnce(task[w])'
    BY <1>2, <1>3, <1>4 DEF PaidOffOnce, PayoffAhead, Money, SameTally
  <2>3. CountsAgree(task[w])'
    BY <1>2, <1>3, <1>4 DEF CountsAgree, Uncounted, Money, SameTally
  <2> QED
    BY <2>1, <2>2, <2>3 DEF Tallies
<1>5. ASSUME Tallies(Resting)
      PROVE  Tallies(Resting)'
  <2>1. DepositFirst(Resting)'
    BY <1>3, <1>5 DEF DepositFirst, Money, SameTally, Resting
  <2>2. PaidOffOnce(Resting)'
    BY <1>2, <1>3, <1>5 DEF PaidOffOnce, PayoffAhead, Money, SameTally, Resting
  <2>3. CountsAgree(Resting)'
    BY <1>2, <1>3, <1>5 DEF CountsAgree, Uncounted, Money, SameTally, Resting
  <2> QED
    BY <2>1, <2>2, <2>3 DEF Tallies
<1> QED
  BY <1>1, <1>4, <1>5 DEF Tally, Idle, AllIdle

LEMMA NextKeepsTally == IInv /\ Kept /\ Final /\ Tally /\ [RtoNext]_rtoVars => Tally'
<1> SUFFICES ASSUME IInv, Kept, Final, Tally, [RtoNext]_rtoVars
             PROVE  Tally'
  OBVIOUS
<1>1. Typed /\ Listed
  BY DEF IInv, Kept
<1>2. ASSUME NEW w \in Workers, Acts(w) PROVE Tally'
  BY <1>2, TallyActs
<1>3. CASE Escalate
  <2>1. /\ Watches /\ Money(rto) /\ rto'.kind = rto.kind
        /\ SameBooks \/ \E n \in 1..Instalments : Enters(Line(<<"late_fee", n>>, 1, 0))
    BY <1>1, <1>3, EscalateEnters DEF Settles
  <2>2. ASSUME NEW n \in 1..Instalments, Enters(Line(<<"late_fee", n>>, 1, 0))
        PROVE  SameTally
    <3> DEFINE line == Line(<<"late_fee", n>>, 1, 0)
    <3>1. line.key[1] = "late_fee" /\ line.credit = 0 /\ Enters(line)
      BY <2>2 DEF Line
    <3> HIDE DEF line
    <3> QED
      BY <1>1, <3>1, OtherLineTally
  <2> QED
    BY <2>1, <2>2, SameBooksTally, TallyStill DEF Watches
<1>4. ASSUME NEW w \in Workers, PartialPayment(w) PROVE Tally'
  <2> DEFINE line == Line(<<"partial", 0>>, 1, 0)
  <2>1. /\ Watches /\ Money(rto) /\ rto'.kind = rto.kind
        /\ SameBooks \/ Enters(line)
    BY <1>1, <1>4, PartialPaymentEnters DEF Waits
  <2>2. line.key[1] = "partial" /\ line.credit = 0
    BY DEF Line
  <2> HIDE DEF line
  <2> QED
    BY <1>1, <2>1, <2>2, SameBooksTally, OtherLineTally, TallyStill DEF Watches
<1>5. ASSUME NEW w \in Workers, Reinstate(w) PROVE Tally'
  BY <1>1, <1>5, ReinstateSays, SameBooksTally, TallyStill DEF Watches, Settles
<1>6. ASSUME NEW i \in DOMAIN rtoIntents, Confirm(i) PROVE Tally'
  BY <1>1, <1>6, ConfirmSays, SameBooksTally, SameRtoKept, TallyStill DEF Watches, Waits
<1>7. CASE Offering
  BY <1>7, OfferActs, SameBooksTally, SameRtoKept, TallyStill DEF Waits
<1>8. CASE UNCHANGED rtoVars
  BY <1>8, SameBooksTally, TallyStill DEF rtoVars, SameBooks, Money
<1> QED
  BY <1>2, <1>3, <1>4, <1>5, <1>6, <1>7, <1>8, NextCases DEF Acts, Offering

LEMMA InitTally == HandlersInit /\ RtoInit => Tally
<1> SUFFICES ASSUME HandlersInit, RtoInit
             PROVE  Tallies(Resting)
  BY DEF HandlersInit, Tally, Idle, Resting
<1>1. rtoLedger = {} /\ rto = NoAgreement
  BY DEF RtoInit
<1>2. Entries({"instalment"}) = {} /\ \A key : ~Booked(key)
  BY <1>1 DEF Entries, Booked
<1>3. Count = 0
  BY <1>2, FS_EmptySet DEF Count
<1>4. Equity = 0
  BY <1>1, SumEmpty DEF Equity, SumFunction
<1>5. rto.credited = 0 /\ rto.paid = 0 /\ rto.kind = "none" /\ rto.deposit = 0
  BY <1>1 DEF NoAgreement
<1>6. Resting.step = "idle"
  BY DEF Resting
<1>7. CountsAgree(Resting)
  BY <1>3, <1>4, <1>5, <1>6 DEF CountsAgree, Uncounted
<1>8. DepositFirst(Resting) /\ PaidOffOnce(Resting)
  BY <1>2, <1>5, <1>6 DEF DepositFirst, PaidOffOnce, PayoffAhead, Settling, LatestSteps, PayoffSteps
<1> QED
  BY <1>7, <1>8 DEF Tallies

LEMMA TallyInvariant == RtoSpec => []Tally
BY InitTally, NextKeepsTally, Invariant, KeptInvariant, FinalInvariant, PTL DEF RtoSpec

LEMMA CountsMatch == IInv /\ Tally => RtoCountsMatchLedger
<1> SUFFICES ASSUME IInv, Tally, Spared(Interrupted), AllIdle
             PROVE  rto.credited = Equity /\ rto.paid = Count
  BY DEF RtoCountsMatchLedger, Count
<1>1. CountsAgree(Resting)
  BY DEF Tally, Tallies
<1>2. Resting.step = "idle"
  BY DEF Resting
<1>3. Count = rto.paid + 0 /\ Equity = rto.credited + 0
  BY <1>1, <1>2 DEF CountsAgree, Uncounted
<1>4. rto.paid \in Nat /\ rto.credited \in Nat
  BY DEF IInv, Typed, Agreements
<1> QED
  BY <1>3, <1>4

-----------------------------------------------------------------------------
(***************************************************************************)
(* Instalments are paid once.                                              *)
(***************************************************************************)

\* None of what lets an instalment be charged twice has happened.
Undoubled == Spared(Interrupted \cup {"superseded", "asked", "missed"})

\* A handler settles what the customer confirmed, and will lift the block.
Hooked(t) ==
  \/ t.step = "clear"
  \/ t.step \in {"book", "claim_instalment", "apply", "complete"} /\ t.via = "hook"

\* A handler is about to charge instalment t.n, or to ask for it.
ChargeAhead(t) == t.step = "charge" \/ (t.step = "open_intent" /\ t.kind = "installment")

\* The agreement awaits a payment of instalment n.
Awaiting(n) == rto.kind = "installment" /\ rto.due = n

\* Of an instalment there is one intent; it is booked, awaited, or about to be booked.
DrawnOnce(t) ==
  /\ \A i \in DOMAIN rtoIntents :
       /\ rtoIntents[i].status # "declined"
       /\ rtoIntents[i].status = "open" => rto.pending = i \/ rtoIntents[i].kind = "partial"
       /\ rtoIntents[i].n # 0 =>
            \/ rtoIntents[i].n \in BookedN
            \/ rto.pending = i /\ Awaiting(rtoIntents[i].n)
            \/ t.step = "book" /\ t.n = rtoIntents[i].n
  /\ \A i, j \in DOMAIN rtoIntents :
       rtoIntents[i].n # 0 /\ rtoIntents[i].n = rtoIntents[j].n => i = j

\* What a handler is about to charge or book is neither booked nor awaited.
StillOwed(t) ==
  /\ t.step \in {"load", "book"} \/ ChargeAhead(t) => t.n \notin BookedN
  /\ t.step = "book" \/ ChargeAhead(t) => ~Awaiting(t.n)
  /\ t.step = "charge" => t.via = "sweep"
  /\ Hooked(t) => rto.kind = "none"

\* What is awaited, or asked for, or still scheduled, is not booked.
AskedRightly(t) ==
  /\ rto.ask # 0 => rto.kind = "installment" \/ Hooked(t)
  /\ rto.kind = "installment" => rto.due # 0 /\ rto.due \notin BookedN
  /\ DOMAIN schedule = 1..Instalments
  /\ \A n \in 1..Instalments :
       /\ schedule[n] # "missed"
       /\ n \in BookedN /\ schedule[n] = "scheduled" => t.step = "claim_instalment" /\ t.n = n

OnceAt(t) == DrawnOnce(t) /\ StillOwed(t) /\ AskedRightly(t)

Once ==
  Undoubled =>
    /\ \A w \in Workers : ~Idle(w) => OnceAt(task[w])
    /\ AllIdle => OnceAt(Resting)

LEMMA UndoubledBefore ==
  ASSUME befell \subseteq befell', Undoubled'
  PROVE  /\ Undoubled /\ Spared({"overlap"}) /\ Spared({"overlap"})' /\ Spared(Interrupted)
         /\ Spared(Interrupted)'
         /\ {"crash", "thrown", "superseded", "asked", "missed"} \cap befell' = {}
BY DEF Spared, Interrupted, Undoubled

LEMMA OnceIdle ==
  ASSUME NEW t, t.step = "idle"
  PROVE  OnceAt(t) <=> OnceAt(Resting)
BY DEF OnceAt, DrawnOnce, StillOwed, AskedRightly, Hooked, ChargeAhead, Resting

LEMMA OnceHere ==
  ASSUME IInv, Once, NEW w \in Workers, Moves(w), Undoubled'
  PROVE  OnceAt(task[w])
<1>1. Undoubled /\ Spared({"overlap"})'
  BY UndoubledBefore DEF Moves
<1>2. \A v \in Workers \ {w} : Idle(v) /\ task'[v] = task[v]
  BY <1>1, OthersRest DEF IInv
<1>3. CASE Idle(w)
  <2>1. AllIdle
    BY <1>2, <1>3 DEF AllIdle
  <2> QED
    BY <1>1, <1>3, <2>1, OnceIdle DEF Once, Idle
<1>4. CASE ~Idle(w)
  BY <1>1, <1>4 DEF Once
<1> QED
  BY <1>3, <1>4

LEMMA OnceGoes ==
  ASSUME IInv, Once, NEW w \in Workers, Moves(w),
         Undoubled' /\ OnceAt(task[w]) => OnceAt(task[w])'
  PROVE  Once'
<1> SUFFICES ASSUME Undoubled'
             PROVE  /\ \A v \in Workers : ~Idle(v)' => OnceAt(task[v])'
                    /\ AllIdle' => OnceAt(Resting)'
  BY DEF Once
<1>1. Undoubled /\ Spared({"overlap"})'
  BY UndoubledBefore DEF Moves
<1>2. \A v \in Workers \ {w} : Idle(v) /\ task'[v] = task[v]
  BY <1>1, OthersRest DEF IInv
<1>3. OnceAt(task[w])
  BY <1>1, OnceHere
<1>4. OnceAt(task[w])'
  BY <1>3
<1>5. \A v \in Workers : ~Idle(v)' => v = w
  BY <1>2 DEF Idle
<1>6. AllIdle' => OnceAt(Resting)'
  <2> SUFFICES ASSUME task'[w].step = "idle"
               PROVE  OnceAt(Resting)'
    BY DEF AllIdle, Idle
  <2> QED
    BY <1>4 DEF OnceAt, DrawnOnce, StillOwed, AskedRightly, Hooked, ChargeAhead, Resting
<1> QED
  BY <1>4, <1>5, <1>6

\* What is awaited and asked for is as it was.
SameAsks ==
  /\ rto'.pending = rto.pending /\ rto'.kind = rto.kind /\ rto'.due = rto.due
  /\ rto'.ask = rto.ask

\* Nothing is scheduled again, or missed.
NothingNewDue ==
  /\ DOMAIN schedule' = DOMAIN schedule
  /\ \A n \in 1..Instalments :
       /\ schedule[n] # "missed" => schedule'[n] # "missed"
       /\ schedule'[n] = "scheduled" => schedule[n] = "scheduled"

\* A step that neither opens an intent nor books, and asks for nothing.
LEMMA OnceOn ==
  ASSUME NEW w \in Workers, OnceAt(task[w]), SameIntents, SameAsks, BookedN' = BookedN,
         NothingNewDue,
         task[w].step \notin {"book", "claim_instalment"},
         task'[w].step \notin {"book", "claim_instalment"},
         Hooked(task'[w]) <=> Hooked(task[w]),
         task'[w].step = "load" => task'[w].n \notin BookedN,
         ChargeAhead(task'[w]) => task'[w].n \notin BookedN /\ ~Awaiting(task'[w].n),
         task'[w].step = "charge" => task'[w].via = "sweep"
  PROVE  OnceAt(task[w])'
<1>1. DrawnOnce(task[w]) /\ StillOwed(task[w]) /\ AskedRightly(task[w])
  BY DEF OnceAt
<1>2. DrawnOnce(task[w])'
  BY <1>1 DEF DrawnOnce, SameIntents, SameAsks, Awaiting
<1>3. StillOwed(task[w])'
  <2>1. Hooked(task[w])' <=> Hooked(task'[w])
    BY DEF Hooked
  <2>2. ChargeAhead(task[w])' <=> ChargeAhead(task'[w])
    BY DEF ChargeAhead
  <2> QED
    BY <1>1, <2>1, <2>2 DEF StillOwed, SameAsks, Awaiting
<1>4. AskedRightly(task[w])'
  <2>1. Hooked(task[w])' <=> Hooked(task'[w])
    BY DEF Hooked
  <2> QED
    BY <1>1, <2>1 DEF AskedRightly, SameAsks, NothingNewDue
<1> QED
  BY <1>2, <1>3, <1>4 DEF OnceAt

LEMMA SameForOnce ==
  /\ SameBooks => BookedN' = BookedN
  /\ SameRto => SameAsks
  /\ schedule' = schedule => NothingNewDue
<1>1. SameBooks => BookedN' = BookedN
  BY BookedSame DEF BookedN
<1> QED
  BY <1>1 DEF SameRto, SameAsks, NothingNewDue

\* Steps of handlers that neither are nor lead to a settlement, and read nothing due.
Aside == {"idle", "claim_unit", "create_agreement", "open_charge", "attach_card", "book_deposit",
          "credit_deposit", "book_payoff", "credit_payoff", "remedy", "settle_return"}

LEMMA AsideCases ==
  ASSUME NEW t, t.step \in Aside
  PROVE  /\ ~Hooked(t) /\ ~ChargeAhead(t)
         /\ t.step \notin {"load", "charge", "book", "claim_instalment", "apply", "complete"}
BY DEF Aside, Hooked, ChargeAhead

\* From one such step to another.
LEMMA OnceAside ==
  ASSUME NEW w \in Workers, OnceAt(task[w]), SameIntents, SameAsks, BookedN' = BookedN,
         NothingNewDue, task[w].step \in Aside, task'[w].step \in Aside
  PROVE  OnceAt(task[w])'
BY AsideCases, OnceOn

LEMMA CardAsks ==
  ASSUME NEW w, NEW doc \in Agreements, KeepsCard(w, doc)
  PROVE  rto'.pending = doc.pending /\ rto'.kind = doc.kind /\ rto'.due = doc.due
           /\ rto'.ask = doc.ask
BY DEF KeepsCard, Agreements

LEMMA AsideActs ==
  ASSUME IInv, Kept, NEW w \in Workers, OnceAt(task[w]),
         \/ AcceptBegin(w) \/ AcceptClaim(w) \/ AcceptRefused(w) \/ AttachCard(w)
         \/ CreditDeposit(w) \/ ReturnBegin(w) \/ (\E to \in Remedies : RemedyRead(w, to))
         \/ BookDeposit(w) \/ BookPayoff(w) \/ RemedyApply(w) \/ ReturnSettle(w)
  PROVE  OnceAt(task[w])'
<1> USE DEF Goes, Aside
<1>1. Typed /\ Listed /\ rto \in Agreements /\ rto.deposit \in Nat
  BY DEF IInv, Kept, Typed, Agreements
<1>2. CASE AcceptBegin(w) \/ AcceptClaim(w) \/ AcceptRefused(w)
  BY <1>1, <1>2, AcceptBeginEffect, AcceptClaimEffect, AcceptRefusedEffect, SameForOnce, OnceAside
<1>3. ASSUME NEW line, SameBooks \/ Enters(line), line.key[1] \in {"initial", "payoff", "refund"}
      PROVE  BookedN' = BookedN
  <2>1. \A n : <<"instalment", n>>[1] = "instalment"
    OBVIOUS
  <2>2. \A n : line.key # <<"instalment", n>>
    BY <1>3, <2>1
  <2> QED
    BY <1>3, <2>2, BookedEnters, SameForOnce DEF BookedN
<1>4. CASE AttachCard(w)
  <2>1. SameAsks /\ schedule' = schedule
    BY <1>1, <1>4, CardAsks DEF AttachCard, SameAsks
  <2> QED
    BY <1>1, <1>4, <2>1, AttachCardEffect, SameForOnce, OnceAside
<1>5. CASE CreditDeposit(w)
  <2> DEFINE doc == [rto EXCEPT !.credited = rto.deposit]
  <2>1. doc \in Agreements /\ doc.pending = rto.pending /\ doc.kind = rto.kind
          /\ doc.due = rto.due /\ doc.ask = rto.ask
    BY <1>1 DEF Agreements
  <2>2. KeepsCard(w, doc) /\ schedule' = schedule
    BY <1>5 DEF CreditDeposit
  <2> HIDE DEF doc
  <2>3. SameAsks
    BY <2>1, <2>2, CardAsks DEF SameAsks
  <2> QED
    BY <1>1, <1>5, <2>2, <2>3, CreditDepositEffect, SameForOnce, OnceAside
<1>6. CASE ReturnBegin(w)
  <2>1. schedule' = schedule
    BY <1>6 DEF ReturnBegin
  <2> QED
    BY <1>1, <1>6, <2>1, ReturnBeginEffect, SameForOnce, OnceAside
<1>7. ASSUME NEW to \in Remedies, RemedyRead(w, to) PROVE OnceAt(task[w])'
  <2>1. schedule' = schedule
    BY <1>7 DEF RemedyRead
  <2> QED
    BY <1>1, <1>7, <2>1, RemedyReadEffect, SameForOnce, OnceAside
<1>8. CASE BookDeposit(w)
  <2> DEFINE line == Line(<<"initial", 0>>, rto.deposit, rto.deposit)
  <2>1. /\ Goes(w, "book_deposit", "credit_deposit") /\ SameRto /\ SameIntents
        /\ SameBooks \/ Enters(line)
    BY <1>1, <1>8, BookDepositEnters
  <2>2. schedule' = schedule
    BY <1>8 DEF BookDeposit
  <2>3. line.key[1] = "initial"
    BY DEF Line
  <2> HIDE DEF line
  <2> QED
    BY <1>3, <2>1, <2>2, <2>3, SameForOnce, OnceAside
<1>9. CASE BookPayoff(w)
  <2> DEFINE line == Line(<<"payoff", 0>>, Payoff(task[w].doc), Payoff(task[w].doc))
  <2>1. /\ Goes(w, "book_payoff", "credit_payoff") /\ SameRto /\ SameIntents
        /\ SameBooks \/ Enters(line)
    BY <1>1, <1>9, BookPayoffEnters
  <2>2. schedule' = schedule
    BY <1>9 DEF BookPayoff
  <2>3. line.key[1] = "payoff"
    BY DEF Line
  <2> HIDE DEF line
  <2> QED
    BY <1>3, <2>1, <2>2, <2>3, SameForOnce, OnceAside
<1>10. CASE RemedyApply(w)
  <2>1. SameAsks
    BY <1>1, <1>10 DEF RemedyApply, SameAsks, Agreements
  <2>2. NothingNewDue
    <3>1. DOMAIN schedule = 1..Instalments /\ \A n \in 1..Instalments : schedule[n] # "missed"
      BY DEF OnceAt, AskedRightly
    <3>2. \/ schedule' = schedule
          \/ schedule' = [n \in DOMAIN schedule |-> IF n \in Owed THEN "scheduled" ELSE schedule[n]]
      BY <1>10 DEF RemedyApply
    <3> QED
      BY <3>1, <3>2 DEF NothingNewDue, Owed
  <2> QED
    BY <1>1, <1>10, <2>1, <2>2, RemedyApplyEffect, SameForOnce, OnceAside
<1>11. CASE ReturnSettle(w)
  <2> DEFINE line == Line(<<"refund", Refunds>>, -task[w].refund, 0)
  <2>1. /\ Goes(w, "settle_return", "idle") /\ SameIntents
        /\ SameBooks \/ Enters(line)
    BY <1>1, <1>11, ReturnSettleEnters
  <2>2. SameAsks
    BY <1>1, <1>11 DEF ReturnSettle, SameAsks, Agreements
  <2>3. line.key[1] = "refund"
    BY DEF Line
  <2> HIDE DEF line
  <2>4. NothingNewDue
    <3>1. DOMAIN schedule = 1..Instalments
      BY DEF OnceAt, AskedRightly
    <3> QED
      BY <1>11, <3>1 DEF ReturnSettle, NothingNewDue, Owed
  <2> QED
    BY <1>3, <2>1, <2>2, <2>3, <2>4, OnceAside
<1> QED
  BY <1>2, <1>4, <1>5, <1>6, <1>7, <1>8, <1>9, <1>10, <1>11

\* The instalment a sweep or a customer who rests is told of is not booked.
LEMMA DueUnbooked ==
  ASSUME NEW t, OnceAt(t), t.step = "idle", NEW n \in 1..Instalments,
         schedule[n] \in {"scheduled", "missed"}
  PROVE  n \notin BookedN
BY DEF OnceAt, AskedRightly

LEMMA SweepOnce ==
  ASSUME IInv, Kept, NEW w \in Workers, OnceAt(task[w]), Undoubled',
         SweepList(w) \/ SweepLoad(w)
  PROVE  OnceAt(task[w])'
<1>1. Typed
  BY DEF IInv
<1>2. CASE SweepList(w)
  <2>1. /\ Goes(w, "idle", "load") /\ Unpaid # {}
        /\ SameRto /\ SameBooks /\ SameIntents /\ schedule' = schedule
    BY <1>1, <1>2, SweepListEffect
  <2>2. task[w].step = "idle" /\ task'[w].step = "load"
    BY <2>1 DEF Goes
  <2>3. Min(Unpaid) \in Unpaid
    <3>1. Unpaid \in SUBSET (1..Instalments)
      BY DEF Unpaid
    <3> QED
      BY <2>1, <3>1, LeastIsMember
  <2>4. task'[w].n = Min(Unpaid)
    BY <1>1, <1>2 DEF SweepList, Begin, Typed
  <2>5. task'[w].n \notin BookedN
    BY <2>2, <2>3, <2>4, DueUnbooked DEF Unpaid
  <2> QED
    BY <2>1, <2>2, <2>5, SameForOnce, OnceOn DEF Hooked, ChargeAhead
<1>3. CASE SweepLoad(w)
  <2>1. SameBooks /\ SameIntents /\ schedule' = schedule
    BY <1>1, <1>3, SweepLoadEffect
  <2>2. task[w].step = "load" /\ task[w].n \notin BookedN
    BY <1>3 DEF SweepLoad, At, OnceAt, StillOwed
  <2>3. "asked" \notin befell'
    BY DEF Undoubled, Spared
  <2>4. SameRto /\ (Finish(w) \/ (~SweepSkips(task[w].n) /\
          Becomes(w, [step |-> "charge", n |-> task[w].n, doc |-> Counts, via |-> "sweep"])))
    <3>1. ~FinishAfter(w, "asked")
      BY <2>3 DEF FinishAfter, Befalls
    <3> QED
      BY <1>3, <3>1 DEF SweepLoad, SameRto
  <2>5. CASE Finish(w)
    <3>1. task'[w].step = "idle"
      BY <1>1, <2>5 DEF Finish, Becomes, Resting, Typed
    <3> QED
      BY <2>1, <2>2, <2>4, <3>1, SameForOnce, OnceOn DEF Hooked, ChargeAhead
  <2>6. CASE /\ ~SweepSkips(task[w].n)
             /\ Becomes(w, [step |-> "charge", n |-> task[w].n, doc |-> Counts, via |-> "sweep"])
    <3>1. task'[w].step = "charge" /\ task'[w].n = task[w].n /\ task'[w].via = "sweep"
      BY <1>1, <2>6 DEF Becomes, Typed
    <3>2. ~Awaiting(task[w].n)
      BY <2>6 DEF SweepSkips, Awaiting
    <3> QED
      BY <2>1, <2>2, <2>4, <3>1, <3>2, SameForOnce, OnceOn DEF Hooked, ChargeAhead
  <2> QED
    BY <2>4, <2>5, <2>6
<1> QED
  BY <1>2, <1>3

LEMMA CountOnce ==
  ASSUME IInv, Kept, NEW w \in Workers, OnceAt(task[w]),
         ApplyInstalment(w) \/ Complete(w) \/ CreditPayoff(w)
  PROVE  OnceAt(task[w])'
<1>1. Typed /\ rto \in Agreements
  BY DEF IInv, Typed
<1>2. CASE ApplyInstalment(w)
  <2>1. SameBooks /\ SameIntents /\ schedule' = schedule
    BY <1>1, <1>2, ApplyInstalmentEffect DEF ApplyInstalment
  <2>2. SameAsks
    BY <1>1, <1>2 DEF ApplyInstalment, CreditedFrom, SameAsks, Agreements
  <2>3. /\ task[w].step = "apply" /\ task[w].via \in {"sweep", "hook"}
        /\ task'[w].step \in {"complete", "clear", "idle"}
    <3>1. task[w] \in Tasks /\ task[w].step = "apply"
      BY <1>1, <1>2 DEF Typed, ApplyInstalment, At
    <3>2. task[w] \in Latests
      BY <3>1, TaskForms DEF LatestSteps
    <3> QED
      BY <1>1, <1>2, <3>1, <3>2, ApplyInstalmentEffect DEF Goes, Latests
  <2>4. task'[w] = CASE LastOf(task[w].doc) -> [step |-> "complete", via |-> task[w].via]
                     [] ~LastOf(task[w].doc) /\ task[w].via = "hook" -> [step |-> "clear"]
                     [] OTHER -> Resting
    BY <1>1, <1>2 DEF ApplyInstalment, Becomes, Typed
  <2>5. Hooked(task'[w]) <=> Hooked(task[w])
    <3>1. CASE LastOf(task[w].doc)
      <4>1. task'[w] = [step |-> "complete", via |-> task[w].via]
        BY <2>4, <3>1
      <4>2. task'[w].step = "complete" /\ task'[w].via = task[w].via
        BY <4>1
      <4> QED
        BY <2>3, <4>2 DEF Hooked
    <3>2. CASE ~LastOf(task[w].doc) /\ task[w].via = "hook"
      <4>1. task'[w] = [step |-> "clear"]
        BY <2>4, <3>2
      <4>2. task'[w].step = "clear"
        BY <4>1
      <4> QED
        BY <2>3, <3>2, <4>2 DEF Hooked
    <3>3. CASE ~LastOf(task[w].doc) /\ task[w].via # "hook"
      <4>1. task'[w] = Resting
        BY <2>4, <3>3
      <4>2. task'[w].step = "idle"
        BY <4>1 DEF Resting
      <4> QED
        BY <2>3, <3>3, <4>2 DEF Hooked
    <3> QED
      BY <3>1, <3>2, <3>3
  <2> QED
    BY <2>1, <2>2, <2>3, <2>5, SameForOnce, OnceOn DEF ChargeAhead
<1>3. CASE Complete(w)
  <2>1. SameBooks /\ SameIntents
    BY <1>1, <1>3, CompleteEffect
  <2>2. SameAsks
    BY <1>1, <1>3 DEF Complete, SameAsks, Agreements
  <2>3. NothingNewDue
    <3>1. DOMAIN schedule = 1..Instalments
      BY DEF OnceAt, AskedRightly
    <3> QED
      BY <1>3, <3>1 DEF Complete, NothingNewDue
  <2>4. task[w].step = "complete"
    BY <1>3 DEF Complete, At
  <2>5. task'[w].step = IF task[w].via = "hook" THEN "clear" ELSE "idle"
    BY <1>1, <1>3 DEF Complete, Becomes, Finish, Resting, Typed
  <2>6. Hooked(task'[w]) <=> Hooked(task[w])
    BY <2>4, <2>5 DEF Hooked
  <2> QED
    BY <2>1, <2>2, <2>3, <2>4, <2>5, <2>6, SameForOnce, OnceOn DEF ChargeAhead
<1>4. CASE CreditPayoff(w)
  <2>1. SameBooks /\ SameIntents /\ schedule' = schedule
    BY <1>1, <1>4, CreditPayoffEffect DEF CreditPayoff
  <2>2. SameAsks
    BY <1>1, <1>4 DEF CreditPayoff, SameAsks, Agreements
  <2>3. task[w].step = "credit_payoff" /\ task'[w].step = "complete" /\ task'[w].via = "payoff"
    BY <1>1, <1>4 DEF CreditPayoff, At, Becomes, Typed
  <2> QED
    BY <2>1, <2>2, <2>3, SameForOnce, OnceOn DEF Hooked, ChargeAhead
<1> QED
  BY <1>2, <1>3, <1>4

LEMMA AskOnce ==
  ASSUME IInv, Kept, NEW w \in Workers, OnceAt(task[w]), PayInstalment(w) \/ PayOff(w)
  PROVE  OnceAt(task[w])'
<1>1. Typed
  BY DEF IInv
<1>2. CASE PayInstalment(w)
  <2>1. SameRto /\ SameBooks /\ SameIntents /\ schedule' = schedule /\ task[w].step = "idle"
    BY <1>1, <1>2, PayInstalmentEffect DEF PayInstalment, Goes
  <2>2. /\ task'[w] = [step |-> "open_intent", kind |-> "installment", n |-> Target, amount |-> Price]
        /\ Target \in 1..Instalments
        /\ Target = rto.ask \/ Target \in Owed
    BY <1>1, <1>2, PayInstalmentAsks
  <2>3. task'[w].step = "open_intent" /\ task'[w].kind = "installment" /\ task'[w].n = Target
    BY <2>2
  <2>4. rto.kind # "installment"
    BY <1>2 DEF PayInstalment
  <2>5. rto.ask = 0
    BY <2>1, <2>4 DEF OnceAt, AskedRightly, Hooked
  <2>6. Target \in Owed
    <3>1. Target # 0
      BY <2>2
    <3> QED
      BY <2>2, <2>5, <3>1
  <2>7. Target \notin BookedN
    BY <2>1, <2>2, <2>6, DueUnbooked DEF Owed
  <2>8. ~Awaiting(Target)
    BY <2>4 DEF Awaiting
  <2> QED
    BY <2>1, <2>3, <2>7, <2>8, SameForOnce, OnceOn DEF Hooked
<1>3. CASE PayOff(w)
  <2>1. SameRto /\ SameBooks /\ SameIntents /\ schedule' = schedule /\ task[w].step = "idle"
    BY <1>1, <1>3, PayOffEffect DEF PayOff, Goes
  <2>2. \/ task'[w] = [step |-> "open_intent", kind |-> "payoff", n |-> 0, amount |-> Payoff(rto)]
        \/ task'[w] = [step |-> "complete", via |-> "payoff"]
    BY <1>1, <1>3, PayOffAsks
  <2>3. \/ task'[w].step = "open_intent" /\ task'[w].kind = "payoff"
        \/ task'[w].step = "complete" /\ task'[w].via = "payoff"
    BY <2>2
  <2> QED
    BY <2>1, <2>3, SameForOnce, OnceOn DEF Hooked, ChargeAhead
<1> QED
  BY <1>2, <1>3

LEMMA AcceptCreateOnce ==
  ASSUME IInv, Kept, NEW w \in Workers, NEW d \in Deposits, AcceptCreate(w, d)
  PROVE  OnceAt(task[w])'
<1>1. /\ rto.status = "none" /\ rtoIntents = <<>> /\ SameBooks /\ SameIntents
      /\ Goes(w, "create_agreement", "open_charge")
      /\ rto'.kind = "none" /\ rto'.ask = 0
      /\ \A n \in 1..Instalments : schedule'[n] = "scheduled"
  BY AcceptCreateAlone
<1>2. rtoLedger = {}
  BY <1>1 DEF Kept, Listed
<1>3. BookedN = {}
  BY <1>2 DEF BookedN, Booked
<1>4. BookedN' = {}
  BY <1>1, <1>3, SameForOnce
<1>5. DOMAIN rtoIntents' = {}
  BY <1>1 DEF SameIntents
<1>6. task'[w].step = "open_charge"
  BY <1>1 DEF Goes
<1>7. DOMAIN schedule' = 1..Instalments
  BY DEF AcceptCreate
<1>8. DrawnOnce(task[w])'
  BY <1>5 DEF DrawnOnce
<1>9. StillOwed(task[w])'
  BY <1>6 DEF StillOwed, ChargeAhead, Hooked
<1>10. AskedRightly(task[w])'
  BY <1>1, <1>4, <1>7 DEF AskedRightly
<1> QED
  BY <1>8, <1>9, <1>10 DEF OnceAt

LEMMA AddedIntent ==
  ASSUME Typed, NEW kind, NEW n, NEW amount, NEW status, Adds(kind, n, amount, status)
  PROVE  /\ DOMAIN rtoIntents' = DOMAIN rtoIntents \cup {NextIntent}
         /\ NextIntent \notin DOMAIN rtoIntents /\ NextIntent # 0
         /\ \A i \in DOMAIN rtoIntents : i # 0 /\ rtoIntents'[i] = rtoIntents[i]
         /\ rtoIntents'[NextIntent].n = n /\ rtoIntents'[NextIntent].status = status
         /\ rtoIntents'[NextIntent].kind = kind
<1> DEFINE r == [kind |-> kind, n |-> n, amount |-> amount, status |-> status]
<1>1. r \in Intents /\ rtoIntents' = Opened(kind, n, amount, status)
  BY DEF Adds
<1>2. DOMAIN rtoIntents' = DOMAIN rtoIntents \cup {NextIntent}
  BY <1>1, IntentAdded
<1>3. NextIntent # 0 /\ NextIntent \notin DOMAIN rtoIntents
  BY <1>1, IntentAdded
<1>4. \A i \in DOMAIN rtoIntents : rtoIntents'[i] = rtoIntents[i]
  BY <1>1, IntentAdded
<1>5. rtoIntents'[NextIntent] = r
  BY <1>1, IntentAdded
<1>6. r.n = n /\ r.status = status /\ r.kind = kind
  OBVIOUS
<1>7. \A i \in DOMAIN rtoIntents : i # 0
  BY DEF Typed
<1> HIDE DEF r
<1> QED
  BY <1>2, <1>3, <1>4, <1>5, <1>6, <1>7

\* An intent for an instalment still owed, which is awaited or about to be booked.
LEMMA DrawnAnew ==
  ASSUME Typed, NEW w \in Workers, DrawnOnce(task[w]), task[w].step # "book",
         NEW kind, NEW n, NEW amount, NEW status, Adds(kind, n, amount, status),
         BookedN' = BookedN, n # 0 => n \notin BookedN /\ ~Awaiting(n),
         \/ /\ status = "open" /\ rto.pending = 0 /\ rto'.pending = NextIntent
            /\ n # 0 => Awaiting(n)'
         \/ /\ status = "succeeded" /\ SameRto
            /\ n # 0 /\ task'[w].step = "book" /\ task'[w].n = n
  PROVE  DrawnOnce(task[w])'
<1>1. /\ DOMAIN rtoIntents' = DOMAIN rtoIntents \cup {NextIntent}
      /\ NextIntent \notin DOMAIN rtoIntents /\ NextIntent # 0
      /\ \A i \in DOMAIN rtoIntents : i # 0 /\ rtoIntents'[i] = rtoIntents[i]
      /\ rtoIntents'[NextIntent].n = n /\ rtoIntents'[NextIntent].status = status
  BY AddedIntent
<1>2. ASSUME NEW i \in DOMAIN rtoIntents
      PROVE  /\ rtoIntents'[i].status # "declined"
             /\ rtoIntents'[i].status = "open" => rto'.pending = i \/ rtoIntents'[i].kind = "partial"
             /\ rtoIntents'[i].n # 0 =>
                  \/ rtoIntents'[i].n \in BookedN'
                  \/ rto'.pending = i /\ rto'.kind = "installment" /\ rto'.due = rtoIntents'[i].n
             /\ rtoIntents'[i].n # 0 => rtoIntents'[i].n # n
  <2>1. rtoIntents'[i] = rtoIntents[i] /\ i # 0
    BY <1>1
  <2>2. /\ rtoIntents[i].status # "declined"
        /\ rtoIntents[i].status = "open" => rto.pending = i \/ rtoIntents[i].kind = "partial"
        /\ rtoIntents[i].n # 0 =>
             rtoIntents[i].n \in BookedN \/ (rto.pending = i /\ Awaiting(rtoIntents[i].n))
    BY DEF DrawnOnce
  <2>3. CASE rto.pending = 0
    <3>1. rto.pending # i
      BY <2>1, <2>3
    <3> QED
      BY <2>1, <2>2, <3>1
  <2>4. CASE SameRto
    BY <2>1, <2>2, <2>4 DEF SameRto, Awaiting
  <2> QED
    BY <2>3, <2>4
<1>3. \A i \in DOMAIN rtoIntents' :
        /\ rtoIntents'[i].status # "declined"
        /\ rtoIntents'[i].status = "open" => rto'.pending = i \/ rtoIntents'[i].kind = "partial"
        /\ rtoIntents'[i].n # 0 =>
             \/ rtoIntents'[i].n \in BookedN'
             \/ rto'.pending = i /\ rto'.kind = "installment" /\ rto'.due = rtoIntents'[i].n
             \/ task'[w].step = "book" /\ task'[w].n = rtoIntents'[i].n
  <2> SUFFICES ASSUME NEW i \in DOMAIN rtoIntents'
               PROVE  /\ rtoIntents'[i].status # "declined"
                      /\ rtoIntents'[i].status = "open" => rto'.pending = i \/ rtoIntents'[i].kind = "partial"
                      /\ rtoIntents'[i].n # 0 =>
                           \/ rtoIntents'[i].n \in BookedN'
                           \/ rto'.pending = i /\ rto'.kind = "installment" /\ rto'.due = rtoIntents'[i].n
                           \/ task'[w].step = "book" /\ task'[w].n = rtoIntents'[i].n
    OBVIOUS
  <2>1. CASE i \in DOMAIN rtoIntents
    BY <1>2, <2>1
  <2>2. CASE i = NextIntent
    <3>1. rtoIntents'[i].n = n /\ rtoIntents'[i].status = status
      BY <1>1, <2>2
    <3> QED
      BY <2>2, <3>1 DEF Awaiting
  <2> QED
    BY <1>1, <2>1, <2>2
<1>4. \A i, j \in DOMAIN rtoIntents : rtoIntents[i].n # 0 /\ rtoIntents[i].n = rtoIntents[j].n => i = j
  BY DEF DrawnOnce
<1>5. \A i, j \in DOMAIN rtoIntents' :
        rtoIntents'[i].n # 0 /\ rtoIntents'[i].n = rtoIntents'[j].n => i = j
  BY <1>1, <1>2, <1>4
<1> QED
  BY <1>3, <1>5 DEF DrawnOnce, Awaiting

\* The agreement awaits nothing, and asks for nothing.
LEMMA NothingAwaited ==
  ASSUME Linked, NEW t, OnceAt(t), rto.pending = 0
  PROVE  rto.kind = "none" /\ (~Hooked(t) => rto.ask = 0) /\ (\A n : ~Awaiting(n))
BY DEF Linked, OnceAt, AskedRightly, Awaiting

\* Handlers that open an intent which the agreement then awaits.
LEMMA OpensOnce ==
  ASSUME IInv, Kept, NEW w \in Workers, OnceAt(task[w]), Undoubled',
         AcceptCharge(w) \/ SweepChallenged(w) \/ OpenIntent(w)
  PROVE  OnceAt(task[w])'
<1>1. Typed /\ Linked /\ DrawnOnce(task[w]) /\ StillOwed(task[w]) /\ AskedRightly(task[w])
  BY DEF IInv, Kept, OnceAt
<1>2. "superseded" \notin befell'
  BY DEF Undoubled, Spared
<1>3. PricedTask(task[w])
  BY DEF Kept, Priced
<1>4. /\ SameBooks /\ schedule' = schedule /\ rto.pending = 0 /\ rto'.pending = NextIntent
      /\ task[w].step \in {"open_charge", "charge", "open_intent"} /\ task'[w].step = "idle"
  BY <1>1, <1>2, AcceptChargeAdds, SweepAdds, OpenIntentAdds DEF Goes
<1>5. ~Hooked(task[w])
  BY <1>4 DEF Hooked
<1>6. rto.kind = "none" /\ rto.ask = 0 /\ (\A n : ~Awaiting(n))
  BY <1>1, <1>4, <1>5, NothingAwaited
<1>7. BookedN' = BookedN
  BY <1>4, SameForOnce
<1>8. \E kind, n, amount :
        /\ Adds(kind, n, amount, "open")
        /\ n # 0 => n \notin BookedN /\ rto'.kind = "installment" /\ rto'.due = n
        /\ rto'.kind = "installment" => n # 0
        /\ rto'.ask = 0 \/ rto'.kind = "installment"
  <2>1. CASE AcceptCharge(w)
    BY <1>1, <1>6, <2>1, AcceptChargeAdds
  <2>2. CASE SweepChallenged(w)
    <3>1. /\ Adds("sweep", task[w].n, Price, "open") /\ rto'.kind = "installment"
          /\ rto'.due = task[w].n /\ task[w].n \in 1..Instalments /\ task[w].step = "charge"
      BY <1>1, <2>2, SweepAdds
    <3>2. task[w].n # 0 /\ task[w].n \notin BookedN
      BY <1>1, <3>1 DEF StillOwed, ChargeAhead
    <3> QED
      BY <3>1, <3>2
  <2>3. CASE OpenIntent(w)
    <3>1. /\ task[w].step = "open_intent" /\ task[w].kind \in {"installment", "payoff"}
          /\ Adds(task[w].kind, task[w].n, task[w].amount, "open")
          /\ rto'.kind = task[w].kind /\ rto'.ask = rto.ask
          /\ rto'.due = IF task[w].kind = "installment" THEN task[w].n ELSE rto.due
      BY <1>1, <2>3, OpenIntentAdds
    <3>2. IF task[w].kind = "installment" THEN task[w].n \in 1..Instalments ELSE task[w].n = 0
      BY <1>3, <3>1 DEF PricedTask
    <3>3. task[w].kind = "installment" => task[w].n \notin BookedN
      BY <1>1, <3>1 DEF StillOwed, ChargeAhead
    <3>4. task[w].n # 0 <=> task[w].kind = "installment"
      BY <3>2
    <3> QED
      BY <1>6, <3>1, <3>3, <3>4
  <2> QED
    BY <2>1, <2>2, <2>3
<1>9. PICK kind, n, amount :
        /\ Adds(kind, n, amount, "open")
        /\ n # 0 => n \notin BookedN /\ rto'.kind = "installment" /\ rto'.due = n
        /\ rto'.kind = "installment" => n # 0
        /\ rto'.ask = 0 \/ rto'.kind = "installment"
  BY <1>8
<1>10. DrawnOnce(task[w])'
  <2>1. n # 0 => Awaiting(n)'
    BY <1>9 DEF Awaiting
  <2>2. n # 0 => n \notin BookedN /\ ~Awaiting(n)
    BY <1>6, <1>9
  <2>3. task[w].step # "book"
    BY <1>4
  <2> QED
    BY <1>1, <1>4, <1>7, <1>9, <2>1, <2>2, <2>3, DrawnAnew
<1>11. StillOwed(task[w])'
  BY <1>4 DEF StillOwed, ChargeAhead, Hooked
<1>12. AskedRightly(task[w])'
  BY <1>1, <1>4, <1>7, <1>9 DEF AskedRightly
<1> QED
  BY <1>10, <1>11, <1>12 DEF OnceAt

LEMMA SweepChargeOnce ==
  ASSUME IInv, Kept, NEW w \in Workers, OnceAt(task[w]), SweepCharge(w)
  PROVE  OnceAt(task[w])'
<1>1. Typed /\ DrawnOnce(task[w]) /\ StillOwed(task[w]) /\ AskedRightly(task[w])
  BY DEF IInv, OnceAt
<1>2. /\ task[w].step = "charge" /\ task[w].n \in 1..Instalments
      /\ SameBooks /\ Adds("sweep", task[w].n, Price, "succeeded")
      /\ SameRto /\ schedule' = schedule /\ task'[w].step = "book"
      /\ task'[w].n = task[w].n /\ task'[w].via = task[w].via
  BY <1>1, SweepAdds DEF Goes
<1>3. BookedN' = BookedN
  BY <1>2, SameForOnce
<1>4. task[w].n # 0 /\ task[w].n \notin BookedN /\ ~Awaiting(task[w].n) /\ task[w].via = "sweep"
  BY <1>1, <1>2 DEF StillOwed, ChargeAhead
<1>5. DrawnOnce(task[w])'
  BY <1>1, <1>2, <1>3, <1>4, DrawnAnew
<1>6. StillOwed(task[w])'
  BY <1>2, <1>3, <1>4 DEF StillOwed, ChargeAhead, Hooked, Awaiting, SameRto
<1>7. AskedRightly(task[w])'
  BY <1>1, <1>2, <1>3 DEF AskedRightly, SameRto, Hooked
<1> QED
  BY <1>5, <1>6, <1>7 DEF OnceAt

LEMMA SettleClaimOnce ==
  ASSUME IInv, Kept, NEW w \in Workers, NEW i \in DOMAIN rtoIntents, SettleClaim(w, i),
         OnceAt(task[w])
  PROVE  OnceAt(task[w])'
<1>1. Typed /\ Awaited /\ DrawnOnce(task[w]) /\ StillOwed(task[w]) /\ AskedRightly(task[w])
  BY DEF IInv, OnceAt
<1>2. /\ task[w].step = "idle" /\ SameBooks /\ SameIntents /\ schedule' = schedule
      /\ rtoIntents[i].status = "succeeded" /\ rto.pending = i
      /\ rto'.pending = 0 /\ rto'.kind = "none" /\ rto'.ask = rto.ask
  BY <1>1, SettleClaimTakes DEF Idle
<1>3. BookedN' = BookedN
  BY <1>2, SameForOnce
<1>4. rto.kind = "installment" => rto.due # 0 /\ rto.due \notin BookedN
  BY <1>1 DEF AskedRightly
<1>5. \/ rto.kind # "installment" /\ task'[w].step \in {"book_deposit", "attach_card", "book_payoff"}
      \/ /\ rto.kind = "installment" /\ task'[w].step = "book" /\ task'[w].n = rto.due
         /\ task'[w].via = "hook"
  <2>1. \/ rto.kind = "acceptance" /\ task'[w] = [step |-> "book_deposit"]
        \/ rto.kind = "card_setup" /\ task'[w] = [step |-> "attach_card"]
        \/ /\ rto.kind = "payoff"
           /\ task'[w] = [step |-> "book_payoff", amount |-> rtoIntents[i].amount, doc |-> Counts]
        \/ /\ rto.kind = "installment"
           /\ task'[w] = [step |-> "book", n |-> rto.due, doc |-> Counts, via |-> "hook"]
    BY <1>1, <1>4, SettleClaimTakes
  <2> QED
    BY <2>1
<1>6. DrawnOnce(task[w])'
  <2>1. \A j \in DOMAIN rtoIntents :
          /\ rtoIntents[j].status # "declined"
          /\ rtoIntents[j].status = "open" => rto.pending = j \/ rtoIntents[j].kind = "partial"
          /\ rtoIntents[j].n # 0 =>
               rtoIntents[j].n \in BookedN \/ (rto.pending = j /\ Awaiting(rtoIntents[j].n))
    BY <1>1, <1>2 DEF DrawnOnce
  <2>2. \A j \in DOMAIN rtoIntents :
          /\ rtoIntents[j].status # "declined"
          /\ rtoIntents[j].status = "open" => rtoIntents[j].kind = "partial"
          /\ rtoIntents[j].n # 0 =>
               \/ rtoIntents[j].n \in BookedN'
               \/ task'[w].step = "book" /\ task'[w].n = rtoIntents[j].n
    BY <1>2, <1>3, <1>5, <2>1 DEF Awaiting
  <2> QED
    BY <1>1, <1>2, <2>2 DEF DrawnOnce, SameIntents
<1>7. StillOwed(task[w])'
  BY <1>2, <1>3, <1>4, <1>5 DEF StillOwed, ChargeAhead, Awaiting
<1>8. AskedRightly(task[w])'
  <2>1. rto.ask # 0 => rto.kind = "installment"
    BY <1>1, <1>2 DEF AskedRightly, Hooked
  <2>2. \A n \in 1..Instalments : schedule[n] # "missed" /\ (n \in BookedN => schedule[n] # "scheduled")
    BY <1>1, <1>2 DEF AskedRightly
  <2>3. rto.ask # 0 => Hooked(task[w])'
    BY <1>5, <2>1 DEF Hooked
  <2> QED
    BY <1>1, <1>2, <1>3, <2>2, <2>3 DEF AskedRightly
<1> QED
  BY <1>6, <1>7, <1>8 DEF OnceAt

LEMMA BookInstalmentOnce ==
  ASSUME IInv, Kept, NEW w \in Workers, BookInstalment(w), OnceAt(task[w])
  PROVE  OnceAt(task[w])'
<1> DEFINE n == task[w].n
           line == Line(<<"instalment", n>>, Price, 1)
<1>1. Typed /\ DrawnOnce(task[w]) /\ StillOwed(task[w]) /\ AskedRightly(task[w])
  BY DEF IInv, OnceAt
<1>2. task[w].step = "book"
  BY DEF BookInstalment, At
<1>3. n \notin BookedN /\ ~Awaiting(n)
  BY <1>1, <1>2 DEF StillOwed
<1>4. SameRto /\ SameIntents /\ n \in 1..Instalments /\ schedule' = schedule
  BY <1>1, BookInstalmentEnters DEF BookInstalment
<1>5. /\ task'[w].step = "claim_instalment" /\ task'[w].n = n /\ task'[w].via = task[w].via
      /\ Enters(line)
  <2>1. ~Booked(<<"instalment", n>>)
    BY <1>3, <1>4 DEF BookedN
  <2> QED
    BY <1>1, <2>1, BookInstalmentEnters DEF Goes
<1>6. BookedN' = BookedN \cup {n}
  <2>1. line.key = <<"instalment", n>>
    BY DEF Line
  <2> HIDE DEF line
  <2>2. \A m : Booked(<<"instalment", m>>)' <=> (Booked(<<"instalment", m>>) \/ m = n)
    <3>1. \A m : <<"instalment", m>> = <<"instalment", n>> <=> m = n
      <4>1. ASSUME NEW m, <<"instalment", m>> = <<"instalment", n>> PROVE m = n
        <5>1. <<"instalment", m>>[2] = <<"instalment", n>>[2]
          BY <4>1
        <5> QED
          BY <5>1
      <4> QED
        BY <4>1
    <3> QED
      BY <1>5, <2>1, <3>1, BookedEnters
  <2> HIDE DEF n
  <2> QED
    BY <1>4, <2>2 DEF BookedN
<1> HIDE DEF n, line
<1>7. DrawnOnce(task[w])'
  <2>1. \A i \in DOMAIN rtoIntents :
          rtoIntents[i].n # 0 => rtoIntents[i].n \in BookedN' \/ (rto.pending = i /\ Awaiting(rtoIntents[i].n))
    BY <1>1, <1>6 DEF DrawnOnce, n
  <2> QED
    BY <1>1, <1>4, <2>1 DEF DrawnOnce, SameRto, SameIntents, Awaiting
<1>8. Hooked(task[w])' <=> Hooked(task[w])
  BY <1>2, <1>5 DEF Hooked
<1>9. StillOwed(task[w])'
  BY <1>1, <1>4, <1>5, <1>8 DEF StillOwed, ChargeAhead, SameRto
<1>10. AskedRightly(task[w])'
  <2>1. \A m \in 1..Instalments : schedule[m] # "missed" /\ (m \in BookedN => schedule[m] # "scheduled")
    BY <1>1, <1>2 DEF AskedRightly
  <2>2. rto.kind = "installment" => rto.due # 0 /\ rto.due \notin BookedN'
    BY <1>1, <1>3, <1>6 DEF AskedRightly, Awaiting
  <2> QED
    BY <1>1, <1>4, <1>5, <1>6, <1>8, <2>1, <2>2 DEF AskedRightly, SameRto
<1> QED
  BY <1>7, <1>9, <1>10 DEF OnceAt

LEMMA ClaimInstalmentOnce ==
  ASSUME IInv, Kept, NEW w \in Workers, ClaimInstalment(w), OnceAt(task[w])
  PROVE  OnceAt(task[w])'
<1>1. Typed /\ DrawnOnce(task[w]) /\ StillOwed(task[w]) /\ AskedRightly(task[w])
  BY DEF IInv, OnceAt
<1>2. SameRto /\ SameIntents /\ SameBooks
  BY <1>1, ClaimInstalmentEffect
<1>3. /\ task[w].step = "claim_instalment" /\ task'[w].step = "apply" /\ task'[w].via = task[w].via
      /\ task[w].n \in 1..Instalments
  <2>1. task[w] \in Tasks /\ task[w].step = "claim_instalment" /\ Goto(w, "apply")
    BY <1>1 DEF ClaimInstalment, At, Typed
  <2>2. task[w] \in Latests
    BY <2>1, TaskForms DEF LatestSteps
  <2> QED
    BY <1>1, <2>1, <2>2, GotoMoves DEF LatestSteps, Idle, Latests
<1>4. BookedN' = BookedN
  BY <1>2, SameForOnce
<1>5. schedule' = IF schedule[task[w].n] = "scheduled"
                  THEN [schedule EXCEPT ![task[w].n] = "paid"] ELSE schedule
  BY DEF ClaimInstalment, ClaimsInstalment
<1>6. DrawnOnce(task[w])'
  BY <1>1, <1>2, <1>3, <1>4 DEF DrawnOnce, SameRto, SameIntents, Awaiting
<1>7. Hooked(task[w])' <=> Hooked(task[w])
  BY <1>3 DEF Hooked
<1>8. StillOwed(task[w])'
  BY <1>1, <1>2, <1>3, <1>7 DEF StillOwed, ChargeAhead, SameRto
<1>9. AskedRightly(task[w])'
  <2>1. DOMAIN schedule = 1..Instalments
    BY <1>1 DEF AskedRightly
  <2>2. DOMAIN schedule' = 1..Instalments
    BY <1>5, <2>1
  <2>3. \A n \in 1..Instalments :
          schedule'[n] = IF n = task[w].n /\ schedule[n] = "scheduled" THEN "paid" ELSE schedule[n]
    BY <1>3, <1>5, <2>1
  <2>4. \A n \in 1..Instalments :
          /\ schedule[n] # "missed"
          /\ n \in BookedN /\ schedule[n] = "scheduled" => n = task[w].n
    BY <1>1 DEF AskedRightly
  <2>5. \A n \in 1..Instalments :
          /\ schedule'[n] # "missed"
          /\ n \in BookedN => schedule'[n] # "scheduled"
    BY <2>3, <2>4
  <2> QED
    BY <1>1, <1>2, <1>4, <1>7, <2>2, <2>5 DEF AskedRightly, SameRto
<1> QED
  BY <1>6, <1>8, <1>9 DEF OnceAt

LEMMA ClearAskOnce ==
  ASSUME IInv, Kept, NEW w \in Workers, ClearAsk(w), OnceAt(task[w])
  PROVE  OnceAt(task[w])'
<1>1. Typed /\ DrawnOnce(task[w]) /\ StillOwed(task[w]) /\ AskedRightly(task[w])
  BY DEF IInv, OnceAt
<1>2. SameIntents /\ SameBooks /\ schedule' = schedule
  BY <1>1, ClearAskEffect DEF ClearAsk
<1>3. task[w].step = "clear" /\ task'[w].step = "idle"
  BY <1>1, ClearAskEffect DEF Goes
<1>4. rto.kind = "none"
  BY <1>1, <1>3 DEF StillOwed, Hooked
<1>5. rto'.pending = rto.pending /\ rto'.kind = "none" /\ rto'.ask = 0
  <2> DEFINE doc == [rto EXCEPT !.ask = 0, !.due = 0]
  <2>1. doc \in Agreements /\ doc.pending = rto.pending /\ doc.kind = rto.kind /\ doc.ask = 0
    <3>1. rto \in Agreements /\ 0 \in 0..Instalments
      BY <1>1, RtoAssumption DEF Typed
    <3> QED
      BY <3>1 DEF Agreements
  <2>2. KeepsCard(w, doc)
    BY DEF ClearAsk
  <2> HIDE DEF doc
  <2> QED
    BY <1>4, <2>1, <2>2, CardAsks
<1>6. BookedN' = BookedN
  BY <1>2, SameForOnce
<1>7. DrawnOnce(task[w])'
  BY <1>1, <1>2, <1>3, <1>4, <1>5, <1>6 DEF DrawnOnce, SameIntents, Awaiting
<1>8. StillOwed(task[w])'
  BY <1>3 DEF StillOwed, ChargeAhead, Hooked
<1>9. AskedRightly(task[w])'
  BY <1>1, <1>2, <1>3, <1>5, <1>6 DEF AskedRightly
<1> QED
  BY <1>7, <1>8, <1>9 DEF OnceAt

LEMMA OnceActs ==
  ASSUME IInv, Kept, Once, NEW w \in Workers, Acts(w)
  PROVE  Once'
<1>1. Typed /\ Moves(w)
  BY ActsMoves DEF IInv
<1>2. ASSUME Undoubled', OnceAt(task[w])
      PROVE  OnceAt(task[w])'
  <2>1. ~RtoCrash(w) /\ ~SweepThrows(w) /\ ~SweepMissed(w)
    <3>1. {"crash", "thrown", "missed"} \cap befell' = {}
      BY <1>2 DEF Undoubled, Spared, Interrupted
    <3>2. /\ SweepThrows(w) => "thrown" \in befell'
          /\ SweepMissed(w) => "missed" \in befell'
      BY DEF SweepThrows, SweepMissed, FinishAfter, Befalls
    <3> QED
      BY <1>1, <3>1, <3>2, CrashEffect
  <2>2. ASSUME NEW d \in Deposits, AcceptCreate(w, d) PROVE OnceAt(task[w])'
    BY <2>2, AcceptCreateOnce
  <2>3. ASSUME NEW i \in DOMAIN rtoIntents, SettleClaim(w, i) PROVE OnceAt(task[w])'
    BY <1>2, <2>3, SettleClaimOnce
  <2> QED
    BY <1>2, <2>1, <2>2, <2>3, AsideActs, SweepOnce, CountOnce, AskOnce, OpensOnce, SweepChargeOnce,
       BookInstalmentOnce, ClaimInstalmentOnce, ClearAskOnce DEF Acts, Handles
<1> QED
  BY <1>1, <1>2, OnceGoes

\* No intent is opened but for a part payment; some may be confirmed.
NoneDrawn ==
  \A i \in DOMAIN rtoIntents' :
    \/ /\ i \in DOMAIN rtoIntents
       /\ rtoIntents'[i].n = rtoIntents[i].n /\ rtoIntents'[i].kind = rtoIntents[i].kind
       /\ rtoIntents'[i].status \in {rtoIntents[i].status, "succeeded"}
    \/ rtoIntents'[i].n = 0 /\ rtoIntents'[i].kind = "partial" /\ rtoIntents'[i].status = "open"

LEMMA OnceStill ==
  ASSUME Once, task' = task, befell \subseteq befell', NoneDrawn, SameAsks, BookedN' = BookedN,
         schedule' = schedule
  PROVE  Once'
<1>1. Undoubled' => Undoubled
  BY UndoubledBefore
<1>2. ASSUME NEW w \in Workers, OnceAt(task[w])
      PROVE  OnceAt(task[w])'
  <2>1. DrawnOnce(task[w]) /\ StillOwed(task[w]) /\ AskedRightly(task[w])
    BY <1>2 DEF OnceAt
  <2>2. DrawnOnce(task[w])'
    BY <2>1 DEF DrawnOnce, NoneDrawn, SameAsks, Awaiting
  <2>3. StillOwed(task[w])'
    BY <2>1 DEF StillOwed, ChargeAhead, Hooked, SameAsks, Awaiting
  <2>4. AskedRightly(task[w])'
    BY <2>1 DEF AskedRightly, Hooked, SameAsks
  <2> QED
    BY <2>2, <2>3, <2>4 DEF OnceAt
<1>3. ASSUME OnceAt(Resting)
      PROVE  OnceAt(Resting)'
  <2>1. DrawnOnce(Resting) /\ StillOwed(Resting) /\ AskedRightly(Resting)
    BY <1>3 DEF OnceAt
  <2>2. DrawnOnce(Resting)'
    BY <2>1 DEF DrawnOnce, NoneDrawn, SameAsks, Awaiting, Resting
  <2>3. StillOwed(Resting)'
    BY <2>1 DEF StillOwed, ChargeAhead, Hooked, SameAsks, Awaiting, Resting
  <2>4. AskedRightly(Resting)'
    BY <2>1 DEF AskedRightly, Hooked, SameAsks, Resting
  <2> QED
    BY <2>2, <2>3, <2>4 DEF OnceAt
<1> QED
  BY <1>1, <1>2, <1>3 DEF Once, Idle, AllIdle

LEMMA OtherLineN ==
  ASSUME NEW line, Enters(line), line.key[1] # "instalment"
  PROVE  BookedN' = BookedN
<1>1. \A n : <<"instalment", n>>[1] = "instalment"
  OBVIOUS
<1>2. \A n : line.key # <<"instalment", n>>
  BY <1>1
<1> QED
  BY <1>2, BookedEnters DEF BookedN

LEMMA SameIntentsDrawNone ==
  ASSUME SameIntents
  PROVE  NoneDrawn
BY DEF SameIntents, NoneDrawn

LEMMA NextKeepsOnce == IInv /\ Kept /\ Once /\ [RtoNext]_rtoVars => Once'
<1> SUFFICES ASSUME IInv, Kept, Once, [RtoNext]_rtoVars
             PROVE  Once'
  OBVIOUS
<1>1. Typed /\ Listed
  BY DEF IInv, Kept
<1>2. ASSUME NEW w \in Workers, Acts(w) PROVE Once'
  BY <1>2, OnceActs
<1>3. CASE Escalate
  <2>1. /\ Watches /\ SameIntents /\ Settles /\ rto'.due = rto.due
        /\ schedule' = schedule /\ rto'.ask = rto.ask
        /\ SameBooks \/ \E n \in 1..Instalments : Enters(Line(<<"late_fee", n>>, 1, 0))
    BY <1>1, <1>3, EscalateEnters
  <2>2. ASSUME NEW n \in 1..Instalments, Enters(Line(<<"late_fee", n>>, 1, 0))
        PROVE  BookedN' = BookedN
    <3> DEFINE line == Line(<<"late_fee", n>>, 1, 0)
    <3>1. line.key[1] = "late_fee" /\ Enters(line)
      BY <2>2 DEF Line
    <3> HIDE DEF line
    <3> QED
      BY <3>1, OtherLineN
  <2>3. BookedN' = BookedN
    BY <2>1, <2>2, SameForOnce
  <2> QED
    BY <2>1, <2>3, SameIntentsDrawNone, OnceStill DEF Watches, Settles, SameAsks
<1>4. ASSUME NEW w \in Workers, PartialPayment(w) PROVE Once'
  <2> DEFINE line == Line(<<"partial", 0>>, 1, 0)
  <2>1. /\ Watches /\ Waits(rto) /\ rto'.ask = rto.ask /\ schedule' = schedule
        /\ rtoIntents' = Opened("partial", 0, 1, "open")
        /\ [kind |-> "partial", n |-> 0, amount |-> 1, status |-> "open"] \in Intents
        /\ SameBooks \/ Enters(line)
    BY <1>1, <1>4, PartialPaymentEnters
  <2>2. line.key[1] = "partial"
    BY DEF Line
  <2> HIDE DEF line
  <2>3. BookedN' = BookedN
    BY <2>1, <2>2, SameForOnce, OtherLineN
  <2>4. Adds("partial", 0, 1, "open")
    BY <2>1 DEF Adds
  <2>5. NoneDrawn
    <3>1. /\ DOMAIN rtoIntents' = DOMAIN rtoIntents \cup {NextIntent}
          /\ \A i \in DOMAIN rtoIntents : rtoIntents'[i] = rtoIntents[i]
          /\ rtoIntents'[NextIntent].n = 0 /\ rtoIntents'[NextIntent].status = "open"
          /\ rtoIntents'[NextIntent].kind = "partial"
      BY <1>1, <2>4, AddedIntent
    <3> QED
      BY <3>1 DEF NoneDrawn
  <2> QED
    BY <2>1, <2>3, <2>5, OnceStill DEF Watches, Waits, SameAsks
<1>5. ASSUME NEW w \in Workers, Reinstate(w) PROVE Once'
  BY <1>1, <1>5, ReinstateSays, SameForOnce, SameIntentsDrawNone, OnceStill
     DEF Watches, Settles, SameAsks
<1>6. ASSUME NEW i \in DOMAIN rtoIntents, Confirm(i) PROVE Once'
  <2>1. /\ Watches /\ SameRto /\ SameBooks /\ schedule' = schedule
        /\ DOMAIN rtoIntents' = DOMAIN rtoIntents
        /\ \A j \in DOMAIN rtoIntents :
             /\ rtoIntents'[j].kind = rtoIntents[j].kind /\ rtoIntents'[j].n = rtoIntents[j].n
             /\ rtoIntents'[j].status = IF j = i THEN "succeeded" ELSE rtoIntents[j].status
    BY <1>1, <1>6, ConfirmSays
  <2>2. NoneDrawn
    BY <2>1 DEF NoneDrawn
  <2> QED
    BY <2>1, <2>2, SameForOnce, OnceStill DEF Watches
<1>7. CASE Offering
  BY <1>7, OfferActs, SameForOnce, SameIntentsDrawNone, OnceStill
<1>8. CASE UNCHANGED rtoVars
  <2>1. SameRto /\ SameBooks /\ SameIntents /\ schedule' = schedule /\ task' = task /\ befell' = befell
    BY <1>8 DEF rtoVars, SameRto, SameBooks, SameIntents
  <2> QED
    BY <2>1, SameForOnce, SameIntentsDrawNone, OnceStill
<1> QED
  BY <1>2, <1>3, <1>4, <1>5, <1>6, <1>7, <1>8, NextCases DEF Acts, Offering

LEMMA InitOnce == HandlersInit /\ RtoInit => Once
<1> SUFFICES ASSUME HandlersInit, RtoInit
             PROVE  OnceAt(Resting)
  BY DEF HandlersInit, Once, Idle, Resting
<1>1. /\ rtoLedger = {} /\ rto.kind = "none" /\ rto.ask = 0 /\ rtoIntents = <<>>
      /\ schedule = [n \in 1..Instalments |-> "none"]
  BY DEF RtoInit, NoAgreement
<1>2. BookedN = {}
  BY <1>1 DEF BookedN, Booked
<1>3. DrawnOnce(Resting)
  BY <1>1 DEF DrawnOnce
<1>4. StillOwed(Resting)
  BY DEF StillOwed, ChargeAhead, Hooked, Resting
<1>5. AskedRightly(Resting)
  BY <1>1, <1>2 DEF AskedRightly
<1> QED
  BY <1>3, <1>4, <1>5 DEF OnceAt

LEMMA OnceInvariant == RtoSpec => []Once
BY InitOnce, NextKeepsOnce, Invariant, KeptInvariant, PTL DEF RtoSpec

LEMMA PaidOnce == IInv /\ Once => RtoInstalmentPaidOnce
<1> SUFFICES ASSUME IInv, Once, Undoubled, NEW n \in 1..Instalments
             PROVE  Cardinality({i \in DOMAIN rtoIntents :
                      rtoIntents[i].n = n /\ rtoIntents[i].status = "succeeded"}) <= 1
  BY DEF RtoInstalmentPaidOnce, Undoubled
<1> DEFINE S == {i \in DOMAIN rtoIntents : rtoIntents[i].n = n /\ rtoIntents[i].status = "succeeded"}
<1>1. \A i, j \in DOMAIN rtoIntents : rtoIntents[i].n # 0 /\ rtoIntents[i].n = rtoIntents[j].n => i = j
  <2>1. CASE AllIdle
    BY <2>1 DEF Once, OnceAt, DrawnOnce
  <2>2. CASE ~AllIdle
    BY <2>2 DEF Once, OnceAt, DrawnOnce, AllIdle
  <2> QED
    BY <2>1, <2>2
<1>2. \A i, j \in S : i = j
  BY <1>1
<1>3. S = {} \/ \E i : S = {i}
  BY <1>2
<1>4. Cardinality(S) = 0 \/ Cardinality(S) = 1
  BY <1>3, FS_EmptySet, FS_Singleton
<1> QED
  BY <1>4

-----------------------------------------------------------------------------
(***************************************************************************)
(* What was charged is booked, or about to be.                             *)
(***************************************************************************)

AllBooked == Undoubled /\ Spared({"payoff_moved"}) => Charged <= Balance(Received)

\* A handler that goes on to rest from a booking was broken off.
LEMMA RestsBookNothing ==
  ASSUME IInv, NEW w \in Workers, Rests(w)
  PROVE  task[w].step \notin Booking \/ "crash" \in befell' \/ "thrown" \in befell'
<1>1. Typed
  BY DEF IInv
<1> USE DEF Goes, Booking
<1>2. CASE \/ AcceptBegin(w) \/ AcceptClaim(w) \/ AcceptRefused(w) \/ SweepList(w)
           \/ PayInstalment(w) \/ PayOff(w) \/ ReturnBegin(w)
           \/ (\E to \in Remedies : RemedyRead(w, to))
  BY <1>1, <1>2, AcceptBeginEffect, AcceptClaimEffect, AcceptRefusedEffect, SweepListEffect,
     PayInstalmentEffect, PayOffEffect, ReturnBeginEffect, RemedyReadEffect
<1>3. CASE SweepLoad(w) \/ AttachCard(w) \/ ApplyInstalment(w) \/ Complete(w) \/ ClearAsk(w) \/ RemedyApply(w)
  BY <1>1, <1>3, SweepLoadEffect, AttachCardEffect, ApplyInstalmentEffect, CompleteEffect,
     ClearAskEffect, RemedyApplyEffect
<1>4. CASE CreditDeposit(w) \/ ClaimInstalment(w) \/ CreditPayoff(w)
  BY <1>1, <1>4, CreditDepositEffect, ClaimInstalmentEffect, CreditPayoffEffect
<1>5. CASE SweepThrows(w)
  BY <1>5 DEF SweepThrows, FinishAfter, Befalls
<1>6. CASE RtoCrash(w)
  BY <1>1, <1>6, CrashEffect
<1> QED
  BY <1>2, <1>3, <1>4, <1>5, <1>6 DEF Rests

LEMMA AllBookedActs ==
  ASSUME IInv, IInv', Kept, Tally, Once, AllBooked, NEW w \in Workers, Acts(w)
  PROVE  AllBooked'
<1> DEFINE K == Received
<1> SUFFICES ASSUME Undoubled', Spared({"payoff_moved"})'
             PROVE  Charged' <= Balance(K)'
  BY DEF AllBooked
<1>1. Moves(w) /\ befell \subseteq befell'
  BY ActsMoves DEF Moves
<1>2. /\ {"crash", "thrown", "superseded", "asked", "missed"} \cap befell' = {}
      /\ Undoubled /\ Spared(Interrupted)'
  BY <1>1, UndoubledBefore
<1>3. "payoff_moved" \notin befell' /\ Spared({"payoff_moved"})
  BY <1>1, SparedBefore DEF Spared
<1>4. OnceAt(task[w]) /\ Tallies(task[w])
  BY <1>1, <1>2, OnceHere, TallyHere
<1>5. Charged <= Total(Entries(K)) + Held + AwaitedSum
  BY <1>2, <1>3 DEF AllBooked, Balance
<1>6. "refund" \notin K /\ "initial" \in K /\ "instalment" \in K
  BY DEF Received
<1> HIDE DEF K
<1>7. /\ Total(Entries(K)) \in Int /\ Held \in Nat /\ AwaitedSum \in Nat
      /\ Collected \in Nat /\ Charged \in Nat
  BY SumsType
<1>8. ASSUME NEW e \in Int, NEW h \in Int, NEW a \in Int, NEW t \in Int, NEW x \in Int,
             Shifts(K, e, h, a, t, x), x <= e + h + a
      PROVE  Charged' <= Balance(K)'
  <2>1. Balance(K)' = Total(Entries(K))' + Held' + AwaitedSum'
    BY DEF Balance
  <2> QED
    BY <1>5, <1>7, <1>8, <2>1 DEF Shifts
<1>9. CASE Rests(w)
  <2>1. PICK claim \in Nat : /\ Shifts(K, 0, -claim, 0, 0, 0)
                             /\ task[w].step \notin Booking => claim = 0
    BY <1>9, RestsShift
  <2>2. claim = 0
    BY <1>2, <1>9, <2>1, RestsBookNothing
  <2> QED
    BY <1>8, <2>1, <2>2
<1>10. ASSUME NEW d \in Deposits, AcceptCreate(w, d) PROVE Charged' <= Balance(K)'
  BY <1>8, <1>10, CreateShift
<1>11. CASE AcceptCharge(w) \/ SweepChallenged(w) \/ OpenIntent(w)
  <2>1. Shifts(K, 0, 0, -AwaitedSum, 0, 0) /\ (AwaitedSum # 0 => "superseded" \in befell')
    BY <1>11, OpensShift
  <2>2. AwaitedSum = 0
    BY <1>2, <2>1
  <2> QED
    BY <1>8, <2>1, <2>2
<1>12. CASE SweepCharge(w)
  <2>1. Shifts(K, 0, 2, 0, 2, 2)
    BY <1>12, ChargeShift
  <2> QED
    BY <1>8, <2>1
<1>13. CASE SweepMissed(w)
  BY <1>8, <1>13, MissedShift
<1>14. ASSUME NEW i \in DOMAIN rtoIntents, SettleClaim(w, i) PROVE Charged' <= Balance(K)'
  <2>1. PICK claim \in Nat : /\ Shifts(K, 0, claim, -AwaitedSum, 0, 0)
                             /\ claim = AwaitedSum \/ (rto.kind = "installment" /\ rto.due = 0)
    BY <1>14, ClaimShift
  <2>2. claim = AwaitedSum
    BY <1>4, <2>1 DEF OnceAt, AskedRightly
  <2>3. claim \in Int /\ -AwaitedSum \in Int /\ 0 <= 0 + claim + -AwaitedSum
    BY <1>7, <2>2
  <2> QED
    BY <1>8, <2>1, <2>3
<1>15. CASE BookDeposit(w) \/ BookInstalment(w) \/ BookPayoff(w)
  <2>1. PICK claim \in Nat :
           \/ Shifts(K, 0, -claim, 0, 0, 0)
              /\ \/ BookDeposit(w) /\ (Booked(<<"initial", 0>>) \/ "initial" \notin K)
                 \/ BookInstalment(w) /\ (task[w].n \in BookedN \/ "instalment" \notin K)
                 \/ BookPayoff(w) /\ (Booked(<<"payoff", 0>>) \/ "payoff" \notin K)
           \/ Shifts(K, claim, -claim, 0, 0, 0)
           \/ "payoff" \in K /\ "payoff_moved" \in befell'
    BY <1>15, BookShift
  <2>2. /\ BookDeposit(w) => ~Booked(<<"initial", 0>>)
        /\ BookInstalment(w) => task[w].n \notin BookedN
        /\ BookPayoff(w) => ~Booked(<<"payoff", 0>>)
    BY <1>4 DEF Tallies, DepositFirst, PaidOffOnce, PayoffAhead, OnceAt, StillOwed,
                BookDeposit, BookInstalment, BookPayoff, At
  <2>3. "payoff" \in K
    BY DEF K, Received
  <2>4. Shifts(K, claim, -claim, 0, 0, 0)
    BY <1>3, <1>6, <2>1, <2>2, <2>3
  <2> QED
    BY <1>8, <2>4
<1>16. CASE ReturnSettle(w)
  BY <1>6, <1>8, <1>16, ReturnShift
<1> QED
  BY <1>9, <1>10, <1>11, <1>12, <1>13, <1>14, <1>15, <1>16, ActsCases

\* Every state has a handler, at rest or not, of whom it all holds.
LEMMA OnceSomewhere ==
  ASSUME Once, Undoubled
  PROVE  \E t : OnceAt(t)
<1>1. CASE AllIdle
  BY <1>1 DEF Once
<1>2. CASE ~AllIdle
  BY <1>2 DEF Once, AllIdle
<1> QED
  BY <1>1, <1>2

LEMMA AllBookedWatch ==
  ASSUME IInv, Kept, Once, AllBooked, befell \subseteq befell',
         \/ Escalate \/ Offering
         \/ \E w \in Workers : PartialPayment(w) \/ Reinstate(w)
         \/ \E i \in DOMAIN rtoIntents : Confirm(i)
  PROVE  AllBooked'
<1> DEFINE K == Received
<1> SUFFICES ASSUME Undoubled', Spared({"payoff_moved"})'
             PROVE  Charged' <= Balance(K)'
  BY DEF AllBooked
<1>1. Undoubled /\ Spared({"payoff_moved"})
  BY UndoubledBefore, SparedBefore
<1>2. Charged <= Total(Entries(K)) + Held + AwaitedSum
  BY <1>1 DEF AllBooked, Balance
<1>3. K \subseteq Received /\ "partial" \in K
  BY DEF Received
<1> HIDE DEF K
<1>4. /\ Total(Entries(K)) \in Int /\ Held \in Nat /\ AwaitedSum \in Nat
      /\ Collected \in Nat /\ Charged \in Nat
  BY SumsType
<1>5. ASSUME NEW e \in Int, NEW a \in Int, NEW t \in Int, NEW x \in Int,
             Shifts(K, e, 0, a, t, x), x <= e + a
      PROVE  Charged' <= Balance(K)'
  <2>1. Balance(K)' = Total(Entries(K))' + Held' + AwaitedSum'
    BY DEF Balance
  <2> QED
    BY <1>2, <1>4, <1>5, <2>1 DEF Shifts
<1>6. ASSUME NEW i \in DOMAIN rtoIntents, Confirm(i) PROVE Charged' <= Balance(K)'
  <2> DEFINE a == rtoIntents[i].amount
             x == IF rtoIntents[i].kind = "partial" THEN 0 ELSE a
             b == IF rto.pending = i THEN a ELSE 0
  <2>1. a \in Nat /\ Shifts(K, 0, 0, b, a, x)
    BY <1>6, ConfirmShift
  <2>2. rto.pending = i \/ rtoIntents[i].kind = "partial"
    <3>1. rtoIntents[i].status = "open"
      BY <1>6 DEF Confirm
    <3> QED
      BY <1>1, <3>1, OnceSomewhere DEF OnceAt, DrawnOnce
  <2>3. b \in Int /\ x \in Int /\ x <= 0 + b
    BY <2>1, <2>2
  <2> HIDE DEF a, b, x
  <2> QED
    BY <1>5, <2>1, <2>3
<1>7. CASE Escalate \/ Offering \/ \E w \in Workers : PartialPayment(w) \/ Reinstate(w)
  <2>1. Shifts(K, 0, 0, 0, 0, 0) \/ Shifts(K, 1, 0, 0, 0, 1)
    BY <1>3, <1>7, WatchShift
  <2> QED
    BY <1>5, <2>1
<1> QED
  BY <1>6, <1>7

LEMMA NextKeepsAllBooked ==
  IInv /\ Kept /\ Tally /\ Once /\ AllBooked /\ [RtoNext]_rtoVars => AllBooked'
<1> SUFFICES ASSUME IInv, Kept, Tally, Once, AllBooked, [RtoNext]_rtoVars
             PROVE  AllBooked'
  OBVIOUS
<1>1. IInv'
  BY NextKeepsInvariant
<1>2. ASSUME NEW w \in Workers, Acts(w) PROVE AllBooked'
  BY <1>1, <1>2, AllBookedActs
<1>3. ASSUME \/ Escalate \/ Offering
             \/ \E w \in Workers : PartialPayment(w) \/ Reinstate(w)
             \/ \E i \in DOMAIN rtoIntents : Confirm(i)
      PROVE  AllBooked'
  <2>1. Typed
    BY DEF IInv
  <2>2. befell \subseteq befell'
    BY <1>3, <2>1, EscalateEffect, OfferActs, PartialPaymentEffect, ReinstateEffect, ConfirmEffect
       DEF Watches
  <2> QED
    BY <1>3, <2>2, AllBookedWatch
<1>4. CASE UNCHANGED rtoVars
  <2>1. Charged' = Charged /\ Balance(Received)' = Balance(Received) /\ befell' = befell
    BY <1>4 DEF rtoVars, Charged, Balance, Total, Entries, Held, Claims, AwaitedSum
  <2> QED
    BY <2>1 DEF AllBooked, Undoubled, Spared
<1> QED
  BY <1>2, <1>3, <1>4, NextCases DEF Acts, Offering

LEMMA InitAllBooked == HandlersInit /\ RtoInit => AllBooked
<1> SUFFICES ASSUME HandlersInit, RtoInit
             PROVE  Charged <= Balance(Received)
  BY DEF AllBooked
<1>1. Typed /\ Awaited /\ Listed
  BY InitInvariant, InitKept DEF IInv, Kept
<1>2. rtoIntents = <<>> /\ rtoLedger = {} /\ rto.pending = 0
  BY DEF RtoInit, NoAgreement
<1>3. Charged = 0
  <2>1. DOMAIN rtoIntents = {}
    BY <1>2
  <2> QED
    BY <1>1, <2>1, CollectedType, SumEmpty
<1>4. Total(Entries(Received)) = 0
  <2>1. Entries(Received) = {}
    BY <1>2 DEF Entries
  <2> QED
    BY <1>1, <2>1, TotalType, SumEmpty
<1>5. Held \in Nat /\ AwaitedSum = 0
  BY <1>1, <1>2, HeldType DEF AwaitedSum
<1> QED
  BY <1>3, <1>4, <1>5 DEF Balance

LEMMA AllBookedInvariant == RtoSpec => []AllBooked
BY InitAllBooked, NextKeepsAllBooked, Invariant, KeptInvariant, TallyInvariant, OnceInvariant, PTL
   DEF RtoSpec

\* Handlers at rest hold nothing.
LEMMA NothingHeld ==
  ASSUME Typed, AllIdle
  PROVE  Held = 0
<1>1. \A w \in Workers : Claims[w] = 0
  <2>1. ASSUME NEW w \in Workers PROVE Claims[w] = 0
    <3>1. task[w] \in Tasks /\ rto.deposit \in Nat /\ task[w].step \notin Booking
      BY DEF Typed, Agreements, AllIdle, Idle, Booking
    <3> QED
      BY <3>1, ClaimedCases, HeldType
  <2> QED
    BY <2>1
<1> QED
  BY <1>1, HeldType, SumNothing

LEMMA ChargedIsBooked == IInv /\ Kept /\ AllBooked => RtoChargedIsBooked
<1> SUFFICES ASSUME IInv, Kept, AllBooked, AllIdle, \A i \in DOMAIN rtoIntents : ~AwaitedNow(i),
                    Spared(Interrupted \cup {"superseded", "payoff_moved", "asked", "missed"})
             PROVE  Total(Entries(Received)) >= Collected
  BY DEF RtoChargedIsBooked
<1>1. Typed /\ Awaited
  BY DEF IInv
<1>2. Undoubled /\ Spared({"payoff_moved"})
  BY DEF Undoubled, Spared
<1>3. Charged <= Total(Entries(Received)) + Held + AwaitedSum
  BY <1>2 DEF AllBooked, Balance
<1>4. Held = 0
  BY <1>1, NothingHeld
<1>5. AwaitedSum = 0
  BY <1>1 DEF AwaitedSum, AwaitedNow, Awaited
<1>6. Collected <= Charged
  <2> DEFINE S == DOMAIN rtoIntents
             v == [i \in S |-> Taken(rtoIntents[i])]
             u == [i \in S |-> Expected(rtoIntents[i])]
  <2>1. IsFiniteSet(S) /\ Collected = SumFunctionOnSet(v, S) /\ Charged = SumFunctionOnSet(u, S)
    BY <1>1, CollectedType
  <2>2. \A i \in S : v[i] \in Int /\ u[i] \in Int /\ v[i] <= u[i]
    <3>1. \A i \in S : Taken(rtoIntents[i]) \in Nat /\ Expected(rtoIntents[i]) \in Nat
      BY <1>1, CollectedType DEF Typed
    <3>2. \A i \in S : Taken(rtoIntents[i]) = 0 \/ Taken(rtoIntents[i]) = Expected(rtoIntents[i])
      BY DEF Taken, Expected
    <3> QED
      BY <3>1, <3>2
  <2> HIDE DEF S, v, u
  <2> QED
    BY <2>1, <2>2, SumAtLeast
<1> QED
  BY <1>3, <1>4, <1>5, <1>6, SumsType

-----------------------------------------------------------------------------
(***************************************************************************)
(* A return refunds no more than the deposit and the instalments counted,  *)
(* and these are in the books.                                             *)
(***************************************************************************)

\* What the books received for the deposit and the instalments, and what they gave back.
Installed == Total(Entries({"initial", "instalment"}))
Refunded == Total(Entries({"refund"}))

Deposited == IF Booked(<<"initial", 0>>) THEN rto.deposit ELSE 0

\* What a handler may have counted is in the books.
CountedIsBooked(t) == Deposited + Price * (rto.paid + Uncounted(t)) <= Installed

\* One return at a time, and none beyond what is counted.
RefundsCounted(t) ==
  /\ t.step = "settle_return" => Refunds = 0
  /\ Spared({"partial"}) =>
       /\ t.step = "settle_return" => t.refund <= rto.deposit + Price * rto.paid
       /\ -Refunded <= rto.deposit + Price * rto.paid

Repays(t) == CountedIsBooked(t) /\ RefundsCounted(t)

Returned ==
  Spared({"overlap"}) => Repays(Resting) /\ \A w \in Workers : Repays(task[w])

LEMMA ReturnsType ==
  Typed /\ Listed =>
    /\ Installed \in Int /\ Refunded \in Int /\ Deposited \in Nat
    /\ rto.deposit \in Nat /\ rto.paid \in Nat
<1> SUFFICES ASSUME Typed, Listed
             PROVE  /\ Installed \in Int /\ Refunded \in Int /\ Deposited \in Nat
                    /\ rto.deposit \in Nat /\ rto.paid \in Nat
  OBVIOUS
<1>1. rto.deposit \in Nat /\ rto.paid \in Nat
  BY DEF Typed, Agreements
<1> QED
  BY <1>1, TotalType DEF Installed, Refunded, Deposited

\* It is enough to look at the handler that takes the step.
LEMMA ReturnedGoes ==
  ASSUME IInv, Typed', Listed', Returned, NEW w \in Workers, Moves(w),
         Spared({"overlap"})' /\ Repays(task[w]) => Repays(task[w])'
  PROVE  Returned'
<1> SUFFICES ASSUME Spared({"overlap"})'
             PROVE  Repays(Resting)' /\ \A v \in Workers : Repays(task[v])'
  BY DEF Returned
<1>1. Spared({"overlap"})
  BY SparedBefore DEF Moves
<1>2. Repays(task[w])'
  BY <1>1 DEF Returned
<1>3. Uncounted(Resting)' = 0 /\ Uncounted(task[w])' \in {0, 1} /\ Resting.step = "idle"
  BY DEF Uncounted, Resting
<1>4. Repays(Resting)'
  <2>1. /\ Installed' \in Int /\ Refunded' \in Int /\ Deposited' \in Nat
        /\ rto'.deposit \in Nat /\ rto'.paid \in Nat
    <3>1. (Typed /\ Listed)'
      OBVIOUS
    <3>2. (Typed /\ Listed =>
             /\ Installed \in Int /\ Refunded \in Int /\ Deposited \in Nat
             /\ rto.deposit \in Nat /\ rto.paid \in Nat)'
      BY ReturnsType, PTL
    <3> QED
      BY <3>1, <3>2
  <2>2. CountedIsBooked(Resting)'
    BY <1>2, <1>3, <2>1 DEF Repays, CountedIsBooked, Price
  <2>3. RefundsCounted(Resting)'
    BY <1>2, <1>3 DEF Repays, RefundsCounted, Resting
  <2> QED
    BY <2>2, <2>3 DEF Repays
<1>5. ASSUME NEW v \in Workers PROVE Repays(task[v])'
  <2>1. CASE v = w
    BY <1>2, <2>1
  <2>2. CASE v # w
    <3>1. task'[v].step = "idle"
      BY <2>2, OthersRest DEF IInv, Idle
    <3> QED
      BY <1>4, <3>1 DEF Repays, CountedIsBooked, RefundsCounted, Resting, Uncounted
  <2> QED
    BY <2>1, <2>2
<1> QED
  BY <1>4, <1>5

\* The books say the same of deposit, instalments and refunds.
SameReturns ==
  /\ Installed' = Installed /\ Refunded' = Refunded /\ Refunds' = Refunds
  /\ Booked(<<"initial", 0>>)' <=> Booked(<<"initial", 0>>)

LEMMA RefundsAre == Refunds = Cardinality(Entries({"refund"}))
<1>1. {e \in rtoLedger : e.key[1] = "refund"} = Entries({"refund"})
  BY DEF Entries
<1> QED
  BY <1>1 DEF Refunds

LEMMA SameBooksReturns ==
  ASSUME SameBooks
  PROVE  SameReturns
<1>1. Installed' = Installed /\ Refunded' = Refunded
  BY TotalSame DEF Installed, Refunded
<1>2. Refunds' = Refunds
  BY DEF Refunds, SameBooks
<1> QED
  BY <1>1, <1>2, BookedSame DEF SameReturns

LEMMA LineReturns ==
  ASSUME Listed, NEW line, Enters(line)
  PROVE  /\ Installed' = Installed + (IF line.key[1] \in {"initial", "instalment"} THEN line.amount ELSE 0)
         /\ Refunded' = Refunded + (IF line.key[1] = "refund" THEN line.amount ELSE 0)
         /\ Installed \in Int /\ Refunded \in Int
<1>1. Installed' = Installed + (IF line.key[1] \in {"initial", "instalment"} THEN line.amount ELSE 0)
  BY TotalEnters DEF Installed
<1>2. Refunded' = Refunded + (IF line.key[1] \in {"refund"} THEN line.amount ELSE 0)
  BY TotalEnters DEF Refunded
<1>3. Installed \in Int /\ Refunded \in Int
  BY TotalType DEF Installed, Refunded
<1> QED
  BY <1>1, <1>2, <1>3

\* A line of another kind changes none of that.
LEMMA OtherLineReturns ==
  ASSUME Listed, NEW line, Enters(line), line.key[1] \in {"late_fee", "partial", "payoff"}
  PROVE  SameReturns
<1>1. Installed' = Installed /\ Refunded' = Refunded
  BY LineReturns
<1>2. Refunds' = Refunds
  <2>1. {e \in rtoLedger' : e.key[1] = "refund"} = {e \in rtoLedger : e.key[1] = "refund"}
    BY DEF Enters
  <2> QED
    BY <2>1 DEF Refunds
<1>3. line.key # <<"initial", 0>>
  <2>1. <<"initial", 0>>[1] = "initial"
    OBVIOUS
  <2> QED
    BY <2>1
<1> QED
  BY <1>1, <1>2, <1>3, BookedEnters DEF SameReturns

\* A step that changes neither counts nor these books.
LEMMA ReturnsOn ==
  ASSUME Typed, Listed, NEW w \in Workers, Repays(task[w]), Money(rto), SameReturns,
         befell \subseteq befell',
         task'[w].step \in {"claim_instalment", "apply"} => task[w].step \in {"claim_instalment", "apply"},
         task'[w].step # "settle_return"
  PROVE  Repays(task[w])'
<1>1. /\ rto'.deposit = rto.deposit /\ rto'.paid = rto.paid /\ Deposited' = Deposited
      /\ Installed' = Installed /\ Refunded' = Refunded
  BY DEF Money, SameReturns, Deposited
<1>2. /\ Uncounted(task[w])' <= Uncounted(task[w]) /\ Uncounted(task[w])' \in {0, 1}
      /\ Uncounted(task[w]) \in {0, 1}
  BY DEF Uncounted
<1>3. CountedIsBooked(task[w])'
  BY <1>1, <1>2, ReturnsType DEF Repays, CountedIsBooked, Price
<1>4. RefundsCounted(task[w])'
  BY <1>1, SparedBefore DEF Repays, RefundsCounted, Price
<1> QED
  BY <1>3, <1>4 DEF Repays

LEMMA RestsReturns ==
  ASSUME IInv, Kept, NEW w \in Workers, Repays(task[w]), Spared({"overlap"})', Rests(w)
  PROVE  Repays(task[w])'
<1>1. Typed /\ Listed
  BY DEF IInv, Kept
<1>2. SameBooks /\ befell \subseteq befell'
  BY RestActs DEF Bookless, Moves
<1>3. SameReturns
  BY <1>2, SameBooksReturns
<1>4. ASSUME Money(rto), task'[w].step # "settle_return",
             task'[w].step \in {"claim_instalment", "apply"} => task[w].step \in {"claim_instalment", "apply"}
      PROVE  Repays(task[w])'
  BY <1>1, <1>2, <1>3, <1>4, ReturnsOn
<1>5. CASE \/ AcceptBegin(w) \/ AcceptClaim(w) \/ AcceptRefused(w) \/ SweepList(w)
           \/ PayInstalment(w) \/ PayOff(w) \/ (\E to \in Remedies : RemedyRead(w, to))
  <2>1. SameRto /\ task'[w].step \notin {"settle_return", "claim_instalment", "apply"}
    BY <1>1, <1>5, AcceptBeginEffect, AcceptClaimEffect, AcceptRefusedEffect, SweepListEffect,
       PayInstalmentEffect, PayOffEffect, RemedyReadEffect DEF Goes
  <2> QED
    BY <1>4, <2>1, SameRtoKept
<1>6. CASE SweepLoad(w) \/ AttachCard(w) \/ ClearAsk(w) \/ RemedyApply(w) \/ SweepThrows(w)
  <2>1. Money(rto) /\ task'[w].step \notin {"settle_return", "claim_instalment", "apply"}
    BY <1>1, <1>6, SweepLoadEffect, AttachCardEffect, ClearAskEffect, RemedyApplyEffect,
       SweepThrowsEffect DEF Goes
  <2> QED
    BY <1>4, <2>1
<1>7. CASE ClaimInstalment(w) \/ RtoCrash(w)
  <2>1. /\ SameRto /\ task'[w].step # "settle_return"
        /\ task'[w].step \in {"claim_instalment", "apply"} =>
             task[w].step \in {"claim_instalment", "apply"}
    BY <1>1, <1>7, ClaimInstalmentEffect, CrashEffect DEF Goes
  <2> QED
    BY <1>4, <2>1, SameRtoKept
<1>8. CASE CreditDeposit(w) \/ CreditPayoff(w) \/ Complete(w)
  <2>1. /\ rto'.deposit = rto.deposit /\ rto'.paid = rto.paid
        /\ task'[w].step \notin {"settle_return", "claim_instalment", "apply"}
    BY <1>1, <1>8, CreditDepositEffect, CreditPayoffEffect, CompleteEffect
       DEF Goes, Typed, Agreements
  <2>2. Deposited' = Deposited /\ Installed' = Installed /\ Refunded' = Refunded
    BY <1>3, <2>1 DEF SameReturns, Deposited
  <2>3. Uncounted(task[w])' = 0 /\ Uncounted(task[w]) \in {0, 1}
    BY <2>1 DEF Uncounted
  <2>4. CountedIsBooked(task[w])'
    BY <1>1, <2>1, <2>2, <2>3, ReturnsType DEF Repays, CountedIsBooked, Price
  <2>5. RefundsCounted(task[w])'
    BY <1>2, <2>1, <2>2, SparedBefore DEF Repays, RefundsCounted, Price
  <2> QED
    BY <2>4, <2>5 DEF Repays
<1>9. CASE ApplyInstalment(w)
  <2>1. /\ rto'.deposit = rto.deposit /\ rto'.paid = task[w].doc.paid + 1
        /\ task[w].step = "apply" /\ task'[w].step \in {"complete", "clear", "idle"}
    BY <1>1, <1>9, ApplyInstalmentEffect DEF Goes
  <2>2. task[w].doc.paid = rto.paid
    <3>1. Spared({"overlap"})
      BY <1>2, SparedBefore
    <3> QED
      BY <2>1, <3>1 DEF IInv, Current, LatestSteps
  <2>3. Deposited' = Deposited /\ Installed' = Installed /\ Refunded' = Refunded
    BY <1>3, <2>1 DEF SameReturns, Deposited
  <2>4. Uncounted(task[w])' = 0 /\ Uncounted(task[w]) = 1
    BY <2>1 DEF Uncounted
  <2>5. CountedIsBooked(task[w])'
    BY <1>1, <2>1, <2>2, <2>3, <2>4, ReturnsType DEF Repays, CountedIsBooked, Price
  <2>6. RefundsCounted(task[w])'
    <3>1. Spared({"partial"})' => -Refunded' <= rto'.deposit + Price' * rto'.paid
      BY <1>1, <1>2, <2>1, <2>2, <2>3, SparedBefore, ReturnsType DEF Repays, RefundsCounted, Price
    <3> QED
      BY <2>1, <3>1 DEF RefundsCounted
  <2> QED
    BY <2>5, <2>6 DEF Repays
<1>10. CASE ReturnBegin(w)
  <2>1. SameRto /\ Refunds = 0 /\ task[w].step = "idle"
    BY <1>1, <1>10, ReturnBeginEffect DEF ReturnBegin, Goes
  <2>2. task'[w].step = "settle_return" /\ task'[w].refund = RefundOf
    <3>1. task'[w] = [step |-> "settle_return", refund |-> RefundOf]
      BY <1>1, <1>10 DEF ReturnBegin, Begin, Becomes, Typed
    <3> QED
      BY <3>1
  <2>3. /\ rto'.deposit = rto.deposit /\ rto'.paid = rto.paid /\ Deposited' = Deposited
        /\ Installed' = Installed /\ Refunded' = Refunded /\ Refunds' = 0
    BY <1>3, <2>1 DEF SameRto, SameReturns, Deposited
  <2>4. CountedIsBooked(task[w])'
    BY <2>1, <2>2, <2>3 DEF Repays, CountedIsBooked, Price, Uncounted
  <2>5. Spared({"partial"}) => RefundOf <= rto.deposit + Price * rto.paid
    <3>1. Spared({"partial"}) => rto.arrears = 0
      BY DEF Kept, Parted
    <3> QED
      BY <1>1, <3>1, ReturnsType DEF RefundOf, Price
  <2>6. RefundsCounted(task[w])'
    BY <1>2, <2>2, <2>3, <2>5, SparedBefore DEF Repays, RefundsCounted, Price
  <2> QED
    BY <2>4, <2>6 DEF Repays
<1> QED
  BY <1>5, <1>6, <1>7, <1>8, <1>9, <1>10 DEF Rests

\* Nothing booked, nothing received or given back.
LEMMA NothingBooked ==
  ASSUME Listed, rtoLedger = {}
  PROVE  Installed = 0 /\ Refunded = 0 /\ ~Booked(<<"initial", 0>>)
<1>1. Entries({"initial", "instalment"}) = {} /\ Entries({"refund"}) = {}
  BY DEF Entries
<1>2. Installed = 0
  BY <1>1, TotalType, SumEmpty DEF Installed
<1>3. Refunded = 0
  BY <1>1, TotalType, SumEmpty DEF Refunded
<1> QED
  BY <1>2, <1>3 DEF Booked

LEMMA BooksReturns ==
  ASSUME IInv, Kept, NEW w \in Workers, Repays(task[w]), Spared({"overlap"})',
         BookDeposit(w) \/ BookInstalment(w) \/ BookPayoff(w)
  PROVE  Repays(task[w])'
<1>1. Typed /\ Listed
  BY DEF IInv, Kept
<1>2. Moves(w) /\ befell \subseteq befell'
  BY <1>1, BookDepositEnters, BookInstalmentEnters, BookPayoffEnters DEF Goes, Moves
<1>3. CASE BookDeposit(w)
  <2> DEFINE line == Line(<<"initial", 0>>, rto.deposit, rto.deposit)
  <2>1. /\ Goes(w, "book_deposit", "credit_deposit") /\ SameRto
        /\ Booked(<<"initial", 0>>) => SameBooks
        /\ ~Booked(<<"initial", 0>>) => Enters(line)
    BY <1>1, <1>3, BookDepositEnters
  <2>2. task[w].step = "book_deposit" /\ task'[w].step = "credit_deposit" /\ rto' = rto
    BY <2>1 DEF Goes, SameRto
  <2>3. CASE Booked(<<"initial", 0>>)
    BY <1>1, <1>2, <2>1, <2>2, <2>3, SameBooksReturns, SameRtoKept, ReturnsOn
  <2>4. CASE ~Booked(<<"initial", 0>>)
    <3>1. line.key = <<"initial", 0>> /\ line.amount = rto.deposit /\ line.key[1] = "initial"
      BY DEF Line
    <3>2. Enters(line)
      BY <2>1, <2>4
    <3> HIDE DEF line
    <3>3. Installed' = Installed + rto.deposit /\ Refunded' = Refunded
      BY <1>1, <3>1, <3>2, LineReturns
    <3>4. Deposited' = rto.deposit /\ Deposited = 0
      BY <2>2, <2>4, <3>1, <3>2, BookedEnters DEF Deposited
    <3>5. Uncounted(task[w])' = 0 /\ Uncounted(task[w]) = 0
      BY <2>2 DEF Uncounted
    <3>6. CountedIsBooked(task[w])'
      BY <1>1, <2>2, <3>3, <3>4, <3>5, ReturnsType DEF Repays, CountedIsBooked, Price
    <3>7. RefundsCounted(task[w])'
      BY <1>2, <2>2, <3>3, SparedBefore DEF Repays, RefundsCounted, Price
    <3> QED
      BY <3>6, <3>7 DEF Repays
  <2> QED
    BY <2>3, <2>4
<1>4. CASE BookInstalment(w)
  <2> DEFINE key == <<"instalment", task[w].n>>
             line == Line(key, Price, 1)
  <2>1. /\ SameRto
        /\ \/ Goes(w, "book", "claim_instalment") /\ Enters(line)
           \/ (Goes(w, "book", "clear") \/ Goes(w, "book", "idle")) /\ SameBooks
    BY <1>1, <1>4, BookInstalmentEnters
  <2>2. CASE (Goes(w, "book", "clear") \/ Goes(w, "book", "idle")) /\ SameBooks
    BY <1>1, <1>2, <2>1, <2>2, SameBooksReturns, SameRtoKept, ReturnsOn DEF Goes
  <2>3. CASE Goes(w, "book", "claim_instalment") /\ Enters(line)
    <3>1. task[w].step = "book" /\ task'[w].step = "claim_instalment" /\ rto' = rto
      BY <2>1, <2>3 DEF Goes, SameRto
    <3>2. line.key[1] = "instalment" /\ line.amount = 2
      BY DEF Line, Price
    <3> HIDE DEF line
    <3>3. line.key # <<"initial", 0>>
      <4>1. <<"initial", 0>>[1] = "initial"
        OBVIOUS
      <4> QED
        BY <3>2, <4>1
    <3>4. Installed' = Installed + 2 /\ Refunded' = Refunded
      BY <1>1, <2>3, <3>2, LineReturns
    <3>5. Deposited' = Deposited
      BY <2>3, <3>1, <3>3, BookedEnters DEF Deposited
    <3>6. Uncounted(task[w])' = 1 /\ Uncounted(task[w]) = 0
      BY <3>1 DEF Uncounted
    <3>7. CountedIsBooked(task[w])'
      BY <1>1, <3>1, <3>4, <3>5, <3>6, ReturnsType DEF Repays, CountedIsBooked, Price
    <3>8. RefundsCounted(task[w])'
      BY <1>2, <3>1, <3>4, SparedBefore DEF Repays, RefundsCounted, Price
    <3> QED
      BY <3>7, <3>8 DEF Repays
  <2> QED
    BY <2>1, <2>2, <2>3
<1>5. CASE BookPayoff(w)
  <2> DEFINE p == Payoff(task[w].doc)
             line == Line(<<"payoff", 0>>, p, p)
  <2>1. /\ Goes(w, "book_payoff", "credit_payoff") /\ SameRto
        /\ Booked(<<"payoff", 0>>) => SameBooks
        /\ ~Booked(<<"payoff", 0>>) => Enters(line)
    BY <1>1, <1>5, BookPayoffEnters
  <2>2. line.key[1] = "payoff"
    BY DEF Line
  <2> HIDE DEF line
  <2>3. SameReturns
    BY <1>1, <2>1, <2>2, SameBooksReturns, OtherLineReturns
  <2> QED
    BY <1>1, <1>2, <2>1, <2>3, SameRtoKept, ReturnsOn DEF Goes
<1> QED
  BY <1>3, <1>4, <1>5

LEMMA OpensReturns ==
  ASSUME IInv, Kept, NEW w \in Workers, Repays(task[w]), Spared({"overlap"})',
         \/ AcceptCharge(w) \/ SweepCharge(w) \/ SweepChallenged(w) \/ SweepMissed(w)
         \/ OpenIntent(w) \/ (\E i \in DOMAIN rtoIntents : SettleClaim(w, i))
  PROVE  Repays(task[w])'
<1>1. Typed /\ Listed /\ Awaited
  BY DEF IInv, Kept
<1>2. /\ SameBooks /\ Money(rto) /\ befell \subseteq befell'
      /\ task'[w].step \notin {"settle_return", "claim_instalment", "apply"}
  <2>1. CASE AcceptCharge(w)
    BY <1>1, <2>1, AcceptChargeAdds DEF Goes, Moves
  <2>2. CASE SweepCharge(w) \/ SweepChallenged(w) \/ SweepMissed(w)
    BY <1>1, <2>2, SweepAdds DEF Goes, Moves
  <2>3. CASE OpenIntent(w)
    BY <1>1, <2>3, OpenIntentAdds DEF Goes, Moves
  <2>4. ASSUME NEW i \in DOMAIN rtoIntents, SettleClaim(w, i)
        PROVE  /\ SameBooks /\ Money(rto) /\ befell \subseteq befell'
               /\ task'[w].step \notin {"settle_return", "claim_instalment", "apply"}
    <3>1. SameBooks /\ Money(rto) /\ Moves(w)
      BY <1>1, <2>4, SettleClaimTakes
    <3>2. task'[w].step \in {"book_deposit", "attach_card", "book_payoff", "idle", "book"}
      BY <1>1, <2>4, SettleClaimEffect DEF Goes
    <3> QED
      BY <3>1, <3>2 DEF Moves
  <2> QED
    BY <2>1, <2>2, <2>3, <2>4
<1> QED
  BY <1>1, <1>2, SameBooksReturns, ReturnsOn

LEMMA CreateReturns ==
  ASSUME IInv, Kept, NEW w \in Workers, NEW d \in Deposits, AcceptCreate(w, d)
  PROVE  Repays(task[w])'
<1>1. /\ rto.status = "none" /\ SameBooks /\ Goes(w, "create_agreement", "open_charge")
      /\ d \in Nat /\ rto'.deposit = d /\ rto'.paid = 0
  BY AcceptCreateAlone
<1>2. rtoLedger = {} /\ rtoLedger' = {}
  BY <1>1 DEF Kept, Listed, SameBooks
<1>3. Listed
  BY DEF Kept
<1>4. Installed = 0 /\ Refunded = 0
  BY <1>2, <1>3, NothingBooked
<1>5. SameReturns
  BY <1>1, SameBooksReturns
<1>6. Installed' = 0 /\ Refunded' = 0 /\ Deposited' = 0
  BY <1>2, <1>4, <1>5 DEF SameReturns, Deposited, Booked
<1>7. task'[w].step = "open_charge" /\ Uncounted(task[w])' = 0
  BY <1>1 DEF Goes, Uncounted
<1>8. CountedIsBooked(task[w])'
  BY <1>1, <1>6, <1>7 DEF CountedIsBooked, Price
<1>9. RefundsCounted(task[w])'
  BY <1>1, <1>6, <1>7 DEF RefundsCounted, Price
<1> QED
  BY <1>8, <1>9 DEF Repays

LEMMA SettleReturns ==
  ASSUME IInv, Kept, NEW w \in Workers, Repays(task[w]), ReturnSettle(w)
  PROVE  Repays(task[w])'
<1> DEFINE line == Line(<<"refund", Refunds>>, -task[w].refund, 0)
<1>1. Typed /\ Listed
  BY DEF IInv, Kept
<1>2. /\ Goes(w, "settle_return", "idle") /\ Money(rto) /\ task[w].refund \in Nat
      /\ SameBooks \/ Enters(line)
  BY <1>1, ReturnSettleEnters
<1>3. task[w].step = "settle_return" /\ task'[w].step = "idle" /\ befell \subseteq befell'
  BY <1>2 DEF Goes, Moves
<1>4. CASE SameBooks
  BY <1>1, <1>2, <1>3, <1>4, SameBooksReturns, ReturnsOn
<1>5. CASE Enters(line)
  <2>1. line.key[1] = "refund" /\ line.amount = -task[w].refund
    BY DEF Line
  <2> HIDE DEF line
  <2>2. Installed' = Installed /\ Refunded' = Refunded - task[w].refund
    BY <1>1, <1>2, <1>5, <2>1, LineReturns
  <2>3. Refunds = 0
    BY <1>3 DEF Repays, RefundsCounted
  <2>4. Refunded = 0
    <3>1. Entries({"refund"}) = {}
      BY <1>1, <2>3, RefundsAre, TotalType, FS_EmptySet
    <3> QED
      BY <1>1, <3>1, TotalType, SumEmpty DEF Refunded
  <2>5. line.key # <<"initial", 0>>
    <3>1. <<"initial", 0>>[1] = "initial"
      OBVIOUS
    <3> QED
      BY <2>1, <3>1
  <2>6. Deposited' = Deposited /\ rto'.paid = rto.paid /\ rto'.deposit = rto.deposit
    BY <1>2, <1>5, <2>5, BookedEnters DEF Deposited, Money
  <2>7. Uncounted(task[w])' = 0 /\ Uncounted(task[w]) = 0
    BY <1>3 DEF Uncounted
  <2>8. CountedIsBooked(task[w])'
    BY <2>2, <2>6, <2>7 DEF Repays, CountedIsBooked, Price
  <2>9. RefundsCounted(task[w])'
    <3>1. Spared({"partial"})' => task[w].refund <= rto.deposit + Price * rto.paid
      BY <1>3, SparedBefore DEF Repays, RefundsCounted
    <3>2. -Refunded' = task[w].refund
      BY <1>2, <2>2, <2>4
    <3> QED
      BY <1>3, <2>6, <3>1, <3>2 DEF RefundsCounted, Price
  <2> QED
    BY <2>8, <2>9 DEF Repays
<1> QED
  BY <1>2, <1>4, <1>5

LEMMA ReturnedActs ==
  ASSUME IInv, Kept, Kept', Returned, NEW w \in Workers, Acts(w)
  PROVE  Returned'
<1>1. Moves(w) /\ Typed'
  BY ActsMoves
<1>2. Listed'
  BY DEF Kept
<1>3. ASSUME NEW d \in Deposits, AcceptCreate(w, d) PROVE Repays(task[w])'
  BY <1>3, CreateReturns
<1>4. Spared({"overlap"})' /\ Repays(task[w]) => Repays(task[w])'
  BY <1>3, RestsReturns, BooksReturns, OpensReturns, SettleReturns, ActsCases
<1> QED
  BY <1>1, <1>2, <1>4, ReturnedGoes

\* Steps no handler takes change neither counts nor these books.
LEMMA ReturnedStill ==
  ASSUME Returned, task' = task, befell \subseteq befell', SameReturns, Money(rto)
  PROVE  Returned'
<1>1. /\ rto'.deposit = rto.deposit /\ rto'.paid = rto.paid /\ Deposited' = Deposited
      /\ Installed' = Installed /\ Refunded' = Refunded /\ Refunds' = Refunds
  BY DEF Money, SameReturns, Deposited
<1>2. /\ Spared({"overlap"})' => Spared({"overlap"})
      /\ Spared({"partial"})' => Spared({"partial"})
  BY SparedBefore
<1>3. ASSUME NEW w \in Workers, Repays(task[w])
      PROVE  Repays(task[w])'
  <2>1. CountedIsBooked(task[w])'
    BY <1>1, <1>3 DEF Repays, CountedIsBooked, Price, Uncounted
  <2>2. RefundsCounted(task[w])'
    BY <1>1, <1>2, <1>3 DEF Repays, RefundsCounted, Price
  <2> QED
    BY <2>1, <2>2 DEF Repays
<1>4. ASSUME Repays(Resting)
      PROVE  Repays(Resting)'
  <2>1. CountedIsBooked(Resting)'
    BY <1>1, <1>4 DEF Repays, CountedIsBooked, Price, Uncounted, Resting
  <2>2. RefundsCounted(Resting)'
    BY <1>1, <1>2, <1>4 DEF Repays, RefundsCounted, Price, Resting
  <2> QED
    BY <2>1, <2>2 DEF Repays
<1> QED
  BY <1>2, <1>3, <1>4 DEF Returned

LEMMA NextKeepsReturned == IInv /\ Kept /\ Returned /\ [RtoNext]_rtoVars => Returned'
<1> SUFFICES ASSUME IInv, Kept, Returned, [RtoNext]_rtoVars
             PROVE  Returned'
  OBVIOUS
<1>1. Typed /\ Listed /\ Kept'
  BY NextKeepsBooks DEF IInv, Kept
<1>2. ASSUME NEW w \in Workers, Acts(w) PROVE Returned'
  BY <1>1, <1>2, ReturnedActs
<1>3. CASE Escalate
  <2>1. /\ Watches /\ Money(rto)
        /\ SameBooks \/ \E n \in 1..Instalments : Enters(Line(<<"late_fee", n>>, 1, 0))
    BY <1>1, <1>3, EscalateEnters
  <2>2. ASSUME NEW n \in 1..Instalments, Enters(Line(<<"late_fee", n>>, 1, 0))
        PROVE  SameReturns
    <3> DEFINE line == Line(<<"late_fee", n>>, 1, 0)
    <3>1. line.key[1] = "late_fee" /\ Enters(line)
      BY <2>2 DEF Line
    <3> HIDE DEF line
    <3> QED
      BY <1>1, <3>1, OtherLineReturns
  <2> QED
    BY <2>1, <2>2, SameBooksReturns, ReturnedStill DEF Watches
<1>4. ASSUME NEW w \in Workers, PartialPayment(w) PROVE Returned'
  <2> DEFINE line == Line(<<"partial", 0>>, 1, 0)
  <2>1. Watches /\ Money(rto) /\ (SameBooks \/ Enters(line))
    BY <1>1, <1>4, PartialPaymentEnters
  <2>2. line.key[1] = "partial"
    BY DEF Line
  <2> HIDE DEF line
  <2> QED
    BY <1>1, <2>1, <2>2, SameBooksReturns, OtherLineReturns, ReturnedStill DEF Watches
<1>5. ASSUME NEW w \in Workers, Reinstate(w) PROVE Returned'
  BY <1>1, <1>5, ReinstateSays, SameBooksReturns, ReturnedStill DEF Watches
<1>6. ASSUME NEW i \in DOMAIN rtoIntents, Confirm(i) PROVE Returned'
  BY <1>1, <1>6, ConfirmSays, SameBooksReturns, SameRtoKept, ReturnedStill DEF Watches
<1>7. CASE Offering
  BY <1>7, OfferActs, SameBooksReturns, SameRtoKept, ReturnedStill
<1>8. CASE UNCHANGED rtoVars
  BY <1>8, SameBooksReturns, ReturnedStill DEF rtoVars, SameBooks, Money
<1> QED
  BY <1>2, <1>3, <1>4, <1>5, <1>6, <1>7, <1>8, NextCases DEF Acts, Offering

LEMMA InitReturned == HandlersInit /\ RtoInit => Returned
<1> SUFFICES ASSUME HandlersInit, RtoInit
             PROVE  Returned
  OBVIOUS
<1>1. Listed
  BY InitKept DEF Kept
<1>2. rtoLedger = {} /\ rto.paid = 0 /\ rto.deposit = 0
  BY DEF RtoInit, NoAgreement
<1>3. Installed = 0 /\ Refunded = 0 /\ Deposited = 0
  BY <1>1, <1>2, NothingBooked DEF Deposited
<1>4. Resting.step = "idle"
  BY DEF Resting
<1>5. Repays(Resting)
  BY <1>2, <1>3, <1>4 DEF Repays, CountedIsBooked, RefundsCounted, Price, Uncounted
<1>6. \A w \in Workers : task[w] = Resting
  BY DEF HandlersInit
<1> QED
  BY <1>5, <1>6 DEF Returned

LEMMA ReturnedInvariant == RtoSpec => []Returned
BY InitReturned, NextKeepsReturned, Invariant, KeptInvariant, PTL DEF RtoSpec

LEMMA RefundCovered == IInv /\ Kept /\ Covered /\ Returned => RtoRefundCovered
<1> SUFFICES ASSUME IInv, Kept, Covered, Returned, Spared({"overlap", "partial"}),
                    Booked(<<"initial", 0>>) \/ rto.deposit = 0
             PROVE  -Refunded <= Collected
  BY DEF RtoRefundCovered, Refunded
<1>1. Typed /\ Listed
  BY DEF IInv, Kept
<1>2. Spared({"overlap"}) /\ Spared({"partial"})
  BY DEF Spared
<1>3. Deposited + Price * (rto.paid + Uncounted(Resting)) <= Installed
  BY <1>2 DEF Returned, Repays, CountedIsBooked
<1>4. -Refunded <= rto.deposit + Price * rto.paid
  BY <1>2 DEF Returned, Repays, RefundsCounted
<1>5. Deposited = rto.deposit
  BY DEF Deposited
<1>6. Uncounted(Resting) = 0
  BY DEF Uncounted, Resting
<1>7. Installed + Held + AwaitedSum <= Collected
  BY DEF Covered, Covers, Balance, Installed
<1>8. Held \in Nat /\ AwaitedSum \in Nat /\ Collected \in Nat
  BY SumsType
<1> QED
  BY <1>1, <1>3, <1>4, <1>5, <1>6, <1>7, <1>8, ReturnsType DEF Price

\* The agreement's books against Stripe's, for every number of handlers, instalments and
\* intents: what the ledger says was received was collected, what was collected is booked once
\* settled, no instalment is paid twice, the counters of the agreement agree with its ledger,
\* each payment booked was split, and a return refunds no more than was collected; each but
\* for the mishaps its property names (rto.service.ts).
THEOREM BooksRight == RtoSpec => []RtoBooksRight
<1>1. /\ IInv /\ Kept /\ Covered /\ Stated /\ Tally /\ Once /\ AllBooked /\ Returned
      => RtoBooksRight
  BY LedgerBacked, SplitsFollow, CountsMatch, PaidOnce, ChargedIsBooked, RefundCovered
     DEF RtoBooksRight
<1> QED
  BY <1>1, Invariant, KeptInvariant, CoveredInvariant, StatedInvariant, TallyInvariant,
     OnceInvariant, AllBookedInvariant, ReturnedInvariant, PTL

=============================================================================
