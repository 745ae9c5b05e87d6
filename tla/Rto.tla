-------------------------------- MODULE Rto --------------------------------
(***************************************************************************)
(* Rent-to-own (src/modules/rto): one offer and one customer's agreement   *)
(* to it, from acceptance over the instalments to ownership or return.     *)
(*                                                                         *)
(* The agreement document is read, money moves at Stripe, and the document *)
(* is then written absolutely from what was read before: the sweep that    *)
(* charges the saved card, the webhook that settles what the customer      *)
(* confirmed, and the seller's remedies all do so, side by side.           *)
(*                                                                         *)
(* Money is counted in units: an instalment is two of them, one rent and   *)
(* one equity, the deposit is all equity.                                  *)
(***************************************************************************)
EXTENDS Handlers, FiniteSetsExt, Functions

CONSTANTS
  Gates,        \* what must hold for an offer: seller approved, city open, category eligible
  Units,        \* how many of the item the seller lists
  Deposits,     \* initial payments an offer may ask for
  Instalments,  \* instalment_count
  MaxIntents,   \* bound: payment intents opened on the agreement
  Remedies,     \* among active (defer), arrangement, paused, return_pending
  Refundable,   \* listing_terms: payments are refunded when the goods come back
  Reinstatable  \* listing_terms.reinstatement_allowed

ASSUME RtoAssumption ==
  /\ IsFiniteSet(Workers)
  /\ Units \in Nat
  /\ Deposits \subseteq Nat
  /\ Instalments \in Nat \ {0}
  /\ Remedies \subseteq {"active", "arrangement", "paused", "return_pending"}

VARIABLES
  offer,        \* rto_listings, with the gates that guard it
  rto,          \* rto_agreements: the customer's agreement
  schedule,     \* rto_installments: the status of each
  rtoIntents,   \* external: Stripe's payment intents for the agreement, oldest first
  rtoLedger,    \* rto_ledger_entries, unique by idempotency key
  rtoStatements \* labels of the payments whose split was transferred and stated

rtoVars == <<offer, rto, schedule, rtoIntents, rtoLedger, rtoStatements, task, befell>>

NoAgreement == [status |-> "none", deposit |-> 0, credited |-> 0, paid |-> 0, arrears |-> 0,
                pending |-> 0, kind |-> "none", due |-> 0, ask |-> 0, card |-> FALSE,
                proof |-> FALSE]

RtoInit ==
  /\ offer = [left |-> 0, status |-> "none", gates |-> Gates, sold |-> 0]
  /\ rto = NoAgreement
  /\ schedule = [n \in 1..Instalments |-> "none"]
  /\ rtoIntents = <<>>
  /\ rtoLedger = {}
  /\ rtoStatements = {}

Closed == {"completed", "cancelled"}

\* What a handler keeps of the document it read.
Counts == [paid |-> rto.paid, credited |-> rto.credited]

Cash == rto.deposit + Instalments

\* computePayoff: the equity still missing from the cash price.
Payoff(doc) == Max({0, Cash - doc.credited})

Price == 2

(***************************************************************************)
(* The offer.                                                              *)
(***************************************************************************)

\* createListing: every gate is checked when the offer goes live.
Publish ==
  /\ offer.status = "none"
  /\ offer.gates = Gates
  /\ offer' = [offer EXCEPT !.status = "active", !.left = Units]
  /\ AtOnce
  /\ UNCHANGED <<rto, schedule, rtoIntents, rtoLedger, rtoStatements>>

\* setListingStatus; the bound: of interest only until the customer has accepted.
SetOffer(status) ==
  /\ offer.status \notin {"none", status}
  /\ rto.status = "none"
  /\ offer' = [offer EXCEPT !.status = status]
  /\ AtOnce
  /\ UNCHANGED <<rto, schedule, rtoIntents, rtoLedger, rtoStatements>>

\* revokeSeller, setCityRto(false), or a category that is no longer eligible.  The bound: a
\* gate closes once.
CloseGate(g) ==
  /\ g \in offer.gates
  /\ offer.status # "none"
  /\ rto.status = "none"
  /\ offer' = [offer EXCEPT !.gates = @ \ {g}]
  /\ AtOnce
  /\ UNCHANGED <<rto, schedule, rtoIntents, rtoLedger, rtoStatements>>

\* claimListingUnit: conditional on the offer being live and in stock.
Claimable == offer.status = "active" /\ offer.left > 0

\* Another customer's acceptance, which goes through.
TakenByAnother ==
  /\ offer.gates = Gates
  /\ offer.sold < Units + 1
  /\ Claimable
  /\ offer' = [offer EXCEPT !.left = @ - 1, !.sold = @ + 1]
  /\ AtOnce
  /\ UNCHANGED <<rto, schedule, rtoIntents, rtoLedger, rtoStatements>>

(***************************************************************************)
(* Acceptance: check the gates, claim a unit, write the agreement and its  *)
(* schedule, open the charge for what is due today.                        *)
(***************************************************************************)

AcceptAllowed == offer.status = "active" /\ offer.gates = Gates

AcceptBegin(w) ==
  /\ rto.status = "none"
  /\ \A v \in Workers : task[v].step \notin {"claim_unit", "create_agreement", "open_charge"}
  /\ AcceptAllowed
  /\ Begin(w, [step |-> "claim_unit"])
  /\ UNCHANGED <<offer, rto, schedule, rtoIntents, rtoLedger, rtoStatements>>

AcceptClaim(w) ==
  /\ At(w, "claim_unit")
  /\ IF Claimable
       THEN /\ offer' = [offer EXCEPT !.left = @ - 1]
            /\ Goto(w, "create_agreement")
       ELSE Finish(w) /\ UNCHANGED offer
  /\ UNCHANGED <<rto, schedule, rtoIntents, rtoLedger, rtoStatements>>

\* finalizeAcceptance: nothing is owned and nothing paid until a card is confirmed.
AcceptCreate(w, deposit) ==
  /\ At(w, "create_agreement")
  /\ rto' = [NoAgreement EXCEPT !.status = "active", !.deposit = deposit]
  /\ schedule' = [n \in 1..Instalments |-> "scheduled"]
  /\ Goto(w, "open_charge")
  /\ UNCHANGED <<offer, rtoIntents, rtoLedger, rtoStatements>>

Opened(kind, n, amount, status) ==
  Append(rtoIntents, [kind |-> kind, n |-> n, amount |-> amount, status |-> status])

\* The intent the agreement waits for; replacing one not settled yet is a mishap.
Awaits(w, doc, mishap) ==
  /\ rto' = doc
  /\ IF rto.pending # 0 THEN FinishAfter(w, "superseded")
     ELSE IF mishap = None THEN Finish(w) ELSE FinishAfter(w, mishap)

NextIntent == Len(rtoIntents) + 1

\* A charge for the deposit, or, when nothing is due today, a request for a card.
AcceptCharge(w) ==
  LET kind == IF rto.deposit > 0 THEN "acceptance" ELSE "card_setup" IN
    /\ At(w, "open_charge")
    /\ rtoIntents' = Opened(kind, 0, rto.deposit, "open")
    /\ Awaits(w, [rto EXCEPT !.pending = NextIntent, !.kind = kind], None)
    /\ UNCHANGED <<offer, schedule, rtoLedger, rtoStatements>>

\* The charge is refused and the claimed unit handed back; the agreement stays.
AcceptRefused(w) ==
  /\ At(w, "open_charge")
  /\ offer' = [offer EXCEPT !.left = @ + 1]
  /\ FinishAfter(w, "refused")
  /\ UNCHANGED <<rto, schedule, rtoIntents, rtoLedger, rtoStatements>>

(***************************************************************************)
(* Stripe: the customer confirms an intent that waits for a card.          *)
(***************************************************************************)

Confirm(i) ==
  /\ rtoIntents[i].status = "open"
  /\ rtoIntents' = [rtoIntents EXCEPT ![i].status = "succeeded"]
  /\ Outside
  /\ UNCHANGED <<offer, rto, schedule, rtoLedger, rtoStatements>>

(***************************************************************************)
(* Entries of the agreement's ledger are unique by key.                    *)
(***************************************************************************)

Booked(key) == \E e \in rtoLedger : e.key = key

AppendLedger(key, amount, credit) ==
  rtoLedger' = IF Booked(key) THEN rtoLedger
               ELSE rtoLedger \cup {[key |-> key, amount |-> amount, credit |-> credit]}

Unpaid == {n \in 1..Instalments : schedule[n] = "scheduled"}

Owed == {n \in 1..Instalments : schedule[n] \in {"scheduled", "missed"}}

(***************************************************************************)
(* chargeDueInstallments: the list of due instalments is read once, the    *)
(* agreement before each charge, and both are used after it.               *)
(***************************************************************************)

Sweeping(w) ==
  \/ task[w].step \in {"load", "charge"}
  \/ task[w].step \in {"book", "claim_instalment", "apply", "complete"} /\ task[w].via = "sweep"

SweepList(w) ==
  /\ Unpaid # {}
  /\ \A v \in Workers : ~Sweeping(v)  \* the scheduler runs one at a time
  /\ Begin(w, [step |-> "load", n |-> Min(Unpaid)])
  /\ UNCHANGED <<offer, rto, schedule, rtoIntents, rtoLedger, rtoStatements>>

\* Mutant: an intent the customer has open does not stop the charge.
SweepSkipsClosed(n) ==
  rto.status \in Closed \cup {"disputed", "paused", "return_pending"} \/ rto.kind = "acceptance"

SweepSkips(n) ==
  \/ rto.status \in Closed \cup {"disputed", "paused", "return_pending"}
  \/ rto.kind = "acceptance"
  \/ rto.kind = "installment" /\ rto.due = n

\* No card on file: the customer is asked, and not marked late.
SweepLoad(w) ==
  LET n == task[w].n IN
    /\ At(w, "load")
    /\ CASE SweepSkips(n) -> Finish(w) /\ UNCHANGED rto
         [] ~SweepSkips(n) /\ rto.card ->
              /\ Becomes(w, [step |-> "charge", n |-> n, doc |-> Counts, via |-> "sweep"])
              /\ UNCHANGED <<rto, befell>>
         [] OTHER -> FinishAfter(w, "asked") /\ rto' = [rto EXCEPT !.ask = n]
    /\ UNCHANGED <<offer, schedule, rtoIntents, rtoLedger, rtoStatements>>

\* The charge of instalment n was tried before: its key only replays the transaction,
\* whose status is never the word the sweep waits for.
Tried(n) == \E i \in DOMAIN rtoIntents : rtoIntents[i].kind = "sweep" /\ rtoIntents[i].n = n

Missed(w, n) ==
  /\ schedule' = IF schedule[n] = "scheduled" THEN [schedule EXCEPT ![n] = "missed"] ELSE schedule
  /\ rto' = IF rto.status \in {"active", "grace", "late"} THEN [rto EXCEPT !.status = "grace"] ELSE rto

SweepCharge(w) ==
  LET n == task[w].n IN
    /\ At(w, "charge")
    /\ ~Tried(n)
    /\ rtoIntents' = Opened("sweep", n, Price, "succeeded")
    /\ Goto(w, "book")
    /\ UNCHANGED <<offer, rto, schedule, rtoLedger, rtoStatements>>

\* The bank asks the customer to authenticate: the intent waits for them.
SweepChallenged(w) ==
  LET n == task[w].n IN
    /\ At(w, "charge")
    /\ ~Tried(n)
    /\ rtoIntents' = Opened("sweep", n, Price, "open")
    /\ Awaits(w, [rto EXCEPT !.pending = NextIntent, !.kind = "installment", !.due = n, !.ask = n],
              "challenged")
    /\ UNCHANGED <<offer, schedule, rtoLedger, rtoStatements>>

\* Declined, or replayed.
SweepMissed(w) ==
  LET n == task[w].n IN
    /\ At(w, "charge")
    /\ Missed(w, n)
    /\ rtoIntents' = IF Tried(n) THEN rtoIntents ELSE Opened("sweep", n, Price, "declined")
    /\ FinishAfter(w, "missed")
    /\ UNCHANGED <<offer, rtoLedger, rtoStatements>>

\* A call after the charge fails: the catch block marks the instalment missed all the same.
SweepThrows(w) ==
  /\ task[w].step \in {"book", "claim_instalment", "apply"}
  /\ task[w].via = "sweep"
  /\ Missed(w, task[w].n)
  /\ FinishAfter(w, "thrown")
  /\ UNCHANGED <<offer, rtoIntents, rtoLedger, rtoStatements>>

(***************************************************************************)
(* Settlement: payment_intent.succeeded, its redelivery, or the sweep that *)
(* asks Stripe about intents whose event never came.  Whoever clears the   *)
(* agreement's pending intent settles it.                                  *)
(***************************************************************************)

AwaitedNow(i) == rtoIntents[i].status = "succeeded" /\ rto.pending = i

\* What a payment was for; an instalment nobody knows is dropped.
SettlementOf == CASE rto.kind = "acceptance" -> "book_deposit"
                  [] rto.kind = "card_setup" -> "attach_card"
                  [] rto.kind = "payoff" -> "book_payoff"
                  [] rto.kind = "installment" /\ rto.due = 0 -> "idle"
                  [] OTHER -> "book"

\* claimPendingIntent
SettleClaim(w, i) ==
  LET step == SettlementOf
  IN /\ AwaitedNow(i)
     /\ rto' = [rto EXCEPT !.pending = 0, !.kind = "none"]
     /\ Begin(w, CASE step = "idle" -> Resting
                   [] step \in {"attach_card", "book_deposit"} -> [step |-> step]
                   [] step = "book_payoff" ->
                        [step |-> step, amount |-> rtoIntents[i].amount, doc |-> Counts]
                   [] OTHER -> [step |-> step, n |-> rto.due, doc |-> Counts, via |-> "hook"])
     /\ UNCHANGED <<offer, schedule, rtoIntents, rtoLedger, rtoStatements>>

\* captureCard never fails the settlement: a card that cannot be read is not kept.
KeepsCard(w, doc) ==
  \/ rto' = [doc EXCEPT !.card = TRUE] /\ Finish(w)
  \/ rto' = doc /\ ~doc.card /\ FinishAfter(w, "no_card")

\* attachCardBySetupIntent: the card may be unreadable or not reusable.
AttachCard(w) ==
  /\ At(w, "attach_card")
  /\ KeepsCard(w, rto)
  /\ UNCHANGED <<offer, schedule, rtoIntents, rtoLedger, rtoStatements>>

BookDeposit(w) ==
  /\ At(w, "book_deposit")
  /\ AppendLedger(<<"initial", 0>>, rto.deposit, rto.deposit)
  /\ Goto(w, "credit_deposit")
  /\ UNCHANGED <<offer, rto, schedule, rtoIntents, rtoStatements>>

\* The deposit is credited absolutely, the card kept if it can be read, the split stated.
CreditDeposit(w) ==
  /\ At(w, "credit_deposit")
  /\ KeepsCard(w, [rto EXCEPT !.credited = rto.deposit])
  /\ rtoStatements' = rtoStatements \cup {<<"initial", 0>>}
  /\ UNCHANGED <<offer, schedule, rtoIntents, rtoLedger>>

\* An instalment, charged by the sweep or paid by the customer: whoever appends the entry
\* credits it.
BookInstalment(w) ==
  LET n == task[w].n IN
    /\ At(w, "book")
    /\ AppendLedger(<<"instalment", n>>, Price, 1)
    /\ CASE ~Booked(<<"instalment", n>>) -> Goto(w, "claim_instalment")
         [] Booked(<<"instalment", n>>) /\ task[w].via = "hook" ->
              Becomes(w, [step |-> "clear"]) /\ UNCHANGED befell
         [] OTHER -> Finish(w)
    /\ UNCHANGED <<offer, rto, schedule, rtoIntents, rtoStatements>>

\* claimInstallment finds only a scheduled instalment.
ClaimsInstalment(w) ==
  schedule' = IF schedule[task[w].n] = "scheduled"
              THEN [schedule EXCEPT ![task[w].n] = "paid"] ELSE schedule

ClaimInstalment(w) ==
  /\ At(w, "claim_instalment")
  /\ ClaimsInstalment(w)
  /\ rtoStatements' = rtoStatements \cup {<<"instalment", task[w].n>>}
  /\ Goto(w, "apply")
  /\ UNCHANGED <<offer, rto, rtoIntents, rtoLedger>>

\* Mutant: the last instalment but one is taken for the last.
LastButOne(doc) == doc.paid + 2 >= Instalments

LastOf(doc) == doc.paid + 1 >= Instalments

\* What applyPaidInstallment writes: counts and status from the document read earlier.
CreditedFrom(doc) ==
  [rto EXCEPT !.paid = doc.paid + 1, !.credited = doc.credited + 1,
              !.status = IF LastOf(doc) THEN "completed" ELSE "active"]

ApplyInstalment(w) ==
  LET doc == task[w].doc IN
     /\ At(w, "apply")
     /\ rto' = CreditedFrom(doc)
     /\ Becomes(w, CASE LastOf(doc) -> [step |-> "complete", via |-> task[w].via]
                     [] ~LastOf(doc) /\ task[w].via = "hook" -> [step |-> "clear"]
                     [] OTHER -> Resting)
     /\ UNCHANGED <<offer, schedule, rtoIntents, rtoLedger, rtoStatements, befell>>

\* completeAndTransfer: proof of ownership, and what is left of the schedule is waived.
Complete(w) ==
  /\ At(w, "complete")
  /\ rto' = [rto EXCEPT !.status = "completed", !.proof = TRUE]
  /\ schedule' = [n \in DOMAIN schedule |-> IF schedule[n] = "scheduled" THEN "waived" ELSE schedule[n]]
  /\ IF task[w].via = "hook" THEN Becomes(w, [step |-> "clear"]) /\ UNCHANGED befell ELSE Finish(w)
  /\ UNCHANGED <<offer, rtoIntents, rtoLedger, rtoStatements>>

\* The block is lifted, and a card kept if there was none.
ClearAsk(w) ==
  /\ At(w, "clear")
  /\ KeepsCard(w, [rto EXCEPT !.ask = 0, !.due = 0])
  /\ UNCHANGED <<offer, schedule, rtoIntents, rtoLedger, rtoStatements>>

\* The entry says what the equity is missing now, whatever the customer paid.
BookPayoff(w) ==
  /\ At(w, "book_payoff")
  /\ AppendLedger(<<"payoff", 0>>, Payoff(task[w].doc), Payoff(task[w].doc))
  /\ IF Payoff(task[w].doc) = task[w].amount
       THEN Goto(w, "credit_payoff")
       ELSE Becomes(w, [task[w] EXCEPT !.step = "credit_payoff"]) /\ Befalls("payoff_moved")
  /\ UNCHANGED <<offer, rto, schedule, rtoIntents, rtoStatements>>

CreditPayoff(w) ==
  /\ At(w, "credit_payoff")
  /\ rto' = [rto EXCEPT !.credited = Cash]
  /\ rtoStatements' = rtoStatements \cup {<<"payoff", 0>>}
  /\ Becomes(w, [step |-> "complete", via |-> "payoff"])
  /\ UNCHANGED <<offer, schedule, rtoIntents, rtoLedger, befell>>

(***************************************************************************)
(* The customer pays an instalment now, or all of it.                      *)
(***************************************************************************)

\* The bound on payment intents.
IntentsLeft ==
  Cardinality({i \in DOMAIN rtoIntents : rtoIntents[i].status # "declined"})
    + Cardinality({w \in Workers : task[w].step \in {"charge", "open_intent"}}) < MaxIntents

\* payInstallment: the instalment the customer was asked for, else the first not settled.
Target == IF rto.ask # 0 THEN rto.ask ELSE Min(Owed)

PayInstalment(w) ==
  /\ rto.status \notin Closed \cup {"none"}
  /\ rto.kind \notin {"acceptance", "installment"}
  /\ rto.ask # 0 \/ Owed # {}
  /\ IntentsLeft
  /\ Begin(w, [step |-> "open_intent", kind |-> "installment", n |-> Target, amount |-> Price])
  /\ UNCHANGED <<offer, rto, schedule, rtoIntents, rtoLedger, rtoStatements>>

PayOff(w) ==
  /\ rto.status \notin Closed \cup {"none"}
  /\ rto.kind # "acceptance"
  /\ IF Payoff(rto) > 0
       THEN /\ IntentsLeft
            /\ Begin(w, [step |-> "open_intent", kind |-> "payoff", n |-> 0, amount |-> Payoff(rto)])
       ELSE Begin(w, [step |-> "complete", via |-> "payoff"])
  /\ UNCHANGED <<offer, rto, schedule, rtoIntents, rtoLedger, rtoStatements>>

OpenIntent(w) ==
  LET t == task[w] IN
    /\ At(w, "open_intent")
    /\ rtoIntents' = Opened(t.kind, t.n, t.amount, "open")
    /\ Awaits(w, [rto EXCEPT !.pending = NextIntent, !.kind = t.kind,
                             !.due = IF t.kind = "installment" THEN t.n ELSE @], None)
    /\ UNCHANGED <<offer, schedule, rtoLedger, rtoStatements>>

(***************************************************************************)
(* The seller's remedies, and the return of the goods.  Each reads the     *)
(* agreement, checks that it is running, and then writes its status.       *)
(***************************************************************************)

\* Mutant: the check that the agreement is still running is dropped.
RunningAny == rto.status # "none"

\* assertLive
Running == rto.status \notin Closed \cup {"none"}

\* deferPayment, agreeArrangement, pauseAgreement, requestReturn
RemedyRead(w, to) ==
  /\ Running
  /\ rto.status # to
  /\ Begin(w, [step |-> "remedy", to |-> to])
  /\ UNCHANGED <<offer, rto, schedule, rtoIntents, rtoLedger, rtoStatements>>

\* applyRemedy; a deferral makes what was missed scheduled again.
RemedyApply(w) ==
  LET to == task[w].to IN
    /\ At(w, "remedy")
    /\ rto' = [rto EXCEPT !.status = to]
    /\ schedule' = IF to = "active"
                   THEN [n \in DOMAIN schedule |-> IF n \in Owed THEN "scheduled" ELSE schedule[n]]
                   ELSE schedule
    /\ Finish(w)
    /\ UNCHANGED <<offer, rtoIntents, rtoLedger, rtoStatements>>

\* recordPartialPayment: the charge is opened, and booked as if it had been paid.
PartialPayment(w) ==
  /\ Running
  /\ rto.arrears = 0  \* bound: once
  /\ IntentsLeft
  /\ rtoIntents' = Opened("partial", 0, 1, "open")
  /\ AppendLedger(<<"partial", 0>>, 1, 0)
  /\ rto' = [rto EXCEPT !.arrears = @ + 1]
  /\ Idle(w)
  /\ Befalls("partial")
  /\ UNCHANGED <<offer, schedule, rtoStatements, task>>

\* sweepDelinquency and assessLateFee: one fee per missed instalment, recorded and not charged.
Escalate ==
  LET missed == {n \in 1..Instalments : schedule[n] = "missed"} IN
    /\ rto.status = "grace"
    /\ missed # {}
    /\ rto' = [rto EXCEPT !.status = "late"]
    /\ AppendLedger(<<"late_fee", Min(missed)>>, 1, 0)
    /\ AtOnce
    /\ UNCHANGED <<offer, schedule, rtoIntents, rtoStatements>>

\* reinstateAgreement
Reinstate(w) ==
  /\ rto.status \notin {"none", "completed", "active"}
  /\ rto.status = "cancelled" => Reinstatable
  /\ rto' = [rto EXCEPT !.status = "active"]
  /\ Idle(w)
  /\ IF rto.status = "cancelled" THEN Befalls("reinstated") ELSE UNCHANGED befell
  /\ UNCHANGED <<offer, schedule, rtoIntents, rtoLedger, rtoStatements, task>>

\* computeRtoReturn over returnInputFor: the deposit counts as paid whether it cleared or not.
RefundOf == IF Refundable THEN rto.deposit + rto.paid * Price + rto.arrears ELSE 0

Refunds == Cardinality({e \in rtoLedger : e.key[1] = "refund"})

ReturnBegin(w) ==
  /\ rto.status = "return_pending"
  /\ Refunds = 0  \* bound: one return of an agreement
  /\ Begin(w, [step |-> "settle_return", refund |-> RefundOf])
  /\ UNCHANGED <<offer, rto, schedule, rtoIntents, rtoLedger, rtoStatements>>

\* completeReturn: the refund is booked, the agreement closed, the rest of the schedule waived.
ReturnSettle(w) ==
    /\ At(w, "settle_return")
    /\ IF task[w].refund > 0
         THEN AppendLedger(<<"refund", Refunds>>, -task[w].refund, 0) ELSE UNCHANGED rtoLedger
    /\ rto' = [rto EXCEPT !.status = "cancelled"]
    /\ schedule' = [n \in DOMAIN schedule |-> IF n \in Owed THEN "waived" ELSE schedule[n]]
    /\ Finish(w)
    /\ UNCHANGED <<offer, rtoIntents, rtoStatements>>

RtoCrash(w) == Dies(w) /\ UNCHANGED <<offer, rto, schedule, rtoIntents, rtoLedger, rtoStatements>>

RtoStart(w) ==
  \/ AcceptBegin(w) \/ SweepList(w) \/ PayInstalment(w) \/ PayOff(w) \/ PartialPayment(w)
  \/ Reinstate(w) \/ ReturnBegin(w)
  \/ \E i \in DOMAIN rtoIntents : SettleClaim(w, i)
  \/ \E to \in Remedies : RemedyRead(w, to)

RtoContinue(w) ==
  \/ AcceptClaim(w) \/ AcceptCharge(w) \/ AcceptRefused(w)
  \/ \E d \in Deposits : AcceptCreate(w, d)
  \/ SweepLoad(w) \/ SweepCharge(w) \/ SweepChallenged(w) \/ SweepMissed(w) \/ SweepThrows(w)
  \/ AttachCard(w) \/ BookDeposit(w) \/ CreditDeposit(w) \/ BookInstalment(w)
  \/ ClaimInstalment(w) \/ ApplyInstalment(w) \/ Complete(w) \/ ClearAsk(w)
  \/ BookPayoff(w) \/ CreditPayoff(w) \/ OpenIntent(w) \/ RemedyApply(w) \/ ReturnSettle(w)

RtoNext ==
  \/ Publish \/ TakenByAnother \/ Escalate
  \/ \E s \in {"active", "paused", "withdrawn"} : SetOffer(s)
  \/ \E g \in Gates : CloseGate(g)
  \/ \E i \in DOMAIN rtoIntents : Confirm(i)
  \/ \E w \in Workers : RtoStart(w) \/ RtoContinue(w) \/ RtoCrash(w)

RtoSpec == HandlersInit /\ RtoInit /\ [][RtoNext]_rtoVars

(***************************************************************************)
(* Properties.                                                             *)
(***************************************************************************)

Collected ==
  SumFunction([i \in DOMAIN rtoIntents |->
                 IF rtoIntents[i].status = "succeeded" THEN rtoIntents[i].amount ELSE 0])

Entries(kinds) == {e \in rtoLedger : e.key[1] \in kinds}

Received == {"initial", "instalment", "payoff", "partial"}

Total(entries) == SumFunction([e \in entries |-> e.amount])

Equity == SumFunction([e \in rtoLedger |-> e.credit])

\* The part of a payment that buys the goods.
EquityOf(i) == IF i.kind \in {"sweep", "installment"} THEN 1 ELSE IF i.kind = "partial" THEN 0 ELSE i.amount

EquityPaid ==
  SumFunction([i \in DOMAIN rtoIntents |->
                 IF rtoIntents[i].status = "succeeded" THEN EquityOf(rtoIntents[i]) ELSE 0])

\* Proof of ownership is issued only to a customer whose confirmed payments, less rent, cover
\* the cash price, unless the acceptance broke off before its deposit was asked for: nothing
\* asks for it again, and the instalments alone then complete the agreement.
RtoOwnedIsPaid ==
  Spared({"crash", "overlap", "refused"}) /\ rto.proof => EquityPaid >= Cash

\* The immutable ledger never says more was received than Stripe collected, but for a part
\* payment, which is booked when its charge is merely opened, and a payoff whose sum changed
\* meanwhile, which is booked at what is missing when it settles.
RtoLedgerBacked ==
  Spared({"partial", "payoff_moved"}) => Total(Entries(Received)) <= Collected

\* Every payment the customer confirmed is in the ledger once it is settled: but for handlers
\* broken off or overlapping, an intent replaced by another before it was paid, a payoff
\* whose sum changed meanwhile, and an instalment the customer had been asked for or that was
\* missed, which stays owed after it is paid.
RtoChargedIsBooked ==
  (/\ Spared(Interrupted \cup {"superseded", "payoff_moved", "asked", "missed"})
   /\ AllIdle
   /\ \A i \in DOMAIN rtoIntents : ~AwaitedNow(i))
  => Total(Entries(Received)) >= Collected

\* No instalment is paid twice, by the sweep and the customer together or by either alone,
\* but for the same.
RtoInstalmentPaidOnce ==
  Spared(Interrupted \cup {"superseded", "asked", "missed"})
  => \A n \in 1..Instalments :
       Cardinality({i \in DOMAIN rtoIntents :
                      rtoIntents[i].n = n /\ rtoIntents[i].status = "succeeded"}) <= 1

\* The counters of the agreement, which are written absolutely, agree with its ledger unless
\* a handler was broken off or overtaken.
RtoCountsMatchLedger ==
  Spared(Interrupted) /\ AllIdle
  => rto.credited = Equity /\ rto.paid = Cardinality(Entries({"instalment"}))

\* Each payment booked has been split between the owner, the seller and the platform, and
\* nothing else has, unless a handler broke off.
RtoSplitsFollowLedger ==
  Spared({"crash", "thrown"}) /\ AllIdle
  => {e.key : e \in Entries({"initial", "instalment", "payoff"})} = rtoStatements

\* No more agreements run than there are goods, unless the charge of an acceptance was
\* refused: its unit is handed back and the agreement stays.
RtoStockHolds ==
  Spared({"refused"}) => offer.sold + (IF rto.status = "none" THEN 0 ELSE 1) <= Units

\* A customer is bound only while seller, city and category are cleared, though the offer was
\* published earlier; a gate that closes while the acceptance runs is not noticed.
RtoGated == Spared({"overlap"}) /\ rto.status # "none" => offer.gates = Gates

\* A return never refunds more than was collected, once the deposit has cleared; an uncleared
\* deposit and an unpaid part payment count as paid.
RtoRefundCovered ==
  Spared({"overlap", "partial"}) /\ (Booked(<<"initial", 0>>) \/ rto.deposit = 0)
  => -Total(Entries({"refund"})) <= Collected

\* Ownership, stock and gates: who is bound, and who may call the goods their own.
RtoOwnershipEarned == RtoOwnedIsPaid /\ RtoStockHolds /\ RtoGated

\* The agreement's books against Stripe's: what was received, credited, split and refunded.
RtoBooksRight ==
  /\ RtoLedgerBacked
  /\ RtoChargedIsBooked
  /\ RtoInstalmentPaidOnce
  /\ RtoCountsMatchLedger
  /\ RtoSplitsFollowLedger
  /\ RtoRefundCovered

\* Once ownership has passed, no late payment, sweep or remedy reopens the agreement, unless
\* it had read it before, or a handler died between the credit of a payoff and the transfer:
\* an instalment asked for before the payoff is tried again is then settled after it.
RtoOwnedIsFinal ==
  [][rto.proof /\ Spared({"overlap", "crash"})' => rto'.status = "completed"]_rtoVars

=============================================================================
