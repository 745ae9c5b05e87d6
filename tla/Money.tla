------------------------------- MODULE Money --------------------------------
(***************************************************************************)
(* The arithmetic of prices, fees, refunds and schedules: pure functions   *)
(* over whole cents, shared by every component that moves money.  `asked'  *)
(* is one question that a caller puts to them, chosen from bounded inputs  *)
(* the schemas admit; the properties compare the answers with what each of *)
(* the functions promises.                                                 *)
(***************************************************************************)
EXTENDS Handlers, FiniteSetsExt

CONSTANT
  Whole  \* how many basis points are the whole: 10000, or less where small sums are to round

ASSUME WholeIsPositive == Whole \in Nat \ {0}

MaxOf(a, b) == IF a >= b THEN a ELSE b
MinOf(a, b) == IF a <= b THEN a ELSE b
CeilDiv(a, b) == -((-a) \div b)

SumOver(S, f(_)) == MapThenSumSet(f, S)

(***************************************************************************)
(* Rates and splits.                                                       *)
(***************************************************************************)

\* Mutant: a rate is rounded up, away from the payer.
ApplyBpsUp(base, bps) == IF base <= 0 \/ bps <= 0 THEN 0 ELSE CeilDiv(base * bps, Whole)

ApplyBps(base, bps) == IF base <= 0 \/ bps <= 0 THEN 0 ELSE (base * bps) \div Whole

ApplyPercent(base, percent) == ApplyBps(base, (percent * Whole) \div 100)

\* Leftover cents go to the largest discarded fractions, ties in the order given.
LargestFirst(fraction, i, j) == fraction[i] > fraction[j] \/ (fraction[i] = fraction[j] /\ i < j)

\* Mutant: to the first parts, whatever they lost.
FirstComeFirst(fraction, i, j) == i < j

ServedBefore(fraction, i, j) == LargestFirst(fraction, i, j)

\* allocate: parts of a total by weight; a part of no weight gets nothing.
Allocate(total, weights) ==
  LET parts == DOMAIN weights
      weight == [i \in parts |-> MaxOf(0, weights[i])]
      whole == SumOver(parts, LAMBDA i : weight[i])
      size == MaxOf(total, -total)
      sign == IF total < 0 THEN -1 ELSE 1
      floor == [i \in parts |-> (size * weight[i]) \div whole]
      fraction == [i \in parts |-> (size * weight[i]) % whole]
      left == size - SumOver(parts, LAMBDA i : floor[i])
      takers == {i \in parts : weight[i] > 0}
      before(i) == Cardinality({j \in takers \ {i} : ServedBefore(fraction, j, i)})
  IN IF whole = 0 \/ total = 0
       THEN [i \in parts |-> 0]
       ELSE [i \in parts |->
               sign * (floor[i] + IF i \in takers /\ before(i) < left THEN 1 ELSE 0)]

\* deductInOrder: each deduction takes, at most, what the ones before it left.
Wanted(deduction, left) ==
  IF deduction.by = "rate" THEN ApplyBps(left, deduction.n) ELSE MaxOf(0, deduction.n)

LeftAfter(gross, deductions) ==
  LET left[i \in 0 .. Len(deductions)] ==
        IF i = 0 THEN MaxOf(0, gross)
        ELSE left[i - 1] - MinOf(Wanted(deductions[i], left[i - 1]), left[i - 1])
  IN left

(***************************************************************************)
(* Fees and the price of an order.                                         *)
(***************************************************************************)

\* computeFee; a bound that the rule leaves out is the empty set.
ComputeFee(rule, base) ==
  MaxOf(0, Min({Max({rule.flat + ApplyBps(base, rule.rate)} \cup rule.min)} \cup rule.max))

ServiceFee(rates, goods) ==
  LET fee == ApplyBps(goods, rates.service)
      raised == IF rates.min > 0 THEN MaxOf(fee, rates.min) ELSE fee
      capped == IF rates.max > 0 THEN MinOf(raised, rates.max) ELSE raised
  IN IF rates.service > 0 THEN capped ELSE fee

\* computeOrderBreakdown: the processing fee is reckoned on all the rest, the tip included.
OrderBreakdown(subtotal, percent, gesture, rates) ==
  LET discount == ApplyPercent(subtotal, percent)
      goods == subtotal - discount
      rest == goods + ApplyBps(goods, rates.tax) + rates.delivery + ServiceFee(rates, goods)
              + gesture
  IN [discount |-> discount, gesture |-> gesture,
      total |-> rest + ApplyBps(rest, rates.processing) + rates.flat]

\* coverableOf: what a community fund may pay for; gestures are the customer's own.
Coverable(price) == MaxOf(0, price.total - price.gesture)

(***************************************************************************)
(* Refunds of a payment.                                                   *)
(***************************************************************************)

GoodsOf(txn) == MaxOf(0, txn.amount - txn.tip - txn.service - txn.processing)

PartialRefund(txn, asked) ==
  LET refunded == MaxOf(0, MinOf(asked, GoodsOf(txn)))
  IN [refunded |-> refunded, goods |-> refunded, tip |-> 0, service |-> 0, borne |-> 0,
      fee |-> IF GoodsOf(txn) > 0 THEN (txn.fee * refunded) \div GoodsOf(txn) ELSE 0]

CancelRefund(txn) ==
  [refunded |-> txn.amount, goods |-> GoodsOf(txn), tip |-> txn.tip, service |-> txn.service,
   borne |-> 0, fee |-> txn.fee]

ServedRefund(txn) ==
  [refunded |-> GoodsOf(txn), goods |-> GoodsOf(txn), tip |-> 0, service |-> 0,
   borne |-> txn.processing, fee |-> 0]

(***************************************************************************)
(* Rent-to-own: what is disclosed, and how one payment is divided.         *)
(***************************************************************************)

Markup(terms) == ApplyBps(terms.cash, terms.markup)
Initial(terms) == MaxOf(0, MinOf(terms.initial, terms.cash))
Financed(terms) == terms.cash + Markup(terms) - Initial(terms)

\* computeRtoQuote: the last instalment absorbs the rounding of the others.
Schedule(terms) ==
  LET n == terms.n
      each == CeilDiv(Financed(terms), n)
      equity == (terms.cash - Initial(terms)) \div n
  IN [i \in 1 .. n |->
        IF i < n THEN [amount |-> each, owned |-> equity]
        ELSE [amount |-> Financed(terms) - each * (n - 1),
              owned |-> (terms.cash - Initial(terms)) - equity * (n - 1)]]

ComputePayoff(cash, owned) == MaxOf(0, cash - owned)

\* splitConsignmentRto: tax, refund and delivery first, then both fees on what they left.
SplitConsignmentRto(gross, rates) ==
  LET left == LeftAfter(gross, <<[by |-> "rate", n |-> rates.tax],
                                 [by |-> "cents", n |-> rates.refund],
                                 [by |-> "cents", n |-> rates.delivery]>>)
      fees == ApplyBps(left[3], rates.platform) + ApplyBps(left[3], rates.processing)
      shared == MaxOf(0, left[3] - fees)
      commission == ApplyBps(shared, rates.commission)
  IN [deducted |-> left[0] - left[3], fees |-> fees, commission |-> commission,
      owner |-> shared - commission]

(***************************************************************************)
(* The price of a mailing, and the times an order may be collected.        *)
(***************************************************************************)

RoundDiv(a, b) == (2 * a + b) \div (2 * b)

\* priceOrder, on the retail basis: the margin is a share of what the buyer pays.
MailingTotal(cost, margin) == RoundDiv(cost * Whole, Whole - margin)

RoundToSlot(at, slot) == CeilDiv(at, slot) * slot

\* Mutant: a pickup is moved to the slot before the time asked for.
RoundToSlotBefore(at, slot) == (at \div slot) * slot

PickupSlot(at, slot) == RoundToSlot(at, slot)

\* resolvePickupSlot: the slot a requested time lands in, or none.
ResolvePickupSlot(at, now, config) ==
  {t \in {PickupSlot(at, config.slot)} :
     config.enabled /\ t - now >= config.lead /\ t - now <= config.ahead}

\* availableSlots: those offered to choose from; `limit' is the length of the list.
AvailableSlots(now, horizon, config, limit) ==
  LET first == PickupSlot(now + config.lead, config.slot)
      last == now + MinOf(horizon, config.ahead)
  IN {t \in {first + k * config.slot : k \in 0 .. limit - 1} : config.enabled /\ t <= last}

(***************************************************************************)
(* The questions.                                                          *)
(***************************************************************************)
CONSTANTS
  MaxCents,  \* bound: the largest sum asked about
  MaxParts   \* bound: parts of a split, instalments of a plan

VARIABLE asked

sumsVars == <<asked, task, befell>>

SumsInit == asked = [about |-> "nothing"]

Ask(question) ==
  /\ asked.about = "nothing"
  /\ asked' = question
  /\ Outside

Cents == 0 .. MaxCents

\* The rates asked about: none, one that divides the whole, one that does not, a large one.
Rates == {0, Whole \div 10, Whole \div 3, (9 * Whole) \div 10}

AskSplit ==
  \E n \in 1 .. MaxParts, total \in -3 .. MaxCents : \E weights \in [1 .. n -> -1 .. 2] :
    Ask([about |-> "split", total |-> total, weights |-> weights])

AskOrder ==
  \E subtotal \in Cents, percent \in {0, 10, 33, 90}, gesture \in {0, 3}, service \in Rates,
     min \in {0, 2}, max \in {0, 4}, processing \in Rates :
    Ask([about |-> "order", subtotal |-> subtotal, percent |-> percent, gesture |-> gesture,
         rates |-> [service |-> service, min |-> min, max |-> max, tax |-> 0, delivery |-> 0,
                    processing |-> processing, flat |-> IF processing = 0 THEN 0 ELSE 1]])

AskFee ==
  \E base \in Cents, flat \in {0, 1}, rate \in Rates, min \in {{}, {2}}, max \in {{}, {3}} :
    Ask([about |-> "fee", base |-> base,
         rule |-> [flat |-> flat, rate |-> rate, min |-> min, max |-> max]])

\* A payment is of goods with what was added to them, and carries the fee on the goods.
AskRefund ==
  \E goods \in Cents, tip \in {0, 2}, service \in {0, 1}, processing \in {0, 1}, rate \in Rates :
    Ask([about |-> "refund",
         txn |-> [amount |-> goods + tip + service + processing, tip |-> tip, service |-> service,
                  processing |-> processing, fee |-> ApplyBps(goods, rate)]])

AskPlan ==
  \E cash \in Cents \ {0}, initial \in {0, 3}, n \in 1 .. MaxParts, markup \in Rates :
    Ask([about |-> "plan",
         terms |-> [cash |-> cash, initial |-> initial, n |-> n, markup |-> markup]])

AskDivision ==
  \E gross \in Cents, tax \in Rates, refund \in {0, 4}, delivery \in {0, 3},
     platform \in {0, Whole \div 10}, processing \in {0, Whole \div 3}, commission \in Rates :
    Ask([about |-> "division", gross |-> gross,
         rates |-> [tax |-> tax, refund |-> refund, delivery |-> delivery, platform |-> platform,
                    processing |-> processing, commission |-> commission]])

AskSlot ==
  \E now \in 0 .. 7, at \in 0 .. MaxCents, slot \in {2, 3}, lead \in {0, 1, 4},
     ahead \in {6, 9}, enabled \in BOOLEAN :
    Ask([about |-> "slot", now |-> now, at |-> at,
         config |-> [enabled |-> enabled, slot |-> slot, lead |-> lead, ahead |-> ahead]])

AskMailing ==
  \E cost \in Cents \ {0}, margin \in Rates :
    Ask([about |-> "mailing", cost |-> cost, margin |-> margin])

SumsNext ==
  \/ AskSplit \/ AskOrder \/ AskFee \/ AskRefund
  \/ AskPlan \/ AskDivision \/ AskSlot \/ AskMailing

(***************************************************************************)
(* Properties.                                                             *)
(***************************************************************************)

Distance(a, b) == MaxOf(a - b, b - a)

\* Parts of a split add up to the total, to the cent; each is less than a cent from its exact
\* share, and a party of no weight is given nothing (money.ts allocate).
SplitIsExact ==
  asked.about = "split" =>
    LET parts == DOMAIN asked.weights
        share == Allocate(asked.total, asked.weights)
        weight == [i \in parts |-> MaxOf(0, asked.weights[i])]
        whole == SumOver(parts, LAMBDA i : weight[i])
    IN IF whole = 0 THEN \A i \in parts : share[i] = 0
       ELSE /\ SumOver(parts, LAMBDA i : share[i]) = asked.total
            /\ \A i \in parts : weight[i] = 0 => share[i] = 0
            /\ \A i \in parts : Distance(share[i] * whole, asked.total * weight[i]) < whole

\* A larger basket or a smaller discount never costs less, however fees are bounded and rounded,
\* and a community fund covers no more than the price (orders/pricing.ts).
PriceIsMonotone ==
  asked.about = "order" =>
    LET price(subtotal, percent) == OrderBreakdown(subtotal, percent, asked.gesture, asked.rates)
        it == price(asked.subtotal, asked.percent)
    IN /\ it.total <= price(asked.subtotal + 1, asked.percent).total
       /\ it.total <= price(asked.subtotal, asked.percent - 10).total
       /\ Coverable(it) + asked.gesture = it.total

\* A fee grows with what it is charged on, and keeps within the bounds of its rule (fees.ts).
FeeIsBounded ==
  asked.about = "fee" =>
    LET fee == ComputeFee(asked.rule, asked.base)
    IN /\ fee <= ComputeFee(asked.rule, asked.base + 1)
       /\ \A least \in asked.rule.min : least <= fee
       /\ \A most \in asked.rule.max : fee <= most

\* Every cent of a payment is either refunded or named as kept; and two partial refunds never
\* return more of the platform's fee than one refund of both (refundPolicy.ts).
RefundAccountsForAll ==
  asked.about = "refund" =>
    LET txn == asked.txn
        cancelled == CancelRefund(txn)
        served == ServedRefund(txn)
    IN /\ cancelled.goods + cancelled.tip + cancelled.service + txn.processing = cancelled.refunded
       /\ served.refunded + served.borne + txn.tip + txn.service = txn.amount
       /\ \A a, b \in 0 .. GoodsOf(txn) : a + b <= GoodsOf(txn) =>
            /\ PartialRefund(txn, a).fee + PartialRefund(txn, b).fee
                 <= PartialRefund(txn, a + b).fee
            /\ PartialRefund(txn, a + b).fee <= cancelled.fee

Paid(plan, k) == SumOver(1 .. k, LAMBDA i : plan[i].amount)
Owned(plan, k) == SumOver(1 .. k, LAMBDA i : plan[i].owned)

\* The instalments come to what was financed and build exactly the ownership that was missing;
\* paying off early costs more than going on by less than two cents for each one paid; and unless
\* the sum is smaller than the plan is long, no instalment is negative (rto.pricing.ts).
PlanReconciles ==
  asked.about = "plan" =>
    LET terms == asked.terms
        plan == Schedule(terms)
        n == terms.n
    IN /\ Paid(plan, n) = Financed(terms)
       /\ Initial(terms) + Owned(plan, n) = terms.cash
       /\ \A k \in 1 .. n - 1 :
            Paid(plan, k) + ComputePayoff(terms.cash, Initial(terms) + Owned(plan, k))
              < Financed(terms) + 2 * k
       /\ Financed(terms) >= n * (n - 1) => \A i \in 1 .. n : plan[i].amount >= 0

\* A consignment instalment is divided to the cent, and nobody's part is negative, whatever the
\* deductions ask (rto.pricing.ts splitConsignmentRto).
DivisionReconciles ==
  asked.about = "division" =>
    LET split == SplitConsignmentRto(asked.gross, asked.rates)
    IN /\ split.deducted + split.fees + split.commission + split.owner = asked.gross
       /\ \A part \in {split.deducted, split.fees, split.commission, split.owner} : part >= 0

\* Every slot that is offered is accepted as it stands; and a time asked for is moved later, by
\* less than a slot, or refused (orders/scheduling.ts).
OfferedIsAccepted ==
  asked.about = "slot" =>
    /\ \A t \in AvailableSlots(asked.now, 8, asked.config, 5) :
         ResolvePickupSlot(t, asked.now, asked.config) = {t}
    /\ \A t \in ResolvePickupSlot(asked.at, asked.now, asked.config) :
         asked.at <= t /\ t < asked.at + asked.config.slot

\* The margin is its share of what the buyer pays, to half a cent (postcards.pricing.ts).
MarginIsItsShare ==
  asked.about = "mailing" =>
    LET total == MailingTotal(asked.cost, asked.margin)
    IN 2 * Distance((total - asked.cost) * Whole, total * asked.margin) <= Whole - asked.margin

\* What the arithmetic of money promises.
SumsRight ==
  /\ SplitIsExact /\ PriceIsMonotone /\ FeeIsBounded /\ RefundAccountsForAll
  /\ PlanReconciles /\ DivisionReconciles /\ OfferedIsAccepted /\ MarginIsItsShare

=============================================================================
