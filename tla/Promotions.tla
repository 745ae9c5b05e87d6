----------------------------- MODULE Promotions -----------------------------
(***************************************************************************)
(* Flash sales and the one contest of discounts: a vendor puts sales on    *)
(* and pulls them, the map's pin advertises the best one, and an order     *)
(* takes the best of the sales in force and the place in line it holds.    *)
(***************************************************************************)
EXTENDS Handlers, FiniteSetsExt

CONSTANTS
  FlashSales,
  MenuItems,
  Percents,   \* what a vendor may ask for
  LinePercents,  \* what a place in line may have locked
  MostPercent,   \* MAX_DISCOUNT_PERCENT
  LongestSale,   \* MAX_FLASH_SALE_DAYS
  LastDay        \* bound: the days of a behaviour

VARIABLES
  sale,   \* flash_sales
  today,    \* the time; the minute of slack a start has is less than a day
  pin,    \* what the map advertised, and whether that still stands
  order   \* one customer's order, what priced it, and the pin the customer saw

saleVars == <<sale, today, pin, order, task, befell>>

NoSale == [made |-> FALSE, item |-> None, percent |-> 0, from |-> 0, to |-> 0, cancelled |-> None]

PromotionsInit ==
  /\ sale = [s \in FlashSales |-> NoSale]
  /\ today = 0
  /\ pin = [percent |-> 0, stands |-> FALSE]
  /\ order = [placed |-> FALSE, by |-> None, percent |-> 0, cart |-> {}, line |-> 0, at |-> 0,
              pin |-> 0]

CreateSale(s, item, percent, from, to) ==
  /\ ~sale[s].made
  /\ from < to /\ from >= today /\ to - from <= LongestSale /\ percent <= MostPercent
  /\ sale' = [sale EXCEPT ![s] = [NoSale EXCEPT !.made = TRUE, !.item = item, !.percent = percent,
                                                !.from = from, !.to = to]]
  /\ Outside
  /\ UNCHANGED <<today, pin, order>>

CancelSale(s) ==
  /\ sale[s].made /\ sale[s].cancelled = None
  /\ sale' = [sale EXCEPT ![s].cancelled = today]
  /\ pin' = [pin EXCEPT !.stands = FALSE]
  /\ Outside
  /\ UNCHANGED <<today, order>>

NextDay ==
  /\ today < LastDay
  /\ today' = today + 1
  /\ pin' = [pin EXCEPT !.stands = FALSE]
  /\ Outside
  /\ UNCHANGED <<sale, order>>

\* Mutant: a sale that was pulled goes on until its end.
LiveThoughPulled(s) == sale[s].made /\ sale[s].from <= today /\ today < sale[s].to

LiveSale(s) ==
  sale[s].made /\ sale[s].cancelled = None /\ sale[s].from <= today /\ today < sale[s].to

\* Mutant: a sale of one item is advertised as a sale of everything.
BestOfAnything == Max({0} \cup {sale[s].percent : s \in {t \in FlashSales : LiveSale(t)}})

\* liveDiscountByBusiness: only sales of the whole business are put on the pin.
LiveDiscount ==
  Max({0} \cup {sale[s].percent : s \in {t \in FlashSales : LiveSale(t) /\ sale[t].item = None}})

LookAtMap ==
  /\ pin' = [percent |-> LiveDiscount, stands |-> TRUE]
  /\ Outside
  /\ UNCHANGED <<sale, today, order>>

\* candidatesFor: sales of everything, and of what is in the cart.
CandidatesFor(cart) ==
  {s \in FlashSales : LiveSale(s) /\ (sale[s].item = None \/ sale[s].item \in cart)}

\* resolveDiscount: discounts do not add up, the best one wins, up to the ceiling.
ResolveDiscount(cart, line) ==
  Min({MostPercent, Max({0, line} \cup {sale[s].percent : s \in CandidatesFor(cart)})})

\* The sale that won, unless the place in line did.
Winner(cart, line) ==
  LET best == {s \in CandidatesFor(cart) :
                 \A t \in CandidatesFor(cart) : sale[t].percent <= sale[s].percent}
  IN {s \in best : sale[s].percent > line}

\* priceOrder, as the quote and the order call it; Orders models what placing does with the price.
PriceOrder(cart, line) ==
  /\ \E by \in IF Winner(cart, line) = {} THEN {None} ELSE Winner(cart, line) :
       order' = [placed |-> TRUE, by |-> by, percent |-> ResolveDiscount(cart, line), cart |-> cart,
                 line |-> line, at |-> today, pin |-> IF pin.stands THEN pin.percent ELSE 0]
  /\ Outside
  /\ UNCHANGED <<sale, today, pin>>

\* The bound: a behaviour ends with its one order.
PromotionsNext ==
  /\ ~order.placed
  /\ \/ \E s \in FlashSales, item \in MenuItems \cup {None}, percent \in Percents,
           from \in 0 .. LastDay, to \in 0 .. LastDay + 1 : CreateSale(s, item, percent, from, to)
     \/ \E s \in FlashSales : CancelSale(s)
     \/ NextDay
     \/ LookAtMap
     \/ \E cart \in SUBSET MenuItems \ {{}}, line \in LinePercents : PriceOrder(cart, line)

(***************************************************************************)
(* Properties.                                                             *)
(***************************************************************************)

\* The sale that priced an order was in force when it was priced, was for something in the cart,
\* and had not been pulled by an earlier day (promotions.service.ts candidatesFor).
PricedByALiveSale ==
  order.placed /\ order.by # None =>
    LET by == sale[order.by]
    IN /\ by.from <= order.at /\ order.at < by.to
       /\ by.item = None \/ by.item \in order.cart
       /\ by.cancelled # None => by.cancelled >= order.at

\* What the pin advertised is what a customer who orders then is given, or better, whatever the
\* cart (livemap.service.ts:520-529 and orders.service.ts priceOrder).
PinIsHonoured == order.placed => order.percent >= order.pin

\* A place in line is never lost to a smaller sale, two discounts never add up, and no order is
\* free (discounts.ts resolveDiscount).
BestOneWins ==
  order.placed =>
    /\ order.percent <= MostPercent
    /\ order.percent >= Min({order.line, MostPercent})
    /\ order.percent \in Percents \cup LinePercents \cup {0, MostPercent}

PromotionsRight == PricedByALiveSale /\ PinIsHonoured /\ BestOneWins

=============================================================================
