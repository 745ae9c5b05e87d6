------------------------------ MODULE MCTrade ------------------------------
(***************************************************************************)
(* The trading components, checked in one run.  They share no state, so a  *)
(* behaviour follows one of them, `focus', and the rows of the others stay *)
(* as they were, or are not there: the states explored are the sum of the  *)
(* components' and not their product.                                      *)
(***************************************************************************)
EXTENDS Rto, Consignment, ConsignmentTerm, SellerMoney, Boost, Delivery,
     Promotions, Money, TLC

VARIABLE focus

\* The sets of alike things have the same two members in every component.
Symmetry == Permutations(Workers) \cup Permutations(Sales)

rtoRows == <<offer, rto, schedule, rtoIntents, rtoLedger, rtoStatements>>
consRows == <<documents, world>>
termRows == <<day, lease, told, swept, flagged>>
moneyRows == <<rows, stripe>>
boostRows == <<campaign, gift, escrow, charge>>
deliveryRows == <<delivery, driver, fare, pay>>
promotionsRows == <<sale, today, pin, order>>
sumsRows == <<asked>>

vars ==
  <<rtoRows, consRows, termRows, moneyRows, boostRows, deliveryRows, promotionsRows, sumsRows, task,
    befell, focus>>

\* Not deployed: no rows at all.
NoConsignment ==
  /\ shelf = None /\ checkouts = None /\ sales = None /\ handed = None /\ settlement = None
  /\ payments = None /\ intents = None /\ events = None /\ owed = None /\ starter = None
NoTerm == day = None /\ lease = None /\ told = None /\ swept = None /\ flagged = None
NoMoney ==
  /\ sold = None /\ debts = None /\ books = None /\ posted = None /\ transfers = None
  /\ pulled = None /\ refunded = None /\ refundsMade = None /\ bank = None
NoBoost == campaign = None /\ gift = None /\ escrow = None /\ charge = None
NoPromotions == sale = None /\ today = None /\ pin = None /\ order = None

Init ==
  /\ focus \in {"rto", "consignment", "term", "money", "boost", "delivery", "promotions", "sums"}
  /\ HandlersInit /\ RtoInit /\ DeliveryInit /\ SumsInit
  /\ IF focus = "consignment" THEN ConsInit ELSE NoConsignment
  /\ IF focus = "term" THEN TermInit ELSE NoTerm
  /\ IF focus = "money" THEN MoneyInit ELSE NoMoney
  /\ IF focus = "boost" THEN BoostInit ELSE NoBoost
  /\ IF focus = "promotions" THEN PromotionsInit ELSE NoPromotions

Next ==
  /\ UNCHANGED focus
  /\ \/ /\ focus = "rto" /\ RtoNext
        /\ UNCHANGED <<consRows, termRows, moneyRows, boostRows, deliveryRows, promotionsRows,
                     sumsRows>>
     \/ /\ focus = "consignment" /\ ConsNext
        /\ UNCHANGED <<rtoRows, termRows, moneyRows, boostRows, deliveryRows, promotionsRows,
                     sumsRows>>
     \/ /\ focus = "term" /\ TermNext
        /\ UNCHANGED <<rtoRows, consRows, moneyRows, boostRows, deliveryRows, promotionsRows,
                     sumsRows>>
     \/ /\ focus = "money" /\ MoneyNext
        /\ UNCHANGED <<rtoRows, consRows, termRows, boostRows, deliveryRows, promotionsRows,
                     sumsRows>>
     \/ /\ focus = "boost" /\ BoostNext
        /\ UNCHANGED <<rtoRows, consRows, termRows, moneyRows, deliveryRows, promotionsRows,
                     sumsRows>>
     \/ /\ focus = "delivery" /\ DeliveryNext
        /\ UNCHANGED <<rtoRows, consRows, termRows, moneyRows, boostRows, promotionsRows, sumsRows>>
     \/ /\ focus = "promotions" /\ PromotionsNext
        /\ UNCHANGED <<rtoRows, consRows, termRows, moneyRows, boostRows, deliveryRows, sumsRows>>
     \/ /\ focus = "sums" /\ SumsNext
        /\ UNCHANGED <<rtoRows, consRows, termRows, moneyRows, boostRows, deliveryRows,
                     promotionsRows>>

Spec == Init /\ [][Next]_vars

\* A hub's goods and their term, each as its module states it.
HubRight ==
  /\ focus = "consignment" => ConsignmentRight
  /\ focus = "term" => TermRight

\* Money held for sellers and for campaigns, each as its module states it.
FundsRight ==
  /\ focus = "money" => SellerMoneyRight
  /\ focus = "boost" => BoostRight

\* Discounts, and the arithmetic of prices, each as its module states it.
PricesRight ==
  /\ focus = "promotions" => PromotionsRight
  /\ focus = "sums" => SumsRight

=============================================================================
