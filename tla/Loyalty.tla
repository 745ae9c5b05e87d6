------------------------------ MODULE Loyalty -------------------------------
(***************************************************************************)
(* What a completed order earns besides the food: a stamp on the           *)
(* customer's card at one business, and the rewards a full card turns      *)
(* into; and the conversion of the referral through which the customer     *)
(* joined, with its credits, up to the referrer's lifetime cap.            *)
(***************************************************************************)
EXTENDS Handlers

CONSTANTS
  Friends,       \* customers, each of whom one member may have referred
  Trips,         \* bound: the orders each of them completes
  CardSizes,     \* the numbers of stamps a vendor asks for
  LifetimeCap    \* REFERRAL_LIFETIME_CAP

ASSUME LoyaltyAssumption ==
  /\ IsFiniteSet(Workers) /\ IsFiniteSet(Friends)
  /\ CardSizes \subseteq Nat \ {0} /\ LifetimeCap \in Nat

VARIABLES
  program,       \* loyalty_programs: the business's programme
  trips,         \* external: how many orders each customer completed, and had stamped
  card,          \* loyalty_cards
  rewards,       \* loyalty_rewards: made, redeemed, and the stamps they cost
  referral,      \* referrals: status by the person referred
  lapsing,       \* who let the referral window pass
  credits,       \* referral_credits: for whom, by referral
  earned         \* referral_codes: the referrer's rewards_earned, None without a code

loyaltyVars == <<program, trips, card, rewards, referral, lapsing, credits, earned, task, befell>>

stamps == <<card, rewards>>
referrals == <<referral, lapsing, credits, earned>>

LoyaltyInit ==
  /\ program = [active |-> FALSE, required |-> 0]
  /\ trips = [f \in Friends |-> [done |-> 0, stamped |-> 0]]
  /\ card = [f \in Friends |-> [stamps |-> 0, lifetime |-> 0]]
  /\ rewards = [f \in Friends |-> [made |-> 0, redeemed |-> 0, cost |-> 0]]
  /\ referral = [f \in Friends |-> "none"]
  /\ lapsing = {}
  /\ credits = {}
  /\ earned = None

(***************************************************************************)
(* The card.                                                               *)
(***************************************************************************)

\* setProgram.  To change a programme that customers collect for is out of the ordinary.
SetProgram(n, active) ==
  LET p == [active |-> active, required |-> n] IN
  /\ program # p
  /\ program' = p
  /\ IF program.required = 0 THEN AtOnce ELSE Befalls("reprogrammed") /\ UNCHANGED task
  /\ UNCHANGED <<trips, stamps, referrals>>

\* A completed order starts the two awards and waits for neither.  They touch nothing in common, so
\* one worker makes one after the other.
CompleteTrip(w, f) ==
  /\ trips[f].done < Trips
  /\ trips' = [trips EXCEPT ![f].done = @ + 1,
                            ![f].stamped = IF program.active THEN @ + 1 ELSE @]
  /\ Begin(w, [step |-> IF program.active THEN "stamp" ELSE "convert", f |-> f,
               required |-> program.required])
  /\ UNCHANGED <<program, stamps, referrals>>

Stamp(w) ==
  LET f == task[w].f IN
  /\ At(w, "stamp")
  /\ card' = [card EXCEPT ![f].stamps = @ + 1, ![f].lifetime = @ + 1]
  /\ Goto(w, IF card[f].stamps + 1 < task[w].required THEN "convert" ELSE "consume")
  /\ UNCHANGED <<program, trips, rewards, referrals>>

\* Mutant: the stamps are taken off whatever is left on the card.
FullWhatever(f, n) == card[f].stamps > 0

Full(f, n) == card[f].stamps >= n

\* The stamps are consumed while they are there, so that one card makes one reward.
Consume(w) ==
  LET f == task[w].f IN
  /\ At(w, "consume")
  /\ IF Full(f, task[w].required)
       THEN /\ card' = [card EXCEPT ![f].stamps = @ - task[w].required]
            /\ Goto(w, "reward")
       ELSE Goto(w, "convert") /\ UNCHANGED card
  /\ UNCHANGED <<program, trips, rewards, referrals>>

Reward(w) ==
  /\ At(w, "reward")
  /\ rewards' = [rewards EXCEPT ![task[w].f].made = @ + 1,
                                ![task[w].f].cost = @ + task[w].required]
  /\ Goto(w, "convert")
  /\ UNCHANGED <<program, trips, card, referrals>>

\* redeem: claimed while it is unredeemed.
Redeem(f) ==
  /\ rewards[f].redeemed < rewards[f].made
  /\ rewards' = [rewards EXCEPT ![f].redeemed = @ + 1]
  /\ AtOnce
  /\ UNCHANGED <<program, trips, card, referrals>>

(***************************************************************************)
(* The referral.                                                           *)
(***************************************************************************)

MyCode ==
  /\ earned = None
  /\ earned' = 0
  /\ AtOnce
  /\ UNCHANGED <<program, trips, stamps, referral, lapsing, credits>>

\* claim: one referral per person, ever.
ClaimReferral(f) ==
  /\ earned # None
  /\ referral[f] = "none"
  /\ referral' = [referral EXCEPT ![f] = "pending"]
  /\ AtOnce
  /\ UNCHANGED <<program, trips, stamps, lapsing, credits, earned>>

WindowPasses(f) ==
  /\ referral[f] = "pending" /\ f \notin lapsing
  /\ lapsing' = lapsing \cup {f}
  /\ Outside
  /\ UNCHANGED <<program, trips, stamps, referral, credits, earned>>

\* sweepLapsed
LapseReferrals ==
  LET over == {f \in lapsing : referral[f] = "pending"} IN
  /\ over # {}
  /\ referral' = [f \in Friends |-> IF f \in over THEN "lapsed" ELSE referral[f]]
  /\ AtOnce
  /\ UNCHANGED <<program, trips, stamps, lapsing, credits, earned>>

\* onOrderCompleted: a pending referral converts, once.
Convert(w) ==
  LET f == task[w].f IN
  /\ At(w, "convert")
  /\ IF referral[f] = "pending" /\ f \notin lapsing
       THEN referral' = [referral EXCEPT ![f] = "converted"] /\ Goto(w, "capped")
       ELSE Finish(w) /\ UNCHANGED referral
  /\ UNCHANGED <<program, trips, stamps, lapsing, credits, earned>>

CapRead(w) ==
  /\ At(w, "capped")
  /\ IF earned >= LifetimeCap
       THEN Finish(w)
       ELSE Becomes(w, [step |-> "credit", f |-> task[w].f, earned |-> earned]) /\ UNCHANGED befell
  /\ UNCHANGED <<program, trips, stamps, referrals>>

\* The referrer's credit, then the friend's.
Credit(w) ==
  LET f == task[w].f
      next == IF <<f, "referrer">> \in credits THEN "friend" ELSE "referrer"
  IN
  /\ At(w, "credit")
  /\ credits' = credits \cup {<<f, next>>}
  /\ Goto(w, IF next = "friend" THEN "count" ELSE "credit")
  /\ UNCHANGED <<program, trips, stamps, referral, lapsing, earned>>

\* The count that was read is saved one higher.
Count(w) ==
  /\ At(w, "count")
  /\ earned' = task[w].earned + 1
  /\ Finish(w)
  /\ UNCHANGED <<program, trips, stamps, referral, lapsing, credits>>

LoyaltyHandlerDies(w) == Dies(w) /\ UNCHANGED <<program, trips, stamps, referrals>>

LoyaltyNext ==
  \/ \E n \in CardSizes, active \in BOOLEAN : SetProgram(n, active)
  \/ MyCode \/ LapseReferrals
  \/ \E f \in Friends : Redeem(f) \/ ClaimReferral(f) \/ WindowPasses(f)
  \/ \E w \in Workers :
       \/ \E f \in Friends : CompleteTrip(w, f)
       \/ Stamp(w) \/ Consume(w) \/ Reward(w)
       \/ Convert(w) \/ CapRead(w) \/ Credit(w) \/ Count(w)
       \/ LoyaltyHandlerDies(w)

(***************************************************************************)
(* Properties                                                              *)
(***************************************************************************)

\* Every stamp earned is on the card or was spent on a reward, and no stamp twice.
StampsAddUp ==
  /\ \A f \in Friends : card[f].stamps >= 0 /\ card[f].stamps + rewards[f].cost <= card[f].lifetime
  /\ AllIdle /\ Spared({"crash"}) =>
       \A f \in Friends : /\ card[f].stamps + rewards[f].cost = card[f].lifetime
                          /\ card[f].lifetime = trips[f].stamped

\* No full card is left without its reward.
FullCardRewarded ==
  AllIdle /\ Spared({"crash", "reprogrammed"}) /\ program.required > 0 =>
    \A f \in Friends : card[f].stamps < program.required

Rewarded == {f \in Friends : <<f, "referrer">> \in credits}

\* A referral is credited to both or to neither, only once it converted.
BothAreCredited ==
  /\ \A f \in Rewarded : referral[f] = "converted"
  /\ AllIdle /\ Spared({"crash"}) => \A f \in Rewarded : <<f, "friend">> \in credits

\* A member is rewarded up to the cap, every conversion counted, and refused only at the cap.
CapHolds ==
  /\ Spared({"crash", "overlap"}) => Cardinality(Rewarded) <= LifetimeCap
  /\ AllIdle /\ Spared({"crash", "overlap"}) =>
       /\ earned # None => earned = Cardinality(Rewarded)
       /\ \A f \in Friends : referral[f] = "converted" /\ f \notin Rewarded => earned = LifetimeCap

LoyaltyRight == StampsAddUp /\ FullCardRewarded /\ BothAreCredited /\ CapHolds

=============================================================================
