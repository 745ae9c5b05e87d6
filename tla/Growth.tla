------------------------------- MODULE Growth -------------------------------
(***************************************************************************)
(* What brings people to a vendor: five mechanisms which share no state.   *)
(* Paid sharing: a business prepays a budget, a member shares the business *)
(* with contacts, and is tipped from the budget when a contact who is new  *)
(* takes a first step; one business, one member who shares.  And prepaid   *)
(* gifts, daily giveaways, credit among members (Spot Me), and the         *)
(* broadcast when vendors gather (Block Party).                            *)
(***************************************************************************)
EXTENDS Handlers

CONSTANTS
  Topups,       \* bound: the prepayments
  Reload,       \* what each brings
  Pings,        \* bound: the shares
  Contacts,     \* people shared with, who may become members and qualify
  Tip,          \* per_share_tip_cents
  PingDailyCap  \* PING_DAILY_CAP; one behaviour lies within one day

VARIABLES
  budget,       \* ping_budgets
  topup,        \* ping_budget_topups
  prepaid,      \* external: Stripe's charge for each, and its event
  ping,         \* pings
  booked,       \* ledger: the top-ups, tips and payouts of tips that were posted
  tipsSent      \* external: the tips Stripe transferred

pingVars == <<budget, topup, prepaid, ping, booked, tipsSent, task, befell>>

NoPing == [to |-> None, paid |-> FALSE, by |-> None]

PingsInit ==
  /\ budget = [cents |-> 0, active |-> FALSE]
  /\ topup = [t \in Topups |-> "none"]
  /\ prepaid = [t \in Topups |-> [status |-> "none", event |-> FALSE]]
  /\ ping = [p \in Pings |-> NoPing]
  /\ booked = [topups |-> {}, tips |-> {}, payouts |-> {}]
  /\ tipsSent = {}

money == <<booked, tipsSent>>
funding == <<topup, prepaid>>

(***************************************************************************)
(* The budget.                                                             *)
(***************************************************************************)

\* fundBudget: the settings at once, then the charge, then the row.
FundCharge(w, t) ==
  /\ prepaid[t].status = "none"
  /\ budget' = [budget EXCEPT !.active = TRUE]
  /\ prepaid' = [prepaid EXCEPT ![t].status = "open"]
  /\ Begin(w, [step |-> "topup_row", t |-> t])
  /\ UNCHANGED <<topup, ping, money>>

FundRow(w) ==
  /\ At(w, "topup_row")
  /\ topup' = [topup EXCEPT ![task[w].t] = "pending"]
  /\ Finish(w)
  /\ UNCHANGED <<budget, prepaid, ping, money>>

\* The vendor is handed the payment form once the row is there.
TopupPaid(t) ==
  /\ topup[t] = "pending"
  /\ prepaid[t].status = "open"
  /\ prepaid' = [prepaid EXCEPT ![t] = [status |-> "paid", event |-> TRUE]]
  /\ Outside
  /\ UNCHANGED <<budget, topup, ping, money>>

\* creditTopup: claimed, credited, booked.  A redelivered event finds it claimed.
CreditClaim(w, t) ==
  /\ prepaid[t].event
  /\ prepaid' = [prepaid EXCEPT ![t].event = FALSE]
  /\ topup' = [topup EXCEPT ![t] = "succeeded"]
  /\ Begin(w, IF topup[t] = "pending" THEN [step |-> "credit", t |-> t] ELSE Resting)
  /\ UNCHANGED <<budget, ping, money>>

CreditBudget(w) ==
  /\ At(w, "credit")
  /\ budget' = [cents |-> budget.cents + Reload, active |-> TRUE]
  /\ Goto(w, "credit_post")
  /\ UNCHANGED <<funding, ping, money>>

CreditPost(w) ==
  /\ At(w, "credit_post")
  /\ booked' = [booked EXCEPT !.topups = @ \cup {task[w].t}]
  /\ Finish(w)
  /\ UNCHANGED <<budget, funding, ping, tipsSent>>

SetBudgetStatus(active) ==
  /\ \E t \in Topups : prepaid[t].status # "none"
  /\ budget.active # active
  /\ budget' = [budget EXCEPT !.active = active]
  /\ AtOnce
  /\ UNCHANGED <<funding, ping, money>>

(***************************************************************************)
(* Sharing.                                                                *)
(***************************************************************************)

PaidPings == {p \in Pings : ping[p].paid}

\* What a share must meet to earn a tip.  The device it comes from is a choice of the world outside.
TipEligible(c) ==
  /\ budget.active /\ budget.cents >= Tip
  /\ Cardinality(PaidPings) < PingDailyCap
  /\ \A p \in PaidPings : ping[p].to # c

ShareRead(w, p, c) ==
  /\ ping[p].to = None
  /\ \A v \in Workers : At(v, "share") => task[v].p # p
  /\ \E known \in BOOLEAN :
       Begin(w, [step |-> "share", p |-> p, to |-> c, paid |-> TipEligible(c) /\ ~known])
  /\ UNCHANGED <<budget, funding, ping, money>>

\* A second paid share to a contact is refused by the index, and is no share at all.
ShareRow(w) ==
  LET t == task[w] IN
  /\ At(w, "share")
  /\ ping' = IF t.paid /\ \E p \in PaidPings : ping[p].to = t.to THEN ping
             ELSE [ping EXCEPT ![t.p] = [to |-> t.to, paid |-> t.paid, by |-> None]]
  /\ Finish(w)
  /\ UNCHANGED <<budget, funding, money>>

(***************************************************************************)
(* Qualifying.                                                             *)
(***************************************************************************)

\* qualify: a share that may earn a tip and has not.  The gates of the person's age, device and
\* time are passed here.
QualifyRead(w, p, u) ==
  /\ ping[p].paid /\ ping[p].by = None
  /\ Begin(w, [step |-> "debit", p |-> p, by |-> u])
  /\ UNCHANGED <<budget, funding, ping, money>>

\* Mutant: the budget is debited whatever is left in it.
CoversAnything == budget.active

Covers == budget.active /\ budget.cents >= Tip

QualifyDebit(w) ==
  /\ At(w, "debit")
  /\ IF Covers
       THEN budget' = [budget EXCEPT !.cents = @ - Tip] /\ Goto(w, "stamp")
       ELSE Finish(w) /\ UNCHANGED budget
  /\ UNCHANGED <<funding, ping, money>>

\* One tip per person and business.  A share that was stamped meanwhile is left as it is, and the
\* handler goes on all the same.
QualifyStamp(w) ==
  LET p == task[w].p
      again == \E q \in Pings \ {p} : ping[q].by = task[w].by
  IN
  /\ At(w, "stamp")
  /\ IF ping[p].by = None /\ again
       THEN Goto(w, "undebit") /\ UNCHANGED ping
       ELSE /\ ping' = IF ping[p].by = None THEN [ping EXCEPT ![p].by = task[w].by] ELSE ping
            /\ Goto(w, "tip_post")
  /\ UNCHANGED <<budget, funding, money>>

QualifyUndebit(w) ==
  /\ At(w, "undebit")
  /\ budget' = [budget EXCEPT !.cents = @ + Tip]
  /\ Finish(w)
  /\ UNCHANGED <<funding, ping, money>>

\* Posted under the share's own key, once.
TipPost(w) ==
  /\ At(w, "tip_post")
  /\ booked' = [booked EXCEPT !.tips = @ \cup {task[w].p}]
  /\ Goto(w, "tip_send")
  /\ UNCHANGED <<budget, funding, ping, tipsSent>>

\* Without a connected account it stays a payable; a transfer that fails is not tried again.
TipSend(w) ==
  /\ At(w, "tip_send")
  /\ \/ tipsSent' = tipsSent \cup {task[w].p} /\ Goto(w, "payout_post")
     \/ Finish(w) /\ UNCHANGED tipsSent
     \/ FinishAfter(w, "thrown") /\ UNCHANGED tipsSent
  /\ UNCHANGED <<budget, funding, ping, booked>>

TipPayoutPost(w) ==
  /\ At(w, "payout_post")
  /\ booked' = [booked EXCEPT !.payouts = @ \cup {task[w].p}]
  /\ Finish(w)
  /\ UNCHANGED <<budget, funding, ping, tipsSent>>

PingHandlerDies(w) == Dies(w) /\ UNCHANGED <<budget, funding, ping, money>>

PingsNext ==
  \/ \E t \in Topups : TopupPaid(t)
  \/ \E active \in BOOLEAN : SetBudgetStatus(active)
  \/ \E w \in Workers :
       \/ \E t \in Topups : FundCharge(w, t) \/ CreditClaim(w, t)
       \/ \E p \in Pings, c \in Contacts : ShareRead(w, p, c) \/ QualifyRead(w, p, c)
       \/ FundRow(w) \/ CreditBudget(w) \/ CreditPost(w) \/ ShareRow(w)
       \/ QualifyDebit(w) \/ QualifyStamp(w) \/ QualifyUndebit(w)
       \/ TipPost(w) \/ TipSend(w) \/ TipPayoutPost(w) \/ PingHandlerDies(w)

(***************************************************************************)
(* Properties                                                              *)
(***************************************************************************)

\* The budget never promises money that was not prepaid, and the books hold what it shows.
BudgetIsBacked ==
  /\ budget.cents >= 0
  /\ AllIdle /\ Spared({"crash", "overlap"}) =>
       budget.cents = Reload * Cardinality(booked.topups) - Tip * Cardinality(booked.tips)

\* A prepayment that was made is credited.
PrepaidIsCredited ==
  AllIdle /\ Spared({"crash"}) =>
    \A t \in Topups : prepaid[t].status = "paid" /\ ~prepaid[t].event => t \in booked.topups

\* A share that qualified is owed its tip, and no other is.
QualifiedIsOwed ==
  AllIdle /\ Spared({"crash"}) => booked.tips = {p \in Pings : ping[p].by # None}

\* A tip that was sent was owed, and is off the books.
SentIsBooked ==
  /\ tipsSent \subseteq booked.tips
  /\ AllIdle /\ Spared({"crash"}) => booked.payouts = tipsSent

\* One tip for a person, and no more shares with a tip in a day than the cap.
TipsAreBounded ==
  /\ \A p, q \in Pings : ping[p].by = ping[q].by /\ ping[p].by # None => p = q
  /\ Spared({"overlap"}) => Cardinality(PaidPings) <= PingDailyCap

PingsRight == BudgetIsBacked /\ PrepaidIsCredited /\ QualifiedIsOwed /\ SentIsBooked /\ TipsAreBounded

(***************************************************************************)
(* Gifts, giveaways, Spot Me and Block Party.                              *)
(***************************************************************************)
CONSTANTS
  Claimants,     \* members who claim a giveaway
  DailyQuantity  \* daily_quantity_cap

VARIABLES
  gift,          \* gifts, with the payment for it
  giveaway,      \* giveaways: units claimed today; whether the day it counts is over
  claims,        \* giveaway_claims: who claimed today, and how many did
  spot,          \* spot_me_requests: one request, and whether its default was scored
  party          \* block parties: the vendors, what the sweep remembers of them, the broadcasts

giftVars == <<gift, task, befell>>
giveawayVars == <<giveaway, claims, task, befell>>
spotVars == <<spot, task, befell>>
partyVars == <<party, task, befell>>

PerksInit ==
  /\ gift = [status |-> "none", payment |-> "none", over |-> FALSE, noticed |-> FALSE]
  /\ giveaway = [claimed |-> 0, stale |-> FALSE]
  /\ claims = [today |-> {}, count |-> 0]
  /\ spot = [status |-> "none", overdue |-> FALSE, scored |-> FALSE]
  /\ party = [near |-> FALSE, for |-> "recent", seen |-> "never", fired |-> FALSE, sent |-> 0,
              hasty |-> FALSE]

(***************************************************************************)
(* A gift is charged and then created; its code is handed out with the     *)
(* payment form.                                                           *)
(***************************************************************************)

GiftCharge(w) ==
  /\ gift.status = "none"
  /\ gift' = [gift EXCEPT !.payment = "open"]
  /\ Begin(w, [step |-> "gift_row"])

GiftRow(w) ==
  /\ At(w, "gift_row")
  /\ gift' = [gift EXCEPT !.status = "pending"]
  /\ Finish(w)

GiftPaid ==
  /\ gift.status # "none" /\ gift.payment = "open"
  /\ gift' = [gift EXCEPT !.payment = "paid"]
  /\ Outside

GiftRunsOut ==
  /\ gift.status # "none" /\ ~gift.over
  /\ gift' = [gift EXCEPT !.over = TRUE]
  /\ Outside

\* The code is taken whether or not the gift was paid for, which is out of the ordinary.
GiftRead(w) ==
  /\ gift.status = "pending"
  /\ IF gift.over
       THEN gift' = [gift EXCEPT !.status = "expired"] /\ AtOnce
       ELSE /\ IF gift.payment = "paid" THEN Begin(w, [step |-> "gift_redeem"])
               ELSE BeginAmid(w, [step |-> "gift_redeem"], "unpaid")
            /\ UNCHANGED gift

\* Mutant: the code is taken whatever became of the gift.
RedeemableAnyway == gift.status # "redeemed"

Redeemable == gift.status = "pending"

GiftRedeem(w) ==
  /\ At(w, "gift_redeem")
  /\ gift' = IF Redeemable
               THEN [gift EXCEPT !.status = IF gift.status = "expired" THEN "both" ELSE "redeemed"]
               ELSE gift
  /\ Finish(w)

\* sweepExpiry: a notice, once, before the end; at the end the gift expires.
GiftNotice(w) ==
  /\ gift.status = "pending" /\ ~gift.over /\ ~gift.noticed
  /\ gift' = [gift EXCEPT !.noticed = TRUE]
  /\ AtOnce

GiftExpire ==
  /\ gift.status = "pending" /\ gift.over
  /\ gift' = [gift EXCEPT !.status = "expired"]
  /\ AtOnce

GiftsNext ==
  \/ GiftPaid \/ GiftRunsOut \/ GiftExpire
  \/ \E w \in Workers : \/ GiftCharge(w) \/ GiftRow(w) \/ GiftRead(w) \/ GiftRedeem(w)
                        \/ GiftNotice(w) \/ (Dies(w) /\ UNCHANGED gift)

(***************************************************************************)
(* A giveaway: a unit is taken off the day's quantity, and then the claim  *)
(* is recorded or, when there is one, the unit is put back.                *)
(***************************************************************************)

UnitLeft == giveaway.claimed < DailyQuantity

\* Between midnight and the reset the counter is yesterday's: to claim then is out of the ordinary.
ClaimUnit(w, u) ==
  LET t == [step |-> "claim", u |-> u] IN
  /\ UnitLeft
  /\ giveaway' = [giveaway EXCEPT !.claimed = @ + 1]
  /\ IF giveaway.stale THEN BeginAmid(w, t, "unreset") ELSE Begin(w, t)
  /\ UNCHANGED claims

ClaimRow(w) ==
  /\ At(w, "claim")
  /\ IF task[w].u \in claims.today
       THEN Goto(w, "unclaim") /\ UNCHANGED claims
       ELSE /\ claims' = [today |-> claims.today \cup {task[w].u}, count |-> claims.count + 1]
            /\ Finish(w)
  /\ UNCHANGED giveaway

ClaimUndo(w) ==
  /\ At(w, "unclaim")
  /\ giveaway' = [giveaway EXCEPT !.claimed = @ - 1]
  /\ Finish(w)
  /\ UNCHANGED claims

\* Midnight begins a day of claims; to fall between a unit and its claim is out of the ordinary.
Midnight ==
  /\ ~giveaway.stale
  /\ giveaway' = [giveaway EXCEPT !.stale = TRUE]
  /\ claims' = [today |-> {}, count |-> 0]
  /\ IF AllIdle THEN UNCHANGED befell ELSE Befalls("midnight")
  /\ UNCHANGED task

\* resetDaily
ResetDaily ==
  /\ giveaway.stale
  /\ giveaway' = [claimed |-> 0, stale |-> FALSE]
  /\ AtOnce
  /\ UNCHANGED claims

GiveawaysNext ==
  \/ Midnight \/ ResetDaily
  \/ \E w \in Workers : \/ \E u \in Claimants : ClaimUnit(w, u)
                        \/ ClaimRow(w) \/ ClaimUndo(w) \/ (Dies(w) /\ UNCHANGED <<giveaway, claims>>)

(***************************************************************************)
(* Spot Me.                                                                *)
(***************************************************************************)

RequestSpot == spot.status = "none" /\ spot' = [spot EXCEPT !.status = "pending"] /\ AtOnce

DecideSpot(answer) ==
  spot.status = "pending" /\ spot' = [spot EXCEPT !.status = answer] /\ AtOnce

RepaySpot == spot.status = "accepted" /\ spot' = [spot EXCEPT !.status = "repaid"] /\ AtOnce

SpotFallsDue ==
  /\ spot.status # "none" /\ ~spot.overdue
  /\ spot' = [spot EXCEPT !.overdue = TRUE]
  /\ Outside

\* sweepDefaults: listed, claimed, scored.
DefaultRead(w) ==
  /\ spot.status = "accepted" /\ spot.overdue
  /\ Begin(w, [step |-> "default"])
  /\ UNCHANGED spot

DefaultClaim(w) ==
  /\ At(w, "default")
  /\ IF spot.status = "accepted"
       THEN spot' = [spot EXCEPT !.status = "defaulted"] /\ Goto(w, "score")
       ELSE Finish(w) /\ UNCHANGED spot

DefaultScore(w) ==
  /\ At(w, "score")
  /\ spot' = [spot EXCEPT !.scored = TRUE]
  /\ Finish(w)

SpotMeNext ==
  \/ RequestSpot \/ RepaySpot \/ SpotFallsDue
  \/ \E answer \in {"accepted", "declined"} : DecideSpot(answer)
  \/ \E w \in Workers :
       DefaultRead(w) \/ DefaultClaim(w) \/ DefaultScore(w) \/ (Dies(w) /\ UNCHANGED spot)

(***************************************************************************)
(* Block Party: two vendors, near each other or not.  The sweep remembers  *)
(* when it first saw them so, for an hour, and that it broadcast, for an   *)
(* hour; it forgets neither when they part.                                *)
(***************************************************************************)

Gather ==
  /\ ~party.near
  /\ party' = [party EXCEPT !.near = TRUE, !.for = "recent"]
  /\ IF party.seen = "never" THEN UNCHANGED befell ELSE Befalls("regathered")
  /\ UNCHANGED task

Part == party.near /\ party' = [party EXCEPT !.near = FALSE] /\ Outside

\* The overlap window passes.
WindowGoes ==
  /\ party.near \/ party.seen = "recent"
  /\ party' = [party EXCEPT !.for = IF party.near THEN "old" ELSE @,
                            !.seen = IF @ = "recent" THEN "old" ELSE @]
  /\ Outside

SeenExpires == party.seen # "never" /\ party' = [party EXCEPT !.seen = "never"] /\ Outside

\* No handler takes an hour.
CooldownEnds ==
  /\ party.fired /\ AllIdle
  /\ party' = [party EXCEPT !.fired = FALSE, !.sent = 0]
  /\ Outside

PartyRead(w) ==
  /\ party.near
  /\ party' = IF party.seen = "never" THEN [party EXCEPT !.seen = "recent"] ELSE party
  /\ Begin(w, IF party.seen = "old" THEN [step |-> "party_fired", hasty |-> party.for # "old"] ELSE Resting)

PartyFired(w) ==
  /\ At(w, "party_fired")
  /\ IF party.fired THEN Finish(w) ELSE Goto(w, "party_fire")
  /\ UNCHANGED party

PartyFire(w) ==
  /\ At(w, "party_fire")
  /\ party' = [party EXCEPT !.fired = TRUE]
  /\ Goto(w, "party_send")

PartySend(w) ==
  /\ At(w, "party_send")
  /\ party' = [party EXCEPT !.sent = @ + 1, !.hasty = @ \/ task[w].hasty]
  /\ Finish(w)

PartiesNext ==
  \/ Gather \/ Part \/ WindowGoes \/ SeenExpires \/ CooldownEnds
  \/ \E w \in Workers :
       PartyRead(w) \/ PartyFired(w) \/ PartyFire(w) \/ PartySend(w) \/ (Dies(w) /\ UNCHANGED party)

(***************************************************************************)
(* Properties                                                              *)
(***************************************************************************)

\* A gift is handed over once, paid for, and not after it expired.
GiftIsPaid ==
  /\ gift.status # "both"
  /\ Spared({"unpaid"}) => (gift.status = "redeemed" => gift.payment = "paid")

\* A day gives away no more than its quantity, and keeps nothing back from those who come.
GivenWithinQuantity ==
  /\ Spared({"unreset", "midnight"}) => claims.count <= DailyQuantity
  /\ AllIdle /\ Spared({"unreset", "midnight", "crash"}) /\ ~giveaway.stale =>
       giveaway.claimed = claims.count

\* Credit that was not repaid in time costs its taker reputation, and none else does.
DefaultIsScored ==
  /\ spot.scored => spot.status = "defaulted" /\ spot.overdue
  /\ AllIdle /\ Spared({"crash"}) => (spot.status = "defaulted" => spot.scored)

\* A gathering is broadcast when it has lasted, and once in an hour.
PartyHasLasted ==
  /\ Spared({"regathered"}) => ~party.hasty
  /\ Spared({"overlap"}) => party.sent <= 1

PerksRight == GiftIsPaid /\ GivenWithinQuantity /\ DefaultIsScored /\ PartyHasLasted

=============================================================================
