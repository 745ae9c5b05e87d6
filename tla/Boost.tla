------------------------------- MODULE Boost -------------------------------
(***************************************************************************)
(* Boost My Marketing (src/modules/boost): neighbours chip in for a        *)
(* mailing of a business.  A campaign that reaches its goal is funded; one *)
(* that misses its deadline, or is cancelled, pays everybody back, save    *)
(* those who let their money wait for the next campaign.                   *)
(*                                                                         *)
(* One business, contributions of one unit each.                           *)
(***************************************************************************)
EXTENDS Handlers, FiniteSetsExt

CONSTANTS
  Gifts,        \* contributions
  Campaigns,    \* 1..n, in the order they are created
  Goal          \* units a campaign asks for

VARIABLES
  campaign,     \* boost_campaigns
  gift,         \* boost_contributions
  escrow,       \* ledger: community_fund_payable of each campaign
  charge        \* external: Stripe's payment of a contribution, and whether it was paid back

boostVars == <<campaign, gift, escrow, charge, task, befell>>

NewCampaign == [status |-> "open", over |-> FALSE, mailing |-> "none"]

BoostInit ==
  /\ campaign = [c \in Campaigns |-> [NewCampaign EXCEPT !.status = "none"]]
  /\ gift = [k \in Gifts |-> [status |-> "none", at |-> None, unmet |-> "refund", wait |-> "no"]]
  /\ escrow = [c \in Campaigns |-> 0]
  /\ charge = [k \in Gifts |-> "none"]

BoostLive == {"succeeded", "rolled_forward"}

\* raisedFor: summed from the rows.
Raised(c) == Cardinality({k \in Gifts : gift[k].at = c /\ gift[k].status \in BoostLive})

(***************************************************************************)
(* A campaign is created, and adopts what was rolled forward.              *)
(***************************************************************************)

CreateRead(w, c) ==
  /\ \A b \in Campaigns : campaign[b].status # "open"
  /\ Begin(w, [step |-> "create", c |-> c])
  /\ UNCHANGED <<campaign, gift, escrow, charge>>

CreateWrite(w) ==
  LET c == task[w].c IN
  /\ At(w, "create")
  /\ IF campaign[c].status = "none" /\ \A b \in Campaigns : b < c => campaign[b].status # "none"
       THEN campaign' = [campaign EXCEPT ![c] = NewCampaign] /\ Goto(w, "adopt_read")
       ELSE Finish(w) /\ UNCHANGED campaign
  /\ UNCHANGED <<gift, escrow, charge>>

Waiting == {k \in Gifts : gift[k].status = "succeeded" /\ gift[k].unmet = "roll" /\ gift[k].wait # "no"}

AdoptRead(w) ==
  /\ At(w, "adopt_read")
  /\ Becomes(w, [step |-> "adopt", c |-> task[w].c, todo |-> [k \in Waiting |-> gift[k].at]])
  /\ UNCHANGED <<befell, campaign, gift, escrow, charge>>

\* The claim asks only whether the row was rolled forward before, not what became of it.
AdoptClaim(w, k) ==
  LET rest == [j \in DOMAIN task[w].todo \ {k} |-> task[w].todo[j]] IN
  /\ At(w, "adopt")
  /\ k \in DOMAIN task[w].todo
  /\ IF gift[k].status = "rolled_forward"
       THEN Becomes(w, [task[w] EXCEPT !.todo = rest]) /\ UNCHANGED gift
       ELSE /\ gift' = [gift EXCEPT ![k].status = "rolled_forward", ![k].at = task[w].c, ![k].wait = "no"]
            /\ Becomes(w, [step |-> "adopt_post", c |-> task[w].c, from |-> task[w].todo[k], todo |-> rest])
  /\ UNCHANGED <<befell, campaign, escrow, charge>>

AdoptPost(w) ==
  /\ At(w, "adopt_post")
  /\ escrow' = [escrow EXCEPT ![task[w].from] = @ - 1, ![task[w].c] = @ + 1]
  /\ Becomes(w, [step |-> "adopt", c |-> task[w].c, todo |-> task[w].todo])
  /\ UNCHANGED <<befell, campaign, gift, charge>>

AdoptDone(w) ==
  /\ At(w, "adopt")
  /\ DOMAIN task[w].todo = {}
  /\ Finish(w)
  /\ UNCHANGED <<campaign, gift, escrow, charge>>

(***************************************************************************)
(* Contributions, the owner's top-up among them.                           *)
(***************************************************************************)

\* The charge is made before the row is written.
Contribute(w, k, c, unmet) ==
  /\ charge[k] = "none"
  /\ campaign[c].status = "open"
  /\ ~campaign[c].over
  /\ charge' = [charge EXCEPT ![k] = "open"]
  /\ Begin(w, [step |-> "gift_row", k |-> k, c |-> c, unmet |-> unmet])
  /\ UNCHANGED <<campaign, gift, escrow>>

ContributeRow(w) ==
  /\ At(w, "gift_row")
  /\ gift' = [gift EXCEPT ![task[w].k] =
                [status |-> "pending", at |-> task[w].c, unmet |-> task[w].unmet, wait |-> "no"]]
  /\ Finish(w)
  /\ UNCHANGED <<campaign, escrow, charge>>

\* A top-up is a contribution like any other, of an owner who is told what is missing.
TopUp(w, k, c) == Raised(c) < Goal /\ Contribute(w, k, c, "refund")

\* The customer pays, or his card is declined.
CardAnswers(k, answer) ==
  /\ charge[k] = "open"
  /\ gift[k].status = "pending"
  /\ charge' = [charge EXCEPT ![k] = answer]
  /\ Outside
  /\ UNCHANGED <<campaign, gift, escrow>>

\* creditContribution claims the row; that the campaign may be over by now, it does not ask.
CreditClaim(w, k) ==
  /\ charge[k] = "paid"
  /\ gift[k].status = "pending"
  /\ gift' = [gift EXCEPT ![k].status = "succeeded"]
  /\ IF campaign[gift[k].at].status = "open" THEN Begin(w, [step |-> "credit_post", k |-> k])
     ELSE BeginAmid(w, [step |-> "credit_post", k |-> k], "late")
  /\ UNCHANGED <<campaign, escrow, charge>>

CreditPost(w) ==
  LET c == gift[task[w].k].at IN
  /\ At(w, "credit_post")
  /\ escrow' = [escrow EXCEPT ![c] = @ + 1]
  /\ Becomes(w, [step |-> "check_goal", c |-> c, raised |-> Raised(c)])
  /\ UNCHANGED <<befell, campaign, gift, charge>>

\* failContribution.
CreditFails(k) ==
  /\ charge[k] = "failed"
  /\ gift[k].status = "pending"
  /\ gift' = [gift EXCEPT ![k].status = "failed"]
  /\ AtOnce
  /\ UNCHANGED <<campaign, escrow, charge>>

\* Mutant: a campaign that is over is funded all the same.
GoalMetWhateverStatus(c, raised) == raised >= Goal

\* checkGoal: funded only out of open, on what was raised.
GoalMet(c, raised) == campaign[c].status = "open" /\ raised >= Goal

CheckGoal(w) ==
  LET c == task[w].c IN
  /\ At(w, "check_goal")
  /\ campaign' = IF GoalMet(c, task[w].raised) THEN [campaign EXCEPT ![c].status = "funded"] ELSE campaign
  /\ Finish(w)
  /\ UNCHANGED <<gift, escrow, charge>>

(***************************************************************************)
(* The mailing.                                                            *)
(***************************************************************************)

Stages == <<"none", "preparing", "printing", "mailed">>

Rank(stage) == CHOOSE i \in DOMAIN Stages : Stages[i] = stage

\* confirmMailDate writes "preparing" over whatever the mailing has come to.
ConfirmMailDate(c) ==
  /\ campaign[c].status = "funded"
  /\ campaign' = [campaign EXCEPT ![c].mailing = "preparing"]
  /\ AtOnce
  /\ UNCHANGED <<gift, escrow, charge>>

\* canAdvance: forward, or level.
AdvanceMailing(c, stage) ==
  /\ campaign[c].status = "funded"
  /\ Rank(stage) >= Rank(campaign[c].mailing)
  /\ campaign' = [campaign EXCEPT ![c].mailing = stage]
  /\ AtOnce
  /\ UNCHANGED <<gift, escrow, charge>>

(***************************************************************************)
(* Paying everybody back: cancellation, the deadline, and the end of a     *)
(* wait for the next campaign.                                             *)
(***************************************************************************)

CancelRead(w, c) ==
  /\ campaign[c].status = "open"
  /\ Begin(w, [step |-> "cancel", c |-> c])
  /\ UNCHANGED <<campaign, gift, escrow, charge>>

CancelWrite(w) ==
  LET c == task[w].c IN
  /\ At(w, "cancel")
  /\ campaign' = [campaign EXCEPT ![c].status = "cancelled"]
  /\ Becomes(w, [step |-> "refund_read", c |-> c, force |-> TRUE])
  /\ UNCHANGED <<befell, gift, escrow, charge>>

DeadlinePasses(c) ==
  /\ campaign[c].status = "open"
  /\ ~campaign[c].over
  /\ campaign' = [campaign EXCEPT ![c].over = TRUE]
  /\ Outside
  /\ UNCHANGED <<gift, escrow, charge>>

SweepRead(w, c) ==
  /\ campaign[c].status = "open"
  /\ campaign[c].over
  /\ Begin(w, [step |-> IF Raised(c) >= Goal THEN "check_goal" ELSE "expire",
               c |-> c, raised |-> Raised(c)])
  /\ UNCHANGED <<campaign, gift, escrow, charge>>

DeadlineExpire(w) ==
  LET c == task[w].c IN
  /\ At(w, "expire")
  /\ IF campaign[c].status = "open"
       THEN /\ campaign' = [campaign EXCEPT ![c].status = "expired"]
            /\ Becomes(w, [step |-> "refund_read", c |-> c, force |-> FALSE])
       ELSE Becomes(w, Resting) /\ UNCHANGED campaign
  /\ UNCHANGED <<befell, gift, escrow, charge>>

\* refundAll: what succeeded; what was rolled forward into this campaign is not looked for.
ReturnAllRead(w) ==
  LET c == task[w].c IN
  /\ At(w, "refund_read")
  /\ Becomes(w, [step |-> "refund", c |-> c, force |-> task[w].force,
                 todo |-> {k \in Gifts : /\ gift[k].at = c /\ gift[k].status = "succeeded"
                                         /\ task[w].force \/ gift[k].unmet = "refund"}])
  /\ UNCHANGED <<befell, campaign, gift, escrow, charge>>

GiftHeld(k) == gift[k].status = "succeeded"

ReturnClaim(w, k) ==
  LET rest == [task[w] EXCEPT !.todo = @ \ {k}] IN
  /\ At(w, "refund")
  /\ k \in task[w].todo
  /\ IF GiftHeld(k)
       THEN /\ gift' = [gift EXCEPT ![k].status = "refunded"]
            /\ Becomes(w, [step |-> "pay_back", k |-> k, at |-> task[w].c, then |-> rest])
       ELSE Becomes(w, rest) /\ UNCHANGED gift
  /\ UNCHANGED <<befell, campaign, escrow, charge>>

\* Stripe pays back, or refuses, which is logged and passed over.
PayBack(w, works) ==
  /\ At(w, "pay_back")
  /\ charge' = IF works THEN [charge EXCEPT ![task[w].k] = "paid_back"] ELSE charge
  /\ Becomes(w, [task[w] EXCEPT !.step = "refund_post"])
  /\ IF works THEN UNCHANGED befell ELSE Befalls("refused")
  /\ UNCHANGED <<campaign, gift, escrow>>

ReturnPost(w) ==
  /\ At(w, "refund_post")
  /\ escrow' = [escrow EXCEPT ![task[w].at] = @ - 1]
  /\ Becomes(w, task[w].then)
  /\ UNCHANGED <<befell, campaign, gift, charge>>

\* After an expiry, what is to be rolled forward starts to wait.
ReturnDone(w) ==
  LET c == task[w].c IN
  /\ At(w, "refund")
  /\ task[w].todo = {}
  /\ gift' = [k \in Gifts |->
       IF ~task[w].force /\ gift[k].at = c /\ gift[k].status = "succeeded" /\ gift[k].unmet = "roll"
         THEN [gift[k] EXCEPT !.wait = "yes"] ELSE gift[k]]
  /\ Finish(w)
  /\ UNCHANGED <<campaign, escrow, charge>>

GraceEnds(k) ==
  /\ gift[k].wait = "yes"
  /\ gift[k].status = "succeeded"
  /\ gift' = [gift EXCEPT ![k].wait = "over"]
  /\ Outside
  /\ UNCHANGED <<campaign, escrow, charge>>

\* sweepRollovers.
RolloverRead(w, k) ==
  /\ gift[k].status = "succeeded"
  /\ gift[k].wait = "over"
  /\ Begin(w, [step |-> "rollover", k |-> k, at |-> gift[k].at])
  /\ UNCHANGED <<campaign, gift, escrow, charge>>

RolloverClaim(w) ==
  LET k == task[w].k IN
  /\ At(w, "rollover")
  /\ IF GiftHeld(k)
       THEN /\ gift' = [gift EXCEPT ![k].status = "refunded"]
            /\ Becomes(w, [step |-> "pay_back", k |-> k, at |-> task[w].at, then |-> Resting])
       ELSE Becomes(w, Resting) /\ UNCHANGED gift
  /\ UNCHANGED <<befell, campaign, escrow, charge>>

BoostDies(w) == Dies(w) /\ UNCHANGED <<campaign, gift, escrow, charge>>

BoostNext ==
  \/ \E w \in Workers :
       \/ CreateWrite(w) \/ AdoptRead(w) \/ AdoptPost(w) \/ AdoptDone(w) \/ ContributeRow(w)
       \/ CreditPost(w) \/ CheckGoal(w) \/ CancelWrite(w) \/ DeadlineExpire(w) \/ ReturnAllRead(w)
       \/ ReturnPost(w) \/ ReturnDone(w) \/ RolloverClaim(w) \/ BoostDies(w)
       \/ \E works \in BOOLEAN : PayBack(w, works)
       \/ \E c \in Campaigns : CreateRead(w, c) \/ CancelRead(w, c) \/ SweepRead(w, c)
       \/ \E k \in Gifts : AdoptClaim(w, k) \/ CreditClaim(w, k) \/ ReturnClaim(w, k) \/ RolloverRead(w, k)
       \/ \E k \in Gifts, c \in Campaigns : TopUp(w, k, c)
       \/ \E k \in Gifts, c \in Campaigns, unmet \in {"refund", "roll"} : Contribute(w, k, c, unmet)
  \/ \E c \in Campaigns : ConfirmMailDate(c) \/ DeadlinePasses(c)
  \/ \E c \in Campaigns, stage \in {"preparing", "printing", "mailed"} : AdvanceMailing(c, stage)
  \/ \E k \in Gifts : CreditFails(k) \/ GraceEnds(k)
  \/ \E k \in Gifts, answer \in {"paid", "failed"} : CardAnswers(k, answer)

(***************************************************************************)
(* Properties.                                                             *)
(***************************************************************************)

\* A campaign's account on the ledger holds what its contributions say.
EscrowMatches ==
  AllIdle /\ Spared({"crash", "overlap"}) => \A c \in Campaigns : escrow[c] = Raised(c)

\* A funded campaign has its goal in money nobody was given back.
FundedIsPaid ==
  Spared({"overlap"}) =>
    \A c \in Campaigns : campaign[c].status = "funded" =>
      Cardinality({k \in Gifts : gift[k].at = c /\ charge[k] = "paid" /\ gift[k].status \in BoostLive}) >= Goal

\* Who was paid back is on record as paid back, and his money is nobody's mailing.
PaidBackIsRefunded ==
  Spared({"overlap"}) => \A k \in Gifts : charge[k] = "paid_back" => gift[k].status = "refunded"

\* When a campaign is over unfunded, nobody's money stays in it: it was paid back or, where the
\* contributor chose so and the campaign expired, waits for the next campaign.  Money rolled forward
\* once is the exception: the code neither rolls it on nor pays it back.
MissedIsRefunded ==
  AllIdle /\ Spared({"crash", "refused", "late"}) =>
    \A k \in Gifts : charge[k] = "paid" /\ gift[k].status # "pending" =>
      LET c == gift[k].at IN
        \/ gift[k].status = "rolled_forward"
        \/ campaign[c].status \in {"open", "funded"}
        \/ campaign[c].status = "expired" /\ gift[k].unmet = "roll" /\ gift[k].wait # "no"

\* Contributions end in the mailing they were given for, or with those who gave them.
BoostRight == EscrowMatches /\ FundedIsPaid /\ PaidBackIsRefunded /\ MissedIsRefunded

=============================================================================
