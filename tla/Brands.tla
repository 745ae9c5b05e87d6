------------------------------- MODULE Brands -------------------------------
(***************************************************************************)
(* Franchise mode: a business becomes a brand, its owner invites people to *)
(* run trucks for it and says how each sale is shared, and a completed     *)
(* sale is split among them by transfers at Stripe.                        *)
(*                                                                         *)
(* One business, one brand and one sale, whose legs are one unit each.     *)
(***************************************************************************)
EXTENDS Handlers

CONSTANTS
  Operators,  \* people who may be seated; bound: each is seated once
  Staff       \* those of them named when the brand is made; the others may be invited

VARIABLES
  brand,      \* brands: its status, the business attached to it, the legs of its policy ({}: pooled)
  seat,       \* brand_operators
  invite,     \* brand_invites; "closed" is revoked or expired
  members,    \* brand_memberships that are active
  ticket,     \* transactions: the sale, and the account its charge pays
  splits,     \* brand_splits, unique by sale and operator
  sent        \* external: transfers at Stripe, keyed on sale, operator and purpose

brandVars == <<brand, seat, invite, members, ticket, splits, sent, task, befell>>

NoSeat == [status |-> "none", account |-> FALSE, enabled |-> FALSE, approved |-> FALSE]

Uninvited == [o \in Operators |-> "none"]

Unsplit == [o \in Operators |-> "none"]

NoBrand == [status |-> "none", attached |-> FALSE, legs |-> {}]

NoTicket == [status |-> "none", charged |-> "none"]

BrandsInit ==
  /\ brand = NoBrand
  /\ seat = [o \in Operators |-> NoSeat]
  /\ invite = Uninvited
  /\ members = {}
  /\ ticket = NoTicket
  /\ splits = Unsplit
  /\ sent = {}

Seated == {o \in Operators : seat[o].status = "active"}

(***************************************************************************)
(* The brand: made of a business, disabled again.                          *)
(***************************************************************************)

\* convertBusinessToBrand: the brand is created, and some of the staff named as its operators.
ConvertCreate(w, seeds) ==
  /\ brand.status = "none"
  /\ brand' = [brand EXCEPT !.status = "active"]
  /\ Begin(w, [step |-> "attach", seeds |-> seeds])
  /\ UNCHANGED <<seat, invite, members, ticket, splits, sent>>

\* Followers and reviews moved over, the business is attached.
ConvertAttach(w) ==
  /\ At(w, "attach")
  /\ brand' = [brand EXCEPT !.attached = TRUE]
  /\ Goto(w, "seed")
  /\ UNCHANGED <<seat, invite, members, ticket, splits, sent>>

ConvertSeed(w) ==
  /\ At(w, "seed")
  /\ IF task[w].seeds = {} THEN Finish(w)
     ELSE \E o \in task[w].seeds :
            /\ Becomes(w, [step |-> "join", o |-> o, from |-> "seed", seeds |-> task[w].seeds \ {o}])
            /\ UNCHANGED befell
  /\ UNCHANGED <<brand, seat, invite, members, ticket, splits, sent>>

\* attachBusiness: an administrator's repair of a conversion that stopped half way.
AttachBusiness ==
  /\ brand.status = "active" /\ ~brand.attached
  /\ brand' = [brand EXCEPT !.attached = TRUE]
  /\ AtOnce
  /\ UNCHANGED <<seat, invite, members, ticket, splits, sent>>

\* disableForSelf: refused while anybody runs a truck or is invited to.
DisableRead(w) ==
  /\ brand.status = "active"
  /\ Seated = {}
  /\ \A o \in Operators : invite[o] # "pending"
  /\ Begin(w, [step |-> "detach"])
  /\ UNCHANGED <<brand, seat, invite, members, ticket, splits, sent>>

\* The business is detached; that a sale was charged and is not completed is out of the ordinary.
DisableDetach(w) ==
  /\ At(w, "detach")
  /\ brand' = [brand EXCEPT !.attached = FALSE]
  /\ Becomes(w, [step |-> "disband"])
  /\ IF ticket.status = "pending" THEN Befalls("changed") ELSE UNCHANGED befell
  /\ UNCHANGED <<seat, invite, members, ticket, splits, sent>>

\* Memberships, invitations, operators, the splits of past sales and the brand are deleted.  That
\* a sale still refundable was split is out of the ordinary.
DisableDelete(w) ==
  /\ At(w, "disband")
  /\ brand' = [NoBrand EXCEPT !.status = "gone"]
  /\ seat' = [o \in Operators |-> NoSeat]
  /\ invite' = Uninvited
  /\ members' = {}
  /\ splits' = Unsplit
  /\ IF ticket.status = "completed" /\ \E o \in Operators : splits[o] = "paid"
       THEN FinishAfter(w, "disbanded")
       ELSE Finish(w)
  /\ UNCHANGED <<ticket, sent>>

(***************************************************************************)
(* Invitations and seats.                                                  *)
(***************************************************************************)

\* create: a pending or lapsed invitation is sent again with its term renewed.
InviteOperator(o) ==
  /\ brand.status = "active"
  /\ seat[o].status = "none"
  /\ o \notin Staff
  /\ invite[o] \in {"none", "lapsed", "closed"}
  /\ invite' = [invite EXCEPT ![o] = "pending"]
  /\ AtOnce
  /\ UNCHANGED <<brand, seat, members, ticket, splits, sent>>

\* Its term runs out.
InviteLapses(o) ==
  /\ invite[o] = "pending"
  /\ invite' = [invite EXCEPT ![o] = "lapsed"]
  /\ Outside
  /\ UNCHANGED <<brand, seat, members, ticket, splits, sent>>

\* revoke: read and written apart; a row deleted meanwhile stays deleted.
RevokeRead(w, o) ==
  /\ invite[o] \in {"pending", "lapsed"}
  /\ Begin(w, [step |-> "revoke", o |-> o])
  /\ UNCHANGED <<brand, seat, invite, members, ticket, splits, sent>>

RevokeWrite(w) ==
  /\ At(w, "revoke")
  /\ invite' = [invite EXCEPT ![task[w].o] = IF @ = "none" THEN @ ELSE "closed"]
  /\ Finish(w)
  /\ UNCHANGED <<brand, seat, members, ticket, splits, sent>>

\* accept: a pending invitation whose term runs; a lapsed one is closed.
AcceptRead(w, o) ==
  /\ \/ /\ invite[o] = "pending"
        /\ Begin(w, [step |-> "join", o |-> o, from |-> "invite"])
        /\ UNCHANGED invite
     \/ /\ invite[o] = "lapsed"
        /\ invite' = [invite EXCEPT ![o] = "closed"]
        /\ AtOnce
  /\ UNCHANGED <<brand, seat, members, ticket, splits, sent>>

JoinMember(w) ==
  /\ At(w, "join")
  /\ members' = members \cup {task[w].o}
  /\ Goto(w, "sit")
  /\ UNCHANGED <<brand, seat, invite, ticket, splits, sent>>

JoinSeat(w) ==
  LET o == task[w].o IN
  /\ At(w, "sit")
  /\ seat' = [seat EXCEPT ![o] = IF @.status = "active" THEN @ ELSE [NoSeat EXCEPT !.status = "active"]]
  /\ Goto(w, IF task[w].from = "invite" THEN "accepted" ELSE "seed")
  /\ UNCHANGED <<brand, invite, members, ticket, splits, sent>>

AcceptRecord(w) ==
  /\ At(w, "accepted")
  /\ invite' = [invite EXCEPT ![task[w].o] = IF @ = "none" THEN @ ELSE "accepted"]
  /\ Finish(w)
  /\ UNCHANGED <<brand, seat, members, ticket, splits, sent>>

\* create of an operator, by an administrator, for somebody who is a member.
SeatOperator(o) ==
  /\ brand.attached
  /\ o \in members /\ seat[o].status = "none"
  /\ seat' = [seat EXCEPT ![o] = [NoSeat EXCEPT !.status = "active"]]
  /\ AtOnce
  /\ UNCHANGED <<brand, invite, members, ticket, splits, sent>>

Reseat(o, s) ==
  /\ seat' = [seat EXCEPT ![o] = s]
  /\ s # seat[o]
  /\ AtOnce
  /\ UNCHANGED <<brand, invite, members, ticket, splits, sent>>

\* retire: nothing reads the account of a retired operator again.
RetireOperator(o) == seat[o].status = "active" /\ Reseat(o, [NoSeat EXCEPT !.status = "retired"])

\* startOperatorOnboarding approves the account it opens.
OnboardOperator(o) ==
  /\ seat[o].status = "active"
  /\ Reseat(o, [seat[o] EXCEPT !.account = TRUE, !.approved = TRUE])

\* syncOperatorPayoutState: what Stripe says of the account.
SyncOperator(o, enabled) == seat[o].account /\ Reseat(o, [seat[o] EXCEPT !.enabled = enabled])

\* setOwnerApproval
SetApproval(o, approved) ==
  /\ seat[o].status = "active"
  /\ approved => seat[o].account
  /\ Reseat(o, [seat[o] EXCEPT !.approved = approved])

(***************************************************************************)
(* The policy, and the sale shared by it.                                  *)
(***************************************************************************)

\* setPolicy: every leg must be an active operator of the brand.
PolicyRead(w, legs) ==
  /\ brand.status = "active"
  /\ legs # brand.legs
  /\ legs \subseteq Seated
  /\ Begin(w, [step |-> "policy", legs |-> legs])
  /\ UNCHANGED <<brand, seat, invite, members, ticket, splits, sent>>

\* Between a sale's charge and its completion this is out of the ordinary, as is disabling.
PolicyWrite(w) ==
  /\ At(w, "policy")
  /\ brand' = IF brand.status = "active" THEN [brand EXCEPT !.legs = task[w].legs] ELSE brand
  /\ IF ticket.status = "pending" THEN FinishAfter(w, "changed") ELSE Finish(w)
  /\ UNCHANGED <<seat, invite, members, ticket, splits, sent>>

\* resolvePolicyForBusiness
PolicyInForce == IF brand.attached THEN brand.legs ELSE {}

\* Where the charge goes: a sale to be split is charged to the platform.
ChargedTo(legs) == IF legs = {} THEN "business" ELSE "platform"

\* chargeForBusinessOrder
ChargeTicket ==
  /\ ticket.status = "none"
  /\ ticket' = [status |-> "pending", charged |-> ChargedTo(PolicyInForce)]
  /\ AtOnce
  /\ UNCHANGED <<brand, seat, invite, members, splits, sent>>

\* completeForOrder: the claim, and then the split.
CompleteTicket(w) ==
  /\ ticket.status = "pending"
  /\ ticket' = [ticket EXCEPT !.status = "completed"]
  /\ Begin(w, [step |-> "plan"])
  /\ UNCHANGED <<brand, seat, invite, members, splits, sent>>

\* An operator who may be paid directly.
Payable(o) == seat[o] = [status |-> "active", account |-> TRUE, enabled |-> TRUE, approved |-> TRUE]

\* settleTransaction: the policy and the operators are read once, before the legs.
SplitPlan(w) ==
  /\ At(w, "plan")
  /\ Becomes(w, [step |-> "legs", left |-> PolicyInForce, payable |-> {o \in Operators : Payable(o)}])
  /\ UNCHANGED <<brand, seat, invite, members, ticket, splits, sent, befell>>

\* The next leg: to the operator, or to the owner when he may not be paid or Stripe refuses.
SplitLeg(w) ==
  /\ At(w, "legs")
  /\ IF task[w].left = {} THEN Finish(w) /\ UNCHANGED sent
     ELSE \E o \in task[w].left :
       LET rest == [task[w] EXCEPT !.left = @ \ {o}] IN
       IF splits[o] # "none" THEN Becomes(w, rest) /\ UNCHANGED <<sent, befell>>
       ELSE IF o \in task[w].payable
         THEN \/ /\ sent' = sent \cup {<<"operator", o>>}
                 /\ Becomes(w, [step |-> "paid", o |-> o, left |-> rest.left, payable |-> rest.payable])
                 /\ UNCHANGED befell
              \/ /\ Becomes(w, [step |-> "fallback", o |-> o, left |-> rest.left, payable |-> rest.payable])
                 /\ UNCHANGED <<sent, befell>>
         ELSE /\ Becomes(w, [step |-> "fallback", o |-> o, left |-> rest.left, payable |-> rest.payable])
              /\ UNCHANGED <<sent, befell>>
  /\ UNCHANGED <<brand, seat, invite, members, ticket, splits>>

\* recordLeg inserts and never overwrites.
Recorded(o, status) == splits' = [splits EXCEPT ![o] = IF @ = "none" THEN status ELSE @]

NextLeg(w) == Becomes(w, [step |-> "legs", left |-> task[w].left, payable |-> task[w].payable])

\* The leg is recorded; when that throws, the catch takes it for a refused transfer.
SplitPaid(w) ==
  /\ At(w, "paid")
  /\ \/ Recorded(task[w].o, "paid") /\ NextLeg(w) /\ UNCHANGED befell
     \/ Becomes(w, [task[w] EXCEPT !.step = "fallback"]) /\ Befalls("thrown") /\ UNCHANGED splits
  /\ UNCHANGED <<brand, seat, invite, members, ticket, sent>>

\* transferToBrandOwner
SplitFallback(w) ==
  /\ At(w, "fallback")
  /\ sent' = sent \cup {<<"owner", task[w].o>>}
  /\ Goto(w, "fell_back")
  /\ UNCHANGED <<brand, seat, invite, members, ticket, splits>>

SplitFellBack(w) ==
  /\ At(w, "fell_back")
  /\ Recorded(task[w].o, "fallback_to_owner")
  /\ NextLeg(w)
  /\ UNCHANGED <<brand, seat, invite, members, ticket, sent, befell>>

\* refund: at Stripe and in the books, then the legs are reversed.
RefundTicket(w) ==
  /\ ticket.status = "completed"
  /\ Begin(w, [step |-> "refunded"])
  /\ UNCHANGED <<brand, seat, invite, members, ticket, splits, sent>>

MarkRefunded(w) ==
  /\ At(w, "refunded")
  /\ ticket' = [ticket EXCEPT !.status = "refunded"]
  /\ Goto(w, "reverse_read")
  /\ UNCHANGED <<brand, seat, invite, members, splits, sent>>

\* Mutant: legs that fell back to the owner are looked for instead.
LegsFallenBack == {o \in Operators : splits[o] = "fallback_to_owner"}

LegsToReverse == {o \in Operators : splits[o] = "paid"}

\* reverseForTransaction
ReverseRead(w) ==
  /\ At(w, "reverse_read")
  /\ Becomes(w, [step |-> "reverse", left |-> LegsToReverse])
  /\ UNCHANGED <<brand, seat, invite, members, ticket, splits, sent, befell>>

\* A reversal that Stripe refuses is logged, to be resolved by hand.
ReverseLeg(w) ==
  /\ At(w, "reverse")
  /\ IF task[w].left = {} THEN Finish(w) /\ UNCHANGED <<splits, sent>>
     ELSE \E o \in task[w].left :
       /\ Becomes(w, [task[w] EXCEPT !.left = @ \ {o}])
       /\ \/ /\ sent' = sent \cup {<<"back", o>>}
             /\ splits' = [splits EXCEPT ![o] = IF @ = "none" THEN @ ELSE "reversed"]
             /\ UNCHANGED befell
          \/ Befalls("refused") /\ UNCHANGED <<splits, sent>>
  /\ UNCHANGED <<brand, seat, invite, members, ticket>>

BrandHandlerDies(w) == Dies(w) /\ UNCHANGED <<brand, seat, invite, members, ticket, splits, sent>>

BrandsNext ==
  \/ AttachBusiness \/ ChargeTicket
  \/ \E o \in Operators :
       \/ InviteOperator(o) \/ InviteLapses(o) \/ SeatOperator(o) \/ RetireOperator(o)
       \/ OnboardOperator(o)
       \/ \E yes \in BOOLEAN : SyncOperator(o, yes) \/ SetApproval(o, yes)
  \/ \E w \in Workers :
       \/ \E seeds \in SUBSET Staff : ConvertCreate(w, seeds)
       \/ ConvertAttach(w) \/ ConvertSeed(w) \/ DisableRead(w) \/ DisableDetach(w) \/ DisableDelete(w)
       \/ \E o \in Operators : RevokeRead(w, o) \/ AcceptRead(w, o)
       \/ RevokeWrite(w) \/ JoinMember(w) \/ JoinSeat(w) \/ AcceptRecord(w)
       \/ \E legs \in SUBSET Operators : PolicyRead(w, legs)
       \/ PolicyWrite(w) \/ CompleteTicket(w) \/ SplitPlan(w) \/ SplitLeg(w) \/ SplitPaid(w)
       \/ SplitFallback(w) \/ SplitFellBack(w)
       \/ RefundTicket(w) \/ MarkRefunded(w) \/ ReverseRead(w) \/ ReverseLeg(w)
       \/ BrandHandlerDies(w)

(***************************************************************************)
(* Properties                                                              *)
(***************************************************************************)

\* Only a sale charged to the platform is split: one charged to the business has paid it already.
\* Not when the policy changes between the charge and the completion, or a business is attached late.
SplitOnlyOnce ==
  Spared({"changed", "overlap", "crash"}) => (sent # {} => ticket.charged = "platform")

\* A leg goes to the operator or to the owner, never to both.  Not when the record of a transfer
\* that succeeded throws.
OnePayeePerLeg ==
  Spared({"thrown"}) => \A o \in Operators : ~({<<"operator", o>>, <<"owner", o>>} \subseteq sent)

\* A completed sale charged to the platform reached somebody in full.
EveryLegPaid ==
  AllIdle /\ Spared({"crash", "overlap", "changed"}) =>
    (ticket.status \in {"completed", "refunded"} /\ ticket.charged = "platform" => sent # {})

\* What an operator was paid of a sale that was refunded is taken back from him.
OperatorsPayBack ==
  AllIdle /\ Spared({"crash", "overlap", "thrown", "refused", "disbanded"}) =>
    (ticket.status = "refunded" =>
       \A o \in Operators : <<"operator", o>> \in sent => <<"back", o>> \in sent)

\* The brand's record of a leg is what was transferred.
SplitsMatchStripe ==
  AllIdle /\ Spared({"crash"}) /\ brand.status # "gone" =>
    \A o \in Operators :
      /\ splits[o] = "none" <=> sent \cap {<<"operator", o>>, <<"owner", o>>} = {}
      /\ splits[o] = "reversed" <=> <<"back", o>> \in sent

\* Whoever runs a truck is a member of the brand, and the brand is there.
SeatsBelong ==
  Spared({"overlap"}) => \A o \in Operators : seat[o].status # "none" => o \in members /\ brand.status = "active"

\* An invitation is accepted exactly when its addressee got the seat.
AcceptedIsSeated ==
  /\ \A o \in Operators : invite[o] = "accepted" => seat[o].status # "none"
  /\ AllIdle /\ Spared({"overlap", "crash"}) =>
       \A o \in Operators : invite[o] \in {"pending", "closed", "lapsed"} => seat[o].status = "none"

\* The policy names nobody who is not of the brand.
PolicyNamesSeats ==
  \A o \in brand.legs : seat[o].status # "none"

BrandsRight ==
  SplitOnlyOnce /\ OnePayeePerLeg /\ EveryLegPaid /\ OperatorsPayBack /\ SplitsMatchStripe
  /\ SeatsBelong /\ AcceptedIsSeated /\ PolicyNamesSeats

=============================================================================
