--------------------------- MODULE ServiceProofs ---------------------------
(***************************************************************************)
(* The services as they are deployed: a gig is one worker's and an         *)
(* appointment one customer's, BookingsRight; logos and placements are     *)
(* shown for money, PlacementsRight; a plan is honoured while it is paid   *)
(* for and a stamp is spent once, MembershipsRight.  Whichever component   *)
(* runs keeps its own invariant, by ServiceSteps; the others' rows are not *)
(* there.                                                                  *)
(***************************************************************************)
EXTENDS ServiceSteps, MCServices

(***************************************************************************)
(* The jobs board and appointments.                                        *)
(***************************************************************************)

BookingsIInv ==
  /\ focus = "jobs" => JobsIInv
  /\ focus = "scheduling" => SchedIInv

\* A board without gigs taken, and a calendar without appointments, satisfy the invariant.
LEMMA BookingsInit == Init => BookingsIInv
<1> SUFFICES ASSUME Init
             PROVE  BookingsIInv
  OBVIOUS
<1>1. \A w \in Workers : task[w].step = "idle"
  BY DEF Init, HandlersInit, Resting
<1>2. ASSUME focus = "jobs"
      PROVE  JobsIInv
  <2>1. JobsInit /\ HandlersInit
    BY <1>2 DEF Init
  <2>2. gig.status = "open" /\ \A a \in Seekers : claim[a].status = "none" /\ ~claim[a].ref /\ wages[a] = 0
    BY <2>1 DEF JobsInit, NoClaim
  <2>3. JobsTyped
    <3>1. NoClaim \in Applications /\ Resting \in GigTasks
      BY DEF NoClaim, Applications, GigTasks
    <3> QED
      BY <2>1, <3>1, JobsAssumption DEF JobsInit, HandlersInit, JobsTyped, Gigs
  <2>4. Alone /\ HolderNamed /\ FilledHeld
    BY <1>1, <2>2 DEF Alone, Idle, HolderNamed, HasClaim, Unsure, FilledHeld
  <2>5. WorkPaid /\ CalledOffInTime
    BY <1>1, <2>2 DEF WorkPaid, CalledOffInTime, ChecksOut, CallsOff
  <2> QED
    BY <2>3, <2>4, <2>5 DEF JobsIInv
<1>3. ASSUME focus = "scheduling"
      PROVE  SchedIInv
  <2>1. SchedInit /\ HandlersInit
    BY <1>3 DEF Init
  <2>2. \A b \in Bookings : booking[b].status = "none" /\ ~booking[b].reminded /\ booking[b].fee = 0
    BY <2>1 DEF SchedInit, NoBooking
  <2>3. SchedTyped
    <3>1. NoBooking \in Appointments /\ Resting \in CalendarTasks
      BY DEF NoBooking, Appointments, CalendarTasks
    <3> QED
      BY <2>1, <3>1 DEF SchedInit, HandlersInit, SchedTyped
  <2>4. Alone /\ SlotsApart /\ FeeFollows
    BY <1>1, <2>2 DEF Alone, Idle, SlotsApart, FeeFollows
  <2>5. ToldFirst /\ MissedHadBegun
    BY <1>1, <2>2 DEF ToldFirst, MissedHadBegun
  <2> QED
    BY <2>3, <2>4, <2>5 DEF SchedIInv
<1> QED
  BY <1>2, <1>3 DEF BookingsIInv

\* Every step keeps it: of the two components, or of one that leaves both where they are.
LEMMA BookingsStep == BookingsIInv /\ [Next]_vars => BookingsIInv'
<1> SUFFICES ASSUME BookingsIInv, [Next]_vars
             PROVE  BookingsIInv'
  OBVIOUS
<1>1. CASE Next
  <2>1. focus' = focus
    BY <1>1 DEF Next
  <2>2. ASSUME focus = "jobs"
        PROVE  JobsIInv'
    <3>1. JobsNext
      BY <1>1, <2>2 DEF Next
    <3> QED
      BY <2>2, <3>1, JobsSteps DEF BookingsIInv
  <2>3. ASSUME focus = "scheduling"
        PROVE  SchedIInv'
    <3>1. SchedNext
      BY <1>1, <2>3 DEF Next
    <3> QED
      BY <2>3, <3>1, SchedSteps DEF BookingsIInv
  <2> QED
    BY <2>1, <2>2, <2>3 DEF BookingsIInv
<1>2. CASE UNCHANGED vars
  <2>1. UNCHANGED <<focus, gig, claim, hour, wages, windows, booking, now, told, task, befell>>
    BY <1>2 DEF vars, jobsRows, schedulingRows
  <2>2. JobsIInv => JobsIInv'
    BY <2>1 DEF JobsIInv, JobsTyped, Alone, Apart, Idle, HolderNamed, HasClaim, Unsure, FilledHeld, Spared,
       WorkPaid, ChecksOut, CalledOffInTime, CallsOff
  <2>3. SchedIInv => SchedIInv'
    BY <2>1 DEF SchedIInv, SchedTyped, Alone, Apart, Idle, SlotsApart, FeeFollows, ToldFirst, MissedHadBegun
  <2> QED
    BY <2>1, <2>2, <2>3 DEF BookingsIInv
<1> QED
  BY <1>1, <1>2

\* A gig is one worker's at a time and pays for the work he did; appointments are kept apart,
\* reminded of, and charged when they took place: for any number of handlers, applicants and
\* customers, whatever overlaps and whatever dies.
THEOREM BookingsStayRight == Spec => []BookingsRight
<1>1. BookingsIInv => BookingsRight
  BY BoardRight, CalendarRight DEF BookingsIInv, BookingsRight
<1> QED
  BY <1>1, BookingsInit, BookingsStep, PTL DEF Spec

(***************************************************************************)
(* Sponsors and ads.                                                       *)
(***************************************************************************)

PlacementsIInv ==
  /\ focus = "sponsors" => SponsorsIInv
  /\ focus = "ads" => AdsIInv

\* A page without sponsors, and placements nobody bought, satisfy the invariant.
LEMMA PlacementsInit == Init => PlacementsIInv
<1> SUFFICES ASSUME Init
             PROVE  PlacementsIInv
  OBVIOUS
<1>1. \A w \in Workers : task[w].step = "idle"
  BY DEF Init, HandlersInit, Resting
<1>2. ASSUME focus = "sponsors"
      PROVE  SponsorsIInv
  <2>1. SponsorsInit /\ HandlersInit
    BY <1>2 DEF Init
  <2>2. Logging = {} /\ Cardinality({}) = 0 /\ IsFiniteSet({})
    BY <1>1, FS_EmptySet DEF Logging
  <2>3. SponsorsTyped
    <3>1. NoSponsor \in Logos /\ Resting \in SponsorTasks
      BY DEF NoSponsor, Logos, SponsorTasks
    <3> QED
      BY <2>1, <3>1 DEF SponsorsInit, NoDelivery, HandlersInit, SponsorsTyped, Sponsorships
  <2>4. Alone /\ BoughtOnce /\ RowFollowsPayment
    BY <1>1, <2>1 DEF SponsorsInit, NoSponsor, Alone, Idle, BoughtOnce, Purchases, RowFollowsPayment
  <2>5. ReviewedIsPaid /\ RefundFollows
    BY <1>1, <2>1 DEF SponsorsInit, NoSponsor, ReviewedIsPaid, RefundFollows
  <2>6. PromiseKept /\ CreditFollows
    BY <1>1, <2>1, <2>2 DEF SponsorsInit, NoSponsor, NoDelivery, PromiseKept, CreditFollows, Crediting
  <2> QED
    BY <2>3, <2>4, <2>5, <2>6 DEF SponsorsIInv
<1>3. ASSUME focus = "ads"
      PROVE  AdsIInv
  <2>1. AdsInit /\ HandlersInit
    BY <1>3 DEF Init
  <2>2. \A p \in Placements :
          /\ placement[p].status = "none" /\ ~placement[p].ref /\ ~placement[p].paid
          /\ placement[p].spent = 0 /\ placement[p].unbilled = 0
          /\ adCharge[p].status = "none" /\ adCharge[p].told /\ served[p] = 0
    BY <2>1 DEF AdsInit, NoPlacement
  <2>3. AdsTyped
    <3>1. NoPlacement \in Spots /\ Resting \in AdTasks
      BY AdsAssumption DEF NoPlacement, Spots, AdTasks
    <3>2. [status |-> "none", told |-> TRUE] \in [status : {"none", "open", "paid"}, told : BOOLEAN]
      OBVIOUS
    <3> QED
      BY <2>1, <3>1, <3>2 DEF AdsInit, HandlersInit, AdsTyped
  <2>4. Alone /\ PlacedOnce /\ PaidAtStripe
    BY <1>1, <2>2 DEF Alone, Idle, PlacedOnce, PaidAtStripe
  <2>5. RunsWhenPaid /\ BilledFollows
    BY <1>1, <2>2, AdsAssumption DEF RunsWhenPaid, BilledFollows
  <2>6. SpotsLeft
    <3>1. SpotsTaken = {}
      BY <2>2, AdsAssumption DEF SpotsTaken
    <3> QED
      BY <1>1, <3>1, FS_EmptySet, AdsAssumption DEF SpotsLeft
  <2> QED
    BY <2>3, <2>4, <2>5, <2>6 DEF AdsIInv
<1> QED
  BY <1>2, <1>3 DEF PlacementsIInv

\* Every step keeps it.
LEMMA PlacementsStep == PlacementsIInv /\ [Next]_vars => PlacementsIInv'
<1> SUFFICES ASSUME PlacementsIInv, [Next]_vars
             PROVE  PlacementsIInv'
  OBVIOUS
<1>1. CASE Next
  <2>1. focus' = focus
    BY <1>1 DEF Next
  <2>2. ASSUME focus = "sponsors"
        PROVE  SponsorsIInv'
    <3>1. SponsorsNext
      BY <1>1, <2>2 DEF Next
    <3> QED
      BY <2>2, <3>1, SponsorsSteps DEF PlacementsIInv
  <2>3. ASSUME focus = "ads"
        PROVE  AdsIInv'
    <3>1. AdsNext
      BY <1>1, <2>3 DEF Next
    <3> QED
      BY <2>3, <3>1, AdsSteps DEF PlacementsIInv
  <2> QED
    BY <2>1, <2>2, <2>3 DEF PlacementsIInv
<1>2. CASE UNCHANGED vars
  <2>1. /\ UNCHANGED <<focus, task, befell, sponsor, sponsorship, promised, deliveries, waitlist, credited>>
        /\ UNCHANGED <<placement, adCharge, served>>
    BY <1>2 DEF vars, sponsorsRows, adsRows
  <2>2. SponsorsIInv => SponsorsIInv'
    BY <2>1 DEF SponsorsIInv, SponsorsTyped, Alone, Apart, Idle, BoughtOnce, Purchases, RowFollowsPayment,
       ReviewedIsPaid, RefundFollows, PromiseKept, Logging, CreditFollows, Crediting, Spared
  <2>3. AdsIInv => AdsIInv'
    BY <2>1 DEF AdsIInv, AdsTyped, Alone, Apart, Idle, PlacedOnce, PaidAtStripe, RunsWhenPaid, SpotsLeft,
       SpotsTaken, BilledFollows
  <2> QED
    BY <2>1, <2>2, <2>3 DEF PlacementsIInv
<1> QED
  BY <1>1, <1>2

\* A sponsor's logo and a paid placement are shown for money, refunded when they are turned down,
\* and billed for what was served: for any number of handlers and placements, whatever overlaps
\* and whatever dies.
THEOREM PlacementsStayRight == Spec => []PlacementsRight
<1>1. PlacementsIInv => PlacementsRight
  BY LogoRight, SpotRight DEF PlacementsIInv, PlacementsRight
<1> QED
  BY <1>1, PlacementsInit, PlacementsStep, PTL DEF Spec

(***************************************************************************)
(* Subscriptions and loyalty.                                              *)
(***************************************************************************)

MembershipsIInv ==
  /\ focus = "subscriptions" => SubscriptionsIInv
  /\ focus = "loyalty" => LoyaltyIInv

\* A plan nobody subscribed to, and cards without a stamp, satisfy the invariant.
LEMMA MembershipsInit == Init => MembershipsIInv
<1> SUFFICES ASSUME Init
             PROVE  MembershipsIInv
  OBVIOUS
<1>1. \A w \in Workers : task[w].step = "idle"
  BY DEF Init, HandlersInit, Resting
<1>2. ASSUME focus = "subscriptions"
      PROVE  SubscriptionsIInv
  <2>1. SubscriptionsInit /\ HandlersInit
    BY <1>2 DEF Init
  <2>2. /\ row.status = "none" /\ row.sub = None /\ row.activated = "never" /\ None \notin Keys
        /\ \A k \in Keys : held[k] = "none" /\ since[k] = "never" /\ events[k] = <<>>
        /\ \A l \in Losses : waived[l] = None /\ owed[l] = None
    BY <2>1, SubscriptionsAssumption DEF SubscriptionsInit, NoRow
  <2>3. SubscriptionsTyped
    <3>1. NoRow \in Plans /\ Resting \in SubscriptionTasks /\ <<>> \in Seq(Standings)
      BY DEF NoRow, Plans, Standings, Dates, SubscriptionTasks
    <3> QED
      BY <2>1, <3>1 DEF SubscriptionsInit, HandlersInit, SubscriptionsTyped, Standings, Dates
  <2>4. Alone /\ OneAlive /\ RowFollows
    BY <1>1, <2>2 DEF Alone, Idle, OneAlive, Alive, Subscribes, RowFollows
  <2>5. HeldFollows
    <3>1. \A k \in Keys : Coming(k) = {} /\ Quiet(k)
      BY <2>2 DEF Coming, Quiet
    <3> QED
      BY <1>1, <2>2, <3>1 DEF HeldFollows, Brings
  <2>6. StandingFollows
    BY <1>1, <2>2 DEF StandingFollows, Alive, Quiet, Brings, Subscribes
  <2>7. DatesFollow /\ DebtFollows
    BY <1>1, <2>2 DEF DatesFollow, DebtFollows, Subscribes, Loses
  <2>8. WaiverFollows
    <3>1. \A l \in Losses : Waiver[l] = 0
      BY <2>2 DEF Waiver
    <3>2. Used = 0
      BY <3>1, SumNothing, SubscriptionsAssumption DEF Used
    <3> QED
      BY <1>1, <3>2, SubscriptionsAssumption DEF WaiverFollows
  <2> QED
    BY <2>3, <2>4, <2>5, <2>6, <2>7, <2>8 DEF SubscriptionsIInv
<1>3. ASSUME focus = "loyalty"
      PROVE  LoyaltyIInv
  <2>1. LoyaltyInit /\ HandlersInit
    BY <1>3 DEF Init
  <2>2. /\ ~program.active /\ program.required = 0 /\ Rewarded = {} /\ earned = None
        /\ \A f \in Friends : /\ card[f].stamps = 0 /\ card[f].lifetime = 0 /\ rewards[f].cost = 0
                              /\ trips[f].stamped = 0 /\ referral[f] = "none"
    BY <2>1 DEF LoyaltyInit, Rewarded
  <2>3. LoyaltyTyped
    BY <2>1 DEF LoyaltyInit, HandlersInit, LoyaltyTyped, LoyaltyTasks
  <2>4. Alone /\ CardsFollow
    BY <1>1, <2>2 DEF Alone, Idle, CardsFollow
  <2>5. StampsFollow
    BY <1>1, <2>2, NothingInHand DEF StampsFollow
  <2>6. CreditsFollow /\ CountFollows
    BY <1>1, <2>2 DEF CreditsFollow, CountFollows
  <2> QED
    BY <2>3, <2>4, <2>5, <2>6 DEF LoyaltyIInv
<1> QED
  BY <1>2, <1>3 DEF MembershipsIInv

\* Every step keeps it.
LEMMA MembershipsStep == MembershipsIInv /\ [Next]_vars => MembershipsIInv'
<1> SUFFICES ASSUME MembershipsIInv, [Next]_vars
             PROVE  MembershipsIInv'
  OBVIOUS
<1>1. CASE Next
  <2>1. focus' = focus
    BY <1>1 DEF Next
  <2>2. ASSUME focus = "subscriptions"
        PROVE  SubscriptionsIInv'
    <3>1. SubscriptionsNext
      BY <1>1, <2>2 DEF Next
    <3> QED
      BY <2>2, <3>1, SubscriptionsSteps DEF MembershipsIInv
  <2>3. ASSUME focus = "loyalty"
        PROVE  LoyaltyIInv'
    <3>1. LoyaltyNext
      BY <1>1, <2>3 DEF Next
    <3> QED
      BY <2>3, <3>1, LoyaltySteps DEF MembershipsIInv
  <2> QED
    BY <2>1, <2>2, <2>3 DEF MembershipsIInv
<1>2. CASE UNCHANGED vars
  <2>1. /\ UNCHANGED <<focus, task, befell, row, held, since, shown, events, waived, owed>>
        /\ UNCHANGED <<program, trips, card, rewards, referral, lapsing, credits, earned>>
    BY <1>2 DEF vars, subscriptionsRows, loyaltyRows
  <2>2. SubscriptionsIInv => SubscriptionsIInv'
    BY <2>1 DEF SubscriptionsIInv, SubscriptionsTyped, Alone, Apart, Idle, HeldFollows, Brings, OneAlive,
       Alive, Subscribes, RowFollows, StandingFollows, DatesFollow, WaiverFollows, DebtFollows, Loses,
       Quiet, Coming, Latest, Used, Waiver, Spared
  <2>3. LoyaltyIInv => LoyaltyIInv'
    <3>1. LoyaltyTyped /\ Alone => LoyaltyTyped' /\ Alone'
      BY <2>1 DEF LoyaltyTyped, Alone, Apart, Idle
    <3>2. \A f \in Friends : ToStamp(f)' = ToStamp(f) /\ ToCheck(f)' = ToCheck(f)
          /\ ToSpend(f)' = ToSpend(f)
      BY <2>1 DEF ToStamp, ToCheck, ToSpend, Stamping, Checking, Spending
    <3>3. (StampsFollow => StampsFollow') /\ (CardsFollow => CardsFollow')
      BY <2>1, <3>2 DEF StampsFollow, CardsFollow, Spared
    <3>4. (CreditsFollow => CreditsFollow') /\ (CountFollows => CountFollows')
      <4>1. Rewarded' = Rewarded
        BY <2>1 DEF Rewarded
      <4> QED
        BY <2>1, <4>1 DEF CreditsFollow, CountFollows, Spared
    <3> QED
      BY <3>1, <3>3, <3>4 DEF LoyaltyIInv
  <2> QED
    BY <2>1, <2>2, <2>3 DEF MembershipsIInv
<1> QED
  BY <1>1, <1>2

\* A plan is honoured while Stripe is paid for it and waives no more than its cap; every stamp is on
\* the card or was spent once; and a referral is credited to both or to neither, up to the cap: for
\* any number of handlers, subscriptions, losses and friends, whatever overlaps and whatever dies.
THEOREM MembershipsStayRight == Spec => []MembershipsRight
<1>1. MembershipsIInv => MembershipsRight
  BY PlanRight, CardRight DEF MembershipsIInv, MembershipsRight
<1> QED
  BY <1>1, MembershipsInit, MembershipsStep, PTL DEF Spec

=============================================================================
