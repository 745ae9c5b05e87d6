---------------------------- MODULE MCServices ----------------------------
(***************************************************************************)
(* The service components, checked in one run.  They share no state, so a  *)
(* behaviour follows one of them, `focus', and the rows of the others are  *)
(* not there: the states explored are the sum of the components' and not   *)
(* their product.                                                          *)
(***************************************************************************)
EXTENDS Jobs, Scheduling, Postcards, Brands, Sponsors, Ads, Subscriptions, Loyalty, LiveMap,
     Growth, Shelter, SuspendedItems, Verification, Disputes, Inbox, Vendors,
     BackOffice, TLC

VARIABLE focus

\* The sets of alike things have the same two members in every component.
Symmetry ==
  Permutations(Workers) \cup Permutations(Seekers)

\* A category as it comes, and one that offers services and bookings besides.
MCTweaks == {<<>>, [booking |-> TRUE, services |-> TRUE]}

jobsRows == <<gig, claim, hour, wages>>
schedulingRows == <<windows, booking, now, told>>
postcardsRows == <<mailing, artwork, intent, press, payable, settlement, vendorDebt, posted>>
brandsRows == <<brand, seat, invite, members, ticket, splits, sent>>
sponsorsRows == <<sponsor, sponsorship, promised, deliveries, waitlist, credited>>
adsRows == <<placement, adCharge, served>>
subscriptionsRows == <<row, held, since, shown, events, turns, waived, owed>>
loyaltyRows == <<program, trips, card, rewards, referral, lapsing, credits, earned>>
livemapRows == <<session, mirror, pins, suspended, follows, request, alerted, throttled>>
pingsRows == <<budget, topup, prepaid, ping, booked, tipsSent>>
giftsRows == <<gift>>
giveawaysRows == <<giveaway, claims>>
spotmeRows == <<spot>>
partyRows == <<party>>
shelter_stockRows == <<pickup>>
shelter_custodyRows == <<payout, hasAccount, moved, custody>>
itemsRows == <<waiting, itemCard, news>>
verificationRows == <<check, bank, account, connect, verdicts>>
disputesRows == <<dispute, decided, sale, returns, followups, score, review>>
photosRows == <<photos>>
inboxRows == <<order, threads, messages, payouts, rows, rang, counter, muted>>
storefrontRows == <<menu, special, wish>>
modulesRows == <<shop>>
suggestionsRows == <<proposed, suggestion>>
licencesRows == <<paper, live>>
crewRows == <<crew>>
invoicesRows == <<invoice, numbered, log>>

vars ==
  <<jobsRows, schedulingRows, postcardsRows, brandsRows, sponsorsRows, adsRows, subscriptionsRows,
       loyaltyRows, livemapRows, pingsRows, giftsRows, giveawaysRows, spotmeRows, partyRows,
       shelter_stockRows, shelter_custodyRows, itemsRows, verificationRows, disputesRows,
       photosRows, inboxRows, storefrontRows, modulesRows, suggestionsRows, licencesRows,
       crewRows, invoicesRows, programRows, category, task, befell, focus>>

\* Not deployed: no rows at all.
NoJobs ==
  /\ gig = None /\ claim = None /\ hour = None /\ wages = None
NoScheduling ==
  /\ windows = None /\ booking = None /\ now = None /\ told = None
NoPostcards ==
  /\ mailing = None /\ artwork = None /\ intent = None /\ press = None
  /\ payable = None /\ settlement = None /\ vendorDebt = None /\ posted = None
NoBrands ==
  /\ brand = None /\ seat = None /\ invite = None /\ members = None
  /\ ticket = None /\ splits = None /\ sent = None
NoSponsors ==
  /\ sponsor = None /\ sponsorship = None /\ promised = None /\ deliveries = None
  /\ waitlist = None /\ credited = None
NoAds ==
  /\ placement = None /\ adCharge = None /\ served = None
NoSubscriptions ==
  /\ row = None /\ held = None /\ since = None /\ shown = None
  /\ events = None /\ turns = None /\ waived = None /\ owed = None
NoLoyalty ==
  /\ program = None /\ trips = None /\ card = None /\ rewards = None
  /\ referral = None /\ lapsing = None /\ credits = None /\ earned = None
NoLiveMap ==
  /\ session = None /\ mirror = None /\ pins = None /\ suspended = None
  /\ follows = None /\ request = None /\ alerted = None /\ throttled = None
NoPings ==
  /\ budget = None /\ topup = None /\ prepaid = None /\ ping = None
  /\ booked = None /\ tipsSent = None
NoPerks ==
  /\ gift = None /\ giveaway = None /\ claims = None /\ spot = None
  /\ party = None
NoShelter ==
  /\ pickup = None /\ payout = None /\ hasAccount = None /\ moved = None
  /\ custody = None /\ partner = None /\ enrollment = None /\ vouched = None
NoSuspendedItems ==
  /\ waiting = None /\ itemCard = None /\ news = None
NoVerification ==
  /\ check = None /\ bank = None /\ account = None /\ connect = None
  /\ verdicts = None
NoDisputes ==
  /\ dispute = None /\ decided = None /\ sale = None /\ returns = None
  /\ followups = None /\ score = None /\ review = None /\ photos = None
NoInbox ==
  /\ order = None /\ threads = None /\ messages = None /\ payouts = None
  /\ rows = None /\ rang = None /\ counter = None /\ muted = None
NoStorefront ==
  /\ menu = None /\ special = None /\ wish = None
NoCatalogue ==
  /\ shop = None /\ proposed = None /\ suggestion = None /\ paper = None
  /\ live = None /\ category = None
NoBackOffice ==
  /\ crew = None /\ invoice = None /\ numbered = None /\ log = None

Init ==
  /\ HandlersInit
  /\ focus \in {"jobs", "scheduling", "postcards", "brands", "sponsors", "ads", "subscriptions",
       "loyalty", "livemap", "pings", "gifts", "giveaways", "spotme", "party", "shelter_stock",
       "shelter_custody", "items", "verification", "disputes", "photos", "inbox", "storefront",
       "modules", "suggestions", "licences", "crew", "invoices"}
  /\ IF focus = "jobs" THEN JobsInit ELSE NoJobs
  /\ IF focus = "scheduling" THEN SchedInit ELSE NoScheduling
  /\ IF focus = "postcards" THEN PostcardsInit ELSE NoPostcards
  /\ IF focus = "brands" THEN BrandsInit ELSE NoBrands
  /\ IF focus = "sponsors" THEN SponsorsInit ELSE NoSponsors
  /\ IF focus = "ads" THEN AdsInit ELSE NoAds
  /\ IF focus = "subscriptions" THEN SubscriptionsInit ELSE NoSubscriptions
  /\ IF focus = "loyalty" THEN LoyaltyInit ELSE NoLoyalty
  /\ IF focus = "livemap" THEN LiveMapInit ELSE NoLiveMap
  /\ IF focus = "pings" THEN PingsInit ELSE NoPings
  /\ IF focus \in {"gifts", "giveaways", "spotme", "party"} THEN PerksInit ELSE NoPerks
  /\ IF focus \in {"shelter_stock", "shelter_custody"} THEN ShelterInit ELSE NoShelter
  /\ IF focus = "items" THEN ItemsInit ELSE NoSuspendedItems
  /\ IF focus = "verification" THEN VerificationInit ELSE NoVerification
  /\ IF focus \in {"disputes", "photos"} THEN DisputesInit ELSE NoDisputes
  /\ IF focus = "inbox" THEN InboxInit ELSE NoInbox
  /\ IF focus = "storefront" THEN StorefrontInit ELSE NoStorefront
  /\ IF focus \in {"modules", "suggestions", "licences"} THEN CatalogueInit ELSE NoCatalogue
  /\ IF focus \in {"crew", "invoices"} THEN BackOfficeInit ELSE NoBackOffice

Next ==
  /\ UNCHANGED focus
  /\ \/ focus = "jobs" /\ JobsNext
     \/ focus = "scheduling" /\ SchedNext
     \/ focus = "postcards" /\ PostcardsNext
     \/ focus = "brands" /\ BrandsNext
     \/ focus = "sponsors" /\ SponsorsNext
     \/ focus = "ads" /\ AdsNext
     \/ focus = "subscriptions" /\ SubscriptionsNext
     \/ focus = "loyalty" /\ LoyaltyNext
     \/ focus = "livemap" /\ LiveMapNext
     \/ focus = "pings" /\ PingsNext
     \/ focus = "gifts" /\ GiftsNext
     \/ focus = "giveaways" /\ GiveawaysNext
     \/ focus = "spotme" /\ SpotMeNext
     \/ focus = "party" /\ PartiesNext
     \/ focus = "shelter_stock" /\ ShelterStockNext
     \/ focus = "shelter_custody" /\ ShelterCustodyNext
     \/ focus = "items" /\ ItemsNext
     \/ focus = "verification" /\ VerificationNext
     \/ focus = "disputes" /\ DisputesNext
     \/ focus = "photos" /\ PhotosNext
     \/ focus = "inbox" /\ InboxNext
     \/ focus = "storefront" /\ StorefrontNext
     \/ focus = "modules" /\ ModulesNext
     \/ focus = "suggestions" /\ SuggestionsNext
     \/ focus = "licences" /\ LicencesNext
     \/ focus = "crew" /\ CrewNext
     \/ focus = "invoices" /\ InvoicesNext
  /\ IF focus = "jobs" THEN TRUE ELSE UNCHANGED jobsRows
  /\ IF focus = "scheduling" THEN TRUE ELSE UNCHANGED schedulingRows
  /\ IF focus = "postcards" THEN TRUE ELSE UNCHANGED postcardsRows
  /\ IF focus = "brands" THEN TRUE ELSE UNCHANGED brandsRows
  /\ IF focus = "sponsors" THEN TRUE ELSE UNCHANGED sponsorsRows
  /\ IF focus = "ads" THEN TRUE ELSE UNCHANGED adsRows
  /\ IF focus = "subscriptions" THEN TRUE ELSE UNCHANGED subscriptionsRows
  /\ IF focus = "loyalty" THEN TRUE ELSE UNCHANGED loyaltyRows
  /\ IF focus = "livemap" THEN TRUE ELSE UNCHANGED livemapRows
  /\ IF focus = "pings" THEN TRUE ELSE UNCHANGED pingsRows
  /\ IF focus = "gifts" THEN TRUE ELSE UNCHANGED giftsRows
  /\ IF focus = "giveaways" THEN TRUE ELSE UNCHANGED giveawaysRows
  /\ IF focus = "spotme" THEN TRUE ELSE UNCHANGED spotmeRows
  /\ IF focus = "party" THEN TRUE ELSE UNCHANGED partyRows
  /\ IF focus = "shelter_stock" THEN TRUE ELSE UNCHANGED shelter_stockRows
  /\ IF focus = "shelter_custody" THEN TRUE ELSE UNCHANGED shelter_custodyRows
  /\ IF focus = "items" THEN TRUE ELSE UNCHANGED itemsRows
  /\ IF focus = "verification" THEN TRUE ELSE UNCHANGED verificationRows
  /\ IF focus = "disputes" THEN TRUE ELSE UNCHANGED disputesRows
  /\ IF focus = "photos" THEN TRUE ELSE UNCHANGED photosRows
  /\ IF focus = "inbox" THEN TRUE ELSE UNCHANGED inboxRows
  /\ IF focus = "storefront" THEN TRUE ELSE UNCHANGED storefrontRows
  /\ IF focus = "modules" THEN TRUE ELSE UNCHANGED modulesRows
  /\ IF focus = "suggestions" THEN TRUE ELSE UNCHANGED suggestionsRows
  /\ IF focus = "licences" THEN TRUE ELSE UNCHANGED licencesRows
  /\ IF focus = "crew" THEN TRUE ELSE UNCHANGED crewRows
  /\ IF focus = "invoices" THEN TRUE ELSE UNCHANGED invoicesRows
  /\ IF focus \in {"shelter_stock", "shelter_custody"} THEN TRUE ELSE UNCHANGED programRows
  /\ IF focus \in {"modules", "suggestions", "licences"} THEN TRUE ELSE UNCHANGED category

Spec == Init /\ [][Next]_vars


\* Claimed gigs and booked services, each as its module states it.
BookingsRight ==
  /\ focus = "jobs" => JobsRight
  /\ focus = "scheduling" => SchedulingRight

\* A mailing, from the artwork to the vendor's money, as its module states it.
MailingsRight == focus = "postcards" => PostcardsRight

\* A brand, its operators and the split of its sales, as its module states it.
FranchiseRight == focus = "brands" => BrandsRight

\* Sponsorships and paid placements, each as its module states it.
PlacementsRight ==
  /\ focus = "sponsors" => SponsorsRight
  /\ focus = "ads" => AdsRight

\* Subscriptions, and what loyalty and referrals earn, each as its module states it.
MembershipsRight ==
  /\ focus = "subscriptions" => SubscriptionsRight
  /\ focus = "loyalty" => LoyaltyRight

\* The live map, paid sharing, the perks and the inbox, each as its module states it.
OutreachRight ==
  /\ focus = "livemap" => LiveMapRight
  /\ focus = "pings" => PingsRight
  /\ focus \in {"gifts", "giveaways", "spotme", "party"} => PerksRight
  /\ focus = "inbox" => InboxRight

\* The shelter program, the items given forward, who somebody is and what is held against him,
\* each as its module states it.
CommunityRight ==
  /\ focus \in {"shelter_stock", "shelter_custody"} => ShelterRight
  /\ focus = "items" => ItemsRight
  /\ focus = "verification" => VerificationRight
  /\ focus \in {"disputes", "photos"} => DisputesRight

\* A shop's menu and wish lists, what its category lets it do, its crew and its invoices, each as
\* its module states it.
ShopsRight ==
  /\ focus = "storefront" => StorefrontRight
  /\ focus \in {"modules", "suggestions", "licences"} => CatalogueRight
  /\ focus \in {"crew", "invoices"} => BackOfficeRight

=============================================================================
