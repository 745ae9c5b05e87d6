------------------------------ MODULE Vendors -------------------------------
(***************************************************************************)
(* A business: what it sells, and what it may do.                          *)
(*                                                                         *)
(* A business's menu, the special of the day that points into it, and the  *)
(* customers who wait for a thing to be available again.  The write that   *)
(* brings a thing back starts the alert and does not wait for it, so the   *)
(* menu may change again while the alert is under way.                     *)
(*                                                                         *)
(* What a business may do: the categories administrators govern, the       *)
(* suggestions they review, the licences a category may require before a   *)
(* business goes live, and the modules that follow from all of it.         *)
(***************************************************************************)
EXTENDS Handlers

CONSTANTS
  Dishes,    \* menu items of the business
  Fans,      \* customers with a wish list
  MaxWishes  \* bound: how often a customer makes a wish

VARIABLES
  menu,     \* menu_items: "none" yet, "on" offer, "off", or "gone" for good
  special,  \* businesses.today_special_menu_item_id
  wish      \* wishlist_items: a customer's row; wishes for different things share nothing

storefrontVars == <<menu, special, wish, task, befell>>

\* `n' tells a row from the one that replaces it.  History: how many alerts the row got, and
\* whether the thing was off while the customer waited.
NoWish == [state |-> "none", for |-> None, n |-> 0, alerts |-> 0, missed |-> FALSE]

StorefrontInit ==
  /\ menu = [d \in Dishes |-> "none"]
  /\ special = None
  /\ wish = [f \in Fans |-> NoWish]

OnMenu(d) == menu[d] \in {"on", "off"}

(***************************************************************************)
(* The menu.                                                               *)
(***************************************************************************)

AddMenuItem(d) ==
  /\ menu[d] = "none"
  /\ menu' = [menu EXCEPT ![d] = "on"]
  /\ AtOnce
  /\ UNCHANGED <<special, wish>>

\* Mutant: the alert is for things that are there already.
WasAvailable(d) == menu[d] = "on"

WasUnavailable(d) == menu[d] = "off"

\* updateMenuItem reads whether the item was off only when it is to be on.
UpdateMenuItem(w, d, on) ==
  /\ OnMenu(d)
  /\ Begin(w, [step |-> "dish_write", of |-> d, on |-> on, edge |-> on /\ WasUnavailable(d)])
  /\ UNCHANGED <<menu, special, wish>>

Misses(d) == [f \in Fans |->
  IF wish[f].state = "waiting" /\ wish[f].for = d THEN [wish[f] EXCEPT !.missed = TRUE]
  ELSE wish[f]]

\* An item removed meanwhile is not found, and nobody is told.
WriteMenuItem(w) ==
  /\ At(w, "dish_write")
  /\ LET d == task[w].of IN
     IF ~OnMenu(d) THEN Finish(w) /\ UNCHANGED <<menu, wish>>
     ELSE /\ menu' = [menu EXCEPT ![d] = IF task[w].on THEN "on" ELSE "off"]
          /\ wish' = IF task[w].on THEN wish ELSE Misses(d)
          /\ IF task[w].edge
               THEN Becomes(w, [step |-> "fans_find", of |-> d]) /\ UNCHANGED befell
               ELSE Finish(w)
  /\ UNCHANGED special

RemoveMenuItem(w, d) ==
  /\ OnMenu(d)
  /\ menu' = [menu EXCEPT ![d] = "gone"]
  /\ Begin(w, [step |-> "special_find", of |-> d])
  /\ UNCHANGED <<special, wish>>

\* Mutant: the special is left to dangle.
LeavesSpecial(d) == FALSE

IsSpecial(d) == special = d

FindSpecial(w) ==
  /\ At(w, "special_find")
  /\ IF IsSpecial(task[w].of) THEN Goto(w, "special_clear") ELSE Finish(w)
  /\ UNCHANGED <<menu, special, wish>>

\* Whatever the special is by now.
DropSpecial(w) ==
  /\ At(w, "special_clear")
  /\ special' = None
  /\ Finish(w)
  /\ UNCHANGED <<menu, wish>>

(***************************************************************************)
(* updateBusiness, as far as the special goes.                             *)
(***************************************************************************)

ChooseSpecial(w, d) ==
  /\ OnMenu(d)
  /\ Begin(w, [step |-> "special_write", of |-> d])
  /\ UNCHANGED <<menu, special, wish>>

WriteSpecial(w) ==
  /\ At(w, "special_write")
  /\ special' = task[w].of
  /\ Finish(w)
  /\ UNCHANGED <<menu, wish>>

ClearSpecial ==
  /\ special # None
  /\ special' = None
  /\ AtOnce
  /\ UNCHANGED <<menu, wish>>

(***************************************************************************)
(* The wish list.                                                          *)
(***************************************************************************)

MakeWish(w, f, d) ==
  /\ OnMenu(d)
  /\ wish[f].n < MaxWishes
  /\ Begin(w, [step |-> "wish_create", fan |-> f, of |-> d])
  /\ UNCHANGED <<menu, special, wish>>

\* A wish that is there already is answered with.
CreateWish(w) ==
  /\ At(w, "wish_create")
  /\ LET f == task[w].fan IN
     wish' = IF wish[f].state # "none" THEN wish
             ELSE [wish EXCEPT ![f] =
               [state |-> "waiting", for |-> task[w].of, n |-> @.n + 1, alerts |-> 0,
                missed |-> menu[task[w].of] = "off"]]
  /\ Finish(w)
  /\ UNCHANGED <<menu, special>>

RemoveWish(f) ==
  /\ wish[f].state # "none"
  /\ wish' = [wish EXCEPT ![f] = [NoWish EXCEPT !.n = wish[f].n]]
  /\ AtOnce
  /\ UNCHANGED <<menu, special>>

(***************************************************************************)
(* notifyBackInStock: finds who waits, marks them told, and tells them.    *)
(***************************************************************************)

\* Mutant: who was told before is told again.
WaitingOrTold(d) == {f \in Fans : wish[f].for = d}

WaitingFor(d) == {f \in Fans : wish[f].for = d /\ wish[f].state = "waiting"}

FindFans(w) ==
  /\ At(w, "fans_find")
  /\ LET found == {<<f, wish[f].n>> : f \in WaitingFor(task[w].of)} IN
     IF found = {} THEN Finish(w)
     ELSE Becomes(w, [step |-> "fans_mark", whom |-> found]) /\ UNCHANGED befell
  /\ UNCHANGED <<menu, special, wish>>

\* The row that was found is still there.
Stands(f, found) == wish[f].state # "none" /\ <<f, wish[f].n>> \in found

\* updateMany goes by the ids that were found, told meanwhile or not.
MarkFans(w) ==
  /\ At(w, "fans_mark")
  /\ wish' = [f \in Fans |->
       IF Stands(f, task[w].whom) THEN [wish[f] EXCEPT !.state = "told"] ELSE wish[f]]
  /\ Goto(w, "fans_tell")
  /\ UNCHANGED <<menu, special>>

TellFans(w) ==
  /\ At(w, "fans_tell")
  /\ wish' = [f \in Fans |->
       IF Stands(f, task[w].whom) THEN [wish[f] EXCEPT !.alerts = @ + 1] ELSE wish[f]]
  /\ Finish(w)
  /\ UNCHANGED <<menu, special>>

StorefrontDies(w) ==
  /\ Dies(w)
  /\ UNCHANGED <<menu, special, wish>>

StorefrontNext ==
  \/ \E w \in Workers :
       \/ WriteMenuItem(w) \/ FindSpecial(w) \/ DropSpecial(w) \/ WriteSpecial(w)
       \/ CreateWish(w) \/ FindFans(w) \/ MarkFans(w) \/ TellFans(w) \/ StorefrontDies(w)
       \/ \E d \in Dishes :
            \/ RemoveMenuItem(w, d) \/ ChooseSpecial(w, d)
            \/ \E on \in BOOLEAN : UpdateMenuItem(w, d, on)
            \/ \E f \in Fans : MakeWish(w, f, d)
  \/ \E d \in Dishes : AddMenuItem(d)
  \/ \E f \in Fans : RemoveWish(f)
  \/ ClearSpecial

(***************************************************************************)
(* Properties.                                                             *)
(***************************************************************************)

\* The special of the day is on the menu: unless it was chosen while it was being removed, or the
\* removal broke off before it looked.
SpecialIsOnMenu ==
  AllIdle /\ Spared(Interrupted) => special = None \/ OnMenu(special)

\* One wish, one alert, however often the thing comes and goes: unless it went and came again
\* before the first alert had marked who waits.
AlertedOnce ==
  Spared({"overlap"}) => \A f \in Fans : wish[f].alerts <= 1

\* Who was told is marked, so that a crash loses an alert and never repeats one.
ToldIsMarked ==
  \A f \in Fans : wish[f].alerts > 0 => wish[f].state = "told"

\* Nobody waits for a thing that was off while he waited and is on again.
NobodyForgotten ==
  AllIdle /\ Spared(Interrupted) =>
    \A f \in Fans :
      ~(wish[f].state = "waiting" /\ wish[f].missed /\ menu[wish[f].for] = "on")

StorefrontRight ==
  SpecialIsOnMenu /\ AlertedOnce /\ ToldIsMarked /\ NobodyForgotten

(***************************************************************************)
(* Categories, suggestions, licences and modules.                          *)
(***************************************************************************)
CONSTANTS
  Suggestions,  \* category suggestions, all proposing the same name
  Papers,       \* licence documents of the business
  Optional,      \* optional modules an owner may ask for
  Tweaks        \* values of a category's module_overrides

VARIABLES
  category,    \* categories: the one the business is in
  proposed,    \* the category of the proposed name, or None
  suggestion,  \* category_suggestions
  shop,        \* businesses: is it a hub, and which modules its owner chose
  paper,       \* license_documents
  live         \* live_sessions: is the business live

catalogueVars == <<category, proposed, suggestion, shop, paper, live, task, befell>>

Archetypes == {"counter_serve", "appointment_service", "on_demand_service", "goods_seller"}

\* History: `told', the verdicts the vendor was told of, and `outlived', that the category came to
\* require a licence while the business was live.
CatalogueInit ==
  /\ category \in [archetype : Archetypes, licensed : BOOLEAN, tweak : Tweaks]
  /\ proposed = None
  /\ suggestion = [s \in Suggestions |-> "pending"]
  /\ shop = [hub |-> FALSE, modules |-> None]
  /\ paper = [p \in Papers |-> [status |-> "none", fits |-> FALSE, told |-> {}]]
  /\ live = [on |-> FALSE, outlived |-> FALSE]

(***************************************************************************)
(* resolveModulesFrom.                                                     *)
(***************************************************************************)

Core == {"live_presence", "profile", "reviews", "messaging", "payouts", "analytics"}

Commerce == {"ordering", "booking"}

CommerceRequires == [booking |-> {"services"}, ordering |-> {"menu", "catalog"}]

PrimaryCommerce ==
  [counter_serve |-> "ordering", appointment_service |-> "booking",
   on_demand_service |-> "booking", goods_seller |-> "ordering"]

ArchetypeDefaults ==
  [counter_serve |-> {"menu", "ordering", "queue", "wave_down"},
   appointment_service |-> {"services", "booking"},
   on_demand_service |-> {"services", "booking"},
   goods_seller |-> {"menu", "catalog", "ordering", "consignment"}]

Everywhere == {"giveaways", "pay_it_forward", "ping_sharing", "ai_assistant"}

ArchetypeAvailable == [a \in Archetypes |-> ArchetypeDefaults[a] \cup Everywhere \cup
  CASE a = "counter_serve" -> {"booking", "consignment", "gifting"}
    [] a = "appointment_service" -> {"ordering", "wave_down", "gifting"}
    [] a = "on_demand_service" -> {"ordering", "wave_down", "queue"}
    [] a = "goods_seller" -> {"queue", "gifting"}]

\* Modules that follow from data and are nobody's to choose.
Automatic == (IF category.licensed THEN {"licensing"} ELSE {})
        \cup (IF shop.hub THEN {"hub_operations"} ELSE {})

Locked == Core \cup Automatic

On(tweak) == {m \in DOMAIN tweak : tweak[m]}

Off(tweak) == {m \in DOMAIN tweak : ~tweak[m]}

\* Mutant: a commerce module is on offer with nothing to transact on.
Unpruned(offered) == offered

PruneUnsupportedCommerce(offered) ==
  offered \ {m \in Commerce : CommerceRequires[m] \cap offered = {}}

Available ==
  PruneUnsupportedCommerce(
    ArchetypeAvailable[category.archetype] \cup Core \cup On(category.tweak) \cup Automatic)

Defaults ==
  ((ArchetypeDefaults[category.archetype] \cup On(category.tweak)) \ Off(category.tweak))
    \cap Available

\* Mutant: both ways to buy stay open.
Inclusive(chosen) == chosen

\* One account, one way to buy: of two the archetype's own stays.
EnforceExclusiveCommerce(chosen) ==
  IF Commerce \subseteq chosen
    THEN chosen \ (Commerce \ {PrimaryCommerce[category.archetype]})
    ELSE chosen

\* Mutant: what the owner chose stays whatever became of his category.
AsStored(modules) == modules

StillOffered(modules) == modules \cap Available

Enabled ==
  EnforceExclusiveCommerce(
    (IF shop.modules = None THEN Defaults ELSE StillOffered(shop.modules)) \cup Automatic \cup Core)

(***************************************************************************)
(* The owner's choice, his hub, and the category he is in.                 *)
(***************************************************************************)

\* setEnabledModules reads the documents and rejects, then stores what was asked for.
SetEnabledModules(w, chosen) ==
  /\ ~(Commerce \subseteq chosen)
  /\ chosen \subseteq Available
  /\ Begin(w, [step |-> "modules_write", chosen |-> chosen \cup Locked])
  /\ UNCHANGED <<category, proposed, suggestion, shop, paper, live>>

WriteModules(w) ==
  /\ At(w, "modules_write")
  /\ shop' = [shop EXCEPT !.modules = task[w].chosen]
  /\ Finish(w)
  /\ UNCHANGED <<category, proposed, suggestion, paper, live>>

RegisterHub ==
  /\ ~shop.hub
  /\ shop' = [shop EXCEPT !.hub = TRUE]
  /\ AtOnce
  /\ UNCHANGED <<category, proposed, suggestion, paper, live>>

\* updateCategory: of what an administrator may correct, what a business depends on.
UpdateCategory(archetype, licensed) ==
  /\ category' = [category EXCEPT !.archetype = archetype, !.licensed = licensed]
  /\ category' # category
  /\ live' = [live EXCEPT !.outlived = live.on /\ (@ \/ (licensed /\ ~category.licensed))]
  /\ AtOnce
  /\ UNCHANGED <<proposed, suggestion, shop, paper>>

(***************************************************************************)
(* reviewCategorySuggestion.                                               *)
(***************************************************************************)

ReviewCategorySuggestion(w, s, approve) ==
  /\ suggestion[s] = "pending"
  /\ Begin(w, [step |-> IF approve THEN "category_create" ELSE "suggestion_write",
               of |-> s, verdict |-> IF approve THEN "approved" ELSE "rejected"])
  /\ UNCHANGED <<category, proposed, suggestion, shop, paper, live>>

\* Mutant: the slug is not unique.
Another == TRUE

SlugFree == proposed = None

\* A second category of the name is refused by the unique slug, and the review with it.
CreateCategory(w) ==
  /\ At(w, "category_create")
  /\ IF SlugFree THEN proposed' = task[w].of /\ Goto(w, "suggestion_write")
     ELSE Finish(w) /\ UNCHANGED proposed
  /\ UNCHANGED <<category, suggestion, shop, paper, live>>

WriteSuggestion(w) ==
  /\ At(w, "suggestion_write")
  /\ suggestion' = [suggestion EXCEPT ![task[w].of] = task[w].verdict]
  /\ Finish(w)
  /\ UNCHANGED <<category, proposed, shop, paper, live>>

(***************************************************************************)
(* Licences.  A vendor may hand in a document for any category; it fits    *)
(* when that is his own.                                                   *)
(***************************************************************************)

SubmitLicenseDocument(p, fits) ==
  /\ paper[p].status = "none"
  /\ paper' = [paper EXCEPT ![p] = [status |-> "pending", fits |-> fits, told |-> {}]]
  /\ AtOnce
  /\ UNCHANGED <<category, proposed, suggestion, shop, live>>

\* Mutant: a document may be reviewed again.
Reviewable(p) == paper[p].status # "none"

AwaitsReview(p) == paper[p].status = "pending"

ReviewLicenseDocument(w, p, verdict) ==
  /\ AwaitsReview(p)
  /\ Begin(w, [step |-> "paper_write", of |-> p, verdict |-> verdict])
  /\ UNCHANGED <<category, proposed, suggestion, shop, paper, live>>

\* The update goes by the id, reviewed meanwhile or not.
WriteVerdict(w) ==
  /\ At(w, "paper_write")
  /\ paper' = [paper EXCEPT ![task[w].of].status = task[w].verdict]
  /\ Goto(w, "paper_tell")
  /\ UNCHANGED <<category, proposed, suggestion, shop, live>>

TellVendor(w) ==
  /\ At(w, "paper_tell")
  /\ paper' = [paper EXCEPT ![task[w].of].told = @ \cup {task[w].verdict}]
  /\ Finish(w)
  /\ UNCHANGED <<category, proposed, suggestion, shop, live>>

\* Mutant: an approved document of any category will do.
AnyApproved == \E p \in Papers : paper[p].status = "approved"

HasApprovedLicense == \E p \in Papers : paper[p].fits /\ paper[p].status = "approved"

IsLicensedForLiveOps == category.licensed => HasApprovedLicense

\* startSession asks first and opens the session after, or carries on the one that is open.
StartLive(w) ==
  /\ IsLicensedForLiveOps
  /\ Begin(w, [step |-> "live_write"])
  /\ UNCHANGED <<category, proposed, suggestion, shop, paper, live>>

WriteLive(w) ==
  /\ At(w, "live_write")
  /\ live' = IF live.on THEN live ELSE [on |-> TRUE, outlived |-> FALSE]
  /\ Finish(w)
  /\ UNCHANGED <<category, proposed, suggestion, shop, paper>>

EndLive ==
  /\ live.on
  /\ live' = [on |-> FALSE, outlived |-> FALSE]
  /\ AtOnce
  /\ UNCHANGED <<category, proposed, suggestion, shop, paper>>

CatalogueDies(w) ==
  /\ Dies(w)
  /\ UNCHANGED <<category, proposed, suggestion, shop, paper, live>>

(***************************************************************************)
(* Three parts that meet in the category alone.                            *)
(***************************************************************************)

ModulesNext ==
  \/ \E w \in Workers :
       \/ WriteModules(w) \/ CatalogueDies(w)
       \/ \E chosen \in SUBSET Optional : SetEnabledModules(w, chosen)
  \/ \E a \in Archetypes, licensed \in BOOLEAN : UpdateCategory(a, licensed)
  \/ RegisterHub

SuggestionsNext ==
  \E w \in Workers :
    \/ CreateCategory(w) \/ WriteSuggestion(w) \/ CatalogueDies(w)
    \/ \E s \in Suggestions, approve \in BOOLEAN : ReviewCategorySuggestion(w, s, approve)

LicencesNext ==
  \/ \E w \in Workers :
       \/ WriteVerdict(w) \/ TellVendor(w) \/ StartLive(w) \/ WriteLive(w) \/ CatalogueDies(w)
       \/ \E p \in Papers, v \in {"approved", "rejected"} : ReviewLicenseDocument(w, p, v)
  \/ \E p \in Papers, fits \in BOOLEAN : SubmitLicenseDocument(p, fits)
  \/ \E licensed \in BOOLEAN : UpdateCategory(category.archetype, licensed)
  \/ EndLive

(***************************************************************************)
(* Properties.                                                             *)
(***************************************************************************)

\* However the category, the hub and an older choice combine, a business takes orders or bookings
\* and never both, has something to transact on, and keeps what it may not turn off.
OneWayToBuy ==
  /\ ~(Commerce \subseteq Enabled)
  /\ \A m \in Commerce \cap Enabled : CommerceRequires[m] \cap Available # {}
  /\ Locked \subseteq Enabled
  /\ Enabled \subseteq Available

\* Nothing is on that its owner did not choose, once he has chosen, or that his category no longer
\* offers; and of what he chose and it offers, nothing is off but the other way to buy.
ChoiceIsKept ==
  shop.modules # None =>
    /\ Enabled \subseteq shop.modules \cup Locked
    /\ (shop.modules \cap Available) \ Commerce \subseteq Enabled

\* An approved suggestion made the category of its name, and no two did.
ApprovedMadeIt == \A s \in Suggestions : suggestion[s] = "approved" => proposed = s

\* A rejected one made none: unless two reviewed it at once, or the first review broke off.
RejectedMadeNone ==
  Spared(Interrupted) => \A s \in Suggestions : suggestion[s] = "rejected" => proposed # s

\* A vendor hears one verdict on a document, and it stands: unless two reviewed it at once.
OneVerdict ==
  Spared({"overlap"}) => \A p \in Papers : paper[p].told \subseteq {paper[p].status}

\* He does hear it: a document that was reviewed cannot be reviewed again to tell him.
VerdictIsTold ==
  AllIdle /\ Spared(Interrupted) =>
    \A p \in Papers :
      paper[p].status \in {"approved", "rejected"} => paper[p].told = {paper[p].status}

\* A business that is live holds a licence of its own category where one is required: unless the
\* requirement came while it was live, or two of these steps at once.
LiveIsLicensed ==
  Spared({"overlap"}) /\ live.on /\ ~live.outlived =>
    ~category.licensed \/ \E p \in Papers : paper[p].status = "approved" /\ paper[p].fits

CatalogueRight ==
  /\ OneWayToBuy
  /\ ChoiceIsKept
  /\ ApprovedMadeIt
  /\ RejectedMadeNone
  /\ OneVerdict
  /\ VerdictIsTold
  /\ LiveIsLicensed

=============================================================================
