---------------------------- MODULE Verification ----------------------------
(***************************************************************************)
(* Who somebody is, and how soon he is paid: identity checks and bank      *)
(* accounts raise a person's tier, and the tier sets the hold Stripe keeps *)
(* his payouts for.  The checks answer by webhook, Stripe tells of an      *)
(* account by webhook or when a page asks, and each of them moves the tier *)
(* and the hold in steps of its own.                                       *)
(***************************************************************************)
EXTENDS Handlers

CONSTANT Checks  \* identity checks a person may start

VARIABLES
  check,    \* verification_records of type id_document
  bank,     \* those of type bank_account: how many are pending, and whether one is approved
  account,  \* connected_accounts: the person's own and his business's
  connect,  \* Stripe's side: whether payouts are enabled, and the hold; "default" until it is told
  verdicts  \* the provider's webhooks about checks, which may come never, late or again

verificationVars == <<check, bank, account, connect, verdicts, task, befell>>

Owners == {"user", "business"}

Rank == [default |-> 0, tier0 |-> 0, bronze |-> 1, silver |-> 2]

\* `late' is history: a record was begun for an account that was enabled already.
VerificationInit ==
  /\ check = [s \in Checks |-> "none"]
  /\ bank = [pending |-> 0, approved |-> FALSE, late |-> FALSE]
  /\ account = [o \in Owners |-> [made |-> FALSE, enabled |-> FALSE, tier |-> "tier0"]]
  /\ connect = [o \in Owners |-> [enabled |-> FALSE, hold |-> "default"]]
  /\ verdicts = {}

(***************************************************************************)
(* The hold.  A business inherits the tier of its owner.                   *)
(***************************************************************************)

\* Mutant: a check under way counts.
AnyTier ==
  IF bank.approved \/ bank.pending > 0 THEN "silver"
  ELSE IF \E s \in Checks : check[s] \in {"approved", "pending"} THEN "bronze"
  ELSE "tier0"

BestTier ==
  IF bank.approved THEN "silver"
  ELSE IF \E s \in Checks : check[s] = "approved" THEN "bronze"
  ELSE "tier0"

\* What is to be sent, about whom, and where the handler goes on.
Holding(o, tier, then) == [step |-> "hold_send", of |-> o, tier |-> tier, then |-> then]

\* applyTierSchedule reads the approved records and then sends, whatever the row says.
TierSchedule(w) ==
  /\ At(w, "tier_schedule")
  /\ Becomes(w, Holding(task[w].of, BestTier, task[w].then))
  /\ UNCHANGED <<check, bank, account, connect, verdicts, befell>>

SetPayoutTier(w) ==
  /\ At(w, "hold_send")
  /\ connect' = [connect EXCEPT ![task[w].of].hold = task[w].tier]
  /\ Goto(w, "hold_store")
  /\ UNCHANGED <<check, bank, account, verdicts>>

AfterHold(w) ==
  IF task[w].then = "idle" THEN Resting
  ELSE [step |-> task[w].then, of |-> task[w].of, then |-> "idle"]

StorePayoutTier(w) ==
  /\ At(w, "hold_store")
  /\ account' = [account EXCEPT ![task[w].of].tier = task[w].tier]
  /\ Becomes(w, AfterHold(w))
  /\ UNCHANGED <<check, bank, connect, verdicts, befell>>

\* Stripe does not answer: logged and passed over, as far as the account's schedule goes.
HoldRefused(w) ==
  /\ At(w, "hold_send")
  /\ Befalls("refused")
  /\ Becomes(w, AfterHold(w))
  /\ UNCHANGED <<check, bank, account, connect, verdicts>>

(***************************************************************************)
(* startIdVerification and applyKycResult.                                 *)
(***************************************************************************)

StartCheck(w, s) ==
  /\ check[s] = "none"
  /\ \A t \in Checks : check[t] # "pending"
  /\ Begin(w, [step |-> "check_create", of |-> s])
  /\ UNCHANGED <<check, bank, account, connect, verdicts>>

CreateCheck(w) ==
  /\ At(w, "check_create")
  /\ check' = [check EXCEPT ![task[w].of] = "pending"]
  /\ Finish(w)
  /\ UNCHANGED <<bank, account, connect, verdicts>>

\* The provider: a person turned down tries again with the same check.
ProviderDecides(s, verdict) ==
  /\ check[s] # "none"
  /\ {<<s, "approved">>, <<s, verdict>>} \cap verdicts = {}
  /\ verdicts' = verdicts \cup {<<s, verdict>>}
  /\ Outside
  /\ UNCHANGED <<check, bank, account, connect>>

\* Mutant: the last word of the provider stands.
AlwaysApplies(s) == check[s] # "none"

StillOpen(s) == check[s] = "pending"

ApplyKycResult(w, s, verdict) ==
  /\ <<s, verdict>> \in verdicts
  /\ StillOpen(s)
  /\ Begin(w, [step |-> "check_apply", of |-> s, verdict |-> verdict])
  /\ UNCHANGED <<check, bank, account, connect, verdicts>>

SetVerificationStatus(w) ==
  /\ At(w, "check_apply")
  /\ check' = [check EXCEPT ![task[w].of] = task[w].verdict]
  /\ IF task[w].verdict = "approved" THEN Becomes(w, [step |-> "hold_sync"])
       ELSE Becomes(w, Resting)
  /\ UNCHANGED <<bank, account, connect, verdicts, befell>>

\* syncPayoutHold sends the tier of this record, whatever else was approved before.
SyncPayoutHold(w) ==
  /\ At(w, "hold_sync")
  /\ IF account["user"].made /\ account["user"].tier # "bronze"
       THEN Becomes(w, Holding("user", "bronze", "idle"))
       ELSE Becomes(w, Resting)
  /\ UNCHANGED <<check, bank, account, connect, verdicts, befell>>

(***************************************************************************)
(* Onboarding: from the profile, which begins a record, or from the        *)
(* payments page or the shop, which do not.                                *)
(***************************************************************************)

OnboardRead(w, o, records) ==
  /\ records => o = "user"
  /\ account[o].made => records
  /\ Begin(w, [step |-> IF account[o].made THEN "link_find" ELSE "account_create",
               of |-> o, records |-> records])
  /\ UNCHANGED <<check, bank, account, connect, verdicts>>

\* The row is unique to its owner: the second of two at once is refused.
CreateAccount(w) ==
  /\ At(w, "account_create")
  /\ account' = [account EXCEPT ![task[w].of].made = TRUE]
  /\ IF task[w].records /\ ~account[task[w].of].made THEN Goto(w, "link_find") ELSE Finish(w)
  /\ UNCHANGED <<check, bank, connect, verdicts>>

LinkFind(w) ==
  /\ At(w, "link_find")
  /\ IF bank.pending = 0 THEN Goto(w, "link_create") ELSE Finish(w)
  /\ UNCHANGED <<check, bank, account, connect, verdicts>>

LinkBankAccount(w) ==
  /\ At(w, "link_create")
  /\ bank' = [bank EXCEPT !.pending = @ + 1, !.late = @ \/ account["user"].enabled]
  /\ Finish(w)
  /\ UNCHANGED <<check, account, connect, verdicts>>

\* Stripe's side: the person finishes, or Stripe stops his payouts once.
FinishOnboarding(o) ==
  /\ account[o].made /\ ~connect[o].enabled
  /\ connect' = [connect EXCEPT ![o].enabled = TRUE]
  /\ Outside
  /\ UNCHANGED <<check, bank, account, verdicts>>

PayoutsStopped(o) ==
  /\ connect[o].enabled
  /\ connect' = [connect EXCEPT ![o].enabled = FALSE]
  /\ Befalls("stopped")
  /\ UNCHANGED <<check, bank, account, verdicts, task>>

(***************************************************************************)
(* account.updated, which Stripe sends of any change, late or again: the   *)
(* state of the account is asked for and stored, then the schedule is set, *)
(* then the bank record is approved.                                       *)
(***************************************************************************)

RefreshAccount(w, o) ==
  /\ account[o].made
  /\ Begin(w, [step |-> "refresh_store", of |-> o, live |-> connect[o].enabled])
  /\ UNCHANGED <<check, bank, account, connect, verdicts>>

RefreshStore(w) ==
  /\ At(w, "refresh_store")
  /\ account' = [account EXCEPT ![task[w].of].enabled = task[w].live]
  /\ Becomes(w, IF task[w].live
                  THEN [step |-> "tier_schedule", of |-> task[w].of, then |-> "bank_find"]
                  ELSE Resting)
  /\ UNCHANGED <<check, bank, connect, verdicts, befell>>

(***************************************************************************)
(* syncAccountFromStripe, from a page: the same, when the account has just *)
(* become enabled, and the record before the schedule.                     *)
(***************************************************************************)

SyncAccount(w, o) ==
  /\ account[o].made
  /\ account[o].enabled # connect[o].enabled
  /\ Begin(w, [step |-> "sync_store", of |-> o, live |-> connect[o].enabled])
  /\ UNCHANGED <<check, bank, account, connect, verdicts>>

\* Mutant: the row is kept in step, and nothing follows.
OnlyTheRow(live) == FALSE

BecamePayoutEnabled(live) == live

SyncStore(w) ==
  /\ At(w, "sync_store")
  /\ account' = [account EXCEPT ![task[w].of].enabled = task[w].live]
  /\ Becomes(w, IF BecamePayoutEnabled(task[w].live)
                  THEN [step |-> "bank_find", of |-> task[w].of, then |-> "tier_schedule"]
                  ELSE Resting)
  /\ UNCHANGED <<check, bank, connect, verdicts, befell>>

\* onPayoutsEnabled: the pending record, of a person's own account, is approved.
FindBankRecord(w) ==
  /\ At(w, "bank_find")
  /\ IF task[w].of = "user" /\ bank.pending > 0
       THEN Goto(w, "bank_approve")
       ELSE Becomes(w, AfterHold(w)) /\ UNCHANGED befell
  /\ UNCHANGED <<check, bank, account, connect, verdicts>>

\* Two that found the same record approve it once.
ApproveBank(w) ==
  /\ At(w, "bank_approve")
  /\ bank' = [bank EXCEPT !.pending = IF @ > 0 THEN @ - 1 ELSE 0, !.approved = TRUE]
  /\ Becomes(w, Holding("user", "silver", task[w].then))
  /\ UNCHANGED <<check, account, connect, verdicts, befell>>

VerificationDies(w) ==
  /\ Dies(w)
  /\ UNCHANGED <<check, bank, account, connect, verdicts>>

VerificationNext ==
  \/ \E w \in Workers :
       \/ TierSchedule(w) \/ SetPayoutTier(w) \/ StorePayoutTier(w) \/ HoldRefused(w)
       \/ CreateCheck(w) \/ SetVerificationStatus(w) \/ SyncPayoutHold(w)
       \/ CreateAccount(w) \/ LinkFind(w) \/ LinkBankAccount(w)
       \/ RefreshStore(w) \/ SyncStore(w) \/ FindBankRecord(w) \/ ApproveBank(w)
       \/ VerificationDies(w)
       \/ \E s \in Checks :
            StartCheck(w, s) \/ \E v \in {"approved", "rejected"} : ApplyKycResult(w, s, v)
       \/ \E o \in Owners :
            \/ RefreshAccount(w, o) \/ SyncAccount(w, o)
            \/ \E records \in BOOLEAN : OnboardRead(w, o, records)
  \/ \E s \in Checks, v \in {"approved", "rejected"} : ProviderDecides(s, v)
  \/ \E o \in Owners : FinishOnboarding(o) \/ PayoutsStopped(o)

(***************************************************************************)
(* Properties.                                                             *)
(***************************************************************************)

\* Nobody is paid sooner than what he proved allows, nor his business sooner than he.  Not when
\* two verdicts on one check are applied at once, which may take an approval back.
HoldIsEarned ==
  Spared({"overlap"}) => \A o \in Owners : Rank[connect[o].hold] <= Rank[BestTier]

\* Nor later, once the account is enabled: unless an identity check passed after the bank account
\* did, which puts the longer hold back.
HoldIsRight ==
  AllIdle /\ Spared(Interrupted \cup {"refused"}) /\ account["user"].enabled =>
    \/ connect["user"].hold = BestTier
    \/ connect["user"].hold = "bronze" /\ bank.approved

\* The hold on record is the hold Stripe was told, or nothing was told.
HoldOnRecord ==
  AllIdle /\ Spared(Interrupted \cup {"refused"}) =>
    \A o \in Owners : account[o].tier = connect[o].hold \/ connect[o].hold = "default"

\* Nobody waits for a bank account that Stripe has cleared, whether the webhook came or a page
\* asked: unless he asked for it when it was cleared already.
ClearedIsApproved ==
  AllIdle /\ Spared(Interrupted \cup {"refused"}) /\ account["user"].enabled =>
    bank.pending = 0 \/ bank.late

VerificationRight ==
  HoldIsEarned /\ HoldIsRight /\ HoldOnRecord /\ ClearedIsApproved

=============================================================================
