------------------------------ MODULE Shelter -------------------------------
(***************************************************************************)
(* The shelter program: a partner vouches for residents, who are invited   *)
(* with a code, may then take stock up to what the partner cosigned, have  *)
(* their first pickup covered, and without an account of their own are     *)
(* paid into the partner's, which holds the money for them.                *)
(***************************************************************************)
EXTENDS Handlers

CONSTANTS
  Partners,
  Enrollments,  \* bound: the enrolments ever made
  Residents,
  Pickups,      \* bound: the checkouts of stock, each of one unit of value
  Cosigned,     \* cosigned_allocation_cents, in units
  Payouts       \* bound: the sums that residents earn

VARIABLES
  partner,      \* shelter_partners
  enrollment,   \* shelter_enrollments
  vouched,      \* user_roles and verifications: who has the seller role and the cosigned tier
  pickup,       \* inventory_checkouts: who took it, who covers it, what became of it
  payout,       \* what a resident earned, and how it was booked
  hasAccount,   \* payout_accounts: the residents who have one that pays out
  moved,        \* external: where Stripe moved each payout, under its key
  custody       \* shelter_custody

programRows == <<partner, enrollment, vouched>>
custodyRows == <<payout, hasAccount, moved, custody>>

shelterVars == <<programRows, pickup, custodyRows, task, befell>>

NoEnrollment == [status |-> "none", partner |-> None, of |-> None, trained |-> FALSE, grants |-> 0]

ShelterInit ==
  /\ partner = [p \in Partners |-> [status |-> "none", custody |-> FALSE]]
  /\ enrollment = [e \in Enrollments |-> NoEnrollment]
  /\ vouched = {}
  /\ pickup = [c \in Pickups |-> [status |-> "none", by |-> None, covered |-> None, resident |-> FALSE]]
  /\ payout = [k \in Payouts |-> [to |-> None, as |-> "owed"]]
  /\ hasAccount = {}
  /\ moved = [k \in Payouts |-> None]
  /\ custody = [k \in Payouts |-> [status |-> "none", partner |-> None]]

Verified(p) == partner[p].status = "verified"

(***************************************************************************)
(* Partners.                                                               *)
(***************************************************************************)

RegisterPartner(p) ==
  /\ partner[p].status = "none"
  /\ partner' = [partner EXCEPT ![p].status = "verified"]
  /\ AtOnce
  /\ UNCHANGED <<enrollment, vouched>>

SetPartnerStatus(p, status) ==
  /\ partner[p].status \notin {"none", status}
  /\ partner' = [partner EXCEPT ![p].status = status]
  /\ IF status = "suspended" THEN Befalls("suspended") /\ UNCHANGED task ELSE AtOnce
  /\ UNCHANGED <<enrollment, vouched>>

\* A partner that gives the duty up while it owes is out of the ordinary.
SetCustody(p, enabled) ==
  /\ Verified(p) /\ partner[p].custody # enabled
  /\ partner' = [partner EXCEPT ![p].custody = enabled]
  /\ IF enabled THEN AtOnce ELSE Befalls("duty_ended") /\ UNCHANGED task
  /\ UNCHANGED <<enrollment, vouched>>

(***************************************************************************)
(* Residents.                                                              *)
(***************************************************************************)

\* A resident has one row with a partner, for good: the index does not look at its status.
RowWith(p, u) == \E e \in Enrollments : enrollment[e].partner = p /\ enrollment[e].of = u

ActiveOf(u) == {e \in Enrollments : enrollment[e].of = u /\ enrollment[e].status = "active"}

\* Who is with two shelters at once is out of the ordinary.
JoinAs(w, u, t) == IF ActiveOf(u) = {} THEN Begin(w, t) ELSE BeginAmid(w, t, "two_shelters")

\* enroll: directly, or an invitation for whoever brings the code.
EnrollRead(w, p, e, u) ==
  LET t == [step |-> "enroll", p |-> p, e |-> e, u |-> u] IN
  /\ Verified(p)
  /\ enrollment[e].status = "none"
  /\ \A v \in Workers : At(v, "enroll") => task[v].e # e
  /\ IF u = None THEN Begin(w, t) ELSE JoinAs(w, u, t)
  /\ UNCHANGED programRows

EnrollWrite(w) ==
  LET t == task[w] IN
  /\ At(w, "enroll")
  /\ IF t.u # None /\ RowWith(t.p, t.u)
       THEN Finish(w) /\ UNCHANGED enrollment
       ELSE /\ enrollment' = [enrollment EXCEPT ![t.e] =
                 [NoEnrollment EXCEPT !.status = IF t.u = None THEN "invited" ELSE "active",
                                      !.partner = t.p, !.of = t.u]]
            /\ IF t.u = None THEN Finish(w) ELSE Goto(w, "vouch")
  /\ UNCHANGED <<partner, vouched>>

\* activateResident
Vouch(w) ==
  /\ At(w, "vouch")
  /\ vouched' = vouched \cup {task[w].u}
  /\ Finish(w)
  /\ UNCHANGED <<partner, enrollment>>

ClaimRead(w, e, u) ==
  /\ enrollment[e].status = "invited"
  /\ Verified(enrollment[e].partner)
  /\ ~RowWith(enrollment[e].partner, u)
  /\ JoinAs(w, u, [step |-> "claim_invite", e |-> e, u |-> u])
  /\ UNCHANGED programRows

\* Mutant: whoever typed the code last has the place.
TakenByLast(e) == enrollment[e].status # "exited"

StillInvited(e) == enrollment[e].status = "invited"

ClaimWrite(w) ==
  LET t == task[w] IN
  /\ At(w, "claim_invite")
  /\ IF StillInvited(t.e) /\ ~RowWith(enrollment[t.e].partner, t.u)
       THEN /\ enrollment' = [enrollment EXCEPT ![t.e].of = t.u, ![t.e].status = "active"]
            /\ Goto(w, "vouch")
       ELSE Finish(w) /\ UNCHANGED enrollment
  /\ UNCHANGED <<partner, vouched>>

\* submitTraining, passed; without an active enrolment there is nothing to stamp.
SubmitTraining(u) ==
  /\ \E e \in ActiveOf(u) :
       /\ ~enrollment[e].trained
       /\ enrollment' = [enrollment EXCEPT ![e].trained = TRUE]
  /\ AtOnce
  /\ UNCHANGED <<partner, vouched>>

\* The cosigned tier outlives the enrolment.
ExitResident(e) ==
  /\ enrollment[e].status \in {"invited", "active"}
  /\ Verified(enrollment[e].partner)
  /\ enrollment' = [enrollment EXCEPT ![e].status = "exited"]
  /\ AtOnce
  /\ UNCHANGED <<partner, vouched>>

ProgramNext ==
  \/ \E p \in Partners :
       \/ RegisterPartner(p)
       \/ \E status \in {"verified", "suspended"} : SetPartnerStatus(p, status)
  \/ \E u \in Residents : SubmitTraining(u)
  \/ \E e \in Enrollments : ExitResident(e)
  \/ \E w \in Workers :
       \/ \E p \in Partners, e \in Enrollments, u \in Residents \cup {None} : EnrollRead(w, p, e, u)
       \/ \E e \in Enrollments, u \in Residents : ClaimRead(w, e, u)
       \/ EnrollWrite(w) \/ Vouch(w) \/ ClaimWrite(w)
       \/ Dies(w) /\ UNCHANGED programRows

(***************************************************************************)
(* Stock.                                                                  *)
(***************************************************************************)

Holds(u) == {c \in Pickups : pickup[c].by = u /\ pickup[c].status = "held"}

\* residentCapabilities: of the enrolments that are active the database answers with any, and with
\* a partner that is not verified the ordinary rules apply.
Capable(u, e) == e \in ActiveOf(u) /\ Verified(enrollment[e].partner)

\* The checkout of one unit.  What the ordinary rules ask is not modelled, except a tier.
TakeRead(w, c, u) ==
  /\ u \in vouched
  /\ pickup[c].status = "none"
  /\ \A v \in Workers : At(v, "take") => task[v].c # c
  /\ \/ /\ \E e \in ActiveOf(u) :
             /\ Capable(u, e)
             /\ enrollment[e].trained
             /\ Cardinality(Holds(u)) < Cosigned
             /\ Begin(w, [step |-> "take", c |-> c, u |-> u, e |-> e, free |-> enrollment[e].grants = 0])
     \/ /\ ActiveOf(u) = {} \/ \E e \in ActiveOf(u) : ~Capable(u, e)
        /\ Begin(w, [step |-> "take", c |-> c, u |-> u, e |-> None, free |-> FALSE])
  /\ UNCHANGED <<programRows, pickup>>

TakeWrite(w) ==
  LET t == task[w] IN
  /\ At(w, "take")
  /\ pickup' = [pickup EXCEPT ![t.c].status = "held", ![t.c].by = t.u, ![t.c].resident = t.e # None]
  /\ IF t.free THEN Goto(w, "grant") ELSE Finish(w)
  /\ UNCHANGED programRows

\* consumeStarterGrant takes it from any of the person's active enrolments.
ConsumeGrant(w) ==
  LET free == {e \in ActiveOf(task[w].u) : enrollment[e].grants = 0} IN
  /\ At(w, "grant")
  /\ IF free = {}
       THEN Finish(w) /\ UNCHANGED enrollment
       ELSE /\ \E e \in free : enrollment' = [enrollment EXCEPT ![e].grants = 1]
            /\ Goto(w, "mark_grant")
  /\ UNCHANGED <<partner, vouched, pickup>>

MarkGrant(w) ==
  /\ At(w, "mark_grant")
  /\ pickup' = [pickup EXCEPT ![task[w].c].covered = enrollment[task[w].e].partner]
  /\ Finish(w)
  /\ UNCHANGED programRows

\* The stock comes back whole, or lost: then the partner stands for it or the resident owes.
BringBack(c, whole) ==
  /\ pickup[c].status = "held"
  /\ pickup' = [pickup EXCEPT ![c].status =
                  IF whole THEN "returned" ELSE IF pickup[c].covered = None THEN "charged" ELSE "absorbed"]
  /\ AtOnce
  /\ UNCHANGED programRows

ShelterStockNext ==
  \/ ProgramNext /\ UNCHANGED pickup
  \/ \E c \in Pickups, whole \in BOOLEAN : BringBack(c, whole)
  \/ \E w \in Workers :
       \/ \E c \in Pickups, u \in Residents : TakeRead(w, c, u)
       \/ TakeWrite(w) \/ ConsumeGrant(w) \/ MarkGrant(w)

(***************************************************************************)
(* Money held for residents.                                               *)
(***************************************************************************)

\* A resident who opens an account between two attempts at one payout is out of the ordinary.
OpenAccount(u) ==
  /\ u \notin hasAccount
  /\ hasAccount' = hasAccount \cup {u}
  /\ Befalls("own_account")
  /\ UNCHANGED <<task, programRows, payout, moved, custody>>

\* payoutTransfer: to the resident's own account, else into custody, else not yet.
PayoutRead(w, k, u) ==
  LET send(to) == Begin(w, [step |-> "send", k |-> k, to |-> to]) IN
  /\ payout[k].as = "owed" /\ payout[k].to \in {None, u}
  /\ payout' = [payout EXCEPT ![k].to = u]
  /\ IF u \in hasAccount THEN send(u)
     ELSE \E e \in ActiveOf(u) :
            /\ Capable(u, e) /\ partner[enrollment[e].partner].custody
            /\ send(enrollment[e].partner)
  /\ UNCHANGED <<programRows, hasAccount, moved, custody>>

\* One transfer under the payout's key: Stripe refuses the key with another destination.
PaySend(w) ==
  LET t == task[w] IN
  /\ At(w, "send")
  /\ IF moved[t.k] \in {None, t.to}
       THEN /\ moved' = [moved EXCEPT ![t.k] = t.to]
            /\ Goto(w, IF t.to \in Partners THEN "earmark" ELSE "book")
       ELSE Finish(w) /\ UNCHANGED moved
  /\ UNCHANGED <<programRows, payout, hasAccount, custody>>

\* recordCustody, once for each payout.
Earmark(w) ==
  LET t == task[w] IN
  /\ At(w, "earmark")
  /\ custody' = IF custody[t.k].status = "none"
                  THEN [custody EXCEPT ![t.k] = [status |-> "held", partner |-> t.to]]
                  ELSE custody
  /\ Goto(w, "book")
  /\ UNCHANGED <<programRows, payout, hasAccount, moved>>

BookPayout(w) ==
  LET t == task[w] IN
  /\ At(w, "book")
  /\ payout' = [payout EXCEPT ![t.k].as = IF t.to \in Partners THEN "custody" ELSE "paid"]
  /\ Finish(w)
  /\ UNCHANGED <<programRows, hasAccount, moved, custody>>

\* By the partner's staff, while the partner is verified.
DisburseCustody(k) ==
  /\ custody[k].status = "held"
  /\ Verified(custody[k].partner)
  /\ custody' = [custody EXCEPT ![k].status = "disbursed"]
  /\ AtOnce
  /\ UNCHANGED <<programRows, payout, hasAccount, moved>>

ShelterCustodyNext ==
  \/ ProgramNext /\ UNCHANGED custodyRows
  \/ \E p \in Partners, enabled \in BOOLEAN : SetCustody(p, enabled) /\ UNCHANGED custodyRows
  \/ \E u \in Residents : OpenAccount(u)
  \/ \E k \in Payouts : DisburseCustody(k)
  \/ \E w \in Workers :
       \/ \E k \in Payouts, u \in Residents : PayoutRead(w, k, u)
       \/ PaySend(w) \/ Earmark(w) \/ BookPayout(w)

(***************************************************************************)
(* Properties                                                              *)
(***************************************************************************)

\* Who was vouched for is somebody a partner enrolled, and nobody else came in on the same code.
VouchedIsEnrolled == \A u \in vouched : \E e \in Enrollments : enrollment[e].of = u

\* A resident who is active can work.
ActiveIsVouched ==
  AllIdle /\ Spared({"crash"}) =>
    \A e \in Enrollments : enrollment[e].status = "active" => enrollment[e].of \in vouched

\* The cosign is a ceiling on what a partner stands behind at once.
CosignIsACeiling ==
  Spared({"overlap"}) =>
    \A u \in Residents : Cardinality({c \in Holds(u) : pickup[c].resident}) <= Cosigned

\* The grant that was used covers a pickup, of a resident of the partner who covers it.
GrantCovers ==
  AllIdle /\ Spared({"crash", "overlap", "two_shelters"}) =>
    \A e \in Enrollments :
      enrollment[e].grants =
        Cardinality({c \in Pickups : pickup[c].by = enrollment[e].of
                                     /\ pickup[c].covered = enrollment[e].partner
                                     /\ pickup[c].covered # None})

\* Nobody owes for a first pickup.
FirstIsFree ==
  AllIdle /\ Spared({"crash", "overlap"}) =>
    \A c \in Pickups : pickup[c].resident /\ pickup[c].status = "charged" =>
      \E d \in Pickups \ {c} : pickup[d].by = pickup[c].by /\ pickup[d].covered # None

\* What a partner was sent is earmarked to its resident, and booked as held and not as paid.
HeldIsEarmarked ==
  AllIdle /\ Spared({"crash"}) =>
    \A k \in Payouts :
      /\ moved[k] \in Partners <=> custody[k].status # "none"
      /\ moved[k] \in Partners <=> payout[k].as = "custody"

\* Nothing is earmarked, or booked, that was not sent there.
EarmarkedWasSent ==
  \A k \in Payouts :
    /\ custody[k].status # "none" => moved[k] = custody[k].partner
    /\ payout[k].as # "owed" => moved[k] # None

ShelterRight ==
  /\ VouchedIsEnrolled /\ ActiveIsVouched /\ CosignIsACeiling /\ GrantCovers /\ FirstIsFree
  /\ HeldIsEarmarked /\ EarmarkedWasSent

=============================================================================
