-------------------------------- MODULE Jobs --------------------------------
(***************************************************************************)
(* The jobs board (src/modules/jobs): a gig is posted, claimed, worked and *)
(* paid on check-out; the poster may call it off, and a worker who does    *)
(* not turn up loses it.  One gig, by the hour.                            *)
(***************************************************************************)
EXTENDS Handlers

CONSTANTS
  Seekers,     \* people who look for work
  Duration,    \* posted hours, the ceiling of what is paid
  MaxHours     \* bound: hours that pass

\* A gig is posted for an hour at least; the bound is a number.
ASSUME JobsAssumption == Duration \in Nat \ {0} /\ MaxHours \in Nat

VARIABLES
  gig,         \* jobs_postings
  claim,       \* job_applications, by applicant: one each
  hour,        \* the clock
  wages        \* external: transfers at Stripe, by the application they are keyed on

jobsVars == <<gig, claim, hour, wages, task, befell>>

NoClaim == [status |-> "none", from |-> 0, pay |-> 0, ref |-> FALSE]

JobsInit ==
  /\ gig = [status |-> "open", by |-> None, late |-> FALSE]
  /\ claim = [a \in Seekers |-> NoClaim]
  /\ hour = 0
  /\ wages = [a \in Seekers |-> 0]

ClaimedBy(states) == {a \in Seekers : claim[a].status \in states}

\* apply: the posting is filled first; whoever applied before has a row that forbids another.
Apply(w, a) ==
  /\ gig.status = "open"
  /\ gig' = [gig EXCEPT !.status = "filled", !.by = a]
  /\ Begin(w, [step |-> "apply_row", a |-> a])
  /\ UNCHANGED <<claim, hour, wages>>

ApplyRow(w) ==
  LET a == task[w].a IN
  /\ At(w, "apply_row")
  /\ IF claim[a].status = "none"
       THEN claim' = [claim EXCEPT ![a].status = "accepted"] /\ Finish(w)
       ELSE FinishAfter(w, "reapplied") /\ UNCHANGED claim
  /\ UNCHANGED <<gig, hour, wages>>

CheckInRead(w, a) ==
  /\ claim[a].status = "accepted"
  /\ gig.status # "cancelled"
  /\ Begin(w, [step |-> "check_in", a |-> a])
  /\ UNCHANGED <<gig, claim, hour, wages>>

CheckIn(w) ==
  LET a == task[w].a IN
  /\ At(w, "check_in")
  /\ claim' = IF claim[a].status = "accepted"
                THEN [claim EXCEPT ![a].status = "checked_in", ![a].from = hour] ELSE claim
  /\ Finish(w)
  /\ UNCHANGED <<gig, hour, wages>>

\* What a worker who forgets to check out would be paid without the ceiling.
WageUncapped(a) == IF hour - claim[a].from < 1 THEN 1 ELSE hour - claim[a].from

\* At least an hour, and no more than was posted.
Wage(a) ==
  LET worked == hour - claim[a].from IN
  IF worked < 1 THEN 1 ELSE IF worked > Duration THEN Duration ELSE worked

CheckOutRead(w, a) ==
  /\ claim[a].status = "checked_in"
  /\ Begin(w, [step |-> "pay", a |-> a, amount |-> Wage(a)])
  /\ UNCHANGED <<gig, claim, hour, wages>>

\* payoutTransfer: Stripe knows the key of the application, and refuses another amount under it.
CheckOutPay(w, payable) ==
  LET a == task[w].a IN
  /\ At(w, "pay")
  /\ IF ~payable
       THEN /\ Becomes(w, [task[w] EXCEPT !.step = "complete"])
            /\ UNCHANGED <<wages, befell>>
     ELSE IF wages[a] \in {0, task[w].amount}
       THEN /\ wages' = [wages EXCEPT ![a] = task[w].amount]
            /\ Becomes(w, [step |-> "complete_paid", a |-> a, amount |-> task[w].amount])
            /\ UNCHANGED befell
       ELSE Finish(w) /\ UNCHANGED wages
  /\ UNCHANGED <<gig, claim, hour>>

\* The row is written by its id, whatever it says by now.
CheckOutComplete(w) ==
  /\ At(w, "complete") \/ At(w, "complete_paid")
  /\ claim' = [claim EXCEPT ![task[w].a] =
                 [@ EXCEPT !.status = "completed", !.pay = task[w].amount, !.ref = At(w, "complete_paid")]]
  /\ Becomes(w, [step |-> "close_gig"])
  /\ UNCHANGED <<befell, gig, hour, wages>>

CheckOutClose(w) ==
  /\ At(w, "close_gig")
  /\ gig' = [gig EXCEPT !.status = "completed"]
  /\ Finish(w)
  /\ UNCHANGED <<claim, hour, wages>>

\* cancel: refused once the worker has checked in, on what was read.
CancelGigRead(w) ==
  LET active == ClaimedBy({"accepted", "checked_in"}) IN
  /\ gig.status # "completed"
  /\ ClaimedBy({"checked_in"}) = {}
  /\ Begin(w, [step |-> "cancel_gig", active |-> active])
  /\ UNCHANGED <<gig, claim, hour, wages>>

CancelGigWrite(w) ==
  /\ At(w, "cancel_gig")
  /\ gig' = [gig EXCEPT !.status = "cancelled"]
  /\ Goto(w, "cancel_claim")
  /\ UNCHANGED <<claim, hour, wages>>

CancelGigClaim(w) ==
  /\ At(w, "cancel_claim")
  /\ claim' = [a \in Seekers |-> IF a \in task[w].active THEN [claim[a] EXCEPT !.status = "cancelled"] ELSE claim[a]]
  /\ Finish(w)
  /\ UNCHANGED <<gig, hour, wages>>

GraceOver ==
  /\ ~gig.late
  /\ gig' = [gig EXCEPT !.late = TRUE]
  /\ Outside
  /\ UNCHANGED <<claim, hour, wages>>

\* sweepNoShows and markNoShow: the application is claimed, then the posting reopened.
NoShow(w, a) ==
  /\ claim[a].status = "accepted"
  /\ claim' = [claim EXCEPT ![a].status = "no_show"]
  /\ Begin(w, [step |-> "reopen"])
  /\ UNCHANGED <<gig, hour, wages>>

SweepNoShows(w, a) == gig.status = "filled" /\ gig.late /\ NoShow(w, a)

MarkNoShow(w, a) == NoShow(w, a)

Reopen(w) ==
  /\ At(w, "reopen")
  /\ gig' = IF gig.status = "filled" THEN [gig EXCEPT !.status = "open", !.by = None] ELSE gig
  /\ Finish(w)
  /\ UNCHANGED <<claim, hour, wages>>

HourPasses ==
  /\ hour < MaxHours
  /\ hour' = hour + 1
  /\ Outside
  /\ UNCHANGED <<gig, claim, wages>>

JobsDies(w) == Dies(w) /\ UNCHANGED <<gig, claim, hour, wages>>

JobsNext ==
  \/ \E w \in Workers :
       \/ ApplyRow(w) \/ CheckIn(w) \/ CheckOutComplete(w) \/ CheckOutClose(w) \/ CancelGigRead(w)
       \/ CancelGigWrite(w) \/ CancelGigClaim(w) \/ Reopen(w) \/ JobsDies(w)
       \/ \E payable \in BOOLEAN : CheckOutPay(w, payable)
       \/ \E a \in Seekers :
            Apply(w, a) \/ CheckInRead(w, a) \/ CheckOutRead(w, a) \/ SweepNoShows(w, a) \/ MarkNoShow(w, a)
  \/ GraceOver \/ HourPasses

(***************************************************************************)
(* Properties.                                                             *)
(***************************************************************************)

\* At most one person holds the gig, the one the posting names.
OneHolder ==
  \A a, b \in ClaimedBy({"accepted", "checked_in"}) : a = b

\* A gig off the board is somebody's: a worker's who may turn up, or it is over.
FilledIsHeld ==
  AllIdle /\ Spared({"crash", "reapplied"}) =>
    (gig.status = "filled" => ClaimedBy({"accepted", "checked_in"}) = {gig.by})

\* On the board, or called off, it is nobody's.
OpenIsFree ==
  AllIdle /\ Spared({"crash", "overlap"}) =>
    (gig.status \in {"open", "cancelled"} => ClaimedBy({"accepted", "checked_in"}) = {})

\* Only work is paid, up to the posted hours, and as it was recorded.
PaidForWork ==
  \A a \in Seekers :
    /\ wages[a] <= Duration
    /\ wages[a] > 0 => claim[a].status \in {"checked_in", "completed", "cancelled"}
    /\ claim[a].ref => wages[a] = claim[a].pay

\* Whoever was paid is not called off, unless the cancellation was read while he checked in.
WorkStands ==
  Spared({"overlap"}) => \A a \in Seekers : wages[a] > 0 => claim[a].status # "cancelled"

\* A gig is one worker's at a time, and pays for the work he did.
JobsRight == OneHolder /\ FilledIsHeld /\ OpenIsFree /\ PaidForWork /\ WorkStands

=============================================================================
