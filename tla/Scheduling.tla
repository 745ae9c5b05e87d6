----------------------------- MODULE Scheduling -----------------------------
(***************************************************************************)
(* Appointments (src/modules/scheduling): a business offers a service in   *)
(* weekly windows, customers book a slot, move it or call it off, and the  *)
(* business completes it or marks a no-show.  A sweep reminds customers.   *)
(*                                                                         *)
(* One service, whose price stands.  Reminders of both kinds behave alike, *)
(* and one stands for both.                                                *)
(***************************************************************************)
EXTENDS Handlers

CONSTANTS
  Bookings,
  Slots,       \* moments, 1..n
  SlotsLong,    \* moments an appointment lasts
  Price        \* of the service

\* An appointment takes time and its fee comes to something: one of nothing is not recorded.
ASSUME SchedulingAssumption ==
  /\ Slots \subseteq Nat
  /\ SlotsLong \in Nat \ {0}
  /\ Price \in Nat \ {0}

VARIABLES
  windows,     \* availability_windows: the moments an appointment may begin
  booking,     \* bookings
  now,         \* the clock
  told         \* history: the moment each customer was last reminded of

schedVars == <<windows, booking, now, told, task, befell>>

NoBooking == [status |-> "none", at |-> 0, reminded |-> FALSE, fee |-> 0]

SchedInit ==
  /\ windows = {}
  /\ booking = [b \in Bookings |-> NoBooking]
  /\ now = 0
  /\ told = [b \in Bookings |-> 0]

(***************************************************************************)
(* The vendor's calendar.                                                  *)
(***************************************************************************)

\* replaceWindows deletes, then inserts.
DeleteWindows(w, offered) ==
  /\ windows' = {}
  /\ Begin(w, [step |-> "insert_windows", offered |-> offered])
  /\ UNCHANGED <<booking, now, told>>

InsertWindows(w) ==
  /\ At(w, "insert_windows")
  /\ windows' = windows \cup task[w].offered
  /\ Finish(w)
  /\ UNCHANGED <<booking, now, told>>

(***************************************************************************)
(* Booking and moving.                                                     *)
(***************************************************************************)

Booked(s) == {b \in Bookings : booking[b].status = "booked" /\ booking[b].at = s}

\* assertValidSlot without its second half.
ValidSlotTakenOrNot(s) == s \in windows

\* Nobody begins before it would end; who began earlier and is not done, the query does not find.
ValidSlot(s) == s \in windows /\ \A t \in s .. s + SlotsLong - 1 : Booked(t) = {}

BookRead(w, b, s) ==
  /\ booking[b].status = "none"
  /\ s > now
  /\ ValidSlot(s)
  /\ Begin(w, [step |-> "book", b |-> b, at |-> s])
  /\ UNCHANGED <<windows, booking, now, told>>

BookWrite(w) ==
  LET b == task[w].b IN
  /\ At(w, "book")
  /\ booking' = IF booking[b].status = "none"
                  THEN [booking EXCEPT ![b] = [NoBooking EXCEPT !.status = "booked", !.at = task[w].at]]
                  ELSE booking
  /\ Finish(w)
  /\ UNCHANGED <<windows, now, told>>

\* assertBeforeCutoff: a slot is moved or called off a slot ahead.
BeforeCutoff(b) == booking[b].at > now + 1

RescheduleRead(w, b, s) ==
  /\ booking[b].status = "booked"
  /\ BeforeCutoff(b)
  /\ s > now
  /\ ValidSlot(s)
  /\ Begin(w, [step |-> "reschedule", b |-> b, at |-> s])
  /\ UNCHANGED <<windows, booking, now, told>>

\* The row is written by its id, whatever it says by now.
RescheduleWrite(w) ==
  /\ At(w, "reschedule")
  /\ booking' = [booking EXCEPT ![task[w].b].at = task[w].at, ![task[w].b].reminded = FALSE]
  /\ Finish(w)
  /\ UNCHANGED <<windows, now, told>>

\* cancel: the customer before the cutoff, the business at any time; the claim is atomic.
CancelBooking(b, byCustomer) ==
  /\ booking[b].status = "booked"
  /\ byCustomer => BeforeCutoff(b)
  /\ booking' = [booking EXCEPT ![b].status = "cancelled"]
  /\ AtOnce
  /\ UNCHANGED <<windows, now, told>>

\* markNoShow: not before the appointment, by what was read.
AbsentRead(w, b) ==
  /\ booking[b].status = "booked"
  /\ booking[b].at <= now
  /\ Begin(w, [step |-> "absent", b |-> b])
  /\ UNCHANGED <<windows, booking, now, told>>

AbsentClaim(w) ==
  LET b == task[w].b IN
  /\ At(w, "absent")
  /\ booking' = IF booking[b].status = "booked" THEN [booking EXCEPT ![b].status = "no_show"] ELSE booking
  /\ Finish(w)
  /\ UNCHANGED <<windows, now, told>>

(***************************************************************************)
(* Completion claims the row, then records the fee on the price of now.    *)
(***************************************************************************)

CompleteBooking(w, b) ==
  /\ booking[b].status = "booked"
  /\ booking' = [booking EXCEPT ![b].status = "completed"]
  /\ Begin(w, [step |-> "booking_fee", b |-> b])
  /\ UNCHANGED <<windows, now, told>>

\* The fee is a share of the price; here, all of it.
RecordBookingFee(w) ==
  /\ At(w, "booking_fee")
  /\ booking' = [booking EXCEPT ![task[w].b].fee = Price]
  /\ Finish(w)
  /\ UNCHANGED <<windows, now, told>>

(***************************************************************************)
(* sendDueReminders: the customer is told, then the row is flagged.        *)
(***************************************************************************)

RemindRead(w, b) ==
  /\ booking[b].status = "booked"
  /\ ~booking[b].reminded
  /\ booking[b].at = now + 1
  /\ told' = [told EXCEPT ![b] = booking[b].at]
  /\ Begin(w, [step |-> "flag", b |-> b])
  /\ UNCHANGED <<windows, booking, now>>

RemindFlag(w) ==
  /\ At(w, "flag")
  /\ booking' = [booking EXCEPT ![task[w].b].reminded = TRUE]
  /\ Finish(w)
  /\ UNCHANGED <<windows, now, told>>

Ticks ==
  /\ now < Cardinality(Slots)
  /\ now' = now + 1
  /\ Outside
  /\ UNCHANGED <<windows, booking, told>>

SchedDies(w) == Dies(w) /\ UNCHANGED <<windows, booking, now, told>>

SchedNext ==
  \/ \E w \in Workers :
       \/ InsertWindows(w) \/ BookWrite(w) \/ RescheduleWrite(w) \/ AbsentClaim(w)
       \/ RecordBookingFee(w) \/ RemindFlag(w) \/ SchedDies(w)
       \/ \E offered \in {{}, Slots} : DeleteWindows(w, offered)
       \/ \E b \in Bookings : AbsentRead(w, b) \/ CompleteBooking(w, b) \/ RemindRead(w, b)
       \/ \E b \in Bookings, s \in Slots : BookRead(w, b, s) \/ RescheduleRead(w, b, s)
  \/ \E b \in Bookings, byCustomer \in BOOLEAN : CancelBooking(b, byCustomer)
  \/ Ticks

(***************************************************************************)
(* Properties.                                                             *)
(***************************************************************************)

\* No two customers are expected at the same moment.
SlotIsOneCustomers ==
  Spared({"overlap"}) => \A s \in Slots : Cardinality(Booked(s)) <= 1

\* Only who was served is charged, and nobody who was served goes uncharged.
ServedIsCharged ==
  \A b \in Bookings :
    /\ booking[b].fee > 0 => booking[b].status = "completed"
    /\ AllIdle /\ Spared({"crash"}) /\ booking[b].status = "completed" => booking[b].fee > 0

\* The flag says the customer was told of the appointment he has, not of one he moved.
FlaggedWasTold ==
  Spared({"overlap"}) =>
    \A b \in Bookings : booking[b].reminded => told[b] = booking[b].at

\* A no-show did not turn up to something that had begun.
AbsentHadBegun ==
  Spared({"overlap"}) => \A b \in Bookings : booking[b].status = "no_show" => booking[b].at <= now

\* Appointments are kept apart, reminded of, and charged when they took place.
SchedulingRight == SlotIsOneCustomers /\ ServedIsCharged /\ FlaggedWasTold /\ AbsentHadBegun

=============================================================================
