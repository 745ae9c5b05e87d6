------------------------------- MODULE Inbox --------------------------------
(***************************************************************************)
(* A conversation between two people over a piece of work, and the         *)
(* notifications that tell either of them of it and of his payouts: each   *)
(* is a row in the durable inbox and, unless he muted its category or had  *)
(* enough of it this hour, an interruption.                                *)
(*                                                                         *)
(* One thread is of a customer and a business, derived from its ids; the   *)
(* other carries its two members on the row, over a consignment, a job, a  *)
(* delivery or an agreement.  Who is who never changes.                    *)
(***************************************************************************)
EXTENDS Handlers

CONSTANTS
  MaxMessages, \* bound: messages sent, and payouts announced
  Ceiling      \* interruptions of one category in an hour

VARIABLES
  order,      \* the customer's order with the business: none, live, cancelled
  threads,    \* message_threads
  messages,   \* of each thread and sender: how many, how many read_at leaves
              \* unread, and whether the other ever opened the thread on one (history)
  payouts,    \* history: payouts announced to the customer
  rows,       \* notifications, of each person and category
  rang,       \* history: live pushes this hour, of each person and category
  counter,    \* the store's counter of them, and whether it will expire
  muted       \* notification_prefs set to false

inboxVars ==
  <<order, threads, messages, payouts, rows, rang, counter, muted, task, befell>>

Parties == {"customer", "owner"}

Threads == {"business", "subject"}

Mutable == {"message"}

Unmutable == {"payout"}

Inboxes == Parties \X (Mutable \cup Unmutable)

Other(p) == IF p = "customer" THEN "owner" ELSE "customer"

InboxInit ==
  /\ order = "none"
  /\ threads = {}
  /\ messages = [t \in Threads |->
                   [p \in Parties |-> [sent |-> 0, unread |-> 0, opened |-> FALSE]]]
  /\ payouts = 0
  /\ rows = [s \in Inboxes |-> 0]
  /\ rang = [s \in Inboxes |-> 0]
  /\ counter = [s \in Inboxes |-> [used |-> 0, expires |-> FALSE]]
  /\ muted = {}

(***************************************************************************)
(* startThread and openForSubject.  The customer may begin when he has an  *)
(* order; the owner always may; whoever has a thread keeps it.             *)
(***************************************************************************)

OrderMoves ==
  /\ order' = CASE order = "none" -> "live" [] order = "live" -> "cancelled" [] OTHER -> order
  /\ order # "cancelled"
  /\ Outside
  /\ UNCHANGED <<threads, messages, payouts, rows, rang, counter, muted>>

ThreadRead(w, p) ==
  /\ p = "customer" => "business" \in threads \/ order = "live"
  /\ "business" \notin threads
  /\ Begin(w, [step |-> "thread_upsert"])
  /\ UNCHANGED <<order, threads, messages, payouts, rows, rang, counter, muted>>

StartThread(w) ==
  /\ At(w, "thread_upsert")
  /\ threads' = threads \cup {"business"}
  /\ Finish(w)
  /\ UNCHANGED <<order, messages, payouts, rows, rang, counter, muted>>

OpenForSubject ==
  /\ threads' = threads \cup {"subject"}
  /\ AtOnce
  /\ UNCHANGED <<order, messages, payouts, rows, rang, counter, muted>>

(***************************************************************************)
(* sendMessage: the message, then word to the recipient.  A thread without *)
(* a customer has nobody in the place the recipient is read from.          *)
(***************************************************************************)

\* Mutant: word of a message goes to its sender.
RecipientSelf(t, p) == IF t = "business" THEN p ELSE None

Recipient(t, p) == IF t = "business" THEN Other(p) ELSE None

Sent == messages["business"]["customer"].sent + messages["business"]["owner"].sent
          + messages["subject"]["customer"].sent + messages["subject"]["owner"].sent

SendMessage(w, t, p) ==
  /\ t \in threads
  /\ Sent < MaxMessages
  /\ messages' = [messages EXCEPT ![t][p].sent = @ + 1, ![t][p].unread = @ + 1]
  /\ IF Recipient(t, p) = None THEN AtOnce
       ELSE Begin(w, [step |-> "notify_gate", slot |-> <<Recipient(t, p), "message">>])
  /\ UNCHANGED <<order, threads, payouts, rows, rang, counter, muted>>

\* Mutant: whoever opens a thread has read what he wrote himself.
ReadOwn(t, p) ==
  LET unread == messages[t][Other(p)].unread
  IN  [messages EXCEPT ![t][p].unread = 0, ![t][Other(p)].opened = @ \/ unread > 0]

ReadTheirs(t, p) ==
  LET unread == messages[t][Other(p)].unread
  IN  [messages EXCEPT ![t][Other(p)].unread = 0, ![t][Other(p)].opened = @ \/ unread > 0]

MarkThreadRead(t, p) ==
  /\ t \in threads
  /\ messages' = ReadTheirs(t, p)
  /\ AtOnce
  /\ UNCHANGED <<order, threads, payouts, rows, rang, counter, muted>>

AnnouncePayout(w) ==
  /\ payouts < MaxMessages
  /\ payouts' = payouts + 1
  /\ Begin(w, [step |-> "notify_gate", slot |-> <<"customer", "payout">>])
  /\ UNCHANGED <<order, threads, messages, rows, rang, counter, muted>>

(***************************************************************************)
(* deliver: whether it may interrupt, the interruption, the row.           *)
(***************************************************************************)

\* Mutant: everything goes past the preferences and the ceiling.
NeverExempt(slot) == FALSE

Exempt(slot) == slot[2] \in Unmutable

\* A preference that is off settles it before anything is counted.
DeliverGate(w) ==
  LET slot == task[w].slot IN
  /\ At(w, "notify_gate")
  /\ IF Exempt(slot) THEN Goto(w, "notify_live")
     ELSE IF slot \in muted THEN Goto(w, "notify_row")
     ELSE Goto(w, "notify_count")
  /\ UNCHANGED <<order, threads, messages, payouts, rows, rang, counter, muted>>

\* Mutant: the ceiling is one too high.
WithinAndOne(used) == used <= Ceiling + 1

Within(used) == used <= Ceiling

\* incrWithTtl: the first of the hour sets the time to live, in a call of its own.
DeliverCount(w) ==
  LET slot == task[w].slot IN
  /\ At(w, "notify_count")
  /\ counter' = [counter EXCEPT ![slot].used = @ + 1]
  /\ Becomes(w, [task[w] EXCEPT !.step =
                   IF counter[slot].used = 0 THEN "notify_expire"
                   ELSE IF Within(counter[slot].used + 1) THEN "notify_live" ELSE "notify_row"])
  /\ UNCHANGED <<order, threads, messages, payouts, rows, rang, muted, befell>>

DeliverExpire(w) ==
  /\ At(w, "notify_expire")
  /\ counter' = [counter EXCEPT ![task[w].slot].expires = TRUE]
  /\ Goto(w, "notify_live")
  /\ UNCHANGED <<order, threads, messages, payouts, rows, rang, muted>>

\* The store does not answer: it fails open.
DeliverUncounted(w) ==
  /\ At(w, "notify_count")
  /\ Befalls("outage")
  /\ Becomes(w, [task[w] EXCEPT !.step = "notify_live"])
  /\ UNCHANGED <<order, threads, messages, payouts, rows, rang, counter, muted>>

DeliverLive(w) ==
  /\ At(w, "notify_live")
  /\ rang' = [rang EXCEPT ![task[w].slot] = @ + 1]
  /\ Goto(w, "notify_row")
  /\ UNCHANGED <<order, threads, messages, payouts, rows, counter, muted>>

DeliverRow(w) ==
  /\ At(w, "notify_row")
  /\ rows' = [rows EXCEPT ![task[w].slot] = @ + 1]
  /\ Finish(w)
  /\ UNCHANGED <<order, threads, messages, payouts, rang, counter, muted>>

\* updatePreferences refuses to mute what costs money to miss.
UpdatePreference(p, category, off) ==
  /\ category \in Mutable
  /\ muted' = IF off THEN muted \cup {<<p, category>>} ELSE muted \ {<<p, category>>}
  /\ AtOnce
  /\ UNCHANGED <<order, threads, messages, payouts, rows, rang, counter>>

\* The hour is over for a counter that was told to expire; what was counted in it has been
\* delivered.
CounterLapses(slot) ==
  /\ counter[slot].expires
  /\ counter' = [counter EXCEPT ![slot] = [used |-> 0, expires |-> FALSE]]
  /\ rang' = [rang EXCEPT ![slot] = 0]
  /\ \A w \in Workers : Idle(w) \/ task[w].step \in {"thread_upsert", "notify_gate"}
  /\ Outside
  /\ UNCHANGED <<order, threads, messages, payouts, rows, muted>>

InboxHandlerDies(w) ==
  /\ Dies(w)
  /\ UNCHANGED <<order, threads, messages, payouts, rows, rang, counter, muted>>

InboxNext ==
  \/ OrderMoves \/ OpenForSubject
  \/ \E w \in Workers :
       \/ StartThread(w) \/ AnnouncePayout(w) \/ DeliverGate(w) \/ DeliverCount(w)
       \/ DeliverExpire(w) \/ DeliverUncounted(w) \/ DeliverLive(w) \/ DeliverRow(w)
       \/ InboxHandlerDies(w)
       \/ \E p \in Parties : ThreadRead(w, p) \/ \E t \in Threads : SendMessage(w, t, p)
  \/ \E p \in Parties :
       \/ \E t \in Threads : MarkThreadRead(t, p)
       \/ \E c \in Mutable \cup Unmutable, off \in BOOLEAN : UpdatePreference(p, c, off)
  \/ \E slot \in Inboxes : CounterLapses(slot)

(***************************************************************************)
(* Properties.                                                             *)
(***************************************************************************)

\* A message in a customer's thread reaches the other's inbox, muted or not, and so does a payout.
\* A message in a thread over a piece of work reaches nobody's.
NothingIsLost ==
  AllIdle /\ Spared({"crash"}) =>
    /\ \A p \in Parties :
         rows[<<p, "message">>] = messages["business"][Other(p)].sent
    /\ rows[<<"customer", "payout">>] = payouts

\* Word of a payout always interrupts, whatever is muted and however many there were.
MoneyInterrupts ==
  AllIdle /\ Spared({"crash"}) => rang[<<"customer", "payout">>] = rows[<<"customer", "payout">>]

\* Nobody is interrupted more often than the ceiling, however many are delivered at once, while the
\* store answers.
CeilingHolds ==
  Spared({"outage"}) => \A p \in Parties : rang[<<p, "message">>] <= Ceiling

\* No silence is for ever: what was counted is forgotten when the hour is over, unless the process
\* died between the count and its time to live.
SilenceEnds ==
  Spared({"crash"}) /\ AllIdle => \A s \in Inboxes : counter[s].used > 0 => counter[s].expires

\* What somebody sent stays unread while only he looks at the thread, and a thread that says
\* something is there.
UnreadIsTheirs ==
  \A t \in Threads, p \in Parties :
    /\ messages[t][p].unread < messages[t][p].sent => messages[t][p].opened
    /\ messages[t][p].sent > 0 => t \in threads

InboxRight ==
  NothingIsLost /\ MoneyInterrupts /\ CeilingHolds /\ SilenceEnds /\ UnreadIsTheirs

=============================================================================
