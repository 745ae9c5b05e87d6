----------------------------- MODULE BackOffice -----------------------------
(***************************************************************************)
(* A business's crew and its invoices.  Nobody is on a crew who did not    *)
(* say so himself, and either side may end it.  An invoice has a number of *)
(* its own, and every change of its status is recorded for good.           *)
(***************************************************************************)
EXTENDS Handlers

CONSTANTS
  Mates,      \* people a business may want on its crew
  Invoices,   \* invoices it writes
  MaxAnswers  \* bound: how often a person is asked

VARIABLES
  crew,      \* crew_members: one row per person
  invoice,   \* invoices: status and number
  numbered,  \* invoice_counters
  log        \* invoice_events, which nothing changes or deletes

backOfficeVars == <<crew, invoice, numbered, log, task, befell>>

\* History: `asked' counts the invitations; `answer' is the person's answer to the last of them, and
\* `ended' that one side ended what he had agreed to.
BackOfficeInit ==
  /\ crew = [m \in Mates |-> [status |-> "none", asked |-> 0, answer |-> "none", ended |-> FALSE]]
  /\ invoice = [i \in Invoices |-> [status |-> "none", number |-> 0]]
  /\ numbered = 0
  /\ log = {}

(***************************************************************************)
(* The crew.                                                               *)
(***************************************************************************)

\* Mutant: inviting is adding.
OnInvitation == "active"

AfterInvitation == "invited"

\* inviteCrew leaves who is on the crew already, as far as it has read.
InviteCrew(w, m) ==
  /\ crew[m].status # "active"
  /\ crew[m].asked < MaxAnswers
  /\ Begin(w, [step |-> "crew_invite", of |-> m])
  /\ UNCHANGED <<crew, invoice, numbered, log>>

WriteInvitation(w) ==
  /\ At(w, "crew_invite")
  /\ crew' = [crew EXCEPT ![task[w].of] =
       [status |-> AfterInvitation, asked |-> @.asked + 1, answer |-> "none", ended |-> FALSE]]
  /\ Finish(w)
  /\ UNCHANGED <<invoice, numbered, log>>

\* Mutant: an old invitation may still be answered.
EverAsked(m) == crew[m].asked > 0

Invited(m) == crew[m].status = "invited"

\* respondToCrewInvite looks for the open invitation and answers it in one update.
RespondToCrewInvite(m, accept) ==
  /\ Invited(m)
  /\ crew' = [crew EXCEPT ![m].status = IF accept THEN "active" ELSE "declined",
                          ![m].answer = IF accept THEN "yes" ELSE "no"]
  /\ AtOnce
  /\ UNCHANGED <<invoice, numbered, log>>

\* Removing who is removed already saves nothing that matters.
RemoveFromCrew(w, m) ==
  /\ crew[m].status \notin {"none", "removed"}
  /\ Begin(w, [step |-> "crew_remove", of |-> m])
  /\ UNCHANGED <<crew, invoice, numbered, log>>

\* The row that was read is saved as removed, whatever it has become.
SaveRemoval(w) ==
  /\ At(w, "crew_remove")
  /\ crew' = [crew EXCEPT ![task[w].of].status = "removed", ![task[w].of].ended = TRUE]
  /\ Finish(w)
  /\ UNCHANGED <<invoice, numbered, log>>

(***************************************************************************)
(* Invoices.                                                               *)
(***************************************************************************)

Written == {i \in Invoices : invoice[i].status # "none"}

\* Mutant: one more than the largest number in use.
OnePastLast ==
  1 + (CHOOSE n \in 0..Cardinality(Invoices) :
         /\ n = 0 \/ \E i \in Written : invoice[i].number = n
         /\ \A i \in Written : invoice[i].number <= n)

NextNumber == numbered + 1

\* One atomic increment, then the row, then the event.  The row is refused when its number is taken.
CreateInvoice(w, i) ==
  /\ invoice[i].status = "none"
  /\ \A v \in Workers : ~(At(v, "invoice_write") /\ task[v].of = i)
  /\ numbered' = numbered + 1
  /\ Begin(w, [step |-> "invoice_write", of |-> i, number |-> NextNumber])
  /\ UNCHANGED <<crew, invoice, log>>

NumberFree(n) == \A j \in Written : invoice[j].number # n

WriteInvoice(w) ==
  /\ At(w, "invoice_write")
  /\ IF NumberFree(task[w].number)
       THEN /\ invoice' = [invoice EXCEPT ![task[w].of] =
                             [status |-> "draft", number |-> task[w].number]]
            /\ Becomes(w, [step |-> "invoice_log", of |-> task[w].of,
                           from |-> "none", to |-> "draft"])
            /\ UNCHANGED befell
       ELSE Finish(w) /\ UNCHANGED invoice
  /\ UNCHANGED <<crew, numbered, log>>

\* Mutant: a draft is paid without being sent.
AllowedToo ==
  [none |-> {}, draft |-> {"sent", "void", "paid"}, sent |-> {"paid", "void"},
   paid |-> {}, void |-> {}]

Allowed ==
  [none |-> {}, draft |-> {"sent", "void"}, sent |-> {"paid", "void"}, paid |-> {}, void |-> {}]

\* setInvoiceStatus checks what it has read and saves over whatever is there.
SetInvoiceStatus(w, i, to) ==
  /\ to \in Allowed[invoice[i].status]
  /\ Begin(w, [step |-> "invoice_save", of |-> i, from |-> invoice[i].status, to |-> to])
  /\ UNCHANGED <<crew, invoice, numbered, log>>

SaveInvoice(w) ==
  /\ At(w, "invoice_save")
  /\ invoice' = [invoice EXCEPT ![task[w].of].status = task[w].to]
  /\ Goto(w, "invoice_log")
  /\ UNCHANGED <<crew, numbered, log>>

LogInvoice(w) ==
  /\ At(w, "invoice_log")
  /\ log' = log \cup {<<task[w].of, task[w].from, task[w].to>>}
  /\ Finish(w)
  /\ UNCHANGED <<crew, invoice, numbered>>

BackOfficeDies(w) ==
  /\ Dies(w)
  /\ UNCHANGED <<crew, invoice, numbered, log>>

CrewNext ==
  \/ \E w \in Workers :
       \/ WriteInvitation(w) \/ SaveRemoval(w) \/ BackOfficeDies(w)
       \/ \E m \in Mates : InviteCrew(w, m) \/ RemoveFromCrew(w, m)
  \/ \E m \in Mates, accept \in BOOLEAN : RespondToCrewInvite(m, accept)

InvoicesNext ==
  \E w \in Workers :
    \/ WriteInvoice(w) \/ SaveInvoice(w) \/ LogInvoice(w) \/ BackOfficeDies(w)
    \/ \E i \in Invoices :
         \/ CreateInvoice(w, i)
         \/ \E to \in {"sent", "paid", "void"} : SetInvoiceStatus(w, i, to)

(***************************************************************************)
(* Properties.                                                             *)
(***************************************************************************)

\* Nobody is on a crew but by his own yes to the last invitation, which nobody has ended since:
\* no crash and no two handlers at once put him there.
CrewConsented ==
  \A m \in Mates :
    crew[m].status = "active" => crew[m].answer = "yes" /\ ~crew[m].ended

\* Who said yes stays until one side ends it: unless he was invited again while he answered.
ConsentStands ==
  Spared({"overlap"}) =>
    \A m \in Mates : crew[m].answer = "yes" /\ ~crew[m].ended => crew[m].status = "active"

\* No two invoices share a number, and no number is missing but one that was taken by a handler
\* that died or is still at it.
Numbering ==
  /\ \A i, j \in Written : i # j => invoice[i].number # invoice[j].number
  /\ AllIdle /\ Spared({"crash"}) => {invoice[i].number : i \in Written} = 1..numbered

Moves(i) == {e \in log : e[1] = i}

\* The record explains the status: each change starts from what another one led to, one led to the
\* status, and what is paid was sent.  Only a crash between a change and its record leaves a gap.
LogExplains ==
  AllIdle /\ Spared({"crash"}) => \A i \in Written :
    /\ \A e \in Moves(i) : e[2] = "none" \/ \E d \in Moves(i) : d[3] = e[2]
    /\ \E e \in Moves(i) : e[3] = invoice[i].status
    /\ invoice[i].status = "paid" => <<i, "draft", "sent">> \in log

\* Paid and void are final: unless two closed it at once.
ClosedOnce ==
  Spared({"overlap"}) =>
    \A i \in Invoices : Cardinality({e \in Moves(i) : e[3] \in {"paid", "void"}}) <= 1

BackOfficeRight ==
  CrewConsented /\ ConsentStands /\ Numbering /\ LogExplains /\ ClosedOnce

=============================================================================
