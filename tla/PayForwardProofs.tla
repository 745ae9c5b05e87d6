-------------------------- MODULE PayForwardProofs --------------------------
(***************************************************************************)
(* Proofs about PayForward, for any gifts, people, redemption rows and     *)
(* handlers, and any number of deaths between two awaits: nobody is helped *)
(* twice a day, no money comes out of the pool that did not come in, the   *)
(* pool, the ledger and the card agree, and the gifts are spent as         *)
(* promised.                                                               *)
(***************************************************************************)
EXTENDS PayForward, SumTheorems

CreditSteps == {"credit_pool", "credit_books"}
ReserveSteps == {"reserve_pool", "reserve_row"}
ApplySteps == {"apply_fee", "consume_find", "consume"}
CancelSteps == {"cancel_pool", "restore_find", "restore"}
RefundSteps == {"refund_pool", "refund_claim", "refund_stripe", "refund_undo"}
RefundedSteps == {"refund_row", "refund_books"}
ExpireSteps == {"expire_pool", "expire_books"}

AllSteps ==
  {"idle", "give_back"} \cup CreditSteps \cup ReserveSteps \cup ApplySteps \cup CancelSteps
    \cup RefundSteps \cup RefundedSteps \cup ExpireSteps

\* FeeOf says what is charged on a covered amount.
Fees == {0} \cup {FeeOf[a] : a \in Nat}

\* What a handler found: some gifts, and a number of cents on each.
Findings == UNION {[S -> Nat] : S \in SUBSET Gift}

Tasks ==
  [step : AllSteps, gift : Gift \cup {None}, row : Rows \cup {None}, user : Users \cup {None},
   amount : Nat, fee : Fees, found : Findings, left : Nat]

GiftRows ==
  [status : {"none", "pending", "succeeded", "failed"}, remaining : Nat, refunded : Nat,
   age : {"none", "fresh", "stale", "expired"}]

RedemptionRows ==
  [status : Live \cup {"none", "released", "refunded"}, user : Users \cup {None}, amount : Nat,
   fee : Fees]

\* The types of the rows and of what the handlers remember between two awaits.
Typed ==
  /\ intent \in [Gift -> {"none", "open", "declined", "succeeded", "canceled"}]
  /\ refunded \in [Gift -> Nat]
  /\ gift \in [Gift -> GiftRows]
  /\ row \in [Rows -> RedemptionRows]
  /\ pool \in Nat
  /\ "fund" \in DOMAIN books /\ books.fund \in Int
  /\ task \in [Workers -> Tasks]

\* Every step is about a gift, a row or a person; nobody takes back nothing.
Addressed ==
  \A w \in Workers :
    /\ task[w].step \in CreditSteps \cup RefundSteps \cup RefundedSteps \cup ExpireSteps =>
         task[w].gift \in Gift
    /\ task[w].step \in RefundSteps => task[w].amount > 0
    /\ task[w].step \in ApplySteps \cup CancelSteps => task[w].row \in Rows
    /\ task[w].step \in ReserveSteps => task[w].user \in Users

\* A redemption that was not released holds its person's slot alone.
OneSlot ==
  /\ \A r \in Rows : row[r].status = "none" <=> row[r].user = None
  /\ \A r, s \in Rows :
       /\ row[r].user # None /\ row[r].user = row[s].user
       /\ row[r].status # "released" /\ row[s].status # "released"
       => r = s

\* A gift has no intent before it is made, and no age before it arrived.
Aged ==
  \A g \in Gift : /\ gift[g].status = "none" => intent[g] = "none"
                  /\ gift[g].status # "succeeded" => gift[g].age = "none"

\* Money that a handler took from one place and did not yet put into another.
InHand ==
  [w \in Workers |->
     IF task[w].step \in {"credit_pool", "reserve_row", "give_back", "cancel_pool", "refund_claim",
                          "refund_stripe"}
       THEN task[w].amount ELSE 0]

\* Money captured for a gift that no handler has credited.
Waiting ==
  [g \in Gift |-> IF intent[g] = "succeeded" /\ gift[g].status = "pending" THEN Given[g] ELSE 0]

\* BackedByMoney, with the money on its way.
Backed == pool + AmountIn(Live) + SumFunction(InHand) + SumFunction(Waiting) <= SumFunction(Arrived)

\* The ledger posting a handler is on its way to make.
Posting(w) ==
  task[w].step \in CreditSteps \cup ApplySteps \cup CancelSteps \cup RefundedSteps \cup ExpireSteps

PostingOf(w) ==
  CASE task[w].step \in CreditSteps -> <<"contribute", task[w].gift>>
    [] task[w].step \in ApplySteps -> <<"redeem", task[w].row>>
    [] task[w].step \in CancelSteps -> <<"redeem_reverse", task[w].row>>
    [] task[w].step \in RefundedSteps -> <<"refund", task[w].gift>>
    [] OTHER -> <<"expire", task[w].gift>>

\* The postings somebody won the right to make, by the state of the row each belongs to.
Won ==
  {<<"contribute", g>> : g \in {h \in Gift : gift[h].status = "succeeded"}}
    \cup {<<"redeem", r>> : r \in {s \in Rows : row[s].status \notin {"none", "reserved"}}}
    \cup {<<"redeem_reverse", r>> : r \in {s \in Rows : row[s].status \in {"refunded", "released"}}}
    \cup {<<"refund", g>> : g \in {h \in Gift : refunded[h] # 0}}
    \cup {<<"expire", g>> : g \in {h \in Gift : gift[h].age = "expired"}}

Unreplayed == "refund_replayed" \notin befell

\* No posting is made twice, or by two.
Once ==
  Unreplayed =>
    /\ posted \subseteq Won
    /\ \A w \in Workers : Posting(w) => PostingOf(w) \in Won \ posted
    /\ \A v, w \in Workers : Posting(v) /\ Posting(w) /\ PostingOf(v) = PostingOf(w) => v = w

\* By how much the pool is ahead of the ledger on account of a handler half way.
Ahead ==
  [w \in Workers |->
     CASE task[w].step \in {"credit_books", "restore_find", "restore"} -> task[w].amount
       [] task[w].step \in {"reserve_row", "give_back", "refund_claim", "refund_stripe",
                            "expire_books"} \cup RefundedSteps \cup ApplySteps -> - task[w].amount
       [] OTHER -> 0]

\* BooksMatchPool, with the operations half way.
Booked ==
  befell \cap {"crash", "refund_replayed", "expired_in_use"} = {} =>
    pool + AmountIn({"reserved"}) = books.fund + SumFunction(Ahead)

Recording(g) == \E w \in Workers : task[w].step = "refund_row" /\ task[w].gift = g

\* RefundRecorded, with the operations half way.
Recorded ==
  befell \cap {"crash", "refund_replayed"} = {} =>
    /\ \A w \in Workers : task[w].step = "refund_row" =>
         gift[task[w].gift].refunded = 0 /\ refunded[task[w].gift] = task[w].amount
    /\ \A g \in Gift : gift[g].refunded = refunded[g] \/ Recording(g)

IInv == Typed /\ Addressed /\ OneSlot /\ Aged /\ Backed /\ Once /\ Booked /\ Recorded

-----------------------------------------------------------------------------
(***************************************************************************)
(* The sums the invariant is about, and how one change moves them.         *)
(***************************************************************************)

\* Only handler w's task changes.
Others(w) == \A v \in Workers \ {w} : task'[v] = task[v]

\* Only redemption row r changes.
OtherRows(r) == \A s \in Rows \ {r} : row'[s] = row[s]

LEMMA GiftIsFinite == IsFiniteSet(Gift)
<1>1. Gift = 1..Len(Given) /\ Len(Given) \in Nat
  BY PayForwardAssumption DEF Gift
<1> QED
  BY <1>1, FS_Interval

LEMMA AmountType ==
  ASSUME Typed, Typed', NEW S
  PROVE  AmountIn(S) \in Int /\ AmountIn(S)' \in Int
<1> DEFINE f == [r \in Rows |-> IF row[r].status \in S THEN row[r].amount ELSE 0]
           g == [r \in Rows |-> IF row'[r].status \in S THEN row'[r].amount ELSE 0]
<1>1. \A r \in Rows : f[r] \in Int /\ g[r] \in Int
  BY DEF Typed, RedemptionRows
<1>2. SumFunctionOnSet(f, Rows) \in Int /\ SumFunctionOnSet(g, Rows) \in Int
  <2> HIDE DEF f, g
  <2> QED
    BY <1>1, SumTakeOut, PayForwardAssumption
<1> QED
  BY <1>2 DEF AmountIn, SumFunction

\* A row changes: the totals change by its amount.
LEMMA RowSums ==
  ASSUME Typed, Typed', NEW r \in Rows, OtherRows(r), NEW S
  PROVE  AmountIn(S)' = AmountIn(S) - (IF row[r].status \in S THEN row[r].amount ELSE 0)
                                    + (IF row'[r].status \in S THEN row'[r].amount ELSE 0)
<1> DEFINE f == [s \in Rows |-> IF row[s].status \in S THEN row[s].amount ELSE 0]
           g == [s \in Rows |-> IF row'[s].status \in S THEN row'[s].amount ELSE 0]
<1>1. \A s \in Rows : f[s] \in Int /\ g[s] \in Int
  BY DEF Typed, RedemptionRows
<1>2. \A s \in Rows \ {r} : g[s] = f[s]
  BY DEF OtherRows
<1>3. AmountIn(S) = SumFunctionOnSet(f, Rows) /\ AmountIn(S)' = SumFunctionOnSet(g, Rows)
  BY DEF AmountIn, SumFunction
<1>4. /\ f[r] = IF row[r].status \in S THEN row[r].amount ELSE 0
      /\ g[r] = IF row'[r].status \in S THEN row'[r].amount ELSE 0
  OBVIOUS
<1>5. IsFiniteSet(Rows)
  BY PayForwardAssumption
<1> HIDE DEF f, g
<1>6. SumFunctionOnSet(g, Rows) = SumFunctionOnSet(f, Rows) - f[r] + g[r]
  <2>1. ChangesAt(f, g, Rows, r)
    BY <1>1, <1>2 DEF ChangesAt
  <2> QED
    BY <1>5, <2>1, SumChange
<1> QED
  BY <1>3, <1>4, <1>6

LEMMA RowSumsKept ==
  ASSUME Typed, NEW S,
         \A r \in Rows : row'[r].status = row[r].status /\ row'[r].amount = row[r].amount
  PROVE  AmountIn(S)' = AmountIn(S)
<1> DEFINE f == [s \in Rows |-> IF row[s].status \in S THEN row[s].amount ELSE 0]
           g == [s \in Rows |-> IF row'[s].status \in S THEN row'[s].amount ELSE 0]
<1>1. \A s \in Rows : f[s] \in Int /\ g[s] = f[s]
  BY DEF Typed, RedemptionRows
<1>2. AmountIn(S) = SumFunctionOnSet(f, Rows) /\ AmountIn(S)' = SumFunctionOnSet(g, Rows)
  BY DEF AmountIn, SumFunction
<1> HIDE DEF f, g
<1> QED
  BY <1>1, <1>2, SumAgrees, PayForwardAssumption

\* A handler goes on: what is in hand and by how much the pool is ahead change by its part.
LEMMA TaskSums ==
  ASSUME Typed, Typed', NEW w \in Workers, Others(w)
  PROVE  /\ SumFunction(InHand) \in Int /\ SumFunction(Ahead) \in Int
         /\ InHand[w] \in Nat /\ InHand'[w] \in Nat /\ Ahead[w] \in Int /\ Ahead'[w] \in Int
         /\ SumFunction(InHand)' = SumFunction(InHand) - InHand[w] + InHand'[w]
         /\ SumFunction(Ahead)' = SumFunction(Ahead) - Ahead[w] + Ahead'[w]
<1> DEFINE H == InHand
           I == InHand'
           A == Ahead
           B == Ahead'
<1>1. \A v \in Workers : task[v].amount \in Nat /\ task'[v].amount \in Nat
  BY DEF Typed, Tasks
<1>2. \A v \in Workers : H[v] \in Nat /\ I[v] \in Nat
  BY <1>1 DEF InHand
<1>3. \A v \in Workers : A[v] \in Int /\ B[v] \in Int
  BY <1>1 DEF Ahead
<1>4. \A v \in Workers \ {w} : I[v] = H[v]
  BY DEF Others, InHand
<1>5. \A v \in Workers \ {w} : B[v] = A[v]
  BY DEF Others, Ahead
<1>6. SumFunction(H) = SumFunctionOnSet(H, Workers) /\ SumFunction(H)' = SumFunctionOnSet(I, Workers)
  BY DEF SumFunction, InHand
<1>7. SumFunction(A) = SumFunctionOnSet(A, Workers) /\ SumFunction(A)' = SumFunctionOnSet(B, Workers)
  BY DEF SumFunction, Ahead
<1>8. IsFiniteSet(Workers)
  BY PayForwardAssumption
<1> HIDE DEF H, I, A, B
<1>9. SumFunctionOnSet(H, Workers) \in Int
  BY <1>2, <1>8, SumTakeOut
<1>10. SumFunctionOnSet(I, Workers) = SumFunctionOnSet(H, Workers) - H[w] + I[w]
  <2>1. ChangesAt(H, I, Workers, w)
    BY <1>2, <1>4 DEF ChangesAt
  <2> QED
    BY <1>8, <2>1, SumChange
<1>11. SumFunctionOnSet(A, Workers) \in Int
  BY <1>3, <1>8, SumTakeOut
<1>12. SumFunctionOnSet(B, Workers) = SumFunctionOnSet(A, Workers) - A[w] + B[w]
  <2>1. ChangesAt(A, B, Workers, w)
    BY <1>3, <1>5 DEF ChangesAt
  <2> QED
    BY <1>8, <2>1, SumChange
<1> QED
  BY <1>2, <1>3, <1>6, <1>7, <1>9, <1>10, <1>11, <1>12 DEF H, I, A, B

\* A gift changes.
LEMMA GiftSums ==
  ASSUME Typed, Typed', NEW g \in Gift,
         \A h \in Gift \ {g} : Waiting'[h] = Waiting[h] /\ Arrived'[h] = Arrived[h]
  PROVE  /\ SumFunction(Waiting) \in Int /\ SumFunction(Arrived) \in Int
         /\ SumFunction(Waiting)' = SumFunction(Waiting) - Waiting[g] + Waiting'[g]
         /\ SumFunction(Arrived)' = SumFunction(Arrived) - Arrived[g] + Arrived'[g]
<1>1. \A h \in Gift : Given[h] \in Nat /\ refunded[h] \in Nat /\ refunded'[h] \in Nat
  BY PayForwardAssumption DEF Typed, Gift
<1>2. \A h \in Gift : /\ Waiting[h] \in Int /\ Waiting'[h] \in Int
                      /\ Arrived[h] \in Int /\ Arrived'[h] \in Int
  BY <1>1 DEF Waiting, Arrived
<1>3. /\ SumFunction(Waiting) = SumFunctionOnSet(Waiting, Gift)
      /\ SumFunction(Waiting)' = SumFunctionOnSet(Waiting', Gift)
  BY DEF SumFunction, Waiting
<1>4. /\ SumFunction(Arrived) = SumFunctionOnSet(Arrived, Gift)
      /\ SumFunction(Arrived)' = SumFunctionOnSet(Arrived', Gift)
  BY DEF SumFunction, Arrived
<1>5. SumFunctionOnSet(Waiting', Gift) = SumFunctionOnSet(Waiting, Gift) - Waiting[g] + Waiting'[g]
  <2>1. ChangesAt(Waiting, Waiting', Gift, g)
    BY <1>2 DEF ChangesAt
  <2> QED
    BY <2>1, GiftIsFinite, SumChange
<1>6. SumFunctionOnSet(Arrived', Gift) = SumFunctionOnSet(Arrived, Gift) - Arrived[g] + Arrived'[g]
  <2>1. ChangesAt(Arrived, Arrived', Gift, g)
    BY <1>2 DEF ChangesAt
  <2> QED
    BY <2>1, GiftIsFinite, SumChange
<1>7. SumFunctionOnSet(Waiting, Gift) \in Int /\ SumFunctionOnSet(Arrived, Gift) \in Int
  BY <1>2, SumTakeOut, GiftIsFinite
<1> QED
  BY <1>3, <1>4, <1>5, <1>6, <1>7

LEMMA GiftSumsKept ==
  ASSUME Typed, Typed',
         \A h \in Gift : Waiting'[h] = Waiting[h] /\ Arrived'[h] = Arrived[h]
  PROVE  /\ SumFunction(Waiting) \in Int /\ SumFunction(Arrived) \in Int
         /\ SumFunction(Waiting)' = SumFunction(Waiting)
         /\ SumFunction(Arrived)' = SumFunction(Arrived)
<1>1. \A h \in Gift : Given[h] \in Nat /\ refunded[h] \in Nat
  BY PayForwardAssumption DEF Typed, Gift
<1>2. \A h \in Gift : Waiting[h] \in Int /\ Arrived[h] \in Int
  BY <1>1 DEF Waiting, Arrived
<1>3. /\ SumFunction(Waiting) = SumFunctionOnSet(Waiting, Gift)
      /\ SumFunction(Waiting)' = SumFunctionOnSet(Waiting', Gift)
  BY DEF SumFunction, Waiting
<1>4. /\ SumFunction(Arrived) = SumFunctionOnSet(Arrived, Gift)
      /\ SumFunction(Arrived)' = SumFunctionOnSet(Arrived', Gift)
  BY DEF SumFunction, Arrived
<1>5. /\ SumFunctionOnSet(Waiting', Gift) = SumFunctionOnSet(Waiting, Gift)
      /\ SumFunctionOnSet(Arrived', Gift) = SumFunctionOnSet(Arrived, Gift)
  BY <1>2, SumAgrees, GiftIsFinite
<1>6. SumFunctionOnSet(Waiting, Gift) \in Int /\ SumFunctionOnSet(Arrived, Gift) \in Int
  BY <1>2, SumTakeOut, GiftIsFinite
<1> QED
  BY <1>3, <1>4, <1>5, <1>6

(***************************************************************************)
(* What a handler does to its task.                                        *)
(***************************************************************************)

\* Handler w goes on to step s with what it has.
GoesOn(w, s) ==
  /\ Others(w)
  /\ task'[w].step = s /\ task'[w].gift = task[w].gift /\ task'[w].row = task[w].row
  /\ task'[w].user = task[w].user /\ task'[w].amount = task[w].amount

\* Handler w is done.
Ends(w) == Others(w) /\ task'[w].step = "idle"

\* A task with its step changed.
LEMMA TaskEdit ==
  ASSUME NEW t \in Tasks, NEW s \in AllSteps
  PROVE  /\ [t EXCEPT !.step = s] \in Tasks
         /\ [t EXCEPT !.step = s].step = s
         /\ [t EXCEPT !.step = s].gift = t.gift /\ [t EXCEPT !.step = s].row = t.row
         /\ [t EXCEPT !.step = s].user = t.user /\ [t EXCEPT !.step = s].amount = t.amount
         /\ [t EXCEPT !.step = s].left = t.left /\ [t EXCEPT !.step = s].found = t.found
BY DEF Tasks

LEMMA NothingFound == NoGifts \in Findings
<1>1. NoGifts \in [{} -> Nat]
  BY DEF NoGifts
<1> QED
  BY <1>1 DEF Findings

LEMMA RestingIsTask == Resting \in Tasks
BY NothingFound DEF Resting, Tasks, AllSteps, Fees

\* The fields a resting handler's task is filled from.
LEMMA NewTask == NoGifts \in Findings /\ 0 \in Fees /\ 0 \in Nat
BY NothingFound DEF Fees

LEMMA GotoGoesOn ==
  ASSUME Typed, NEW w \in Workers, NEW s \in AllSteps, task' = [task EXCEPT ![w].step = s]
  PROVE  GoesOn(w, s) /\ task' \in [Workers -> Tasks]
<1>1. task[w] \in Tasks
  BY DEF Typed
<1>2. /\ task'[w] = [task[w] EXCEPT !.step = s]
      /\ \A v \in Workers \ {w} : task'[v] = task[v]
      /\ task' = [v \in Workers |-> task'[v]]
  BY DEF Typed
<1>3. task'[w] \in Tasks
  BY <1>1, <1>2, TaskEdit
<1> QED
  BY <1>1, <1>2, <1>3, TaskEdit DEF GoesOn, Others, Typed

LEMMA FinishEnds ==
  ASSUME Typed, NEW w \in Workers, task' = [task EXCEPT ![w] = Resting]
  PROVE  Ends(w) /\ task'[w] = Resting /\ task' \in [Workers -> Tasks]
BY RestingIsTask DEF Ends, Others, Resting, Typed

LEMMA BeginStarts ==
  ASSUME Typed, NEW w \in Workers, NEW t \in Tasks, Begin(w, t)
  PROVE  /\ Idle(w) /\ Others(w) /\ task'[w] = t /\ task' \in [Workers -> Tasks]
         /\ befell \subseteq befell'
BY DEF Begin, Others, Befalls, Typed

(***************************************************************************)
(* The right to make a posting.                                            *)
(***************************************************************************)

\* What was won stays won.
LEMMA WonGrows ==
  ASSUME \A g \in Gift : /\ gift[g].status = "succeeded" => gift'[g].status = "succeeded"
                         /\ gift[g].age = "expired" => gift'[g].age = "expired"
                         /\ refunded[g] # 0 => refunded'[g] # 0,
         \A r \in Rows : /\ row[r].status \notin {"none", "reserved"} =>
                              row'[r].status \notin {"none", "reserved"}
                         /\ row[r].status \in {"refunded", "released"} =>
                              row'[r].status \in {"refunded", "released"}
  PROVE  Won \subseteq Won'
BY DEF Won

\* A handler that goes on towards the posting it won, or was on its way to none.
LEMMA OnceKept ==
  ASSUME Once, NEW w \in Workers, Others(w), UNCHANGED posted, Won \subseteq Won', befell \subseteq befell',
         Posting(w)' => Posting(w) /\ PostingOf(w)' = PostingOf(w)
  PROVE  Once'
<1>1. \A v \in Workers \ {w} : (Posting(v)' <=> Posting(v)) /\ PostingOf(v)' = PostingOf(v)
  BY DEF Others, Posting, PostingOf
<1> QED
  BY <1>1 DEF Once, Unreplayed

\* No handler does anything.
LEMMA OnceKeptOutside ==
  ASSUME Once, UNCHANGED <<task, posted>>, Won \subseteq Won', befell \subseteq befell'
  PROVE  Once'
<1>1. \A v \in Workers : (Posting(v)' <=> Posting(v)) /\ PostingOf(v)' = PostingOf(v)
  BY DEF Posting, PostingOf
<1> QED
  BY <1>1 DEF Once, Unreplayed

\* A handler that wins the right to a posting nobody won before.
LEMMA OnceWon ==
  ASSUME Once, NEW w \in Workers, Others(w), UNCHANGED posted, Won \subseteq Won', befell \subseteq befell',
         Posting(w)', Unreplayed' => PostingOf(w)' \in Won' \ Won
  PROVE  Once'
<1>1. \A v \in Workers \ {w} : (Posting(v)' <=> Posting(v)) /\ PostingOf(v)' = PostingOf(v)
  BY DEF Others, Posting, PostingOf
<1> QED
  BY <1>1 DEF Once, Unreplayed

\* A handler that makes the posting it won.
LEMMA OncePosted ==
  ASSUME Once, NEW w \in Workers, Others(w), Posting(w), posted' = posted \cup {PostingOf(w)},
         Won \subseteq Won', befell \subseteq befell', ~Posting(w)'
  PROVE  Once'
<1>1. \A v \in Workers \ {w} : (Posting(v)' <=> Posting(v)) /\ PostingOf(v)' = PostingOf(v)
  BY DEF Others, Posting, PostingOf
<1> QED
  BY <1>1 DEF Once, Unreplayed

\* What changes in the ledger's fund account when a posting is made: its amount, if nobody has
\* made it before.
LEMMA PostMoves ==
  ASSUME Typed, NEW id, NEW c, NEW n \in Int, NEW p, NEW r, NEW k, Post(id, Deltas(c, n, p, r, k))
  PROVE  /\ posted' = posted \cup {id}
         /\ "fund" \in DOMAIN books' /\ books'.fund \in Int
         /\ id \notin posted => books'.fund = books.fund + n
BY DEF Typed, Post, Deltas

\* The row and gift conditions of the invariant while rows, or gifts, stay as they are.
LEMMA AddressedKept ==
  ASSUME Addressed, NEW w \in Workers, Others(w),
         /\ task'[w].step \in CreditSteps \cup RefundSteps \cup RefundedSteps \cup ExpireSteps =>
              task'[w].gift \in Gift
         /\ task'[w].step \in RefundSteps => task'[w].amount > 0
         /\ task'[w].step \in ApplySteps \cup CancelSteps => task'[w].row \in Rows
         /\ task'[w].step \in ReserveSteps => task'[w].user \in Users
  PROVE  Addressed'
BY DEF Addressed, Others

LEMMA OneSlotKept ==
  ASSUME OneSlot, \A r \in Rows : row'[r].status = row[r].status /\ row'[r].user = row[r].user
  PROVE  OneSlot'
BY DEF OneSlot

LEMMA AgedKept ==
  ASSUME Aged,
         \A g \in Gift : /\ gift'[g].status = gift[g].status /\ gift'[g].age = gift[g].age
                         /\ intent'[g] = intent[g]
  PROVE  Aged'
BY DEF Aged

\* Refunds on their way are recorded by their own handlers only.
LEMMA RecordedKept ==
  ASSUME Recorded, NEW w \in Workers, Others(w), befell \subseteq befell', UNCHANGED refunded,
         \A g \in Gift : gift'[g].refunded = gift[g].refunded,
         task[w].step # "refund_row", task'[w].step # "refund_row", Addressed
  PROVE  Recorded'
<1>1. \A g \in Gift : Recording(g) => Recording(g)'
  BY DEF Recording, Others
<1>2. \A v \in Workers : task'[v].step = "refund_row" =>
        task[v].step = "refund_row" /\ task'[v] = task[v] /\ task[v].gift \in Gift
  BY DEF Others, Addressed, RefundedSteps
<1> QED
  BY <1>1, <1>2 DEF Recorded, Unreplayed

\* The money the invariant follows, when gifts neither arrive nor go back.
LEMMA BackedKept ==
  ASSUME Typed, Typed', Backed, NEW w \in Workers, Others(w),
         \A g \in Gift : Waiting'[g] = Waiting[g] /\ Arrived'[g] = Arrived[g],
         pool' + AmountIn(Live)' + InHand'[w] <= pool + AmountIn(Live) + InHand[w]
  PROVE  Backed'
<1>1. pool \in Int /\ pool' \in Int /\ AmountIn(Live) \in Int /\ AmountIn(Live)' \in Int
  BY AmountType DEF Typed
<1>2. /\ SumFunction(InHand) \in Int /\ InHand[w] \in Nat /\ InHand'[w] \in Nat
      /\ SumFunction(InHand)' = SumFunction(InHand) - InHand[w] + InHand'[w]
  BY TaskSums
<1>3. /\ SumFunction(Waiting) \in Int /\ SumFunction(Arrived) \in Int
      /\ SumFunction(Waiting)' = SumFunction(Waiting) /\ SumFunction(Arrived)' = SumFunction(Arrived)
  BY GiftSumsKept
<1> QED
  BY <1>1, <1>2, <1>3 DEF Backed

LEMMA BookedKept ==
  ASSUME Typed, Typed', Booked, NEW w \in Workers, Others(w), befell \subseteq befell',
         befell' \cap {"crash", "refund_replayed", "expired_in_use"} = {} =>
           pool' + AmountIn({"reserved"})' - books'.fund - Ahead'[w]
             = pool + AmountIn({"reserved"}) - books.fund - Ahead[w]
  PROVE  Booked'
<1>1. pool \in Int /\ pool' \in Int /\ books.fund \in Int /\ books'.fund \in Int
  BY DEF Typed
<1>2. AmountIn({"reserved"}) \in Int /\ AmountIn({"reserved"})' \in Int
  BY AmountType
<1>3. /\ SumFunction(Ahead) \in Int /\ Ahead[w] \in Int /\ Ahead'[w] \in Int
      /\ SumFunction(Ahead)' = SumFunction(Ahead) - Ahead[w] + Ahead'[w]
  BY TaskSums
<1> QED
  BY <1>1, <1>2, <1>3 DEF Booked

\* A handler goes from one step to another, and nothing but the pool and the ledger changes.
LEMMA QuietStep ==
  ASSUME IInv, NEW w \in Workers, Others(w), task' \in [Workers -> Tasks],
         UNCHANGED <<intent, refunded, gift, row>>, befell \subseteq befell',
         pool' \in Nat, "fund" \in DOMAIN books', books'.fund \in Int,
         \/ task'[w].step = "idle"
         \/ /\ GoesOn(w, task'[w].step)
            /\ \/ task'[w].step \notin ReserveSteps \cup RefundSteps \cup ApplySteps \cup CancelSteps
               \/ task[w].step \in ReserveSteps /\ task'[w].step \in ReserveSteps
               \/ task[w].step \in RefundSteps /\ task'[w].step \in RefundSteps
               \/ task[w].step \in ApplySteps /\ task'[w].step \in ApplySteps
               \/ task[w].step \in CancelSteps /\ task'[w].step \in CancelSteps
            /\ \/ task'[w].step \notin CreditSteps \cup RefundedSteps \cup ExpireSteps
               \/ task[w].step \in CreditSteps \cup RefundedSteps \cup ExpireSteps,
         Once',
         task[w].step # "refund_row", task'[w].step # "refund_row",
         pool' + InHand'[w] <= pool + InHand[w],
         befell' \cap {"crash", "refund_replayed", "expired_in_use"} = {} =>
           pool' - books'.fund - Ahead'[w] = pool - books.fund - Ahead[w]
  PROVE  IInv'
<1>1. Typed'
  BY DEF IInv, Typed
<1>2. Addressed'
  BY AddressedKept
  DEF IInv, Addressed, GoesOn, ReserveSteps, RefundSteps, ApplySteps, CancelSteps,
     CreditSteps, RefundedSteps, ExpireSteps
<1>3. OneSlot'
  BY OneSlotKept DEF IInv
<1>4. Aged'
  BY AgedKept DEF IInv
<1>5. AmountIn(Live)' = AmountIn(Live) /\ AmountIn({"reserved"})' = AmountIn({"reserved"})
  BY RowSumsKept DEF IInv
<1>6. \A g \in Gift : Waiting'[g] = Waiting[g] /\ Arrived'[g] = Arrived[g]
  BY DEF Waiting, Arrived
<1>7. /\ AmountIn(Live) \in Int /\ AmountIn({"reserved"}) \in Int
      /\ InHand[w] \in Int /\ InHand'[w] \in Int /\ Ahead[w] \in Int /\ Ahead'[w] \in Int
  BY <1>1, AmountType, TaskSums DEF IInv
<1>8. /\ pool \in Int /\ pool' \in Int /\ books.fund \in Int /\ books'.fund \in Int
  BY DEF IInv, Typed
<1>9. Backed'
  <2>1. pool' + AmountIn(Live)' + InHand'[w] <= pool + AmountIn(Live) + InHand[w]
    BY <1>5, <1>7, <1>8
  <2> QED
    BY <2>1, <1>1, <1>6, BackedKept DEF IInv
<1>10. Booked'
  <2>1. befell' \cap {"crash", "refund_replayed", "expired_in_use"} = {} =>
           pool' + AmountIn({"reserved"})' - books'.fund - Ahead'[w]
             = pool + AmountIn({"reserved"}) - books.fund - Ahead[w]
    <3> SUFFICES ASSUME pool' - books'.fund - Ahead'[w] = pool - books.fund - Ahead[w]
                 PROVE  pool' + AmountIn({"reserved"}) - books'.fund - Ahead'[w]
                          = pool + AmountIn({"reserved"}) - books.fund - Ahead[w]
      BY <1>5
    <3> QED
      BY ONLY <1>7, <1>8, pool' - books'.fund - Ahead'[w] = pool - books.fund - Ahead[w]
  <2> QED
    BY <2>1, <1>1, BookedKept DEF IInv
<1>11. Recorded'
  BY RecordedKept DEF IInv
<1> QED
  BY <1>1, <1>2, <1>3, <1>4, <1>9, <1>10, <1>11 DEF IInv

(***************************************************************************)
(* The steps that change only the pool and the ledger.                     *)
(***************************************************************************)

LEMMA PoolSteps ==
  ASSUME IInv, NEW w \in Workers,
         CreditPool(w) \/ GiveBack(w) \/ CancelPool(w) \/ RefundRefused(w)
  PROVE  IInv'
<1>1. task[w].amount \in Nat /\ pool \in Nat /\ books.fund \in Int /\ "fund" \in DOMAIN books
  BY DEF IInv, Typed, Tasks
<1>2. Typed /\ Once
  BY DEF IInv
<1>3. pool' = pool + task[w].amount /\ UNCHANGED <<intent, refunded, gift, row, books, posted>>
  BY DEF CreditPool, GiveBack, CancelPool, RefundRefused, PoolBack
<1>4. befell' = befell
  BY DEF CreditPool, GiveBack, CancelPool, RefundRefused, Goto, Finish
<1>5. Won \subseteq Won'
  BY <1>3, WonGrows
<1>6. CASE CreditPool(w)
  <2>1. task[w].step = "credit_pool"
    BY <1>6 DEF CreditPool, At
  <2>2. GoesOn(w, "credit_books") /\ task' \in [Workers -> Tasks]
    BY <1>2, <1>6, GotoGoesOn DEF CreditPool, Goto, AllSteps, CreditSteps
  <2>3. task'[w].step = "credit_books" /\ task'[w].amount = task[w].amount /\ Others(w)
        /\ task'[w].gift = task[w].gift
    BY <2>2 DEF GoesOn
  <2>4. /\ InHand[w] = task[w].amount /\ InHand'[w] = 0
        /\ Ahead[w] = 0 /\ Ahead'[w] = task[w].amount
    BY <2>1, <2>3 DEF InHand, Ahead, RefundedSteps, ApplySteps
  <2>5. Once'
    <3>1. Posting(w) /\ PostingOf(w)' = PostingOf(w)
      BY <2>1, <2>3
         DEF Posting, PostingOf, CreditSteps, ApplySteps, CancelSteps, RefundedSteps,
             ExpireSteps
    <3> QED
      BY <1>2, <1>3, <1>4, <1>5, <2>3, <3>1, OnceKept
  <2> QED
    BY <1>1, <1>3, <1>4, <2>1, <2>2, <2>3, <2>4, <2>5, QuietStep
       DEF ReserveSteps, RefundSteps, ApplySteps, CancelSteps, CreditSteps
<1>7. CASE CancelPool(w)
  <2>1. task[w].step = "cancel_pool"
    BY <1>7 DEF CancelPool, At
  <2>2. GoesOn(w, "restore_find") /\ task' \in [Workers -> Tasks]
    BY <1>2, <1>7, GotoGoesOn DEF CancelPool, Goto, AllSteps, CancelSteps
  <2>3. task'[w].step = "restore_find" /\ task'[w].amount = task[w].amount /\ Others(w)
        /\ task'[w].row = task[w].row
    BY <2>2 DEF GoesOn
  <2>4. /\ InHand[w] = task[w].amount /\ InHand'[w] = 0
        /\ Ahead[w] = 0 /\ Ahead'[w] = task[w].amount
    BY <2>1, <2>3 DEF InHand, Ahead, RefundedSteps, ApplySteps
  <2>5. Once'
    <3>1. Posting(w) /\ PostingOf(w)' = PostingOf(w)
      BY <2>1, <2>3
         DEF Posting, PostingOf, CreditSteps, ApplySteps, CancelSteps, RefundedSteps,
             ExpireSteps
    <3> QED
      BY <1>2, <1>3, <1>4, <1>5, <2>3, <3>1, OnceKept
  <2> QED
    BY <1>1, <1>3, <1>4, <2>1, <2>2, <2>3, <2>4, <2>5, QuietStep
       DEF ReserveSteps, RefundSteps, ApplySteps, CancelSteps, CreditSteps, RefundedSteps,
           ExpireSteps
<1>8. CASE GiveBack(w)
  <2>1. task[w].step = "give_back"
    BY <1>8 DEF GiveBack, At
  <2>2. Ends(w) /\ task' \in [Workers -> Tasks]
    BY <1>2, <1>8, FinishEnds DEF GiveBack, Finish
  <2>3. task'[w].step = "idle" /\ Others(w)
    BY <2>2 DEF Ends
  <2>4. /\ InHand[w] = task[w].amount /\ InHand'[w] = 0
        /\ Ahead[w] = - task[w].amount /\ Ahead'[w] = 0
    BY <2>1, <2>3 DEF InHand, Ahead, RefundedSteps, ApplySteps
  <2>5. Once'
    <3>1. ~Posting(w)'
      BY <2>3 DEF Posting, CreditSteps, ApplySteps, CancelSteps, RefundedSteps, ExpireSteps
    <3> QED
      BY <1>2, <1>3, <1>4, <1>5, <2>3, <3>1, OnceKept
  <2> QED
    BY <1>1, <1>3, <1>4, <2>1, <2>2, <2>3, <2>4, <2>5, QuietStep
<1>9. CASE RefundRefused(w)
  <2>1. task[w].step = "refund_stripe"
    BY <1>9 DEF RefundRefused, At
  <2>2. GoesOn(w, "refund_undo") /\ task' \in [Workers -> Tasks]
    BY <1>2, <1>9, GotoGoesOn DEF RefundRefused, Goto, AllSteps, RefundSteps
  <2>3. task'[w].step = "refund_undo" /\ Others(w)
    BY <2>2 DEF GoesOn
  <2>4. /\ InHand[w] = task[w].amount /\ InHand'[w] = 0
        /\ Ahead[w] = - task[w].amount /\ Ahead'[w] = 0
    BY <2>1, <2>3 DEF InHand, Ahead, RefundedSteps, ApplySteps
  <2>5. Once'
    <3>1. ~Posting(w)'
      BY <2>3 DEF Posting, CreditSteps, ApplySteps, CancelSteps, RefundedSteps, ExpireSteps
    <3> QED
      BY <1>2, <1>3, <1>4, <1>5, <2>3, <3>1, OnceKept
  <2> QED
    BY <1>1, <1>3, <1>4, <2>1, <2>2, <2>3, <2>4, <2>5, QuietStep
       DEF ReserveSteps, RefundSteps, ApplySteps, CancelSteps, CreditSteps, RefundedSteps,
           ExpireSteps
<1> QED
  BY <1>6, <1>7, <1>8, <1>9

(***************************************************************************)
(* The steps that take from the pool if it can pay, and those that only    *)
(* look: a refused reservation, and the gifts a pass will walk.            *)
(***************************************************************************)

LEMMA ReservePoolStep ==
  ASSUME IInv, NEW w \in Workers, ReservePool(w)
  PROVE  IInv'
<1>1. task[w].amount \in Nat /\ pool \in Nat /\ books.fund \in Int /\ "fund" \in DOMAIN books
  BY DEF IInv, Typed, Tasks
<1>2. Typed /\ Once /\ task[w].step = "reserve_pool"
  BY DEF IInv, ReservePool, At
<1>3. UNCHANGED <<intent, refunded, gift, row, books, posted>>
  BY DEF ReservePool
<1>4. Won \subseteq Won'
  BY <1>3, WonGrows
<1>5. InHand[w] = 0 /\ Ahead[w] = 0
  BY <1>2 DEF InHand, Ahead, RefundedSteps, ApplySteps
<1>6. CASE PoolTake(w) /\ Goto(w, "reserve_row")
  <2>1. GoesOn(w, "reserve_row") /\ task' \in [Workers -> Tasks]
    BY <1>2, <1>6, GotoGoesOn DEF Goto, AllSteps, ReserveSteps
  <2>2. task'[w].step = "reserve_row" /\ task'[w].amount = task[w].amount /\ Others(w)
    BY <2>1 DEF GoesOn
  <2>3. InHand'[w] = task[w].amount /\ Ahead'[w] = - task[w].amount
    BY <2>2 DEF InHand, Ahead, RefundedSteps, ApplySteps
  <2>4. pool' = pool - task[w].amount /\ pool' \in Nat /\ befell' = befell
    BY <1>1, <1>6 DEF PoolTake, Goto
  <2>5. ~Posting(w)'
    BY <2>2 DEF Posting, CreditSteps, ApplySteps, CancelSteps, RefundedSteps, ExpireSteps
  <2>6. Once'
    BY <1>2, <1>3, <1>4, <2>2, <2>4, <2>5, OnceKept
  <2> QED
    BY <1>1, <1>2, <1>3, <1>5, <2>1, <2>2, <2>3, <2>4, <2>6, QuietStep
       DEF ReserveSteps, RefundSteps, ApplySteps, CancelSteps, CreditSteps, RefundedSteps,
          ExpireSteps
<1>7. CASE PoolShort(w) /\ Finish(w)
  <2>1. Ends(w) /\ task' \in [Workers -> Tasks]
    BY <1>2, <1>7, FinishEnds DEF Finish
  <2>2. task'[w].step = "idle" /\ Others(w)
    BY <2>1 DEF Ends
  <2>3. InHand'[w] = 0 /\ Ahead'[w] = 0
    BY <2>2 DEF InHand, Ahead, RefundedSteps, ApplySteps
  <2>4. pool' = pool /\ befell' = befell
    BY <1>7 DEF PoolShort, Finish
  <2>5. ~Posting(w)'
    BY <2>2 DEF Posting, CreditSteps, ApplySteps, CancelSteps, RefundedSteps, ExpireSteps
  <2>6. Once'
    BY <1>2, <1>3, <1>4, <2>2, <2>4, <2>5, OnceKept
  <2> QED
    BY <1>1, <1>2, <1>3, <1>5, <2>1, <2>2, <2>3, <2>4, <2>6, QuietStep
<1> QED
  BY <1>6, <1>7 DEF ReservePool

LEMMA RefundPoolStep ==
  ASSUME IInv, NEW w \in Workers, RefundPool(w)
  PROVE  IInv'
<1>1. task[w].amount \in Nat /\ pool \in Nat /\ books.fund \in Int /\ "fund" \in DOMAIN books
  BY DEF IInv, Typed, Tasks
<1>2. Typed /\ Once /\ task[w].step = "refund_pool"
  BY DEF IInv, RefundPool, At
<1>3. UNCHANGED <<intent, refunded, gift, row, books, posted>>
  BY DEF RefundPool
<1>4. Won \subseteq Won'
  BY <1>3, WonGrows
<1>5. InHand[w] = 0 /\ Ahead[w] = 0
  BY <1>2 DEF InHand, Ahead, RefundedSteps, ApplySteps
<1>6. CASE PoolTake(w) /\ Goto(w, "refund_claim")
  <2>1. GoesOn(w, "refund_claim") /\ task' \in [Workers -> Tasks]
    BY <1>2, <1>6, GotoGoesOn DEF Goto, AllSteps, RefundSteps
  <2>2. task'[w].step = "refund_claim" /\ task'[w].amount = task[w].amount /\ Others(w)
    BY <2>1 DEF GoesOn
  <2>3. InHand'[w] = task[w].amount /\ Ahead'[w] = - task[w].amount
    BY <2>2 DEF InHand, Ahead, RefundedSteps, ApplySteps
  <2>4. pool' = pool - task[w].amount /\ pool' \in Nat /\ befell' = befell
    BY <1>1, <1>6 DEF PoolTake, Goto
  <2>5. ~Posting(w)'
    BY <2>2 DEF Posting, CreditSteps, ApplySteps, CancelSteps, RefundedSteps, ExpireSteps
  <2>6. Once'
    BY <1>2, <1>3, <1>4, <2>2, <2>4, <2>5, OnceKept
  <2> QED
    BY <1>1, <1>2, <1>3, <1>5, <2>1, <2>2, <2>3, <2>4, <2>6, QuietStep
       DEF ReserveSteps, RefundSteps, ApplySteps, CancelSteps, CreditSteps, RefundedSteps,
          ExpireSteps
<1>7. CASE PoolShort(w) /\ Finish(w)
  <2>1. Ends(w) /\ task' \in [Workers -> Tasks]
    BY <1>2, <1>7, FinishEnds DEF Finish
  <2>2. task'[w].step = "idle" /\ Others(w)
    BY <2>1 DEF Ends
  <2>3. InHand'[w] = 0 /\ Ahead'[w] = 0
    BY <2>2 DEF InHand, Ahead, RefundedSteps, ApplySteps
  <2>4. pool' = pool /\ befell' = befell
    BY <1>7 DEF PoolShort, Finish
  <2>5. ~Posting(w)'
    BY <2>2 DEF Posting, CreditSteps, ApplySteps, CancelSteps, RefundedSteps, ExpireSteps
  <2>6. Once'
    BY <1>2, <1>3, <1>4, <2>2, <2>4, <2>5, OnceKept
  <2> QED
    BY <1>1, <1>2, <1>3, <1>5, <2>1, <2>2, <2>3, <2>4, <2>6, QuietStep
<1> QED
  BY <1>6, <1>7 DEF RefundPool

LEMMA ExpirePoolStep ==
  ASSUME IInv, NEW w \in Workers, ExpirePool(w)
  PROVE  IInv'
<1>1. task[w].amount \in Nat /\ pool \in Nat /\ books.fund \in Int /\ "fund" \in DOMAIN books
  BY DEF IInv, Typed, Tasks
<1>2. Typed /\ Once /\ task[w].step = "expire_pool"
  BY DEF IInv, ExpirePool, At
<1>3. UNCHANGED <<intent, refunded, gift, row, books, posted>>
  BY DEF ExpirePool
<1>4. Won \subseteq Won'
  BY <1>3, WonGrows
<1>5. GoesOn(w, "expire_books") /\ task' \in [Workers -> Tasks]
  BY <1>2, GotoGoesOn DEF ExpirePool, AllSteps, ExpireSteps
<1>6. task'[w].step = "expire_books" /\ task'[w].amount = task[w].amount /\ Others(w)
      /\ task'[w].gift = task[w].gift
  BY <1>5 DEF GoesOn
<1>7. InHand[w] = 0 /\ Ahead[w] = 0 /\ InHand'[w] = 0 /\ Ahead'[w] = - task[w].amount
  BY <1>2, <1>6 DEF InHand, Ahead, RefundedSteps, ApplySteps
<1>8. Posting(w) /\ PostingOf(w)' = PostingOf(w)
  BY <1>2, <1>6
     DEF Posting, PostingOf, CreditSteps, ApplySteps, CancelSteps, RefundedSteps, ExpireSteps
<1>9. \/ pool' = pool - task[w].amount /\ pool' \in Nat /\ befell' = befell
      \/ pool' = pool /\ befell' = befell \cup {"expired_in_use"}
  BY <1>1 DEF ExpirePool, PoolTake, PoolShort, Befalls
<1>10. Once'
  BY <1>2, <1>3, <1>4, <1>6, <1>8, <1>9, OnceKept
<1>11. /\ pool' \in Nat /\ pool' <= pool /\ befell \subseteq befell'
       /\ "expired_in_use" \notin befell' => pool' = pool - task[w].amount
  BY <1>1, <1>9
<1> QED
  BY <1>1, <1>2, <1>3, <1>5, <1>6, <1>7, <1>10, <1>11, QuietStep
     DEF ReserveSteps, RefundSteps, ApplySteps, CancelSteps, CreditSteps, RefundedSteps,
          ExpireSteps

LEMMA ReserveUndoStep ==
  ASSUME IInv, NEW w \in Workers, ReserveUndo(w)
  PROVE  IInv'
<1>1. task[w].amount \in Nat /\ pool \in Nat /\ books.fund \in Int /\ "fund" \in DOMAIN books
  BY DEF IInv, Typed, Tasks
<1>2. Typed /\ Once /\ task[w].step = "reserve_row"
  BY DEF IInv, ReserveUndo, At
<1>3. UNCHANGED <<intent, refunded, gift, row, pool, books, posted, befell>>
  BY DEF ReserveUndo, Goto
<1>4. Won \subseteq Won'
  BY <1>3, WonGrows
<1>5. GoesOn(w, "give_back") /\ task' \in [Workers -> Tasks]
  BY <1>2, GotoGoesOn DEF ReserveUndo, Goto, AllSteps
<1>6. task'[w].step = "give_back" /\ task'[w].amount = task[w].amount /\ Others(w)
  BY <1>5 DEF GoesOn
<1>7. InHand'[w] = InHand[w] /\ Ahead'[w] = Ahead[w] /\ InHand[w] \in Int /\ Ahead[w] \in Int
  BY <1>1, <1>2, <1>6 DEF InHand, Ahead, RefundedSteps, ApplySteps
<1>8. ~Posting(w)'
  BY <1>6 DEF Posting, CreditSteps, ApplySteps, CancelSteps, RefundedSteps, ExpireSteps
<1>9. Once'
  BY <1>2, <1>3, <1>4, <1>6, <1>8, OnceKept
<1> QED
  BY <1>1, <1>2, <1>3, <1>5, <1>6, <1>7, <1>9, QuietStep
     DEF ReserveSteps, RefundSteps, ApplySteps, CancelSteps, CreditSteps, RefundedSteps,
          ExpireSteps

\* What find() returns is some gifts and an amount on each.
LEMMA FindingsFound ==
  ASSUME Typed
  PROVE  /\ [g \in Spendable |-> gift[g].remaining] \in Findings
         /\ [g \in Drawn |-> Given[g] - gift[g].remaining] \in Findings
<1>1. \A g \in Gift : Given[g] \in Nat /\ gift[g].remaining \in Nat
  BY PayForwardAssumption DEF Typed, GiftRows, Gift
<1>2. [g \in Spendable |-> gift[g].remaining] \in [Spendable -> Nat] /\ Spendable \subseteq Gift
  BY <1>1 DEF Spendable
<1>3. [g \in Drawn |-> Given[g] - gift[g].remaining] \in [Drawn -> Nat] /\ Drawn \subseteq Gift
  BY <1>1 DEF Drawn
<1> QED
  BY <1>2, <1>3 DEF Findings

LEMMA ConsumeFindStep ==
  ASSUME IInv, NEW w \in Workers, ConsumeFind(w)
  PROVE  IInv'
<1>1. task[w].amount \in Nat /\ pool \in Nat /\ books.fund \in Int /\ "fund" \in DOMAIN books
  BY DEF IInv, Typed, Tasks
<1>2. Typed /\ Once /\ task[w].step = "consume_find" /\ task[w] \in Tasks
  BY DEF IInv, ConsumeFind, At, Typed
<1>3. UNCHANGED <<intent, refunded, gift, row, pool, books, posted, befell>>
  BY DEF ConsumeFind
<1>4. Won \subseteq Won'
  BY <1>3, WonGrows
<1>5. GoesOn(w, "consume") /\ task' \in [Workers -> Tasks]
  <2> DEFINE f == [g \in Spendable |-> gift[g].remaining]
             t == [task[w] EXCEPT !.step = "consume", !.left = task[w].amount, !.found = f]
  <2>1. task' = [task EXCEPT ![w] = t]
    BY DEF ConsumeFind
  <2>2. f \in Findings
    BY <1>2, FindingsFound
  <2>3. "consume" \in AllSteps
    BY DEF AllSteps, ApplySteps
  <2> HIDE DEF f
  <2>4. /\ t \in Tasks /\ t.step = "consume" /\ t.gift = task[w].gift /\ t.row = task[w].row
        /\ t.user = task[w].user /\ t.amount = task[w].amount
    BY <1>1, <1>2, <2>2, <2>3 DEF Tasks
  <2> HIDE DEF t
  <2> QED
    BY <1>2, <2>1, <2>4 DEF Typed, GoesOn, Others
<1>6. task'[w].step = "consume" /\ task'[w].amount = task[w].amount /\ Others(w)
      /\ task'[w].row = task[w].row
  BY <1>5 DEF GoesOn
<1>7. InHand'[w] = InHand[w] /\ Ahead'[w] = Ahead[w] /\ InHand[w] \in Int /\ Ahead[w] \in Int
  BY <1>1, <1>2, <1>6 DEF InHand, Ahead, RefundedSteps, ApplySteps
<1>8. Posting(w) /\ PostingOf(w)' = PostingOf(w)
  BY <1>2, <1>6
     DEF Posting, PostingOf, CreditSteps, ApplySteps, CancelSteps, RefundedSteps, ExpireSteps
<1>9. Once'
  BY <1>2, <1>3, <1>4, <1>6, <1>8, OnceKept
<1> QED
  BY <1>1, <1>2, <1>3, <1>5, <1>6, <1>7, <1>9, QuietStep
     DEF ReserveSteps, RefundSteps, ApplySteps, CancelSteps, CreditSteps, RefundedSteps,
          ExpireSteps

LEMMA RestoreFindStep ==
  ASSUME IInv, NEW w \in Workers, RestoreFind(w)
  PROVE  IInv'
<1>1. task[w].amount \in Nat /\ pool \in Nat /\ books.fund \in Int /\ "fund" \in DOMAIN books
  BY DEF IInv, Typed, Tasks
<1>2. Typed /\ Once /\ task[w].step = "restore_find" /\ task[w] \in Tasks
  BY DEF IInv, RestoreFind, At, Typed
<1>3. UNCHANGED <<intent, refunded, gift, row, pool, books, posted, befell>>
  BY DEF RestoreFind
<1>4. Won \subseteq Won'
  BY <1>3, WonGrows
<1>5. GoesOn(w, "restore") /\ task' \in [Workers -> Tasks]
  <2> DEFINE f == [g \in Drawn |-> Given[g] - gift[g].remaining]
             t == [task[w] EXCEPT !.step = "restore", !.left = task[w].amount, !.found = f]
  <2>1. task' = [task EXCEPT ![w] = t]
    BY DEF RestoreFind
  <2>2. f \in Findings
    BY <1>2, FindingsFound
  <2>3. "restore" \in AllSteps
    BY DEF AllSteps, CancelSteps
  <2> HIDE DEF f
  <2>4. /\ t \in Tasks /\ t.step = "restore" /\ t.gift = task[w].gift /\ t.row = task[w].row
        /\ t.user = task[w].user /\ t.amount = task[w].amount
    BY <1>1, <1>2, <2>2, <2>3 DEF Tasks
  <2> HIDE DEF t
  <2> QED
    BY <1>2, <2>1, <2>4 DEF Typed, GoesOn, Others
<1>6. task'[w].step = "restore" /\ task'[w].amount = task[w].amount /\ Others(w)
      /\ task'[w].row = task[w].row
  BY <1>5 DEF GoesOn
<1>7. InHand'[w] = InHand[w] /\ Ahead'[w] = Ahead[w] /\ InHand[w] \in Int /\ Ahead[w] \in Int
  BY <1>1, <1>2, <1>6 DEF InHand, Ahead, RefundedSteps, ApplySteps
<1>8. Posting(w) /\ PostingOf(w)' = PostingOf(w)
  BY <1>2, <1>6
     DEF Posting, PostingOf, CreditSteps, ApplySteps, CancelSteps, RefundedSteps, ExpireSteps
<1>9. Once'
  BY <1>2, <1>3, <1>4, <1>6, <1>8, OnceKept
<1> QED
  BY <1>1, <1>2, <1>3, <1>5, <1>6, <1>7, <1>9, QuietStep
     DEF ReserveSteps, RefundSteps, ApplySteps, CancelSteps, CreditSteps, RefundedSteps,
          ExpireSteps

(***************************************************************************)
(* The ledger's postings, and a handler's death.                           *)
(***************************************************************************)

LEMMA CreditBooksStep ==
  ASSUME IInv, NEW w \in Workers, CreditBooks(w)
  PROVE  IInv'
<1>1. task[w].amount \in Nat /\ pool \in Nat /\ books.fund \in Int
  BY DEF IInv, Typed, Tasks
<1>2. Typed /\ Once /\ task[w].step = "credit_books"
  BY DEF IInv, CreditBooks, At
<1>3. UNCHANGED <<intent, refunded, gift, row, pool>> /\ befell \subseteq befell'
      /\ ("refund_replayed" \in befell => "refund_replayed" \in befell')
  BY DEF CreditBooks, Finish, Befalls
<1>4. Won \subseteq Won'
  BY <1>3, WonGrows
<1>5. Ends(w) /\ task' \in [Workers -> Tasks]
  BY <1>2, FinishEnds DEF CreditBooks, Finish
<1>6. task'[w].step = "idle" /\ Others(w)
  BY <1>5 DEF Ends
<1>7. InHand[w] = 0 /\ InHand'[w] = 0 /\ Ahead[w] = task[w].amount /\ Ahead'[w] = 0
  BY <1>2, <1>6 DEF InHand, Ahead, RefundedSteps, ApplySteps
<1>8. Posting(w) /\ PostingOf(w) = <<"contribute", task[w].gift>> /\ ~Posting(w)'
  BY <1>2, <1>6
     DEF Posting, PostingOf, CreditSteps, ApplySteps, CancelSteps, RefundedSteps, ExpireSteps
<1>9. /\ posted' = posted \cup {PostingOf(w)}
      /\ "fund" \in DOMAIN books' /\ books'.fund \in Int
      /\ PostingOf(w) \notin posted => books'.fund = books.fund + task[w].amount
  <2> DEFINE n == task[w].amount
             fee == task[w].fee
  <2>1. Post(<<"contribute", task[w].gift>>, Deltas(n, n, 0, 0, 0))
    BY DEF CreditBooks
  <2>2. n \in Int /\ -n \in Int
    BY <1>1
  <2> HIDE DEF n, fee
  <2>3. /\ posted' = posted \cup {<<"contribute", task[w].gift>>}
        /\ "fund" \in DOMAIN books' /\ books'.fund \in Int
        /\ <<"contribute", task[w].gift>> \notin posted => books'.fund = books.fund + n
    BY <1>2, <2>1, <2>2, PostMoves
  <2> QED
    BY <1>8, <2>3 DEF n
<1>10. Once'
  BY <1>2, <1>3, <1>4, <1>6, <1>8, <1>9, OncePosted
<1>11. befell' \cap {"crash", "refund_replayed", "expired_in_use"} = {} =>
         pool' - books'.fund - Ahead'[w] = pool - books.fund - Ahead[w]
  <2>1. befell' \cap {"crash", "refund_replayed", "expired_in_use"} = {} => PostingOf(w) \notin posted
    BY <1>2, <1>3, <1>8 DEF Once, Unreplayed
  <2> QED
    BY <1>1, <1>3, <1>7, <1>9, <2>1
<1> QED
  BY <1>1, <1>2, <1>3, <1>5, <1>6, <1>7, <1>9, <1>10, <1>11, QuietStep

LEMMA ApplyBooksStep ==
  ASSUME IInv, NEW w \in Workers, ApplyBooks(w)
  PROVE  IInv'
<1>1. task[w].amount \in Nat /\ pool \in Nat /\ books.fund \in Int
  BY DEF IInv, Typed, Tasks
<1>2. Typed /\ Once /\ task[w].step = "consume"
  BY DEF IInv, ApplyBooks, At
<1>3. UNCHANGED <<intent, refunded, gift, row, pool>> /\ befell \subseteq befell'
      /\ ("refund_replayed" \in befell => "refund_replayed" \in befell')
  BY DEF ApplyBooks, Finish, Befalls
<1>4. Won \subseteq Won'
  BY <1>3, WonGrows
<1>5. Ends(w) /\ task' \in [Workers -> Tasks]
  BY <1>2, FinishEnds DEF ApplyBooks, Finish
<1>6. task'[w].step = "idle" /\ Others(w)
  BY <1>5 DEF Ends
<1>7. InHand[w] = 0 /\ InHand'[w] = 0 /\ Ahead[w] = -task[w].amount /\ Ahead'[w] = 0
  BY <1>2, <1>6 DEF InHand, Ahead, RefundedSteps, ApplySteps
<1>8. Posting(w) /\ PostingOf(w) = <<"redeem", task[w].row>> /\ ~Posting(w)'
  BY <1>2, <1>6
     DEF Posting, PostingOf, CreditSteps, ApplySteps, CancelSteps, RefundedSteps, ExpireSteps
<1>9. /\ posted' = posted \cup {PostingOf(w)}
      /\ "fund" \in DOMAIN books' /\ books'.fund \in Int
      /\ PostingOf(w) \notin posted => books'.fund = books.fund + (-task[w].amount)
  <2> DEFINE n == task[w].amount
             fee == task[w].fee
  <2>1. Post(<<"redeem", task[w].row>>, Deltas(0, -n, n - fee, fee, 0))
    BY DEF ApplyBooks
  <2>2. n \in Int /\ -n \in Int
    BY <1>1
  <2> HIDE DEF n, fee
  <2>3. /\ posted' = posted \cup {<<"redeem", task[w].row>>}
        /\ "fund" \in DOMAIN books' /\ books'.fund \in Int
        /\ <<"redeem", task[w].row>> \notin posted => books'.fund = books.fund + (-n)
    BY <1>2, <2>1, <2>2, PostMoves
  <2> QED
    BY <1>8, <2>3 DEF n
<1>10. Once'
  BY <1>2, <1>3, <1>4, <1>6, <1>8, <1>9, OncePosted
<1>11. befell' \cap {"crash", "refund_replayed", "expired_in_use"} = {} =>
         pool' - books'.fund - Ahead'[w] = pool - books.fund - Ahead[w]
  <2>1. befell' \cap {"crash", "refund_replayed", "expired_in_use"} = {} => PostingOf(w) \notin posted
    BY <1>2, <1>3, <1>8 DEF Once, Unreplayed
  <2> QED
    BY <1>1, <1>3, <1>7, <1>9, <2>1
<1> QED
  BY <1>1, <1>2, <1>3, <1>5, <1>6, <1>7, <1>9, <1>10, <1>11, QuietStep

LEMMA CancelBooksStep ==
  ASSUME IInv, NEW w \in Workers, CancelBooks(w)
  PROVE  IInv'
<1>1. task[w].amount \in Nat /\ pool \in Nat /\ books.fund \in Int
  BY DEF IInv, Typed, Tasks
<1>2. Typed /\ Once /\ task[w].step = "restore"
  BY DEF IInv, CancelBooks, At
<1>3. UNCHANGED <<intent, refunded, gift, row, pool>> /\ befell \subseteq befell'
      /\ ("refund_replayed" \in befell => "refund_replayed" \in befell')
  BY DEF CancelBooks, Finish, Befalls
<1>4. Won \subseteq Won'
  BY <1>3, WonGrows
<1>5. Ends(w) /\ task' \in [Workers -> Tasks]
  BY <1>2, FinishEnds DEF CancelBooks, Finish
<1>6. task'[w].step = "idle" /\ Others(w)
  BY <1>5 DEF Ends
<1>7. InHand[w] = 0 /\ InHand'[w] = 0 /\ Ahead[w] = task[w].amount /\ Ahead'[w] = 0
  BY <1>2, <1>6 DEF InHand, Ahead, RefundedSteps, ApplySteps
<1>8. Posting(w) /\ PostingOf(w) = <<"redeem_reverse", task[w].row>> /\ ~Posting(w)'
  BY <1>2, <1>6
     DEF Posting, PostingOf, CreditSteps, ApplySteps, CancelSteps, RefundedSteps, ExpireSteps
<1>9. /\ posted' = posted \cup {PostingOf(w)}
      /\ "fund" \in DOMAIN books' /\ books'.fund \in Int
      /\ PostingOf(w) \notin posted => books'.fund = books.fund + task[w].amount
  <2> DEFINE n == task[w].amount
             fee == task[w].fee
  <2>1. Post(<<"redeem_reverse", task[w].row>>, Deltas(0, n, fee - n, -fee, 0))
    BY DEF CancelBooks
  <2>2. n \in Int /\ -n \in Int
    BY <1>1
  <2> HIDE DEF n, fee
  <2>3. /\ posted' = posted \cup {<<"redeem_reverse", task[w].row>>}
        /\ "fund" \in DOMAIN books' /\ books'.fund \in Int
        /\ <<"redeem_reverse", task[w].row>> \notin posted => books'.fund = books.fund + n
    BY <1>2, <2>1, <2>2, PostMoves
  <2> QED
    BY <1>8, <2>3 DEF n
<1>10. Once'
  BY <1>2, <1>3, <1>4, <1>6, <1>8, <1>9, OncePosted
<1>11. befell' \cap {"crash", "refund_replayed", "expired_in_use"} = {} =>
         pool' - books'.fund - Ahead'[w] = pool - books.fund - Ahead[w]
  <2>1. befell' \cap {"crash", "refund_replayed", "expired_in_use"} = {} => PostingOf(w) \notin posted
    BY <1>2, <1>3, <1>8 DEF Once, Unreplayed
  <2> QED
    BY <1>1, <1>3, <1>7, <1>9, <2>1
<1> QED
  BY <1>1, <1>2, <1>3, <1>5, <1>6, <1>7, <1>9, <1>10, <1>11, QuietStep

LEMMA RefundBooksStep ==
  ASSUME IInv, NEW w \in Workers, RefundBooks(w)
  PROVE  IInv'
<1>1. task[w].amount \in Nat /\ pool \in Nat /\ books.fund \in Int
  BY DEF IInv, Typed, Tasks
<1>2. Typed /\ Once /\ task[w].step = "refund_books"
  BY DEF IInv, RefundBooks, At
<1>3. UNCHANGED <<intent, refunded, gift, row, pool>> /\ befell \subseteq befell'
      /\ ("refund_replayed" \in befell => "refund_replayed" \in befell')
  BY DEF RefundBooks, Finish, Befalls
<1>4. Won \subseteq Won'
  BY <1>3, WonGrows
<1>5. Ends(w) /\ task' \in [Workers -> Tasks]
  BY <1>2, FinishEnds DEF RefundBooks, Finish
<1>6. task'[w].step = "idle" /\ Others(w)
  BY <1>5 DEF Ends
<1>7. InHand[w] = 0 /\ InHand'[w] = 0 /\ Ahead[w] = -task[w].amount /\ Ahead'[w] = 0
  BY <1>2, <1>6 DEF InHand, Ahead, RefundedSteps, ApplySteps
<1>8. Posting(w) /\ PostingOf(w) = <<"refund", task[w].gift>> /\ ~Posting(w)'
  BY <1>2, <1>6
     DEF Posting, PostingOf, CreditSteps, ApplySteps, CancelSteps, RefundedSteps, ExpireSteps
<1>9. /\ posted' = posted \cup {PostingOf(w)}
      /\ "fund" \in DOMAIN books' /\ books'.fund \in Int
      /\ PostingOf(w) \notin posted => books'.fund = books.fund + (-task[w].amount)
  <2> DEFINE n == task[w].amount
             fee == task[w].fee
  <2>1. Post(<<"refund", task[w].gift>>, Deltas(-n, -n, 0, 0, 0))
    BY DEF RefundBooks
  <2>2. n \in Int /\ -n \in Int
    BY <1>1
  <2> HIDE DEF n, fee
  <2>3. /\ posted' = posted \cup {<<"refund", task[w].gift>>}
        /\ "fund" \in DOMAIN books' /\ books'.fund \in Int
        /\ <<"refund", task[w].gift>> \notin posted => books'.fund = books.fund + (-n)
    BY <1>2, <2>1, <2>2, PostMoves
  <2> QED
    BY <1>8, <2>3 DEF n
<1>10. Once'
  BY <1>2, <1>3, <1>4, <1>6, <1>8, <1>9, OncePosted
<1>11. befell' \cap {"crash", "refund_replayed", "expired_in_use"} = {} =>
         pool' - books'.fund - Ahead'[w] = pool - books.fund - Ahead[w]
  <2>1. befell' \cap {"crash", "refund_replayed", "expired_in_use"} = {} => PostingOf(w) \notin posted
    BY <1>2, <1>3, <1>8 DEF Once, Unreplayed
  <2> QED
    BY <1>1, <1>3, <1>7, <1>9, <2>1
<1> QED
  BY <1>1, <1>2, <1>3, <1>5, <1>6, <1>7, <1>9, <1>10, <1>11, QuietStep

LEMMA ExpireBooksStep ==
  ASSUME IInv, NEW w \in Workers, ExpireBooks(w)
  PROVE  IInv'
<1>1. task[w].amount \in Nat /\ pool \in Nat /\ books.fund \in Int
  BY DEF IInv, Typed, Tasks
<1>2. Typed /\ Once /\ task[w].step = "expire_books"
  BY DEF IInv, ExpireBooks, At
<1>3. UNCHANGED <<intent, refunded, gift, row, pool>> /\ befell \subseteq befell'
      /\ ("refund_replayed" \in befell => "refund_replayed" \in befell')
  BY DEF ExpireBooks, Finish, Befalls
<1>4. Won \subseteq Won'
  BY <1>3, WonGrows
<1>5. Ends(w) /\ task' \in [Workers -> Tasks]
  BY <1>2, FinishEnds DEF ExpireBooks, Finish
<1>6. task'[w].step = "idle" /\ Others(w)
  BY <1>5 DEF Ends
<1>7. InHand[w] = 0 /\ InHand'[w] = 0 /\ Ahead[w] = -task[w].amount /\ Ahead'[w] = 0
  BY <1>2, <1>6 DEF InHand, Ahead, RefundedSteps, ApplySteps
<1>8. Posting(w) /\ PostingOf(w) = <<"expire", task[w].gift>> /\ ~Posting(w)'
  BY <1>2, <1>6
     DEF Posting, PostingOf, CreditSteps, ApplySteps, CancelSteps, RefundedSteps, ExpireSteps
<1>9. /\ posted' = posted \cup {PostingOf(w)}
      /\ "fund" \in DOMAIN books' /\ books'.fund \in Int
      /\ PostingOf(w) \notin posted => books'.fund = books.fund + (-task[w].amount)
  <2> DEFINE n == task[w].amount
             fee == task[w].fee
  <2>1. Post(<<"expire", task[w].gift>>, Deltas(0, -n, 0, 0, n))
    BY DEF ExpireBooks
  <2>2. n \in Int /\ -n \in Int
    BY <1>1
  <2> HIDE DEF n, fee
  <2>3. /\ posted' = posted \cup {<<"expire", task[w].gift>>}
        /\ "fund" \in DOMAIN books' /\ books'.fund \in Int
        /\ <<"expire", task[w].gift>> \notin posted => books'.fund = books.fund + (-n)
    BY <1>2, <2>1, <2>2, PostMoves
  <2> QED
    BY <1>8, <2>3 DEF n
<1>10. Once'
  BY <1>2, <1>3, <1>4, <1>6, <1>8, <1>9, OncePosted
<1>11. befell' \cap {"crash", "refund_replayed", "expired_in_use"} = {} =>
         pool' - books'.fund - Ahead'[w] = pool - books.fund - Ahead[w]
  <2>1. befell' \cap {"crash", "refund_replayed", "expired_in_use"} = {} => PostingOf(w) \notin posted
    BY <1>2, <1>3, <1>8 DEF Once, Unreplayed
  <2> QED
    BY <1>1, <1>3, <1>7, <1>9, <2>1
<1> QED
  BY <1>1, <1>2, <1>3, <1>5, <1>6, <1>7, <1>9, <1>10, <1>11, QuietStep

\* A handler that dies drops what it had in hand.
LEMMA CrashStep ==
  ASSUME IInv, NEW w \in Workers, Crash(w)
  PROVE  IInv'
<1>1. UNCHANGED <<intent, refunded, gift, row, pool, books, posted>> /\ befell' = befell \cup {"crash"}
  BY DEF Crash, Befalls
<1>2. Typed /\ Once /\ Addressed /\ Recorded /\ OneSlot /\ Aged /\ Backed
  BY DEF IInv
<1>3. Ends(w) /\ task' \in [Workers -> Tasks]
  BY <1>2, FinishEnds DEF Crash
<1>4. task'[w].step = "idle" /\ Others(w)
  BY <1>3 DEF Ends
<1>5. Typed'
  BY <1>1, <1>2, <1>3 DEF Typed
<1>6. Addressed'
  BY <1>2, <1>4, AddressedKept
     DEF ReserveSteps, RefundSteps, ApplySteps, CancelSteps, CreditSteps, RefundedSteps,
          ExpireSteps
<1>7. OneSlot' /\ Aged'
  BY <1>1, <1>2, OneSlotKept, AgedKept
<1>8. Once'
  <2>1. Won \subseteq Won'
    BY <1>1, WonGrows
  <2>2. ~Posting(w)'
    BY <1>4 DEF Posting, CreditSteps, ApplySteps, CancelSteps, RefundedSteps, ExpireSteps
  <2> QED
    BY <1>1, <1>2, <1>4, <2>1, <2>2, OnceKept
<1>9. Backed'
  <2>1. AmountIn(Live)' = AmountIn(Live)
    BY <1>1, <1>2, RowSumsKept
  <2>2. \A g \in Gift : Waiting'[g] = Waiting[g] /\ Arrived'[g] = Arrived[g]
    BY <1>1 DEF Waiting, Arrived
  <2>3. AmountIn(Live) \in Int /\ pool \in Int /\ InHand[w] \in Nat /\ InHand'[w] = 0
    <3>1. InHand'[w] = 0
      BY <1>4 DEF InHand
    <3> QED
      BY <1>2, <1>4, <1>5, <3>1, AmountType, TaskSums DEF Typed
  <2>4. pool' + AmountIn(Live)' + InHand'[w] <= pool + AmountIn(Live) + InHand[w]
    BY <1>1, <2>1, <2>3
  <2> QED
    BY <1>2, <1>4, <1>5, <2>2, <2>4, BackedKept
<1>10. Booked'
  BY <1>1 DEF Booked
<1>11. Recorded'
  BY <1>1 DEF Recorded
<1> QED
  BY <1>5, <1>6, <1>7, <1>8, <1>9, <1>10, <1>11 DEF IInv

(***************************************************************************)
(* What happens outside: a gift is promised, its card is charged or not,   *)
(* it fails, and time passes.                                              *)
(***************************************************************************)

\* Gift g changes, and no handler does anything: nothing leaves that did not arrive.
LEMMA OutsideStep ==
  ASSUME IInv, NEW g \in Gift, Typed', UNCHANGED <<refunded, row, pool, books, posted, task>>,
         befell \subseteq befell', OneSlot', Aged',
         \A h \in Gift : gift[h].status = "succeeded" => gift'[h].status = "succeeded",
         \A h \in Gift : gift[h].age = "expired" => gift'[h].age = "expired",
         \A h \in Gift : gift'[h].refunded = gift[h].refunded,
         \A h \in Gift \ {g} : Waiting'[h] = Waiting[h] /\ Arrived'[h] = Arrived[h],
         Waiting[g] \in Int, Waiting'[g] \in Int, Arrived[g] \in Int, Arrived'[g] \in Int,
         Waiting'[g] - Arrived'[g] <= Waiting[g] - Arrived[g]
  PROVE  IInv'
<1>1. Typed /\ Addressed /\ Backed /\ Once /\ Booked /\ Recorded
  BY DEF IInv
<1>2. Addressed'
  BY <1>1 DEF Addressed
<1>3. Once'
  <2>1. Won \subseteq Won'
    BY WonGrows
  <2> QED
    BY <1>1, <2>1, OnceKeptOutside
<1>4. AmountIn(Live)' = AmountIn(Live) /\ AmountIn({"reserved"})' = AmountIn({"reserved"})
  BY <1>1, RowSumsKept
<1>5. SumFunction(InHand)' = SumFunction(InHand) /\ SumFunction(Ahead)' = SumFunction(Ahead)
  BY DEF InHand, Ahead
<1>6. Booked'
  BY <1>1, <1>4, <1>5 DEF Booked
<1>7. Backed'
  <2>1. AmountIn(Live) \in Int /\ pool \in Int
    BY <1>1, AmountType DEF Typed
  <2>2. SumFunction(InHand) \in Int
    <3> DEFINE f == InHand
    <3>1. \A w \in Workers : f[w] \in Int
      BY <1>1 DEF InHand, Typed, Tasks
    <3>2. SumFunction(f) = SumFunctionOnSet(f, Workers)
      BY DEF SumFunction, InHand
    <3> HIDE DEF f
    <3>3. SumFunction(f) \in Int
      BY <3>1, <3>2, SumTakeOut, PayForwardAssumption
    <3> QED
      BY <3>3 DEF f
  <2>3. /\ SumFunction(Waiting) \in Int /\ SumFunction(Arrived) \in Int
        /\ SumFunction(Waiting)' = SumFunction(Waiting) - Waiting[g] + Waiting'[g]
        /\ SumFunction(Arrived)' = SumFunction(Arrived) - Arrived[g] + Arrived'[g]
    BY <1>1, GiftSums
  <2>4. pool + AmountIn(Live) + SumFunction(InHand) + SumFunction(Waiting) <= SumFunction(Arrived)
    BY <1>1 DEF Backed
  <2>5. pool + AmountIn(Live) + SumFunction(InHand) + (SumFunction(Waiting) - Waiting[g] + Waiting'[g])
          <= SumFunction(Arrived) - Arrived[g] + Arrived'[g]
    BY <2>1, <2>2, <2>3, <2>4
  <2> QED
    BY <1>4, <1>5, <2>3, <2>5 DEF Backed
<1>8. Recorded'
  <2>1. \A h \in Gift : Recording(h) => Recording(h)'
    BY DEF Recording
  <2>2. \A w \in Workers : task[w].step = "refund_row" => task[w].gift \in Gift
    BY <1>1 DEF Addressed, RefundedSteps
  <2> QED
    BY <1>1, <2>1, <2>2 DEF Recorded, Unreplayed
<1> QED
  BY <1>1, <1>2, <1>3, <1>6, <1>7, <1>8 DEF IInv

\* Gift g with some fields changed.
LEMMA GiftEdit ==
  ASSUME Typed, NEW g \in Gift, NEW new \in GiftRows, gift' = [gift EXCEPT ![g] = new]
  PROVE  /\ gift' \in [Gift -> GiftRows] /\ gift'[g] = new
         /\ \A h \in Gift \ {g} : gift'[h] = gift[h]
BY DEF Typed

LEMMA ContributeStep ==
  ASSUME IInv, NEW g \in Gift, Contribute(g)
  PROVE  IInv'
<1>1. Typed /\ OneSlot /\ Aged /\ gift[g].status = "none" /\ intent[g] = "none"
  BY DEF IInv, Contribute, Aged
<1>2. Given[g] \in Nat /\ gift[g] \in GiftRows
  BY <1>1, PayForwardAssumption DEF Typed, Gift
<1> DEFINE new == [gift[g] EXCEPT !.status = "pending", !.remaining = Given[g]]
<1>3. new \in GiftRows /\ new.status = "pending" /\ new.age = gift[g].age /\ new.refunded = gift[g].refunded
  BY <1>2 DEF GiftRows
<1>4. gift' = [gift EXCEPT ![g] = new]
  BY DEF Contribute
<1> HIDE DEF new
<1>5. /\ gift' \in [Gift -> GiftRows] /\ gift'[g] = new
      /\ \A h \in Gift \ {g} : gift'[h] = gift[h]
  BY <1>1, <1>3, <1>4, GiftEdit
<1>6. /\ intent'[g] = "open" /\ \A h \in Gift \ {g} : intent'[h] = intent[h]
      /\ intent' \in [Gift -> {"none", "open", "declined", "succeeded", "canceled"}]
  BY <1>1 DEF Contribute, Typed
<1>7. UNCHANGED <<refunded, row, pool, books, posted, task, befell>>
  BY DEF Contribute
<1>8. Typed'
  BY <1>1, <1>5, <1>6, <1>7 DEF Typed
<1>9. OneSlot'
  BY <1>1, <1>7, OneSlotKept
<1>10. Aged'
  BY <1>1, <1>3, <1>5, <1>6 DEF Aged
<1>11. \A h \in Gift : gift'[h].refunded = gift[h].refunded
  BY <1>3, <1>5
<1>12. \A h \in Gift \ {g} : Waiting'[h] = Waiting[h] /\ Arrived'[h] = Arrived[h]
  BY <1>5, <1>6, <1>7 DEF Waiting, Arrived
<1>13. Waiting[g] = 0 /\ Waiting'[g] = 0 /\ Arrived[g] = - refunded[g] /\ Arrived'[g] = - refunded[g]
       /\ refunded[g] \in Nat
  BY <1>1, <1>6, <1>7 DEF Waiting, Arrived, Typed
<1>14. \A h \in Gift : /\ gift[h].status = "succeeded" => gift'[h].status = "succeeded"
                       /\ gift[h].age = "expired" => gift'[h].age = "expired"
  BY <1>1, <1>3, <1>5 DEF Aged
<1> QED
  BY <1>7, <1>8, <1>9, <1>10, <1>11, <1>12, <1>13, <1>14, OutsideStep

LEMMA SettleStep ==
  ASSUME IInv, NEW g \in Gift, NEW o \in {"succeeded", "canceled", "declined"}, Settle(g, o)
  PROVE  IInv'
<1>1. Typed /\ OneSlot /\ Aged /\ intent[g] \in {"open", "declined"}
  BY DEF IInv, Settle
<1>2. Given[g] \in Nat /\ refunded[g] \in Nat
  BY <1>1, PayForwardAssumption DEF Typed, Gift
<1>3. /\ intent'[g] = o /\ \A h \in Gift \ {g} : intent'[h] = intent[h]
      /\ intent' \in [Gift -> {"none", "open", "declined", "succeeded", "canceled"}]
  BY <1>1 DEF Settle, Typed
<1>4. UNCHANGED <<refunded, gift, row, pool, books, posted, task>> /\ befell \subseteq befell'
  BY DEF Settle, Befalls
<1>5. Typed'
  BY <1>1, <1>3, <1>4 DEF Typed
<1>6. OneSlot'
  BY <1>1, <1>4, OneSlotKept
<1>7. Aged'
  BY <1>1, <1>3, <1>4 DEF Aged
<1>8. \A h \in Gift \ {g} : Waiting'[h] = Waiting[h] /\ Arrived'[h] = Arrived[h]
  BY <1>3, <1>4 DEF Waiting, Arrived
<1>9. /\ Waiting[g] = 0 /\ Arrived[g] = - refunded[g]
      /\ Arrived'[g] = (IF o = "succeeded" THEN Given[g] ELSE 0) - refunded[g]
      /\ Waiting'[g] \in {0, IF o = "succeeded" THEN Given[g] ELSE 0}
  BY <1>1, <1>2, <1>3, <1>4 DEF Waiting, Arrived
<1>10. /\ Waiting[g] \in Int /\ Waiting'[g] \in Int /\ Arrived[g] \in Int /\ Arrived'[g] \in Int
       /\ Waiting'[g] - Arrived'[g] <= Waiting[g] - Arrived[g]
  BY <1>2, <1>9
<1> QED
  BY <1>4, <1>5, <1>6, <1>7, <1>8, <1>10, OutsideStep

LEMMA GiftEndsStep ==
  ASSUME IInv, NEW g \in Gift, FailGift(g) \/ Age(g)
  PROVE  IInv'
<1>1. Typed /\ OneSlot /\ Aged /\ gift[g] \in GiftRows
  BY DEF IInv, Typed
<1> DEFINE failed == [gift[g] EXCEPT !.status = "failed"]
           aged == [gift[g] EXCEPT !.age = "stale"]
<1>2. /\ failed \in GiftRows /\ failed.status = "failed" /\ failed.age = gift[g].age
      /\ failed.refunded = gift[g].refunded
      /\ aged \in GiftRows /\ aged.status = gift[g].status /\ aged.age = "stale"
      /\ aged.refunded = gift[g].refunded
  BY <1>1 DEF GiftRows
<1>3. \/ /\ gift' = [gift EXCEPT ![g] = failed]
         /\ gift[g].status = "pending" /\ intent[g] # "succeeded"
      \/ gift' = [gift EXCEPT ![g] = aged] /\ gift[g].age = "fresh"
  BY DEF FailGift, Age
<1> HIDE DEF failed, aged
<1>4. /\ gift' \in [Gift -> GiftRows] /\ \A h \in Gift \ {g} : gift'[h] = gift[h]
      /\ \/ gift'[g] = failed /\ gift[g].status = "pending" /\ intent[g] # "succeeded"
         \/ gift'[g] = aged /\ gift[g].age = "fresh"
  BY <1>1, <1>2, <1>3, GiftEdit
<1>5. UNCHANGED <<intent, refunded, row, pool, books, posted, task, befell>>
  BY DEF FailGift, Age
<1>6. Typed'
  BY <1>1, <1>4, <1>5 DEF Typed
<1>7. OneSlot'
  BY <1>1, <1>5, OneSlotKept
<1>8. Aged'
  BY <1>1, <1>2, <1>4, <1>5 DEF Aged
<1>9. \A h \in Gift : Waiting'[h] = Waiting[h] /\ Arrived'[h] = Arrived[h]
  BY <1>2, <1>4, <1>5 DEF Waiting, Arrived
<1>10. Waiting[g] \in Int /\ Arrived[g] \in Int
  BY <1>1, PayForwardAssumption DEF Waiting, Arrived, Typed, Gift
<1>11. \A h \in Gift : /\ gift[h].status = "succeeded" => gift'[h].status = "succeeded"
                       /\ gift[h].age = "expired" => gift'[h].age = "expired"
                       /\ gift'[h].refunded = gift[h].refunded
  BY <1>1, <1>2, <1>4 DEF Aged
<1> QED
  BY <1>5, <1>6, <1>7, <1>8, <1>9, <1>10, <1>11, OutsideStep

(***************************************************************************)
(* An operation claims its redemption row, its gift, or neither.           *)
(***************************************************************************)

\* The money the invariant follows, when gift g changes too.
LEMMA BackedMoves ==
  ASSUME Typed, Typed', Backed, NEW w \in Workers, Others(w), NEW g \in Gift,
         \A h \in Gift \ {g} : Waiting'[h] = Waiting[h] /\ Arrived'[h] = Arrived[h],
         Waiting[g] \in Int, Waiting'[g] \in Int, Arrived[g] \in Int, Arrived'[g] \in Int,
         UNCHANGED <<pool, row>>,
         InHand'[w] + Waiting'[g] - Arrived'[g] <= InHand[w] + Waiting[g] - Arrived[g]
  PROVE  Backed'
<1>1. pool \in Int /\ AmountIn(Live) \in Int /\ AmountIn(Live)' = AmountIn(Live)
  BY AmountType, RowSumsKept DEF Typed
<1>2. /\ SumFunction(InHand) \in Int /\ InHand[w] \in Nat /\ InHand'[w] \in Nat
      /\ SumFunction(InHand)' = SumFunction(InHand) - InHand[w] + InHand'[w]
  BY TaskSums
<1>3. /\ SumFunction(Waiting) \in Int /\ SumFunction(Arrived) \in Int
      /\ SumFunction(Waiting)' = SumFunction(Waiting) - Waiting[g] + Waiting'[g]
      /\ SumFunction(Arrived)' = SumFunction(Arrived) - Arrived[g] + Arrived'[g]
  BY GiftSums
<1>4. pool + AmountIn(Live) + SumFunction(InHand) + SumFunction(Waiting) <= SumFunction(Arrived)
  BY DEF Backed
<1>5. pool + AmountIn(Live) + (SumFunction(InHand) - InHand[w] + InHand'[w])
        + (SumFunction(Waiting) - Waiting[g] + Waiting'[g])
        <= SumFunction(Arrived) - Arrived[g] + Arrived'[g]
  BY <1>1, <1>2, <1>3, <1>4
<1> QED
  BY <1>1, <1>2, <1>3, <1>5 DEF Backed

\* Redemption row r with some fields changed.
LEMMA RowEdit ==
  ASSUME Typed, NEW r \in Rows, NEW new \in RedemptionRows, row' = [row EXCEPT ![r] = new]
  PROVE  row' \in [Rows -> RedemptionRows] /\ row'[r] = new /\ OtherRows(r)
BY DEF Typed, OtherRows

LEMMA StatusEdit ==
  ASSUME Typed, NEW r \in Rows, NEW st \in Live \cup {"none", "released", "refunded"},
         row' = [row EXCEPT ![r].status = st]
  PROVE  /\ row' \in [Rows -> RedemptionRows] /\ OtherRows(r)
         /\ row'[r].status = st /\ row'[r].user = row[r].user /\ row'[r].amount = row[r].amount
<1> DEFINE new == [row[r] EXCEPT !.status = st]
<1>1. row[r] \in RedemptionRows /\ row' = [row EXCEPT ![r] = new]
  BY DEF Typed
<1>2. new \in RedemptionRows /\ new.status = st /\ new.user = row[r].user /\ new.amount = row[r].amount
  BY <1>1 DEF RedemptionRows
<1> HIDE DEF new
<1> QED
  BY <1>1, <1>2, RowEdit

LEMMA ApplyClaimStep ==
  ASSUME IInv, NEW w \in Workers, NEW r \in Rows, ApplyClaim(w, r)
  PROVE  IInv'
<1>1. Typed /\ Addressed /\ OneSlot /\ Aged /\ Backed /\ Once /\ Booked /\ Recorded
      /\ row[r].status = "reserved"
  BY DEF IInv, ApplyClaim
<1>2. row[r].amount \in Nat /\ row[r].fee \in Fees /\ row[r] \in RedemptionRows
  BY <1>1 DEF Typed, RedemptionRows
<1>3. UNCHANGED <<intent, refunded, gift, pool, books, posted>>
  BY DEF ApplyClaim
<1>4. row'[r].status = "applied"
      /\ row' \in [Rows -> RedemptionRows] /\ OtherRows(r)
      /\ row'[r].user = row[r].user /\ row'[r].amount = row[r].amount
  BY <1>1, StatusEdit DEF ApplyClaim, Live
<1>5. /\ Idle(w) /\ Others(w) /\ task' \in [Workers -> Tasks] /\ befell \subseteq befell'
      /\ task'[w].step = "apply_fee" /\ task'[w].amount = row[r].amount /\ task[w].step = "idle"
      /\ task'[w].row = r
  <2> DEFINE t == [Resting EXCEPT !.step = "apply_fee", !.row = r, !.amount = row[r].amount]
  <2>1. Begin(w, t)
    BY DEF ApplyClaim
  <2>2. "apply_fee" \in AllSteps
    BY DEF AllSteps, ApplySteps
  <2>3. t \in Tasks /\ t.step = "apply_fee" /\ t.amount = row[r].amount /\ t.row = r
    BY <1>2, <2>2, NewTask DEF Resting, Tasks
  <2> HIDE DEF t
  <2> QED
    BY <1>1, <2>1, <2>3, BeginStarts DEF Idle
<1>6. Typed'
  BY <1>1, <1>3, <1>4, <1>5 DEF Typed
<1>7. Addressed'
  BY <1>1, <1>5, AddressedKept
     DEF ReserveSteps, RefundSteps, ApplySteps, CancelSteps, CreditSteps, RefundedSteps,
          ExpireSteps
<1>8. OneSlot'
  BY <1>1, <1>4 DEF OneSlot, OtherRows
<1>9. Aged'
  BY <1>1, <1>3, AgedKept
<1>10. /\ AmountIn(Live) \in Int /\ AmountIn({"reserved"}) \in Int
       /\ AmountIn(Live)' = AmountIn(Live)
       /\ AmountIn({"reserved"})' = AmountIn({"reserved"}) - row[r].amount
  <2>1. AmountIn(Live)' = AmountIn(Live) - (IF row[r].status \in Live THEN row[r].amount ELSE 0)
                                    + (IF row'[r].status \in Live THEN row'[r].amount ELSE 0)
    BY <1>1, <1>4, <1>6, RowSums
  <2>2. AmountIn({"reserved"})' = AmountIn({"reserved"})
                        - (IF row[r].status \in {"reserved"} THEN row[r].amount ELSE 0)
                        + (IF row'[r].status \in {"reserved"} THEN row'[r].amount ELSE 0)
    BY <1>1, <1>4, <1>6, RowSums
  <2>3. AmountIn(Live) \in Int /\ AmountIn({"reserved"}) \in Int
    BY <1>1, <1>6, AmountType
  <2> QED
    BY <1>1, <1>2, <1>4, <2>1, <2>2, <2>3 DEF Live
<1>11. /\ InHand[w] = 0 /\ Ahead[w] = 0
       /\ InHand'[w] = 0 /\ Ahead'[w] = - row[r].amount
  BY <1>5 DEF InHand, Ahead, RefundedSteps, ApplySteps
<1>12. pool \in Int /\ books.fund \in Int
  BY <1>1 DEF Typed
<1>13. Backed'
  <2>1. \A g \in Gift : Waiting'[g] = Waiting[g] /\ Arrived'[g] = Arrived[g]
    BY <1>3 DEF Waiting, Arrived
  <2>2. pool' + AmountIn(Live)' + InHand'[w] <= pool + AmountIn(Live) + InHand[w]
    BY <1>2, <1>3, <1>10, <1>11, <1>12
  <2> QED
    BY <1>1, <1>5, <1>6, <2>1, <2>2, BackedKept
<1>14. Booked'
  <2>1. pool' + AmountIn({"reserved"})' - books'.fund - Ahead'[w]
           = pool + AmountIn({"reserved"}) - books.fund - Ahead[w]
    BY <1>2, <1>3, <1>10, <1>11, <1>12
  <2> QED
    BY <1>1, <1>5, <1>6, <2>1, BookedKept
<1>15. Won \subseteq Won'
  BY <1>1, <1>3, <1>4, WonGrows DEF OtherRows
<1>16. Once'
  <2>1. Posting(w)' /\ PostingOf(w)' = <<"redeem", r>>
    BY <1>5
    DEF Posting, PostingOf, CreditSteps, ApplySteps, CancelSteps, RefundedSteps, ExpireSteps
  <2>2. <<"redeem", r>> \in Won' \ Won
    BY <1>1, <1>4 DEF Won
  <2> QED
    BY <1>1, <1>3, <1>5, <1>15, <2>1, <2>2, OnceWon
<1>17. Recorded'
  BY <1>1, <1>3, <1>5, RecordedKept
<1> QED
  BY <1>6, <1>7, <1>8, <1>9, <1>13, <1>14, <1>16, <1>17 DEF IInv

LEMMA ReleaseClaimStep ==
  ASSUME IInv, NEW w \in Workers, NEW r \in Rows, ReleaseClaim(w, r)
  PROVE  IInv'
<1>1. Typed /\ Addressed /\ OneSlot /\ Aged /\ Backed /\ Once /\ Booked /\ Recorded
      /\ row[r].status = "reserved"
  BY DEF IInv, ReleaseClaim
<1>2. row[r].amount \in Nat /\ row[r].fee \in Fees /\ row[r] \in RedemptionRows
  BY <1>1 DEF Typed, RedemptionRows
<1>3. UNCHANGED <<intent, refunded, gift, pool, books, posted>>
  BY DEF ReleaseClaim
<1>4. row'[r].status = "released"
      /\ row' \in [Rows -> RedemptionRows] /\ OtherRows(r)
      /\ row'[r].user = row[r].user /\ row'[r].amount = row[r].amount
  BY <1>1, StatusEdit DEF ReleaseClaim, Live
<1>5. /\ Idle(w) /\ Others(w) /\ task' \in [Workers -> Tasks] /\ befell \subseteq befell'
      /\ task'[w].step = "give_back" /\ task'[w].amount = row[r].amount /\ task[w].step = "idle"
  <2> DEFINE t == [Resting EXCEPT !.step = "give_back", !.amount = row[r].amount]
  <2>1. Begin(w, t)
    BY DEF ReleaseClaim
  <2>2. "give_back" \in AllSteps
    BY DEF AllSteps, ApplySteps
  <2>3. t \in Tasks /\ t.step = "give_back" /\ t.amount = row[r].amount
    BY <1>2, <2>2, NewTask DEF Resting, Tasks
  <2> HIDE DEF t
  <2> QED
    BY <1>1, <2>1, <2>3, BeginStarts DEF Idle
<1>6. Typed'
  BY <1>1, <1>3, <1>4, <1>5 DEF Typed
<1>7. Addressed'
  BY <1>1, <1>5, AddressedKept
     DEF ReserveSteps, RefundSteps, ApplySteps, CancelSteps, CreditSteps, RefundedSteps,
          ExpireSteps
<1>8. OneSlot'
  BY <1>1, <1>4 DEF OneSlot, OtherRows
<1>9. Aged'
  BY <1>1, <1>3, AgedKept
<1>10. /\ AmountIn(Live) \in Int /\ AmountIn({"reserved"}) \in Int
       /\ AmountIn(Live)' = AmountIn(Live) - row[r].amount
       /\ AmountIn({"reserved"})' = AmountIn({"reserved"}) - row[r].amount
  <2>1. AmountIn(Live)' = AmountIn(Live) - (IF row[r].status \in Live THEN row[r].amount ELSE 0)
                                    + (IF row'[r].status \in Live THEN row'[r].amount ELSE 0)
    BY <1>1, <1>4, <1>6, RowSums
  <2>2. AmountIn({"reserved"})' = AmountIn({"reserved"})
                        - (IF row[r].status \in {"reserved"} THEN row[r].amount ELSE 0)
                        + (IF row'[r].status \in {"reserved"} THEN row'[r].amount ELSE 0)
    BY <1>1, <1>4, <1>6, RowSums
  <2>3. AmountIn(Live) \in Int /\ AmountIn({"reserved"}) \in Int
    BY <1>1, <1>6, AmountType
  <2> QED
    BY <1>1, <1>2, <1>4, <2>1, <2>2, <2>3 DEF Live
<1>11. /\ InHand[w] = 0 /\ Ahead[w] = 0
       /\ InHand'[w] = row[r].amount /\ Ahead'[w] = - row[r].amount
  BY <1>5 DEF InHand, Ahead, RefundedSteps, ApplySteps
<1>12. pool \in Int /\ books.fund \in Int
  BY <1>1 DEF Typed
<1>13. Backed'
  <2>1. \A g \in Gift : Waiting'[g] = Waiting[g] /\ Arrived'[g] = Arrived[g]
    BY <1>3 DEF Waiting, Arrived
  <2>2. pool' + AmountIn(Live)' + InHand'[w] <= pool + AmountIn(Live) + InHand[w]
    BY <1>2, <1>3, <1>10, <1>11, <1>12
  <2> QED
    BY <1>1, <1>5, <1>6, <2>1, <2>2, BackedKept
<1>14. Booked'
  <2>1. pool' + AmountIn({"reserved"})' - books'.fund - Ahead'[w]
           = pool + AmountIn({"reserved"}) - books.fund - Ahead[w]
    BY <1>2, <1>3, <1>10, <1>11, <1>12
  <2> QED
    BY <1>1, <1>5, <1>6, <2>1, BookedKept
<1>15. Won \subseteq Won'
  BY <1>1, <1>3, <1>4, WonGrows DEF OtherRows
<1>16. Once'
  <2>1. ~Posting(w)'
    BY <1>5 DEF Posting, CreditSteps, ApplySteps, CancelSteps, RefundedSteps, ExpireSteps
  <2> QED
    BY <1>1, <1>3, <1>5, <1>15, <2>1, OnceKept
<1>17. Recorded'
  BY <1>1, <1>3, <1>5, RecordedKept
<1> QED
  BY <1>6, <1>7, <1>8, <1>9, <1>13, <1>14, <1>16, <1>17 DEF IInv

LEMMA CancelClaimStep ==
  ASSUME IInv, NEW w \in Workers, NEW r \in Rows, NEW f \in BOOLEAN, CancelClaim(w, r, f)
  PROVE  IInv'
<1>1. Typed /\ Addressed /\ OneSlot /\ Aged /\ Backed /\ Once /\ Booked /\ Recorded
      /\ row[r].status = "applied"
  BY DEF IInv, CancelClaim
<1>2. row[r].amount \in Nat /\ row[r].fee \in Fees /\ row[r] \in RedemptionRows
  BY <1>1 DEF Typed, RedemptionRows
<1>3. UNCHANGED <<intent, refunded, gift, pool, books, posted>>
  BY DEF CancelClaim
<1>4. row'[r].status \in {"released", "refunded"}
      /\ row' \in [Rows -> RedemptionRows] /\ OtherRows(r)
      /\ row'[r].user = row[r].user /\ row'[r].amount = row[r].amount
  BY <1>1, StatusEdit DEF CancelClaim, Live
<1>5. /\ Idle(w) /\ Others(w) /\ task' \in [Workers -> Tasks] /\ befell \subseteq befell'
      /\ task'[w].step = "cancel_pool" /\ task'[w].amount = row[r].amount /\ task[w].step = "idle"
      /\ task'[w].row = r
  <2> DEFINE t == [Resting EXCEPT !.step = "cancel_pool", !.row = r, !.amount = row[r].amount,
                                !.fee = row[r].fee]
  <2>1. Begin(w, t)
    BY DEF CancelClaim
  <2>2. "cancel_pool" \in AllSteps
    BY DEF AllSteps, CancelSteps
  <2>3. t \in Tasks /\ t.step = "cancel_pool" /\ t.amount = row[r].amount /\ t.row = r
    BY <1>2, <2>2, NewTask DEF Resting, Tasks
  <2> HIDE DEF t
  <2> QED
    BY <1>1, <2>1, <2>3, BeginStarts DEF Idle
<1>6. Typed'
  BY <1>1, <1>3, <1>4, <1>5 DEF Typed
<1>7. Addressed'
  BY <1>1, <1>5, AddressedKept
     DEF ReserveSteps, RefundSteps, ApplySteps, CancelSteps, CreditSteps, RefundedSteps,
          ExpireSteps
<1>8. OneSlot'
  BY <1>1, <1>4 DEF OneSlot, OtherRows
<1>9. Aged'
  BY <1>1, <1>3, AgedKept
<1>10. /\ AmountIn(Live) \in Int /\ AmountIn({"reserved"}) \in Int
       /\ AmountIn(Live)' = AmountIn(Live) - row[r].amount
       /\ AmountIn({"reserved"})' = AmountIn({"reserved"})
  <2>1. AmountIn(Live)' = AmountIn(Live) - (IF row[r].status \in Live THEN row[r].amount ELSE 0)
                                    + (IF row'[r].status \in Live THEN row'[r].amount ELSE 0)
    BY <1>1, <1>4, <1>6, RowSums
  <2>2. AmountIn({"reserved"})' = AmountIn({"reserved"})
                        - (IF row[r].status \in {"reserved"} THEN row[r].amount ELSE 0)
                        + (IF row'[r].status \in {"reserved"} THEN row'[r].amount ELSE 0)
    BY <1>1, <1>4, <1>6, RowSums
  <2>3. AmountIn(Live) \in Int /\ AmountIn({"reserved"}) \in Int
    BY <1>1, <1>6, AmountType
  <2> QED
    BY <1>1, <1>2, <1>4, <2>1, <2>2, <2>3 DEF Live
<1>11. /\ InHand[w] = 0 /\ Ahead[w] = 0
       /\ InHand'[w] = row[r].amount /\ Ahead'[w] = 0
  BY <1>5 DEF InHand, Ahead, RefundedSteps, ApplySteps
<1>12. pool \in Int /\ books.fund \in Int
  BY <1>1 DEF Typed
<1>13. Backed'
  <2>1. \A g \in Gift : Waiting'[g] = Waiting[g] /\ Arrived'[g] = Arrived[g]
    BY <1>3 DEF Waiting, Arrived
  <2>2. pool' + AmountIn(Live)' + InHand'[w] <= pool + AmountIn(Live) + InHand[w]
    BY <1>2, <1>3, <1>10, <1>11, <1>12
  <2> QED
    BY <1>1, <1>5, <1>6, <2>1, <2>2, BackedKept
<1>14. Booked'
  <2>1. pool' + AmountIn({"reserved"})' - books'.fund - Ahead'[w]
           = pool + AmountIn({"reserved"}) - books.fund - Ahead[w]
    BY <1>2, <1>3, <1>10, <1>11, <1>12
  <2> QED
    BY <1>1, <1>5, <1>6, <2>1, BookedKept
<1>15. Won \subseteq Won'
  BY <1>1, <1>3, <1>4, WonGrows DEF OtherRows
<1>16. Once'
  <2>1. Posting(w)' /\ PostingOf(w)' = <<"redeem_reverse", r>>
    BY <1>5
    DEF Posting, PostingOf, CreditSteps, ApplySteps, CancelSteps, RefundedSteps, ExpireSteps
  <2>2. <<"redeem_reverse", r>> \in Won' \ Won
    BY <1>1, <1>4 DEF Won
  <2> QED
    BY <1>1, <1>3, <1>5, <1>15, <2>1, <2>2, OnceWon
<1>17. Recorded'
  BY <1>1, <1>3, <1>5, RecordedKept
<1> QED
  BY <1>6, <1>7, <1>8, <1>9, <1>13, <1>14, <1>16, <1>17 DEF IInv

LEMMA AmountIsInt ==
  ASSUME Typed, NEW S
  PROVE  AmountIn(S) \in Int
<1> DEFINE f == [r \in Rows |-> IF row[r].status \in S THEN row[r].amount ELSE 0]
<1>1. \A r \in Rows : f[r] \in Int
  BY DEF Typed, RedemptionRows
<1>2. AmountIn(S) = SumFunctionOnSet(f, Rows)
  BY DEF AmountIn, SumFunction
<1> HIDE DEF f
<1> QED
  BY <1>1, <1>2, SumTakeOut, PayForwardAssumption

\* What the pool covers is an amount.
LEMMA CoverageType ==
  ASSUME Typed, NEW u \in Users
  PROVE  Coverage(u) \in Nat
<1> DEFINE least == Min({Want[u], pool, DayCap - SpentToday})
<1>1. Want[u] \in Int /\ pool \in Int /\ DayCap - SpentToday \in Int
  BY AmountIsInt, PayForwardAssumption DEF Typed, SpentToday
<1>2. least \in Int
  <2>1. \E x \in {Want[u], pool, DayCap - SpentToday} :
          \A y \in {Want[u], pool, DayCap - SpentToday} : x <= y
    BY <1>1
  <2>2. least \in {Want[u], pool, DayCap - SpentToday}
    BY <2>1 DEF Min
  <2> QED
    BY <1>1, <2>2
<1>3. Coverage(u) = Max({0, least})
  BY DEF Coverage
<1> HIDE DEF least
<1>4. \E x \in {0, least} : \A y \in {0, least} : x >= y
  BY <1>2
<1>5. Max({0, least}) \in {0, least} /\ Max({0, least}) >= 0
  BY <1>4 DEF Max
<1> QED
  BY <1>2, <1>3, <1>5

LEMMA ReserveQuoteStep ==
  ASSUME IInv, NEW w \in Workers, NEW u \in Users, ReserveQuote(w, u)
  PROVE  IInv'
<1>1. Typed /\ Once
  BY DEF IInv
<1>2. Coverage(u) \in Nat /\ Coverage(u) > 0 /\ pool \in Nat /\ books.fund \in Int /\ "fund" \in DOMAIN books
  BY <1>1, CoverageType DEF Typed, GiftRows, ReserveQuote
<1>3. UNCHANGED <<intent, refunded, gift, row, pool, books, posted>>
  BY DEF ReserveQuote
<1>4. /\ Idle(w) /\ Others(w) /\ task' \in [Workers -> Tasks] /\ befell \subseteq befell'
      /\ task'[w].step = "reserve_pool" /\ task'[w].amount = Coverage(u) /\ task'[w].user = u
      /\ task[w].step = "idle"
  <2> DEFINE n == Coverage(u)
             t == [Resting EXCEPT !.step = "reserve_pool", !.user = u, !.amount = n]
  <2>1. Begin(w, t)
    BY DEF ReserveQuote
  <2>2. "reserve_pool" \in AllSteps /\ n \in Nat
    BY <1>2 DEF AllSteps, ReserveSteps
  <2> HIDE DEF n
  <2>3. t \in Tasks /\ t.step = "reserve_pool" /\ t.amount = n /\ t.user = u
    BY <2>2, NewTask DEF Resting, Tasks
  <2> HIDE DEF t
  <2> QED
    BY <1>1, <2>1, <2>3, BeginStarts DEF Idle, n
<1>5. InHand[w] = 0 /\ Ahead[w] = 0 /\ InHand'[w] = 0 /\ Ahead'[w] = 0
  BY <1>4 DEF InHand, Ahead, RefundedSteps, ApplySteps
<1>6. Typed'
  BY <1>1, <1>3, <1>4 DEF Typed
<1>7. Addressed'
  BY <1>2, <1>4, AddressedKept
     DEF IInv, ReserveSteps, RefundSteps, ApplySteps, CancelSteps, CreditSteps, RefundedSteps,
          ExpireSteps
<1>8. OneSlot' /\ Aged'
  BY <1>3, OneSlotKept, AgedKept DEF IInv
<1>9. AmountIn(Live)' = AmountIn(Live) /\ AmountIn({"reserved"})' = AmountIn({"reserved"})
      /\ AmountIn(Live) \in Int /\ AmountIn({"reserved"}) \in Int
  BY <1>1, <1>3, <1>6, RowSumsKept, AmountType
<1>10. Backed'
  <2>1. \A h \in Gift : Waiting'[h] = Waiting[h] /\ Arrived'[h] = Arrived[h]
    BY <1>3 DEF Waiting, Arrived
  <2>2. pool' + AmountIn(Live)' + InHand'[w] <= pool + AmountIn(Live) + InHand[w]
    BY <1>2, <1>3, <1>5, <1>9
  <2> QED
    BY <1>4, <1>6, <2>1, <2>2, BackedKept DEF IInv
<1>11. Booked'
  <2>1. pool' + AmountIn({"reserved"})' - books'.fund - Ahead'[w]
           = pool + AmountIn({"reserved"}) - books.fund - Ahead[w]
    BY <1>2, <1>3, <1>5, <1>9
  <2> QED
    BY <1>4, <1>6, <2>1, BookedKept DEF IInv
<1>12. Once'
  <2>1. Won \subseteq Won'
    BY <1>3, WonGrows
  <2>2. ~Posting(w)'
    BY <1>4 DEF Posting, CreditSteps, ApplySteps, CancelSteps, RefundedSteps, ExpireSteps
  <2> QED
    BY <1>1, <1>3, <1>4, <2>1, <2>2, OnceKept
<1>13. Recorded'
  BY <1>3, <1>4, RecordedKept DEF IInv
<1> QED
  BY <1>6, <1>7, <1>8, <1>10, <1>11, <1>12, <1>13 DEF IInv

LEMMA RefundReadStep ==
  ASSUME IInv, NEW w \in Workers, NEW g \in Gift, RefundRead(w, g)
  PROVE  IInv'
<1>1. Typed /\ Once
  BY DEF IInv
<1>2. gift[g].remaining \in Nat /\ gift[g].remaining > 0 /\ pool \in Nat /\ books.fund \in Int /\ "fund" \in DOMAIN books
  BY <1>1 DEF Typed, GiftRows, RefundRead
<1>3. UNCHANGED <<intent, refunded, gift, row, pool, books, posted>>
  BY DEF RefundRead
<1>4. /\ Idle(w) /\ Others(w) /\ task' \in [Workers -> Tasks] /\ befell \subseteq befell'
      /\ task'[w].step = "refund_pool" /\ task'[w].amount = gift[g].remaining /\ task'[w].gift = g
      /\ task[w].step = "idle"
  <2> DEFINE n == gift[g].remaining
             t == [Resting EXCEPT !.step = "refund_pool", !.gift = g, !.amount = n]
  <2>1. Begin(w, t)
    BY DEF RefundRead
  <2>2. "refund_pool" \in AllSteps /\ n \in Nat
    BY <1>2 DEF AllSteps, RefundSteps
  <2> HIDE DEF n
  <2>3. t \in Tasks /\ t.step = "refund_pool" /\ t.amount = n /\ t.gift = g
    BY <2>2, NewTask DEF Resting, Tasks
  <2> HIDE DEF t
  <2> QED
    BY <1>1, <2>1, <2>3, BeginStarts DEF Idle, n
<1>5. InHand[w] = 0 /\ Ahead[w] = 0 /\ InHand'[w] = 0 /\ Ahead'[w] = 0
  BY <1>4 DEF InHand, Ahead, RefundedSteps, ApplySteps
<1>6. Typed'
  BY <1>1, <1>3, <1>4 DEF Typed
<1>7. Addressed'
  BY <1>2, <1>4, AddressedKept
     DEF IInv, ReserveSteps, RefundSteps, ApplySteps, CancelSteps, CreditSteps, RefundedSteps,
          ExpireSteps
<1>8. OneSlot' /\ Aged'
  BY <1>3, OneSlotKept, AgedKept DEF IInv
<1>9. AmountIn(Live)' = AmountIn(Live) /\ AmountIn({"reserved"})' = AmountIn({"reserved"})
      /\ AmountIn(Live) \in Int /\ AmountIn({"reserved"}) \in Int
  BY <1>1, <1>3, <1>6, RowSumsKept, AmountType
<1>10. Backed'
  <2>1. \A h \in Gift : Waiting'[h] = Waiting[h] /\ Arrived'[h] = Arrived[h]
    BY <1>3 DEF Waiting, Arrived
  <2>2. pool' + AmountIn(Live)' + InHand'[w] <= pool + AmountIn(Live) + InHand[w]
    BY <1>2, <1>3, <1>5, <1>9
  <2> QED
    BY <1>4, <1>6, <2>1, <2>2, BackedKept DEF IInv
<1>11. Booked'
  <2>1. pool' + AmountIn({"reserved"})' - books'.fund - Ahead'[w]
           = pool + AmountIn({"reserved"}) - books.fund - Ahead[w]
    BY <1>2, <1>3, <1>5, <1>9
  <2> QED
    BY <1>4, <1>6, <2>1, BookedKept DEF IInv
<1>12. Once'
  <2>1. Won \subseteq Won'
    BY <1>3, WonGrows
  <2>2. ~Posting(w)'
    BY <1>4 DEF Posting, CreditSteps, ApplySteps, CancelSteps, RefundedSteps, ExpireSteps
  <2> QED
    BY <1>1, <1>3, <1>4, <2>1, <2>2, OnceKept
<1>13. Recorded'
  BY <1>3, <1>4, RecordedKept DEF IInv
<1> QED
  BY <1>6, <1>7, <1>8, <1>10, <1>11, <1>12, <1>13 DEF IInv

LEMMA CreditClaimStep ==
  ASSUME IInv, NEW w \in Workers, NEW g \in Gift, CreditClaim(w, g)
  PROVE  IInv'
<1>1. Typed /\ Addressed /\ OneSlot /\ Aged /\ Backed /\ Once /\ Booked /\ Recorded
      /\ gift[g] \in GiftRows
  BY DEF IInv, Typed
<1>2. Given[g] \in Nat /\ Given[g] \in Nat /\ refunded[g] \in Nat /\ pool \in Nat /\ books.fund \in Int
  BY <1>1, PayForwardAssumption DEF Typed, GiftRows, Gift
<1>3. UNCHANGED <<intent, refunded, row, pool, books, posted>>
  BY DEF CreditClaim
<1> DEFINE new == [gift[g] EXCEPT !.status = "succeeded", !.age = "fresh"]
<1>4. /\ new \in GiftRows /\ new.refunded = gift[g].refunded
      /\ new.status = "succeeded" /\ new.age = "fresh" /\ gift[g].status = "pending"
  BY <1>1, <1>2 DEF GiftRows, CreditClaim
<1>5. gift' = [gift EXCEPT ![g] = new]
  BY DEF CreditClaim
<1> HIDE DEF new
<1>6. /\ gift' \in [Gift -> GiftRows] /\ gift'[g] = new
      /\ \A h \in Gift \ {g} : gift'[h] = gift[h]
  BY <1>1, <1>4, <1>5, GiftEdit
<1>7. /\ Idle(w) /\ Others(w) /\ task' \in [Workers -> Tasks] /\ befell \subseteq befell'
      /\ task'[w].step = "credit_pool" /\ task'[w].amount = Given[g] /\ task'[w].gift = g
      /\ task[w].step = "idle"
  <2> DEFINE n == Given[g]
             t == [Resting EXCEPT !.step = "credit_pool", !.gift = g, !.amount = n]
  <2>1. Begin(w, t)
    BY DEF CreditClaim
  <2>2. "credit_pool" \in AllSteps /\ n \in Nat
    BY <1>2 DEF AllSteps, CreditSteps
  <2> HIDE DEF n
  <2>3. t \in Tasks /\ t.step = "credit_pool" /\ t.amount = n /\ t.gift = g
    BY <2>2, NewTask DEF Resting, Tasks
  <2> HIDE DEF t
  <2> QED
    BY <1>1, <2>1, <2>3, BeginStarts DEF Idle, n
<1>8. Typed'
  BY <1>1, <1>3, <1>6, <1>7 DEF Typed
<1>9. Addressed'
  BY <1>1, <1>7, AddressedKept
     DEF ReserveSteps, RefundSteps, ApplySteps, CancelSteps, CreditSteps, RefundedSteps,
          ExpireSteps
<1>10. OneSlot'
  BY <1>1, <1>3, OneSlotKept
<1>11. Aged'
  BY <1>1, <1>3, <1>4, <1>6 DEF Aged
<1>12. /\ InHand[w] = 0 /\ Ahead[w] = 0 /\ InHand'[w] = Given[g] /\ Ahead'[w] = 0
  BY <1>7 DEF InHand, Ahead, RefundedSteps, ApplySteps
<1>13. /\ \A h \in Gift \ {g} : Waiting'[h] = Waiting[h] /\ Arrived'[h] = Arrived[h]
       /\ Arrived[g] \in Int /\ Arrived'[g] = Arrived[g]
       /\ Waiting[g] = Given[g] /\ Waiting'[g] = 0
  BY <1>2, <1>3, <1>4, <1>6 DEF Waiting, Arrived, CreditClaim
<1>14. Backed'
  BY <1>1, <1>2, <1>3, <1>7, <1>8, <1>12, <1>13, BackedMoves
<1>15. Booked'
  <2>1. AmountIn({"reserved"})' = AmountIn({"reserved"}) /\ AmountIn({"reserved"}) \in Int
    BY <1>1, <1>3, <1>8, RowSumsKept, AmountType
  <2>2. pool' + AmountIn({"reserved"})' - books'.fund - Ahead'[w]
           = pool + AmountIn({"reserved"}) - books.fund - Ahead[w]
    BY <1>2, <1>3, <1>12, <2>1
  <2> QED
    BY <1>1, <1>7, <1>8, <2>2, BookedKept
<1>16. Once'
  <2>1. Won \subseteq Won'
    BY <1>1, <1>3, <1>4, <1>6, WonGrows DEF Aged
  <2>2. Posting(w)' /\ PostingOf(w)' = <<"contribute", g>>
    BY <1>7
    DEF Posting, PostingOf, CreditSteps, ApplySteps, CancelSteps, RefundedSteps, ExpireSteps
  <2>3. <<"contribute", g>> \in Won' \ Won
    BY <1>4, <1>6 DEF Won
  <2> QED
    BY <1>1, <1>3, <1>7, <2>1, <2>2, <2>3, OnceWon
<1>17. Recorded'
  BY <1>1, <1>3, <1>4, <1>6, <1>7, RecordedKept
<1> QED
  BY <1>8, <1>9, <1>10, <1>11, <1>14, <1>15, <1>16, <1>17 DEF IInv

LEMMA ExpireClaimStep ==
  ASSUME IInv, NEW w \in Workers, NEW g \in Gift, ExpireClaim(w, g)
  PROVE  IInv'
<1>1. Typed /\ Addressed /\ OneSlot /\ Aged /\ Backed /\ Once /\ Booked /\ Recorded
      /\ gift[g] \in GiftRows
  BY DEF IInv, Typed
<1>2. gift[g].remaining \in Nat /\ Given[g] \in Nat /\ refunded[g] \in Nat /\ pool \in Nat /\ books.fund \in Int
  BY <1>1, PayForwardAssumption DEF Typed, GiftRows, Gift
<1>3. UNCHANGED <<intent, refunded, row, pool, books, posted>>
  BY DEF ExpireClaim
<1> DEFINE new == [gift[g] EXCEPT !.age = "expired", !.remaining = 0]
<1>4. /\ new \in GiftRows /\ new.refunded = gift[g].refunded
      /\ new.status = "succeeded" /\ new.age = "expired" /\ gift[g].status = "succeeded" /\ gift[g].age = "stale"
  BY <1>1, <1>2 DEF GiftRows, ExpireClaim
<1>5. gift' = [gift EXCEPT ![g] = new]
  BY DEF ExpireClaim
<1> HIDE DEF new
<1>6. /\ gift' \in [Gift -> GiftRows] /\ gift'[g] = new
      /\ \A h \in Gift \ {g} : gift'[h] = gift[h]
  BY <1>1, <1>4, <1>5, GiftEdit
<1>7. /\ Idle(w) /\ Others(w) /\ task' \in [Workers -> Tasks] /\ befell \subseteq befell'
      /\ task'[w].step = "expire_pool" /\ task'[w].amount = gift[g].remaining /\ task'[w].gift = g
      /\ task[w].step = "idle"
  <2> DEFINE n == gift[g].remaining
             t == [Resting EXCEPT !.step = "expire_pool", !.gift = g, !.amount = n]
  <2>1. Begin(w, t)
    BY DEF ExpireClaim
  <2>2. "expire_pool" \in AllSteps /\ n \in Nat
    BY <1>2 DEF AllSteps, ExpireSteps
  <2> HIDE DEF n
  <2>3. t \in Tasks /\ t.step = "expire_pool" /\ t.amount = n /\ t.gift = g
    BY <2>2, NewTask DEF Resting, Tasks
  <2> HIDE DEF t
  <2> QED
    BY <1>1, <2>1, <2>3, BeginStarts DEF Idle, n
<1>8. Typed'
  BY <1>1, <1>3, <1>6, <1>7 DEF Typed
<1>9. Addressed'
  BY <1>1, <1>7, AddressedKept
     DEF ReserveSteps, RefundSteps, ApplySteps, CancelSteps, CreditSteps, RefundedSteps,
          ExpireSteps
<1>10. OneSlot'
  BY <1>1, <1>3, OneSlotKept
<1>11. Aged'
  BY <1>1, <1>3, <1>4, <1>6 DEF Aged
<1>12. /\ InHand[w] = 0 /\ Ahead[w] = 0 /\ InHand'[w] = 0 /\ Ahead'[w] = 0
  BY <1>7 DEF InHand, Ahead, RefundedSteps, ApplySteps
<1>13. /\ \A h \in Gift \ {g} : Waiting'[h] = Waiting[h] /\ Arrived'[h] = Arrived[h]
       /\ Arrived[g] \in Int /\ Arrived'[g] = Arrived[g]
       /\ Waiting[g] = 0 /\ Waiting'[g] = 0
  BY <1>2, <1>3, <1>4, <1>6 DEF Waiting, Arrived, ExpireClaim
<1>14. Backed'
  BY <1>1, <1>2, <1>3, <1>7, <1>8, <1>12, <1>13, BackedMoves
<1>15. Booked'
  <2>1. AmountIn({"reserved"})' = AmountIn({"reserved"}) /\ AmountIn({"reserved"}) \in Int
    BY <1>1, <1>3, <1>8, RowSumsKept, AmountType
  <2>2. pool' + AmountIn({"reserved"})' - books'.fund - Ahead'[w]
           = pool + AmountIn({"reserved"}) - books.fund - Ahead[w]
    BY <1>2, <1>3, <1>12, <2>1
  <2> QED
    BY <1>1, <1>7, <1>8, <2>2, BookedKept
<1>16. Once'
  <2>1. Won \subseteq Won'
    BY <1>1, <1>3, <1>4, <1>6, WonGrows DEF Aged
  <2>2. Posting(w)' /\ PostingOf(w)' = <<"expire", g>>
    BY <1>7
    DEF Posting, PostingOf, CreditSteps, ApplySteps, CancelSteps, RefundedSteps, ExpireSteps
  <2>3. <<"expire", g>> \in Won' \ Won
    BY <1>4, <1>6 DEF Won
  <2> QED
    BY <1>1, <1>3, <1>7, <2>1, <2>2, <2>3, OnceWon
<1>17. Recorded'
  BY <1>1, <1>3, <1>4, <1>6, <1>7, RecordedKept
<1> QED
  BY <1>8, <1>9, <1>10, <1>11, <1>14, <1>15, <1>16, <1>17 DEF IInv

(***************************************************************************)
(* The steps that change what a gift holds or a redemption's fee, and      *)
(* neither its status nor the money in hand.                               *)
(***************************************************************************)

LEMMA InsideStep ==
  ASSUME IInv, NEW w \in Workers, GoesOn(w, task'[w].step) \/ Ends(w), Typed',
         UNCHANGED <<intent, refunded, pool, books, posted>>, befell \subseteq befell',
         \A g \in Gift : gift'[g].status = gift[g].status /\ gift'[g].age = gift[g].age,
         \A r \in Rows : /\ row'[r].status = row[r].status /\ row'[r].user = row[r].user
                         /\ row'[r].amount = row[r].amount,
         \/ task'[w].step \in {"idle", "give_back"}
         \/ task[w].step \in RefundSteps /\ task'[w].step \in RefundSteps
         \/ task[w].step \in RefundedSteps /\ task'[w].step \in RefundedSteps
         \/ task[w].step \in ApplySteps /\ task'[w].step \in ApplySteps
         \/ task[w].step \in CancelSteps /\ task'[w].step \in CancelSteps,
         InHand'[w] = InHand[w], Ahead'[w] = Ahead[w], Recorded'
  PROVE  IInv'
<1>1. Typed /\ Addressed /\ OneSlot /\ Aged /\ Backed /\ Once /\ Booked /\ Others(w)
  BY DEF IInv, GoesOn, Ends
<1>2. \/ task'[w].step = "idle"
      \/ /\ task'[w].gift = task[w].gift /\ task'[w].row = task[w].row
         /\ task'[w].user = task[w].user /\ task'[w].amount = task[w].amount
  BY DEF GoesOn, Ends
<1>3. Addressed'
  BY <1>1, <1>2, AddressedKept
     DEF Addressed, ReserveSteps, RefundSteps, ApplySteps, CancelSteps, CreditSteps,
         RefundedSteps,
          ExpireSteps
<1>4. OneSlot' /\ Aged'
  BY <1>1, OneSlotKept, AgedKept
<1>5. /\ AmountIn(Live)' = AmountIn(Live) /\ AmountIn({"reserved"})' = AmountIn({"reserved"})
      /\ AmountIn(Live) \in Int /\ AmountIn({"reserved"}) \in Int
  BY <1>1, RowSumsKept, AmountType
<1>6. /\ InHand[w] \in Int /\ Ahead[w] \in Int /\ pool \in Int /\ books.fund \in Int
  BY <1>1, TaskSums DEF Typed
<1>7. Backed'
  <2>1. \A h \in Gift : Waiting'[h] = Waiting[h] /\ Arrived'[h] = Arrived[h]
    BY DEF Waiting, Arrived
  <2>2. pool' + AmountIn(Live)' + InHand'[w] <= pool + AmountIn(Live) + InHand[w]
    BY <1>5, <1>6
  <2> QED
    BY <1>1, <2>1, <2>2, BackedKept
<1>8. Booked'
  <2>1. pool' + AmountIn({"reserved"})' - books'.fund - Ahead'[w]
           = pool + AmountIn({"reserved"}) - books.fund - Ahead[w]
    BY <1>5, <1>6
  <2> QED
    BY <1>1, <2>1, BookedKept
<1>9. Once'
  <2>1. Won \subseteq Won'
    BY WonGrows
  <2>2. Posting(w)' => Posting(w) /\ PostingOf(w)' = PostingOf(w)
    BY <1>2
       DEF Posting, PostingOf, RefundSteps, CreditSteps, ApplySteps, CancelSteps, RefundedSteps,
           ExpireSteps
  <2> QED
    BY <1>1, <2>1, <2>2, OnceKept
<1> QED
  BY <1>3, <1>4, <1>7, <1>8, <1>9 DEF IInv

\* A gift with another remainder, and a gift with another record of what went back.
LEMMA RemainderEdit ==
  ASSUME Typed, NEW g \in Gift, NEW n \in Nat,
         \/ gift' = [gift EXCEPT ![g].remaining = n]
         \/ gift' = [gift EXCEPT ![g].refunded = n]
  PROVE  /\ gift' \in [Gift -> GiftRows]
         /\ \A h \in Gift : gift'[h].status = gift[h].status /\ gift'[h].age = gift[h].age
         /\ \A h \in Gift \ {g} : gift'[h] = gift[h]
         /\ gift'[g].refunded \in {gift[g].refunded, n}
         /\ gift' = [gift EXCEPT ![g].remaining = n] =>
              gift'[g].refunded = gift[g].refunded /\ gift'[g].remaining = n
         /\ gift' = [gift EXCEPT ![g].refunded = n] =>
              gift'[g].refunded = n /\ gift'[g].remaining = gift[g].remaining
<1> DEFINE less == [gift[g] EXCEPT !.remaining = n]
           back == [gift[g] EXCEPT !.refunded = n]
<1>1. gift[g] \in GiftRows /\ gift \in [Gift -> GiftRows]
  BY DEF Typed
<1>2. /\ less \in GiftRows /\ less.status = gift[g].status /\ less.age = gift[g].age
      /\ less.refunded = gift[g].refunded /\ less.remaining = n
      /\ back \in GiftRows /\ back.status = gift[g].status /\ back.age = gift[g].age
      /\ back.refunded = n /\ back.remaining = gift[g].remaining
  BY <1>1 DEF GiftRows
<1>3. /\ [gift EXCEPT ![g].remaining = n] = [gift EXCEPT ![g] = less]
      /\ [gift EXCEPT ![g].refunded = n] = [gift EXCEPT ![g] = back]
  BY <1>1
<1> HIDE DEF less, back
<1>4. CASE gift' = [gift EXCEPT ![g] = less]
  BY <1>1, <1>2, <1>3, <1>4
<1>5. CASE gift' = [gift EXCEPT ![g] = back]
  BY <1>1, <1>2, <1>3, <1>5
<1> QED
  BY <1>3, <1>4, <1>5

LEMMA RecordedKeptInside ==
  ASSUME IInv, NEW w \in Workers, Others(w), befell \subseteq befell', UNCHANGED refunded,
         \A g \in Gift : gift'[g].refunded = gift[g].refunded,
         task[w].step # "refund_row", task'[w].step # "refund_row"
  PROVE  Recorded'
BY RecordedKept DEF IInv

LEMMA ApplyFeeStep ==
  ASSUME IInv, NEW w \in Workers, ApplyFee(w)
  PROVE  IInv'
<1>1. Typed /\ task[w] \in Tasks /\ task[w].step = "apply_fee" /\ task[w].row \in Rows
  BY DEF IInv, Typed, Addressed, ApplyFee, At, ApplySteps
<1>2. task[w].amount \in Nat
  BY <1>1 DEF Tasks
<1> DEFINE r == task[w].row
           fee == FeeOf[task[w].amount]
           new == [row[r] EXCEPT !.fee = fee]
           t == [task[w] EXCEPT !.step = "consume_find", !.fee = fee]
<1>3. fee \in Fees
  BY <1>2 DEF Fees
<1>4. row' = [row EXCEPT ![r].fee = fee] /\ task' = [task EXCEPT ![w] = t]
  BY DEF ApplyFee
<1>5. UNCHANGED <<intent, refunded, gift, pool, books, posted, befell>>
  BY DEF ApplyFee
<1> HIDE DEF fee
<1>6. /\ t \in Tasks /\ t.step = "consume_find" /\ t.gift = task[w].gift /\ t.row = task[w].row
      /\ t.user = task[w].user /\ t.amount = task[w].amount
  BY <1>1, <1>3 DEF Tasks, AllSteps, ApplySteps
<1>7. /\ row[r] \in RedemptionRows /\ row' = [row EXCEPT ![r] = new]
  BY <1>1, <1>4 DEF Typed
<1>8. /\ new \in RedemptionRows /\ new.status = row[r].status /\ new.user = row[r].user
      /\ new.amount = row[r].amount
  BY <1>3, <1>7 DEF RedemptionRows
<1> HIDE DEF t, new
<1>9. GoesOn(w, "consume_find") /\ task' \in [Workers -> Tasks]
  BY <1>1, <1>4, <1>6 DEF GoesOn, Others, Typed
<1>10. row' \in [Rows -> RedemptionRows] /\ row'[r] = new /\ OtherRows(r)
  BY <1>1, <1>7, <1>8, RowEdit
<1>11. task'[w].step = "consume_find" /\ task'[w].amount = task[w].amount /\ Others(w)
  BY <1>9 DEF GoesOn
<1>12. Typed'
  BY <1>1, <1>5, <1>9, <1>10 DEF Typed
<1>13. \A s \in Rows : /\ row'[s].status = row[s].status /\ row'[s].user = row[s].user
                        /\ row'[s].amount = row[s].amount
  BY <1>8, <1>10 DEF OtherRows
<1>14. InHand'[w] = InHand[w] /\ Ahead'[w] = Ahead[w]
  BY <1>1, <1>11 DEF InHand, Ahead, RefundedSteps, ApplySteps
<1>15. Recorded'
  BY <1>1, <1>5, <1>11, RecordedKeptInside
<1> QED
  BY <1>1, <1>5, <1>9, <1>11, <1>12, <1>13, <1>14, <1>15, InsideStep DEF ApplySteps

\* A pass goes on to its next gift.
LEMMA PassMoves ==
  ASSUME Typed, NEW w \in Workers, NEW g \in DOMAIN task[w].found, NEW ok \in BOOLEAN, Moved(w, g, ok)
  PROVE  /\ GoesOn(w, task[w].step) /\ task' \in [Workers -> Tasks] /\ befell' = befell
         /\ g \in Gift /\ Share(w, g) \in Nat /\ Share(w, g) <= task[w].left
         /\ Share(w, g) <= task[w].found[g] /\ Share(w, g) \in {task[w].left, task[w].found[g]}
<1>1. task[w] \in Tasks
  BY DEF Typed
<1>2. PICK S \in SUBSET Gift : task[w].found \in [S -> Nat]
  BY <1>1 DEF Tasks, Findings
<1>3. g \in Gift /\ task[w].found[g] \in Nat /\ task[w].left \in Nat
  BY <1>1, <1>2 DEF Tasks
<1>4. /\ Share(w, g) \in Nat /\ Share(w, g) <= task[w].left
      /\ Share(w, g) <= task[w].found[g] /\ Share(w, g) \in {task[w].left, task[w].found[g]}
  <2> DEFINE a == task[w].left
             b == task[w].found[g]
  <2>1. a \in Nat /\ b \in Nat /\ Share(w, g) = Min({a, b})
    BY <1>3 DEF Share
  <2> HIDE DEF a, b
  <2>2. \E x \in {a, b} : \A y \in {a, b} : x <= y
    BY <2>1
  <2>3. Min({a, b}) \in {a, b} /\ Min({a, b}) <= a /\ Min({a, b}) <= b
    BY <2>2 DEF Min
  <2> QED
    BY <2>1, <2>3 DEF a, b
<1> DEFINE found == Restrict(task[w].found, (DOMAIN task[w].found) \ {g})
           left == IF ok THEN task[w].left - Share(w, g) ELSE task[w].left
           t == [task[w] EXCEPT !.found = found, !.left = left]
<1>5. found \in Findings
  <2>1. found \in [S \ {g} -> Nat]
    BY <1>2 DEF Restrict
  <2> QED
    BY <1>2, <2>1 DEF Findings
<1>6. left \in Nat
  BY <1>3, <1>4
<1>7. task' = [task EXCEPT ![w] = t] /\ befell' = befell
  <2>1. befell' = befell
    BY DEF Moved
  <2>2. task' = [task EXCEPT ![w] = [task[w] EXCEPT !.found = found, !.left = left]]
    BY DEF Moved
  <2> QED
    BY <2>1, <2>2
<1> HIDE DEF found, left
<1>8. /\ t \in Tasks /\ t.step = task[w].step /\ t.gift = task[w].gift /\ t.row = task[w].row
      /\ t.user = task[w].user /\ t.amount = task[w].amount
  BY <1>1, <1>5, <1>6 DEF Tasks
<1> HIDE DEF t
<1> QED
  BY <1>3, <1>4, <1>7, <1>8 DEF GoesOn, Others, Typed

\* A pass that is not over has an oldest and a newest gift left.
LEMMA OldestFound ==
  ASSUME Typed, NEW w \in Workers, task[w].found # NoGifts
  PROVE  Min(DOMAIN task[w].found) \in DOMAIN task[w].found
<1> DEFINE D == DOMAIN task[w].found
<1>1. D \in SUBSET Gift /\ D # {}
  <2>1. PICK S \in SUBSET Gift : task[w].found \in [S -> Nat]
    <3>1. task[w] \in Tasks
      BY DEF Typed
    <3> QED
      BY <3>1 DEF Tasks, Findings
  <2> QED
    BY <2>1 DEF NoGifts
<1>2. Gift = 1..Len(Given) /\ Len(Given) \in Nat
  BY PayForwardAssumption DEF Gift
<1> HIDE DEF D
<1>3. \E n \in D : \A m \in D : n <= m
  BY <1>1, <1>2, LeastMember
<1>4. Min(D) \in D
  BY <1>3 DEF Min
<1> QED
  BY <1>4 DEF D

LEMMA NewestFound ==
  ASSUME Typed, NEW w \in Workers, task[w].found # NoGifts
  PROVE  Max(DOMAIN task[w].found) \in DOMAIN task[w].found
<1> DEFINE D == DOMAIN task[w].found
<1>1. D \in SUBSET Gift /\ D # {}
  <2>1. PICK S \in SUBSET Gift : task[w].found \in [S -> Nat]
    <3>1. task[w] \in Tasks
      BY DEF Typed
    <3> QED
      BY <3>1 DEF Tasks, Findings
  <2> QED
    BY <2>1 DEF NoGifts
<1>2. Gift = 1..Len(Given) /\ Len(Given) \in Nat
  BY PayForwardAssumption DEF Gift
<1> HIDE DEF D
<1>3. \E n \in D : \A m \in D : n >= m
  <2> DEFINE E == {Len(Given) - m : m \in D}
  <2>1. E \in SUBSET Nat /\ E # {}
    <3>1. \A m \in D : m \in 1..Len(Given)
      BY <1>1, <1>2
    <3>2. \A m \in D : Len(Given) - m \in Nat
      BY <1>2, <3>1
    <3> QED
      BY <1>1, <3>2
  <2>2. PICK e \in E : \A f \in E : e <= f
    BY <2>1, LeastMember
  <2>3. PICK n \in D : e = Len(Given) - n
    BY <2>2
  <2>4. \A m \in D : Len(Given) - n <= Len(Given) - m
    BY <2>2, <2>3
  <2>5. \A m \in D : m \in Int /\ n \in Int
    BY <1>1, <1>2
  <2> QED
    BY <1>2, <2>4, <2>5
<1>4. Max(D) \in D
  BY <1>3 DEF Max
<1> QED
  BY <1>4 DEF D

LEMMA ConsumeGiftStep ==
  ASSUME IInv, NEW w \in Workers, ConsumeGift(w)
  PROVE  IInv'
<1> DEFINE g == Min(DOMAIN task[w].found)
           ok == gift[g].remaining >= Share(w, g)
<1>1. Typed /\ task[w].step = "consume" /\ task[w].found # NoGifts /\ task[w] \in Tasks
  BY DEF IInv, Typed, ConsumeGift, At, FifoDone
<1>2. UNCHANGED <<intent, refunded, row, pool, books, posted>> /\ Moved(w, g, ok)
  BY DEF ConsumeGift
<1>3. g \in DOMAIN task[w].found
  BY <1>1, OldestFound
<1> HIDE DEF g
<1>4. /\ GoesOn(w, task[w].step) /\ task' \in [Workers -> Tasks] /\ befell' = befell
      /\ g \in Gift /\ Share(w, g) \in Nat
  <2>1. ok \in BOOLEAN
    OBVIOUS
  <2> HIDE DEF ok
  <2> QED
    BY <1>1, <1>2, <1>3, <2>1, PassMoves
<1>5. gift[g].remaining \in Nat /\ Given[g] \in Nat
  BY <1>1, <1>4, PayForwardAssumption DEF Typed, GiftRows, Gift
<1>6. \/ gift' = gift
      \/ /\ gift' = [gift EXCEPT ![g].remaining = gift[g].remaining - Share(w, g)]
         /\ gift[g].remaining - Share(w, g) \in Nat
  <2>1. gift' = IF ok THEN [gift EXCEPT ![g].remaining = @ - Share(w, g)] ELSE gift
    BY DEF ConsumeGift, g
  <2> QED
    BY <1>4, <1>5, <2>1
<1>7. /\ gift' \in [Gift -> GiftRows]
      /\ \A h \in Gift : /\ gift'[h].status = gift[h].status /\ gift'[h].age = gift[h].age
                         /\ gift'[h].refunded = gift[h].refunded
  <2>1. CASE gift' = gift
    BY <1>1, <2>1 DEF Typed
  <2>2. CASE ~(gift' = gift)
    <3>1. /\ gift' = [gift EXCEPT ![g].remaining = gift[g].remaining - Share(w, g)]
          /\ gift[g].remaining - Share(w, g) \in Nat
      BY <1>6, <2>2
    <3> HIDE DEF ok
    <3> QED
      BY <1>1, <1>4, <3>1, RemainderEdit
  <2> QED
    BY <2>1, <2>2
<1>8. Typed'
  BY <1>1, <1>2, <1>4, <1>7 DEF Typed
<1>9. task'[w].step = "consume" /\ task'[w].amount = task[w].amount /\ Others(w)
  BY <1>1, <1>4 DEF GoesOn
<1>10. InHand'[w] = InHand[w] /\ Ahead'[w] = Ahead[w]
  BY <1>1, <1>9 DEF InHand, Ahead
<1>11. Recorded'
  BY <1>1, <1>2, <1>4, <1>7, <1>9, RecordedKeptInside
<1>12. UNCHANGED <<intent, refunded, pool, books, posted>> /\ row' = row
  BY <1>2
<1> QED
  BY <1>1, <1>4, <1>7, <1>8, <1>9, <1>10, <1>11, <1>12, InsideStep DEF ApplySteps

LEMMA RestoreGiftStep ==
  ASSUME IInv, NEW w \in Workers, RestoreGift(w)
  PROVE  IInv'
<1> DEFINE g == Max(DOMAIN task[w].found)
           ok == gift[g].remaining <= Given[g] - Share(w, g)
<1>1. Typed /\ task[w].step = "restore" /\ task[w].found # NoGifts /\ task[w] \in Tasks
  BY DEF IInv, Typed, RestoreGift, At, FifoDone
<1>2. UNCHANGED <<intent, refunded, row, pool, books, posted>> /\ Moved(w, g, ok)
  BY DEF RestoreGift
<1>3. g \in DOMAIN task[w].found
  BY <1>1, NewestFound
<1> HIDE DEF g
<1>4. /\ GoesOn(w, task[w].step) /\ task' \in [Workers -> Tasks] /\ befell' = befell
      /\ g \in Gift /\ Share(w, g) \in Nat
  <2>1. ok \in BOOLEAN
    OBVIOUS
  <2> HIDE DEF ok
  <2> QED
    BY <1>1, <1>2, <1>3, <2>1, PassMoves
<1>5. gift[g].remaining \in Nat /\ Given[g] \in Nat
  BY <1>1, <1>4, PayForwardAssumption DEF Typed, GiftRows, Gift
<1>6. \/ gift' = gift
      \/ /\ gift' = [gift EXCEPT ![g].remaining = gift[g].remaining + Share(w, g)]
         /\ gift[g].remaining + Share(w, g) \in Nat
  <2>1. gift' = IF ok THEN [gift EXCEPT ![g].remaining = @ + Share(w, g)] ELSE gift
    BY DEF RestoreGift, g
  <2> QED
    BY <1>4, <1>5, <2>1
<1>7. /\ gift' \in [Gift -> GiftRows]
      /\ \A h \in Gift : /\ gift'[h].status = gift[h].status /\ gift'[h].age = gift[h].age
                         /\ gift'[h].refunded = gift[h].refunded
  <2>1. CASE gift' = gift
    BY <1>1, <2>1 DEF Typed
  <2>2. CASE ~(gift' = gift)
    <3>1. /\ gift' = [gift EXCEPT ![g].remaining = gift[g].remaining + Share(w, g)]
          /\ gift[g].remaining + Share(w, g) \in Nat
      BY <1>6, <2>2
    <3> HIDE DEF ok
    <3> QED
      BY <1>1, <1>4, <3>1, RemainderEdit
  <2> QED
    BY <2>1, <2>2
<1>8. Typed'
  BY <1>1, <1>2, <1>4, <1>7 DEF Typed
<1>9. task'[w].step = "restore" /\ task'[w].amount = task[w].amount /\ Others(w)
  BY <1>1, <1>4 DEF GoesOn
<1>10. InHand'[w] = InHand[w] /\ Ahead'[w] = Ahead[w]
  BY <1>1, <1>9 DEF InHand, Ahead
<1>11. Recorded'
  BY <1>1, <1>2, <1>4, <1>7, <1>9, RecordedKeptInside
<1>12. UNCHANGED <<intent, refunded, pool, books, posted>> /\ row' = row
  BY <1>2
<1> QED
  BY <1>1, <1>4, <1>7, <1>8, <1>9, <1>10, <1>11, <1>12, InsideStep DEF CancelSteps

(***************************************************************************)
(* The reservation's row, and the giver's refund.                          *)
(***************************************************************************)

LEMMA ReserveRowStep ==
  ASSUME IInv, NEW w \in Workers, NEW r \in Rows, ReserveRow(w, r)
  PROVE  IInv'
<1>1. Typed /\ Addressed /\ OneSlot /\ Aged /\ Backed /\ Once /\ Booked /\ Recorded
      /\ task[w].step = "reserve_row" /\ row[r].status = "none"
  BY DEF IInv, ReserveRow, At
<1>2. task[w].amount \in Nat /\ task[w].user \in Users /\ row[r] \in RedemptionRows
  BY <1>1 DEF Typed, Tasks, Addressed, ReserveSteps
<1>3. UNCHANGED <<intent, refunded, gift, pool, books, posted, befell>>
  BY DEF ReserveRow, Finish
<1> DEFINE new == [status |-> "reserved", user |-> task[w].user, amount |-> task[w].amount, fee |-> 0]
<1>4. /\ new \in RedemptionRows /\ new.status = "reserved" /\ new.user = task[w].user
      /\ new.amount = task[w].amount
  BY <1>2, NewTask DEF RedemptionRows, Live
<1>5. row' = [row EXCEPT ![r] = new]
  BY DEF ReserveRow
<1> HIDE DEF new
<1>6. row' \in [Rows -> RedemptionRows] /\ row'[r] = new /\ OtherRows(r)
  BY <1>1, <1>4, <1>5, RowEdit
<1>7. Ends(w) /\ task' \in [Workers -> Tasks]
  BY <1>1, FinishEnds DEF ReserveRow, Finish
<1>8. task'[w].step = "idle" /\ Others(w)
  BY <1>7 DEF Ends
<1>9. Typed'
  BY <1>1, <1>3, <1>6, <1>7 DEF Typed
<1>10. Addressed'
  BY <1>1, <1>8, AddressedKept
     DEF ReserveSteps, RefundSteps, ApplySteps, CancelSteps, CreditSteps, RefundedSteps,
          ExpireSteps
<1>11. OneSlot'
  <2>1. \A s \in Rows : row[s].user = task[w].user => row[s].status = "released"
    <3>1. \A s \in Rows : row[s].user = task[w].user => row[s].status \notin Live \cup {"refunded"}
      BY DEF ReserveRow, SlotTaken
    <3>2. \A s \in Rows : row[s].user = task[w].user => row[s].status # "none"
      BY <1>1, <1>2, PayForwardAssumption DEF OneSlot
    <3>3. \A s \in Rows : row[s].status \in Live \cup {"none", "released", "refunded"}
      BY <1>1 DEF Typed, RedemptionRows
    <3> QED
      BY <3>1, <3>2, <3>3
  <2>2. task[w].user # None
    BY <1>2, PayForwardAssumption
  <2>3. \A s \in Rows : row'[s].status = "none" <=> row'[s].user = None
    BY <1>1, <1>4, <1>6, <2>2 DEF OneSlot, OtherRows
  <2>4. \A s \in Rows \ {r} : row'[s].status # "released" => row'[s].user # task[w].user
    BY <1>6, <2>1 DEF OtherRows
  <2> QED
    BY <1>1, <1>4, <1>6, <2>3, <2>4 DEF OneSlot, OtherRows
<1>12. Aged'
  BY <1>1, <1>3, AgedKept
<1>13. /\ AmountIn(Live) \in Int /\ AmountIn({"reserved"}) \in Int
       /\ AmountIn(Live)' = AmountIn(Live) + task[w].amount
       /\ AmountIn({"reserved"})' = AmountIn({"reserved"}) + task[w].amount
  <2>1. AmountIn(Live)' = AmountIn(Live) - (IF row[r].status \in Live THEN row[r].amount ELSE 0)
                                    + (IF row'[r].status \in Live THEN row'[r].amount ELSE 0)
    BY <1>1, <1>6, <1>9, RowSums
  <2>2. AmountIn({"reserved"})' = AmountIn({"reserved"})
                        - (IF row[r].status \in {"reserved"} THEN row[r].amount ELSE 0)
                        + (IF row'[r].status \in {"reserved"} THEN row'[r].amount ELSE 0)
    BY <1>1, <1>6, <1>9, RowSums
  <2>3. AmountIn(Live) \in Int /\ AmountIn({"reserved"}) \in Int
    BY <1>1, <1>9, AmountType
  <2> QED
    BY <1>1, <1>2, <1>4, <1>6, <2>1, <2>2, <2>3 DEF Live
<1>14. /\ InHand[w] = task[w].amount /\ Ahead[w] = - task[w].amount
       /\ InHand'[w] = 0 /\ Ahead'[w] = 0
  BY <1>1, <1>8 DEF InHand, Ahead, RefundedSteps, ApplySteps
<1>15. pool \in Int /\ books.fund \in Int
  BY <1>1 DEF Typed
<1>16. Backed'
  <2>1. \A g \in Gift : Waiting'[g] = Waiting[g] /\ Arrived'[g] = Arrived[g]
    BY <1>3 DEF Waiting, Arrived
  <2>2. pool' + AmountIn(Live)' + InHand'[w] <= pool + AmountIn(Live) + InHand[w]
    BY <1>2, <1>3, <1>13, <1>14, <1>15
  <2> QED
    BY <1>1, <1>8, <1>9, <2>1, <2>2, BackedKept
<1>17. Booked'
  <2>1. pool' + AmountIn({"reserved"})' - books'.fund - Ahead'[w]
           = pool + AmountIn({"reserved"}) - books.fund - Ahead[w]
    BY <1>2, <1>3, <1>13, <1>14, <1>15
  <2> QED
    BY <1>1, <1>3, <1>8, <1>9, <2>1, BookedKept
<1>18. Once'
  <2>1. Won \subseteq Won'
    BY <1>1, <1>3, <1>6, WonGrows DEF OtherRows
  <2>2. ~Posting(w)'
    BY <1>8 DEF Posting, CreditSteps, ApplySteps, CancelSteps, RefundedSteps, ExpireSteps
  <2> QED
    BY <1>1, <1>3, <1>8, <2>1, <2>2, OnceKept
<1>19. Recorded'
  BY <1>1, <1>3, <1>8, RecordedKept
<1> QED
  BY <1>9, <1>10, <1>11, <1>12, <1>16, <1>17, <1>18, <1>19 DEF IInv

LEMMA RefundClaimStep ==
  ASSUME IInv, NEW w \in Workers, RefundClaim(w)
  PROVE  IInv'
<1> DEFINE g == task[w].gift
<1>1. Typed /\ task[w].step = "refund_claim" /\ task[w].amount \in Nat /\ g \in Gift
  BY DEF IInv, Typed, Tasks, Addressed, RefundClaim, At, RefundSteps
<1>2. UNCHANGED <<intent, refunded, row, pool, books, posted, befell>>
  BY DEF RefundClaim, Goto
<1>3. PICK s \in {"refund_stripe", "give_back"} : Goto(w, s)
  BY DEF RefundClaim
<1>4. GoesOn(w, s) /\ task' \in [Workers -> Tasks]
  BY <1>1, <1>3, GotoGoesOn DEF Goto, AllSteps, RefundSteps
<1>5. task'[w].step = s /\ task'[w].amount = task[w].amount /\ Others(w)
  BY <1>4 DEF GoesOn
<1>6. /\ gift' \in [Gift -> GiftRows]
      /\ \A h \in Gift : /\ gift'[h].status = gift[h].status /\ gift'[h].age = gift[h].age
                         /\ gift'[h].refunded = gift[h].refunded
  <2>1. CASE gift' = gift
    BY <1>1, <2>1 DEF Typed
  <2>2. CASE gift' # gift
    <3> DEFINE n == gift[g].remaining - task[w].amount
    <3>1. gift' = [gift EXCEPT ![g].remaining = n] /\ gift[g].remaining >= task[w].amount
      BY <2>2 DEF RefundClaim
    <3>2. gift[g].remaining \in Nat
      BY <1>1 DEF Typed, GiftRows
    <3>3. n \in Nat
      BY <1>1, <3>1, <3>2
    <3> HIDE DEF n
    <3> QED
      BY <1>1, <3>1, <3>3, RemainderEdit
  <2> QED
    BY <2>1, <2>2
<1>7. Typed'
  BY <1>1, <1>2, <1>4, <1>6 DEF Typed
<1>8. InHand'[w] = InHand[w] /\ Ahead'[w] = Ahead[w]
  BY <1>1, <1>5 DEF InHand, Ahead, RefundedSteps, ApplySteps
<1>9. Recorded'
  BY <1>1, <1>2, <1>5, <1>6, RecordedKeptInside
<1>10. row' = row
  BY <1>2
<1> QED
  BY <1>1, <1>2, <1>4, <1>5, <1>6, <1>7, <1>8, <1>9, <1>10, InsideStep DEF RefundSteps

LEMMA RefundUndoStep ==
  ASSUME IInv, NEW w \in Workers, RefundUndo(w)
  PROVE  IInv'
<1> DEFINE g == task[w].gift
           n == gift[g].remaining + task[w].amount
<1>1. Typed /\ task[w].step = "refund_undo" /\ task[w].amount \in Nat /\ g \in Gift
  BY DEF IInv, Typed, Tasks, Addressed, RefundUndo, At, RefundSteps
<1>2. UNCHANGED <<intent, refunded, row, pool, books, posted, befell>> /\ row' = row
  BY DEF RefundUndo, Finish
<1>3. Ends(w) /\ task' \in [Workers -> Tasks]
  BY <1>1, FinishEnds DEF RefundUndo, Finish
<1>4. task'[w].step = "idle" /\ Others(w)
  BY <1>3 DEF Ends
<1>5. gift' = [gift EXCEPT ![g].remaining = n] /\ n \in Nat
  <2>1. gift[g].remaining \in Nat
    BY <1>1 DEF Typed, GiftRows
  <2> QED
    BY <1>1, <2>1 DEF RefundUndo
<1> HIDE DEF n
<1>6. /\ gift' \in [Gift -> GiftRows]
      /\ \A h \in Gift : /\ gift'[h].status = gift[h].status /\ gift'[h].age = gift[h].age
                         /\ gift'[h].refunded = gift[h].refunded
  BY <1>1, <1>5, RemainderEdit
<1>7. Typed'
  BY <1>1, <1>2, <1>3, <1>6 DEF Typed
<1>8. InHand'[w] = InHand[w] /\ Ahead'[w] = Ahead[w]
  BY <1>1, <1>4 DEF InHand, Ahead, RefundedSteps, ApplySteps
<1>9. Recorded'
  BY <1>1, <1>2, <1>4, <1>6, RecordedKeptInside
<1> QED
  BY <1>2, <1>3, <1>4, <1>6, <1>7, <1>8, <1>9, InsideStep

LEMMA RefundRowStep ==
  ASSUME IInv, NEW w \in Workers, RefundRow(w)
  PROVE  IInv'
<1> DEFINE g == task[w].gift
           n == gift[g].refunded + task[w].amount
<1>1. Typed /\ Once /\ Addressed /\ Recorded /\ task[w].step = "refund_row" /\ task[w].amount \in Nat
      /\ g \in Gift
  BY DEF IInv, Typed, Tasks, Addressed, RefundRow, At, RefundedSteps
<1>2. UNCHANGED <<intent, refunded, row, pool, books, posted, befell>> /\ row' = row
  BY DEF RefundRow, Goto
<1>3. GoesOn(w, "refund_books") /\ task' \in [Workers -> Tasks]
  BY <1>1, GotoGoesOn DEF RefundRow, Goto, AllSteps, RefundedSteps
<1>4. task'[w].step = "refund_books" /\ task'[w].amount = task[w].amount /\ Others(w)
  BY <1>3 DEF GoesOn
<1>5. gift' = [gift EXCEPT ![g].refunded = n] /\ n \in Nat /\ gift[g].refunded \in Nat
  <2>1. gift[g].refunded \in Nat
    BY <1>1 DEF Typed, GiftRows
  <2> QED
    BY <1>1, <2>1 DEF RefundRow
<1>6. /\ gift' \in [Gift -> GiftRows] /\ gift'[g].refunded = n
      /\ \A h \in Gift : gift'[h].status = gift[h].status /\ gift'[h].age = gift[h].age
      /\ \A h \in Gift \ {g} : gift'[h] = gift[h]
  <2> HIDE DEF n
  <2> QED
    BY <1>1, <1>5, RemainderEdit
<1>7. Typed'
  BY <1>1, <1>2, <1>3, <1>6 DEF Typed
<1>8. InHand'[w] = InHand[w] /\ Ahead'[w] = Ahead[w]
  BY <1>1, <1>4 DEF InHand, Ahead, RefundedSteps, ApplySteps
<1>9. Recorded'
  <2>1. \A v \in Workers : task'[v].step = "refund_row" =>
          v # w /\ task[v].step = "refund_row" /\ task'[v] = task[v]
    BY <1>4 DEF Others
  <2> SUFFICES ASSUME befell \cap {"crash", "refund_replayed"} = {}
               PROVE  /\ \A v \in Workers : task'[v].step = "refund_row" =>
                           /\ gift'[task'[v].gift].refunded = 0
                           /\ refunded'[task'[v].gift] = task'[v].amount
                      /\ \A h \in Gift : gift'[h].refunded = refunded'[h] \/ Recording(h)'
    BY <1>2 DEF Recorded
  <2>2. /\ gift[g].refunded = 0 /\ refunded[g] = task[w].amount
        /\ \A v \in Workers : v # w /\ task[v].step = "refund_row" => task[v].gift # g
    <3>1. \A v \in Workers : task[v].step = "refund_row" =>
            Posting(v) /\ PostingOf(v) = <<"refund", task[v].gift>>
      BY
      DEF Posting, PostingOf, CreditSteps, ApplySteps, CancelSteps, RefundedSteps, ExpireSteps
    <3>2. \A v \in Workers : v # w /\ task[v].step = "refund_row" => task[v].gift # g
      BY <1>1, <3>1 DEF Once, Unreplayed
    <3> QED
      BY <1>1, <3>2 DEF Recorded
  <2>3. \A v \in Workers : task[v].step = "refund_row" => task[v].gift \in Gift
    BY <1>1 DEF Addressed, RefundedSteps
  <2>4. \A v \in Workers : task'[v].step = "refund_row" =>
          gift'[task'[v].gift].refunded = 0 /\ refunded'[task'[v].gift] = task'[v].amount
    BY <1>1, <1>2, <1>6, <2>1, <2>2, <2>3 DEF Recorded
  <2>5. \A h \in Gift : gift'[h].refunded = refunded'[h] \/ Recording(h)'
    <3> SUFFICES ASSUME NEW h \in Gift
                 PROVE  gift'[h].refunded = refunded'[h] \/ Recording(h)'
      OBVIOUS
    <3>1. CASE h = g
      BY <1>1, <1>2, <1>5, <1>6, <2>2, <3>1
    <3>2. CASE h # g
      <4>1. Recording(h) => Recording(h)'
        BY <1>4, <3>2 DEF Recording, Others
      <4>2. gift[h].refunded = refunded[h] \/ Recording(h)
        BY <1>1 DEF Recorded
      <4> QED
        BY <1>2, <1>6, <3>2, <4>1, <4>2
    <3> QED
      BY <3>1, <3>2
  <2> QED
    BY <2>4, <2>5
<1> QED
  BY <1>1, <1>2, <1>3, <1>4, <1>6, <1>7, <1>8, <1>9, InsideStep DEF RefundedSteps

LEMMA RefundStripeStep ==
  ASSUME IInv, NEW w \in Workers, RefundStripe(w)
  PROVE  IInv'
<1> DEFINE g == task[w].gift
<1>1. Typed /\ Addressed /\ OneSlot /\ Aged /\ Backed /\ Once /\ Booked /\ Recorded
      /\ task[w].step = "refund_stripe" /\ g \in Gift
  BY DEF IInv, Addressed, RefundStripe, At, RefundSteps
<1>2. /\ task[w].amount \in Nat /\ task[w].amount > 0 /\ refunded[g] \in {0, task[w].amount}
      /\ Given[g] \in Nat /\ pool \in Nat /\ books.fund \in Int
  BY <1>1, PayForwardAssumption DEF Typed, Tasks, Addressed, RefundStripe, RefundSteps, Gift
<1>3. UNCHANGED <<intent, gift, row, pool, books, posted>> /\ gift' = gift
  BY DEF RefundStripe
<1>4. /\ refunded' \in [Gift -> Nat] /\ refunded'[g] = task[w].amount
      /\ \A h \in Gift \ {g} : refunded'[h] = refunded[h]
  BY <1>1, <1>2 DEF RefundStripe, Typed
<1>5. /\ befell \subseteq befell'
      /\ refunded[g] # 0 => "refund_replayed" \in befell'
  BY DEF RefundStripe, Befalls
<1>6. GoesOn(w, "refund_row") /\ task' \in [Workers -> Tasks]
  BY <1>1, GotoGoesOn DEF RefundStripe, AllSteps, RefundedSteps
<1>7. /\ task'[w].step = "refund_row" /\ task'[w].amount = task[w].amount /\ task'[w].gift = g
      /\ Others(w)
  BY <1>6 DEF GoesOn
<1>8. Typed'
  BY <1>1, <1>3, <1>4, <1>6 DEF Typed
<1>9. Addressed'
  BY <1>1, <1>7, AddressedKept
     DEF ReserveSteps, RefundSteps, ApplySteps, CancelSteps, CreditSteps, RefundedSteps,
          ExpireSteps
<1>10. OneSlot' /\ Aged'
  BY <1>1, <1>3, OneSlotKept, AgedKept
<1>11. /\ InHand[w] = task[w].amount /\ InHand'[w] = 0
       /\ Ahead[w] = - task[w].amount /\ Ahead'[w] = - task[w].amount
  BY <1>1, <1>7 DEF InHand, Ahead, RefundedSteps, ApplySteps
<1>12. Backed'
  <2>1. \A h \in Gift \ {g} : Waiting'[h] = Waiting[h] /\ Arrived'[h] = Arrived[h]
    BY <1>3, <1>4 DEF Waiting, Arrived
  <2>2. /\ Waiting'[g] = Waiting[g] /\ Waiting[g] \in Int /\ Arrived[g] \in Int
        /\ Arrived'[g] = Arrived[g] + refunded[g] - task[w].amount
    BY <1>1, <1>2, <1>3, <1>4 DEF Waiting, Arrived
  <2>3. /\ Arrived'[g] \in Int
        /\ InHand'[w] + Waiting'[g] - Arrived'[g] <= InHand[w] + Waiting[g] - Arrived[g]
    BY <1>2, <1>11, <2>2
  <2> HIDE DEF g
  <2> QED
    BY <1>1, <1>3, <1>7, <1>8, <2>1, <2>2, <2>3, BackedMoves
<1>13. Booked'
  <2>1. AmountIn({"reserved"})' = AmountIn({"reserved"}) /\ AmountIn({"reserved"}) \in Int
    BY <1>1, <1>3, <1>8, RowSumsKept, AmountType
  <2>2. pool' + AmountIn({"reserved"})' - books'.fund - Ahead'[w]
           = pool + AmountIn({"reserved"}) - books.fund - Ahead[w]
    BY <1>2, <1>3, <1>11, <2>1
  <2> QED
    BY <1>1, <1>5, <1>7, <1>8, <2>2, BookedKept
<1>14. Once'
  <2>1. Won \subseteq Won'
    BY <1>2, <1>3, <1>4, WonGrows
  <2>2. Posting(w)' /\ PostingOf(w)' = <<"refund", g>>
    BY <1>7
    DEF Posting, PostingOf, CreditSteps, ApplySteps, CancelSteps, RefundedSteps, ExpireSteps
  <2>3. refunded[g] = 0 => <<"refund", g>> \in Won' \ Won
    BY <1>1, <1>2, <1>4 DEF Won
  <2>4. Unreplayed' => PostingOf(w)' \in Won' \ Won
    BY <1>5, <2>2, <2>3 DEF Unreplayed
  <2> QED
    BY <1>1, <1>3, <1>5, <1>7, <2>1, <2>2, <2>4, OnceWon
<1>15. Recorded'
  <2> SUFFICES ASSUME befell' \cap {"crash", "refund_replayed"} = {}
               PROVE  /\ \A v \in Workers : task'[v].step = "refund_row" =>
                           /\ gift'[task'[v].gift].refunded = 0
                           /\ refunded'[task'[v].gift] = task'[v].amount
                      /\ \A h \in Gift : gift'[h].refunded = refunded'[h] \/ Recording(h)'
    BY DEF Recorded
  <2>1. befell \cap {"crash", "refund_replayed"} = {} /\ refunded[g] = 0 /\ Unreplayed
    BY <1>5 DEF Unreplayed
  <2>2. \A v \in Workers \ {w} : task'[v] = task[v]
    BY <1>7 DEF Others
  <2>3. \A v \in Workers : task[v].step = "refund_row" =>
          task[v].gift \in Gift /\ Posting(v) /\ PostingOf(v) = <<"refund", task[v].gift>>
    BY <1>1
       DEF Addressed, Posting, PostingOf, CreditSteps, ApplySteps, CancelSteps, RefundedSteps,
           ExpireSteps
  <2>4. \A v \in Workers : task[v].step = "refund_row" => task[v].gift # g
    <3> SUFFICES ASSUME NEW v \in Workers, task[v].step = "refund_row", task[v].gift = g
                 PROVE  FALSE
      OBVIOUS
    <3>1. <<"refund", g>> \in Won
      BY <1>1, <2>1, <2>3 DEF Once
    <3>2. refunded[g] # 0
      BY <3>1 DEF Won
    <3> QED
      BY <2>1, <3>2
  <2>5. gift[g].refunded = 0
    <3>1. gift[g].refunded = refunded[g] \/ Recording(g)
      BY <1>1, <2>1 DEF Recorded
    <3> QED
      BY <2>1, <2>4, <3>1 DEF Recording
  <2>6. \A v \in Workers : task'[v].step = "refund_row" =>
          gift'[task'[v].gift].refunded = 0 /\ refunded'[task'[v].gift] = task'[v].amount
    <3> TAKE v \in Workers
    <3>1. CASE v = w
      BY <1>3, <1>4, <1>7, <2>5, <3>1
    <3>2. CASE v # w
      BY <1>1, <1>3, <1>4, <2>1, <2>2, <2>3, <2>4, <3>2 DEF Recorded
    <3> QED
      BY <3>1, <3>2
  <2>7. \A h \in Gift : gift'[h].refunded = refunded'[h] \/ Recording(h)'
    <3> TAKE h \in Gift
    <3>1. CASE h = g
      BY <1>7, <3>1 DEF Recording
    <3>2. CASE h # g
      <4>1. Recording(h) => Recording(h)'
        BY <1>1, <2>2 DEF Recording
      <4>2. gift[h].refunded = refunded[h] \/ Recording(h)
        BY <1>1, <2>1 DEF Recorded
      <4> QED
        BY <1>3, <1>4, <3>2, <4>1, <4>2
    <3> QED
      BY <3>1, <3>2
  <2> QED
    BY <2>6, <2>7
<1> QED
  BY <1>8, <1>9, <1>10, <1>12, <1>13, <1>14, <1>15 DEF IInv

(***************************************************************************)
(* The invariant, and what follows from it.                                *)
(***************************************************************************)

LEMMA InitInvariant == Init => IInv
<1> SUFFICES ASSUME Init
             PROVE  IInv
  OBVIOUS
<1>1. Typed
  <2>1. gift \in [Gift -> GiftRows] /\ row \in [Rows -> RedemptionRows]
    BY NewTask DEF Init, GiftRows, RedemptionRows
  <2> QED
    BY <2>1, RestingIsTask DEF Init, Typed, Deltas
<1>2. \A w \in Workers : task[w].step = "idle"
  BY DEF Init, Resting
<1>3. Addressed
  BY <1>2
     DEF Addressed, ReserveSteps, RefundSteps, ApplySteps, CancelSteps, CreditSteps,
         RefundedSteps,
     ExpireSteps
<1>4. OneSlot /\ Aged
  BY DEF Init, OneSlot, Aged
<1>5. \A S : "none" \notin S => AmountIn(S) = 0
  <2> SUFFICES ASSUME NEW S, "none" \notin S
               PROVE  AmountIn(S) = 0
    OBVIOUS
  <2> DEFINE f == [r \in Rows |-> IF row[r].status \in S THEN row[r].amount ELSE 0]
  <2>1. \A r \in Rows : f[r] = 0
    BY DEF Init
  <2>2. AmountIn(S) = SumFunctionOnSet(f, Rows)
    BY DEF AmountIn, SumFunction
  <2> HIDE DEF f
  <2> QED
    BY <2>1, <2>2, SumNothing, PayForwardAssumption
<1>6. SumFunction(InHand) = 0 /\ SumFunction(Ahead) = 0
  <2>1. /\ \A w \in Workers : InHand[w] = 0 /\ Ahead[w] = 0
        /\ DOMAIN InHand = Workers /\ DOMAIN Ahead = Workers
    BY <1>2 DEF InHand, Ahead, RefundedSteps, ApplySteps
  <2> QED
    BY <2>1, SumNothing, PayForwardAssumption DEF SumFunction
<1>7. SumFunction(Waiting) = 0 /\ SumFunction(Arrived) = 0
  <2>1. /\ \A g \in Gift : Waiting[g] = 0 /\ Arrived[g] = 0
        /\ DOMAIN Waiting = Gift /\ DOMAIN Arrived = Gift
    BY DEF Init, Waiting, Arrived
  <2> QED
    BY <2>1, SumNothing, GiftIsFinite DEF SumFunction
<1>8. Backed
  BY <1>5, <1>6, <1>7 DEF Backed, Init, Live
<1>9. Booked
  BY <1>5, <1>6 DEF Booked, Init, Deltas
<1>10. Once
  BY <1>2
  DEF Init, Once, Posting, CreditSteps, ApplySteps, CancelSteps, RefundedSteps, ExpireSteps
<1>11. Recorded
  BY <1>2 DEF Init, Recorded
<1> QED
  BY <1>1, <1>3, <1>4, <1>8, <1>9, <1>10, <1>11 DEF IInv

LEMMA ContinueStep ==
  ASSUME IInv, NEW w \in Workers, Continue(w)
  PROVE  IInv'
<1>1. CASE \/ CreditPool(w) \/ CreditBooks(w) \/ ReservePool(w) \/ ReserveUndo(w) \/ GiveBack(w)
           \/ \E r \in Rows : ReserveRow(w, r)
  BY <1>1, PoolSteps, CreditBooksStep, ReservePoolStep, ReserveUndoStep, ReserveRowStep
<1>2. CASE ApplyFee(w) \/ ConsumeFind(w) \/ ConsumeGift(w) \/ ApplyBooks(w)
  BY <1>2, ApplyFeeStep, ConsumeFindStep, ConsumeGiftStep, ApplyBooksStep
<1>3. CASE CancelPool(w) \/ RestoreFind(w) \/ RestoreGift(w) \/ CancelBooks(w)
  BY <1>3, PoolSteps, RestoreFindStep, RestoreGiftStep, CancelBooksStep
<1>4. CASE \/ RefundPool(w) \/ RefundClaim(w) \/ RefundStripe(w) \/ RefundRefused(w)
           \/ RefundUndo(w) \/ RefundRow(w) \/ RefundBooks(w)
  BY <1>4, PoolSteps, RefundPoolStep, RefundClaimStep, RefundStripeStep, RefundUndoStep,
     RefundRowStep,
     RefundBooksStep
<1>5. CASE ExpirePool(w) \/ ExpireBooks(w)
  BY <1>5, ExpirePoolStep, ExpireBooksStep
<1> QED
  BY <1>1, <1>2, <1>3, <1>4, <1>5 DEF Continue

LEMMA Stutter == IInv /\ UNCHANGED vars => IInv'
<1> SUFFICES ASSUME IInv, UNCHANGED vars
             PROVE  IInv'
  OBVIOUS
<1> USE DEF vars
<1>1. Typed' /\ Addressed' /\ OneSlot' /\ Aged'
  BY DEF IInv, Typed, Addressed, OneSlot, Aged
<1>2. AmountIn(Live)' = AmountIn(Live) /\ AmountIn({"reserved"})' = AmountIn({"reserved"})
  BY RowSumsKept DEF IInv
<1>3. InHand' = InHand /\ Ahead' = Ahead /\ Waiting' = Waiting /\ Arrived' = Arrived
  BY DEF InHand, Ahead, Waiting, Arrived
<1>4. Backed' /\ Booked'
  BY <1>2, <1>3 DEF IInv, Backed, Booked
<1>5. Once'
  <2>1. Won \subseteq Won'
    BY WonGrows
  <2> QED
    BY <2>1, OnceKeptOutside DEF IInv
<1>6. Recorded'
  BY DEF IInv, Recorded, Recording
<1> QED
  BY <1>1, <1>4, <1>5, <1>6 DEF IInv

LEMMA NextKeepsInvariant == IInv /\ [Next]_vars => IInv'
<1> SUFFICES ASSUME IInv, [Next]_vars
             PROVE  IInv'
  OBVIOUS
<1>1. CASE \E g \in Gift : Contribute(g) \/ FailGift(g) \/ Age(g)
  BY <1>1, ContributeStep, GiftEndsStep
<1>2. CASE \E g \in Gift, o \in {"succeeded", "canceled", "declined"} : Settle(g, o)
  BY <1>2, SettleStep
<1>3. CASE \E w \in Workers, g \in Gift : CreditClaim(w, g) \/ RefundRead(w, g) \/ ExpireClaim(w, g)
  BY <1>3, CreditClaimStep, RefundReadStep, ExpireClaimStep
<1>4. CASE \E w \in Workers, u \in Users : ReserveQuote(w, u)
  BY <1>4, ReserveQuoteStep
<1>5. CASE \E w \in Workers, r \in Rows :
             ApplyClaim(w, r) \/ ReleaseClaim(w, r) \/ \E f \in BOOLEAN : CancelClaim(w, r, f)
  BY <1>5, ApplyClaimStep, ReleaseClaimStep, CancelClaimStep
<1>6. CASE \E w \in Workers : Continue(w) \/ Crash(w)
  BY <1>6, ContinueStep, CrashStep
<1>7. CASE UNCHANGED vars
  BY <1>7, Stutter
<1> QED
  BY <1>1, <1>2, <1>3, <1>4, <1>5, <1>6, <1>7 DEF Next

LEMMA Invariant == Spec => []IInv
BY InitInvariant, NextKeepsInvariant, PTL DEF Spec

\* "One redemption per person per business per day, decided by the database" (reserve, release):
\* the unique index over what was not released is enough, whatever the handlers do meanwhile.
THEOREM NobodyHelpedTwice == Spec => []OneHelpADay
<1>1. IInv => OneHelpADay
  <2> SUFFICES ASSUME IInv, NEW u \in Users
               PROVE  Cardinality({r \in Rows : row[r].user = u /\ row[r].status # "released"}) <= 1
    BY DEF OneHelpADay
  <2>1. u # None
    BY PayForwardAssumption
  <2> QED
    BY <2>1, AllTheSame DEF IInv, OneSlot
<1> QED
  BY <1>1, Invariant, PTL

\* Nothing but gifts that arrived comes out of the pool again (reserve, apply, release,
\* refundContribution, expireContributions), however many handlers race and however often they
\* die.
THEOREM PoolIsBacked == Spec => []BackedByMoney
<1>1. IInv => BackedByMoney
  <2> SUFFICES ASSUME IInv
               PROVE  BackedByMoney
    OBVIOUS
  <2>1. SumFunction(InHand) \in Nat
    <3>1. \A w \in Workers : InHand[w] \in Nat
      BY DEF InHand, IInv, Typed, Tasks
    <3>2. DOMAIN InHand = Workers
      BY DEF InHand
    <3> QED
      BY <3>1, <3>2, SumNotNegative, PayForwardAssumption DEF SumFunction
  <2>2. /\ SumFunction(Waiting) \in Nat /\ SumFunction(Arrived) \in Int
    <3>1. \A g \in Gift : Given[g] \in Nat /\ refunded[g] \in Nat
      BY PayForwardAssumption DEF IInv, Typed, Gift
    <3>2. \A g \in Gift : Waiting[g] \in Nat /\ Arrived[g] \in Int
      BY <3>1 DEF Waiting, Arrived
    <3>3. DOMAIN Waiting = Gift /\ DOMAIN Arrived = Gift
      BY DEF Waiting, Arrived
    <3> QED
      BY <3>2, <3>3, SumNotNegative, SumTakeOut, GiftIsFinite DEF SumFunction
  <2>3. AmountIn(Live) \in Int /\ pool \in Int
    BY AmountIsInt DEF IInv, Typed
  <2> QED
    BY <2>1, <2>2, <2>3 DEF IInv, Backed, BackedByMoney
<1> QED
  BY <1>1, Invariant, PTL

\* Once no handler is half way, the pool, the redemption rows, the ledger and the card tell of
\* the same money (the postings of communityFund.ts against balance_cents and refunded_cents).
THEOREM PoolMatchesTheBooks == Spec => []PoolMoneyRight
<1>1. IInv => PoolMoneyRight
  <2> SUFFICES ASSUME IInv
               PROVE  PoolMoneyRight
    OBVIOUS
  <2>1. BooksMatchPool
    <3> SUFFICES ASSUME Settled({"crash", "refund_replayed", "expired_in_use"})
                 PROVE  books.fund = pool + AmountIn({"reserved"})
      BY DEF BooksMatchPool
    <3>1. SumFunction(Ahead) = 0
      <4>1. \A w \in Workers : Ahead[w] = 0
        BY DEF Settled, Idle, Ahead, RefundedSteps, ApplySteps
      <4>2. DOMAIN Ahead = Workers
        BY DEF Ahead
      <4> QED
        BY <4>1, <4>2, SumNothing, PayForwardAssumption DEF SumFunction
    <3>2. books.fund \in Int
      BY DEF IInv, Typed
    <3>3. pool + AmountIn({"reserved"}) = books.fund + SumFunction(Ahead)
      BY DEF IInv, Booked, Settled
    <3> QED
      BY <3>1, <3>2, <3>3
  <2>2. RefundRecorded
    BY DEF RefundRecorded, IInv, Recorded, Recording, Settled, Idle
  <2> QED
    BY <2>1, <2>2 DEF PoolMoneyRight
<1> QED
  BY <1>1, Invariant, PTL

-----------------------------------------------------------------------------
(***************************************************************************)
(* Gift by gift, order by order and day by day: the invariant of GiftsRight*)
(* holds on top of IInv.  First the day's budget and the fees.             *)
(***************************************************************************)

Apart == "overlap" \notin befell

\* As long as no handler began while another was half way, one at most is.
Alone == Apart => \A v, w \in Workers : Idle(v) \/ Idle(w) \/ v = w

\* The day's budget holds, whatever is about to be reserved included.
Rationed ==
  Apart => /\ SpentToday <= DayCap
           /\ \A w \in Workers :
                task[w].step \in ReserveSteps => SpentToday + task[w].amount <= DayCap

Passed == {"applied", "refunded", "released"}

\* What is covered is within the day's cap, so that its fee is known.
Priced ==
  /\ \A r \in Rows : /\ row[r].amount <= DayCap /\ row[r].fee \in Nat
                     /\ row[r].status \in {"none", "reserved"} => row[r].fee = 0
  /\ \A w \in Workers :
       /\ task[w].fee \in Nat
       /\ task[w].step \in ReserveSteps \cup ApplySteps => task[w].amount <= DayCap
  /\ "revenue" \in DOMAIN books /\ books.revenue \in Int

\* A redemption is booked after it was applied, and reversed after it was given back.
InTurn ==
  /\ \A w \in Workers :
       /\ task[w].step \in ApplySteps => row[task[w].row].status \in Passed
       /\ task[w].step \in CancelSteps => row[task[w].row].status \in {"refunded", "released"}
  /\ \A r \in Rows :
       /\ <<"redeem", r>> \in posted => row[r].status \in Passed
       /\ <<"redeem_reverse", r>> \in posted => row[r].status \in {"refunded", "released"}

\* What a handler is about to book is not booked yet.
Unposted ==
  Apart => \A w \in Workers :
    /\ task[w].step \in ApplySteps => <<"redeem", task[w].row>> \notin posted
    /\ task[w].step \in CancelSteps => <<"redeem_reverse", task[w].row>> \notin posted
    /\ task[w].step = "apply_fee" =>
         row[task[w].row].status = "applied" /\ row[task[w].row].fee = 0

Earned == [r \in Rows |-> IF row[r].status = "applied" THEN row[r].fee ELSE 0]

\* Fees written on a row and not yet booked, or booked and no longer on a standing row.
Unearned ==
  [w \in Workers |->
     CASE task[w].step \in {"consume_find", "consume"} -> - task[w].fee
       [] task[w].step \in CancelSteps -> task[w].fee
       [] OTHER -> 0]

\* FeesOfStandingOrders, with the operations half way.
FeesAdd ==
  befell \cap {"crash", "overlap"} = {} =>
    books.revenue = SumFunction(Earned) + SumFunction(Unearned)

Charged == Alone /\ Rationed /\ Priced /\ InTurn /\ Unposted /\ FeesAdd

-----------------------------------------------------------------------------

\* Handler w takes a step, and if all came one after the other, the others rest.
Only(w) ==
  /\ Others(w) /\ befell \subseteq befell'
  /\ Apart' => \A v \in Workers \ {w} : task[v].step = "idle" /\ task'[v].step = "idle"

LEMMA BeginsAlone ==
  ASSUME Typed, NEW w \in Workers, NEW t, Begin(w, t)
  PROVE  Only(w) /\ task'[w] = t /\ task[w].step = "idle"
BY DEF Typed, Begin, Befalls, Only, Others, Apart, Idle

LEMMA StaysAlone ==
  ASSUME Alone, NEW w \in Workers, task[w].step # "idle", Others(w), befell \subseteq befell'
  PROVE  Only(w)
BY DEF Alone, Idle, Only, Others, Apart

LEMMA AloneKept ==
  ASSUME NEW w \in Workers, Only(w)
  PROVE  Alone'
BY DEF Alone, Idle, Only

\* The handler goes on to another step and forgets nothing.
LEMMA Onward ==
  ASSUME Typed, NEW w \in Workers, NEW s, task' = [task EXCEPT ![w].step = s]
  PROVE  /\ Others(w) /\ task'[w].step = s
         /\ task'[w].gift = task[w].gift /\ task'[w].row = task[w].row
         /\ task'[w].user = task[w].user /\ task'[w].amount = task[w].amount
         /\ task'[w].fee = task[w].fee /\ task'[w].left = task[w].left
         /\ task'[w].found = task[w].found
BY DEF Typed, Others, Tasks

LEMMA UnearnedSums ==
  ASSUME Priced, Priced', NEW w \in Workers, Others(w)
  PROVE  /\ SumFunction(Unearned) \in Int /\ Unearned[w] \in Int /\ Unearned'[w] \in Int
         /\ SumFunction(Unearned)' = SumFunction(Unearned) - Unearned[w] + Unearned'[w]
<1> DEFINE u == Unearned
           v == Unearned'
<1>1. \A x \in Workers : u[x] \in Int /\ v[x] \in Int
  BY DEF Priced, Unearned
<1>2. \A x \in Workers \ {w} : v[x] = u[x]
  BY DEF Others, Unearned
<1>3. SumFunction(u) = SumFunctionOnSet(u, Workers) /\ SumFunction(u)' = SumFunctionOnSet(v, Workers)
  BY DEF SumFunction, Unearned
<1>4. IsFiniteSet(Workers)
  BY PayForwardAssumption
<1> HIDE DEF u, v
<1>5. SumFunctionOnSet(u, Workers) \in Int
  BY <1>1, <1>4, SumTakeOut
<1>6. SumFunctionOnSet(v, Workers) = SumFunctionOnSet(u, Workers) - u[w] + v[w]
  <2>1. ChangesAt(u, v, Workers, w)
    BY <1>1, <1>2 DEF ChangesAt
  <2> QED
    BY <1>4, <2>1, SumChange
<1> QED
  BY <1>1, <1>3, <1>5, <1>6 DEF u, v

LEMMA EarnedSums ==
  ASSUME Priced, Priced', NEW r \in Rows, OtherRows(r)
  PROVE  /\ SumFunction(Earned) \in Int /\ Earned[r] \in Int /\ Earned'[r] \in Int
         /\ SumFunction(Earned)' = SumFunction(Earned) - Earned[r] + Earned'[r]
<1> DEFINE u == Earned
           v == Earned'
<1>1. \A x \in Rows : u[x] \in Int /\ v[x] \in Int
  BY DEF Priced, Earned
<1>2. \A x \in Rows \ {r} : v[x] = u[x]
  BY DEF OtherRows, Earned
<1>3. SumFunction(u) = SumFunctionOnSet(u, Rows) /\ SumFunction(u)' = SumFunctionOnSet(v, Rows)
  BY DEF SumFunction, Earned
<1>4. IsFiniteSet(Rows)
  BY PayForwardAssumption
<1> HIDE DEF u, v
<1>5. SumFunctionOnSet(u, Rows) \in Int
  BY <1>1, <1>4, SumTakeOut
<1>6. SumFunctionOnSet(v, Rows) = SumFunctionOnSet(u, Rows) - u[r] + v[r]
  <2>1. ChangesAt(u, v, Rows, r)
    BY <1>1, <1>2 DEF ChangesAt
  <2> QED
    BY <1>4, <2>1, SumChange
<1> QED
  BY <1>1, <1>3, <1>5, <1>6 DEF u, v

LEMMA EarnedKept ==
  ASSUME Priced, UNCHANGED row
  PROVE  SumFunction(Earned) \in Int /\ SumFunction(Earned)' = SumFunction(Earned)
<1> DEFINE u == Earned
<1>1. \A x \in Rows : u[x] \in Int
  BY DEF Priced, Earned
<1>2. SumFunction(u) = SumFunctionOnSet(u, Rows) /\ SumFunction(u)' = SumFunction(u)
  BY DEF SumFunction, Earned
<1> HIDE DEF u
<1> QED
  BY <1>1, <1>2, SumTakeOut, PayForwardAssumption DEF u

\* What changes in the platform's revenue when a posting is made.
LEMMA PostEarns ==
  ASSUME "revenue" \in DOMAIN books, books.revenue \in Int,
         NEW id, NEW c, NEW n, NEW p, NEW r \in Int, NEW k, Post(id, Deltas(c, n, p, r, k))
  PROVE  /\ posted' = posted \cup {id}
         /\ "revenue" \in DOMAIN books' /\ books'.revenue \in Int
         /\ r = 0 => books'.revenue = books.revenue
         /\ id \notin posted => books'.revenue = books.revenue + r
BY DEF Post, Deltas

\* Amounts stay within the cap and fees known, if they are in the rows and for the one worker.
LEMMA PricedKept ==
  ASSUME Priced, NEW w \in Workers, Others(w), UNCHANGED books,
         \A r \in Rows : /\ row'[r].amount <= DayCap /\ row'[r].fee \in Nat
                         /\ row'[r].status \in {"none", "reserved"} => row'[r].fee = 0,
         task'[w].fee \in Nat,
         task'[w].step \in ReserveSteps \cup ApplySteps => task'[w].amount <= DayCap
  PROVE  Priced'
<1>1. \A v \in Workers :
        /\ task'[v].fee \in Nat
        /\ task'[v].step \in ReserveSteps \cup ApplySteps => task'[v].amount <= DayCap
  <2> SUFFICES ASSUME NEW v \in Workers
               PROVE  /\ task'[v].fee \in Nat
                      /\ task'[v].step \in ReserveSteps \cup ApplySteps => task'[v].amount <= DayCap
    OBVIOUS
  <2>1. v # w => task'[v] = task[v]
    BY DEF Others
  <2> QED
    BY <2>1 DEF Priced
<1>2. "revenue" \in DOMAIN books' /\ books'.revenue \in Int
  BY DEF Priced
<1> QED
  BY <1>1, <1>2 DEF Priced

\* A step that neither covers, charges nor gives back.
LEMMA FeesQuiet ==
  ASSUME Charged, NEW w \in Workers, Only(w), UNCHANGED row,
         \A r \in Rows : /\ <<"redeem", r>> \in posted' => <<"redeem", r>> \in posted
                         /\ <<"redeem_reverse", r>> \in posted' => <<"redeem_reverse", r>> \in posted,
         "revenue" \in DOMAIN books', books'.revenue = books.revenue,
         task'[w].fee \in Nat,
         Addressed, Addressed',
         \/ /\ task'[w].step \notin ReserveSteps \cup ApplySteps \cup CancelSteps
            /\ \/ task[w].step \notin {"consume_find", "consume"} \cup CancelSteps
               \/ "crash" \in befell'
         \/ /\ \/ task[w].step \in ReserveSteps /\ task'[w].step \in ReserveSteps
               \/ /\ task[w].step \in {"consume_find", "consume"}
                  /\ task'[w].step \in {"consume_find", "consume"}
               \/ task[w].step \in CancelSteps /\ task'[w].step \in CancelSteps
            /\ task'[w].row = task[w].row /\ task'[w].amount = task[w].amount
            /\ task'[w].fee = task[w].fee
  PROVE  Charged'
<1> USE DEF ReserveSteps, ApplySteps, CancelSteps
<1>1. Alone'
  BY AloneKept
<1>2. SpentToday' = SpentToday
  BY DEF SpentToday, AmountIn
<1>3. Rationed'
  BY <1>2 DEF Charged, Rationed, Only, Others, Apart
<1>4. Priced'
  BY DEF Charged, Priced, Only, Others
<1>5. InTurn'
  BY DEF Charged, InTurn, Only, Others
<1>6. Unposted'
  BY DEF Charged, Unposted, Only, Others, Apart, Addressed
<1>7. FeesAdd'
  <2> SUFFICES ASSUME befell' \cap {"crash", "overlap"} = {}
               PROVE  books'.revenue = SumFunction(Earned)' + SumFunction(Unearned)'
    BY DEF FeesAdd
  <2>1. Unearned'[w] = Unearned[w]
    BY DEF Unearned
  <2>2. books.revenue = SumFunction(Earned) + SumFunction(Unearned)
    BY DEF Charged, FeesAdd, Only
  <2>3. SumFunction(Unearned)' = SumFunction(Unearned)
    BY <1>4, <2>1, UnearnedSums DEF Charged, Only
  <2> QED
    BY <2>2, <2>3, EarnedKept DEF Charged
<1> QED
  BY <1>1, <1>3, <1>4, <1>5, <1>6, <1>7 DEF Charged


\* Steps of a chain that end it, or go on with what the handler has.
LEMMA ChainSteps ==
  ASSUME Typed, Alone, NEW w \in Workers, task[w].step # "idle", befell' = befell,
         \/ \E s \in AllSteps : task' = [task EXCEPT ![w].step = s]
         \/ task' = [task EXCEPT ![w] = Resting]
  PROVE  /\ Only(w)
         /\ \/ /\ task'[w].row = task[w].row /\ task'[w].amount = task[w].amount
               /\ task'[w].fee = task[w].fee /\ task'[w].gift = task[w].gift
               /\ task'[w].left = task[w].left /\ task'[w].found = task[w].found
               /\ task' = [task EXCEPT ![w].step = task'[w].step]
            \/ task'[w] = Resting
<1>1. CASE \E s \in AllSteps : task' = [task EXCEPT ![w].step = s]
  <2>1. PICK s \in AllSteps : task' = [task EXCEPT ![w].step = s]
    BY <1>1
  <2> QED
    BY <2>1, Onward, StaysAlone
<1>2. CASE task' = [task EXCEPT ![w] = Resting]
  BY <1>2, FinishEnds, StaysAlone DEF Ends
<1> QED
  BY <1>1, <1>2

\* The steps that leave rows and fees alone.
LEMMA OtherSteps ==
  ASSUME IInv, IInv', Charged, NEW w \in Workers,
         \/ CreditPool(w) \/ CreditBooks(w) \/ ReservePool(w) \/ ReserveUndo(w) \/ GiveBack(w)
         \/ CancelPool(w) \/ RefundPool(w) \/ RefundClaim(w)
         \/ RefundRefused(w) \/ RefundUndo(w) \/ RefundRow(w) \/ RefundBooks(w) \/ ExpireBooks(w)
  PROVE  Charged'
<1>1. /\ task[w].step \in {"credit_pool", "credit_books", "reserve_pool", "reserve_row", "give_back",
                           "cancel_pool", "refund_pool", "refund_claim", "refund_stripe",
                           "refund_undo", "refund_row", "refund_books", "expire_books"}
      /\ befell' = befell /\ UNCHANGED row
      /\ \/ \E s \in AllSteps : task' = [task EXCEPT ![w].step = s]
         \/ task' = [task EXCEPT ![w] = Resting]
  BY DEF CreditPool, CreditBooks, ReservePool, ReserveUndo, GiveBack, CancelPool, RefundPool,
         RefundClaim, RefundRefused, RefundUndo, RefundRow, RefundBooks, ExpireBooks, At, Goto, Finish,
         AllSteps, CreditSteps, ReserveSteps, CancelSteps, RefundSteps, RefundedSteps, ExpireSteps
<1>2. \/ task' = [task EXCEPT ![w] = Resting]
      \/ /\ task[w].step = "credit_pool" /\ task' = [task EXCEPT ![w].step = "credit_books"]
      \/ /\ task[w].step = "reserve_pool" /\ task' = [task EXCEPT ![w].step = "reserve_row"]
      \/ /\ task[w].step = "reserve_row" /\ task' = [task EXCEPT ![w].step = "give_back"]
      \/ /\ task[w].step = "cancel_pool" /\ task' = [task EXCEPT ![w].step = "restore_find"]
      \/ /\ task[w].step \in RefundSteps \cup RefundedSteps
         /\ \E s \in RefundSteps \cup RefundedSteps \cup {"give_back"} :
              task' = [task EXCEPT ![w].step = s]
  BY DEF CreditPool, CreditBooks, ReservePool, ReserveUndo, GiveBack, CancelPool, RefundPool,
         RefundClaim, RefundRefused, RefundUndo, RefundRow, RefundBooks, ExpireBooks, At, Goto, Finish,
         RefundSteps, RefundedSteps
<1>3. /\ \A r \in Rows : /\ <<"redeem", r>> \in posted' => <<"redeem", r>> \in posted
                         /\ <<"redeem_reverse", r>> \in posted' => <<"redeem_reverse", r>> \in posted
      /\ "revenue" \in DOMAIN books' /\ books'.revenue = books.revenue
  <2>1. "revenue" \in DOMAIN books /\ books.revenue \in Int
    BY DEF Charged, Priced
  <2>2. CASE UNCHANGED <<books, posted>>
    BY <2>1, <2>2
  <2>3. CASE CreditBooks(w) \/ RefundBooks(w) \/ ExpireBooks(w)
    <3> DEFINE n == task[w].amount
               g == task[w].gift
    <3>1. \/ Post(<<"contribute", g>>, Deltas(n, n, 0, 0, 0))
          \/ Post(<<"refund", g>>, Deltas(-n, -n, 0, 0, 0))
          \/ Post(<<"expire", g>>, Deltas(0, -n, 0, 0, n))
      BY <2>3 DEF CreditBooks, RefundBooks, ExpireBooks
    <3> HIDE DEF n, g
    <3>2. /\ \E k \in {"contribute", "refund", "expire"} : posted' = posted \cup {<<k, g>>}
          /\ "revenue" \in DOMAIN books' /\ books'.revenue = books.revenue
      BY <2>1, <3>1, PostEarns
    <3> QED
      BY <3>2
  <2>4. UNCHANGED <<books, posted>> \/ CreditBooks(w) \/ RefundBooks(w) \/ ExpireBooks(w)
    BY DEF CreditPool, ReservePool, ReserveUndo, GiveBack, CancelPool, RefundPool,
           RefundClaim, RefundRefused, RefundUndo, RefundRow
  <2> QED
    BY <2>2, <2>3, <2>4
<1>4. Typed /\ Alone /\ Addressed /\ Addressed' /\ task[w].fee \in Nat
  BY DEF IInv, Charged, Priced
<1>5. Only(w)
  BY <1>1, <1>4, ChainSteps
<1>6. CASE task' = [task EXCEPT ![w] = Resting]
  <2>1. task'[w].step = "idle" /\ task'[w].fee = 0
    BY <1>4, <1>6, FinishEnds DEF Resting
  <2>2. CASE task[w].step \notin CancelSteps
    BY <1>1, <1>3, <1>4, <1>5, <2>1, <2>2, FeesQuiet DEF ReserveSteps, ApplySteps, CancelSteps
  <2>3. CASE task[w].step \in CancelSteps
    <3>1. task[w].step = "cancel_pool"
      BY <1>1, <2>3 DEF CancelSteps
    <3>2. /\ ~At(w, "credit_pool") /\ ~At(w, "credit_books") /\ ~At(w, "reserve_pool")
          /\ ~At(w, "reserve_row") /\ ~At(w, "give_back") /\ ~At(w, "refund_pool")
          /\ ~At(w, "refund_claim") /\ ~At(w, "refund_stripe") /\ ~At(w, "refund_undo")
          /\ ~At(w, "refund_row") /\ ~At(w, "refund_books") /\ ~At(w, "expire_books")
      BY <3>1 DEF At
    <3>3. task' = [task EXCEPT ![w].step = "restore_find"]
      BY <3>2
         DEF CreditPool, CreditBooks, ReservePool, ReserveUndo, GiveBack, CancelPool,
             RefundPool,
             RefundClaim, RefundRefused, RefundUndo, RefundRow, RefundBooks, ExpireBooks, Goto
    <3>4. task'[w].step = "restore_find"
      BY <1>4, <3>3, Onward
    <3> QED
      BY <2>1, <3>4
  <2> QED
    BY <2>2, <2>3
<1>7. CASE task' # [task EXCEPT ![w] = Resting]
  <2>1. PICK s \in RefundSteps \cup RefundedSteps \cup {"credit_books", "reserve_row", "give_back", "restore_find"} :
          /\ task' = [task EXCEPT ![w].step = s]
          /\ s = "reserve_row" => task[w].step = "reserve_pool"
          /\ s = "restore_find" => task[w].step = "cancel_pool"
          /\ s \notin {"reserve_row", "restore_find"} => task[w].step \notin CancelSteps
    BY <1>2, <1>7 DEF RefundSteps, RefundedSteps, CancelSteps
  <2>2. task'[w].step = s /\ task'[w].row = task[w].row /\ task'[w].amount = task[w].amount /\ task'[w].fee = task[w].fee
    BY <1>4, <2>1, Onward
  <2> QED
    BY <1>1, <1>3, <1>4, <1>5, <2>1, <2>2, FeesQuiet
       DEF ReserveSteps, ApplySteps, CancelSteps, RefundSteps, RefundedSteps
<1> QED
  BY <1>6, <1>7

\* A pass over the gifts begins with what was found.
LEMMA PassBegins ==
  ASSUME Typed, NEW w \in Workers, NEW s, NEW n, NEW f,
         task' = [task EXCEPT ![w] = [@ EXCEPT !.step = s, !.left = n, !.found = f]]
  PROVE  /\ Others(w) /\ task'[w].step = s /\ task'[w].left = n /\ task'[w].found = f
         /\ task'[w].gift = task[w].gift /\ task'[w].row = task[w].row
         /\ task'[w].amount = task[w].amount /\ task'[w].fee = task[w].fee
<1> DEFINE t == [task[w] EXCEPT !.step = s, !.left = n, !.found = f]
<1>1. task[w] \in Tasks /\ task' = [task EXCEPT ![w] = t]
  BY DEF Typed
<1>2. /\ t.step = s /\ t.left = n /\ t.found = f /\ t.gift = task[w].gift /\ t.row = task[w].row
      /\ t.amount = task[w].amount /\ t.fee = task[w].fee
  BY <1>1 DEF Tasks
<1> HIDE DEF t
<1> QED
  BY <1>1, <1>2 DEF Typed, Others

\* A pass goes on to its next gift.
LEMMA PassGoesOn ==
  ASSUME Typed, NEW w \in Workers, NEW n, NEW f,
         task' = [task EXCEPT ![w] = [@ EXCEPT !.found = f, !.left = n]]
  PROVE  /\ Others(w) /\ task'[w].step = task[w].step /\ task'[w].left = n /\ task'[w].found = f
         /\ task'[w].gift = task[w].gift /\ task'[w].row = task[w].row
         /\ task'[w].amount = task[w].amount /\ task'[w].fee = task[w].fee
<1> DEFINE t == [task[w] EXCEPT !.found = f, !.left = n]
<1>1. task[w] \in Tasks /\ task' = [task EXCEPT ![w] = t]
  BY DEF Typed
<1>2. /\ t.step = task[w].step /\ t.left = n /\ t.found = f /\ t.gift = task[w].gift
      /\ t.row = task[w].row /\ t.amount = task[w].amount /\ t.fee = task[w].fee
  BY <1>1 DEF Tasks
<1> HIDE DEF t
<1> QED
  BY <1>1, <1>2 DEF Typed, Others

LEMMA PassSteps ==
  ASSUME IInv, IInv', Charged, NEW w \in Workers,
         ConsumeFind(w) \/ ConsumeGift(w) \/ RestoreFind(w) \/ RestoreGift(w)
  PROVE  Charged'
<1>1. Typed /\ Alone /\ Addressed /\ Addressed' /\ task[w].fee \in Nat /\ "revenue" \in DOMAIN books
  BY DEF IInv, Charged, Priced
<1>2. UNCHANGED <<row, books, posted, befell>>
  BY DEF ConsumeFind, ConsumeGift, RestoreFind, RestoreGift, Moved
<1>3. /\ Others(w) /\ task'[w].row = task[w].row /\ task'[w].amount = task[w].amount
      /\ task'[w].fee = task[w].fee
      /\ \/ /\ task[w].step \in {"consume_find", "consume"}
            /\ task'[w].step \in {"consume_find", "consume"}
         \/ /\ task[w].step \in {"restore_find", "restore"}
            /\ task'[w].step \in {"restore_find", "restore"}
  <2>1. CASE ConsumeFind(w)
    BY <1>1, <2>1, PassBegins DEF ConsumeFind, At
  <2>2. CASE RestoreFind(w)
    BY <1>1, <2>2, PassBegins DEF RestoreFind, At
  <2>3. CASE ConsumeGift(w)
    BY <1>1, <2>3, PassGoesOn DEF ConsumeGift, Moved, At
  <2>4. CASE RestoreGift(w)
    BY <1>1, <2>4, PassGoesOn DEF RestoreGift, Moved, At
  <2> QED
    BY <2>1, <2>2, <2>3, <2>4, Zenon
<1>4. Only(w)
  BY <1>1, <1>2, <1>3, StaysAlone
<1> QED
  BY <1>1, <1>2, <1>3, <1>4, FeesQuiet DEF CancelSteps

\* A refund or an expiry that goes on, with or without a mishap.
LEMMA MishapSteps ==
  ASSUME IInv, IInv', Charged, NEW w \in Workers, RefundStripe(w) \/ ExpirePool(w)
  PROVE  Charged'
<1>1. Typed /\ Alone /\ Addressed /\ Addressed' /\ task[w].fee \in Nat /\ "revenue" \in DOMAIN books
  BY DEF IInv, Charged, Priced
<1>2. UNCHANGED <<row, books, posted>> /\ befell \subseteq befell'
  BY DEF RefundStripe, ExpirePool, Befalls
<1>3. /\ task[w].step \in {"refund_stripe", "expire_pool"}
      /\ \/ task' = [task EXCEPT ![w].step = "refund_row"]
         \/ task' = [task EXCEPT ![w].step = "expire_books"]
  BY DEF RefundStripe, ExpirePool, At
<1>4. /\ Others(w) /\ task'[w].step \in {"refund_row", "expire_books"} /\ task'[w].fee = task[w].fee
  BY <1>1, <1>3, Onward
<1>5. Only(w)
  BY <1>1, <1>2, <1>3, <1>4, StaysAlone
<1> QED
  BY <1>1, <1>2, <1>3, <1>4, <1>5, FeesQuiet DEF ReserveSteps, ApplySteps, CancelSteps

LEMMA CrashStepCharged ==
  ASSUME IInv, IInv', Charged, NEW w \in Workers, Crash(w)
  PROVE  Charged'
<1>1. Typed /\ Alone /\ Addressed /\ Addressed' /\ "revenue" \in DOMAIN books
  BY DEF IInv, Charged, Priced
<1>2. UNCHANGED <<row, books, posted>> /\ befell \subseteq befell' /\ "crash" \in befell'
  BY DEF Crash, Befalls
<1>3. Others(w) /\ task'[w].step = "idle" /\ task'[w].fee = 0 /\ task[w].step # "idle"
  BY <1>1, FinishEnds DEF Crash, Ends, Resting, Idle
<1>4. Only(w)
  BY <1>1, <1>2, <1>3, StaysAlone
<1> QED
  BY <1>1, <1>2, <1>3, <1>4, FeesQuiet DEF ReserveSteps, ApplySteps, CancelSteps

\* Handlers of gifts begin, and the world outside moves.
LEMMA GiftClaims ==
  ASSUME IInv, IInv', Charged, NEW w \in Workers, NEW g \in Gift,
         CreditClaim(w, g) \/ RefundRead(w, g) \/ ExpireClaim(w, g)
  PROVE  Charged'
<1>1. Typed /\ Addressed /\ Addressed' /\ "revenue" \in DOMAIN books
  BY DEF IInv, Charged, Priced
<1>2. UNCHANGED <<row, books, posted>>
  BY DEF CreditClaim, RefundRead, ExpireClaim
<1>3. \E s \in {"credit_pool", "refund_pool", "expire_pool"}, n \in Nat :
        Begin(w, [Resting EXCEPT !.step = s, !.gift = g, !.amount = n])
  <2>1. Given[g] \in Nat /\ gift[g].remaining \in Nat
    BY <1>1, PayForwardAssumption DEF Typed, GiftRows, Gift
  <2> QED
    BY <2>1 DEF CreditClaim, RefundRead, ExpireClaim
<1>4. PICK s \in {"credit_pool", "refund_pool", "expire_pool"}, n \in Nat :
        Begin(w, [Resting EXCEPT !.step = s, !.gift = g, !.amount = n])
  BY <1>3
<1>5. Only(w) /\ task[w].step = "idle" /\ task'[w] = [Resting EXCEPT !.step = s, !.gift = g, !.amount = n]
  BY <1>1, <1>4, BeginsAlone
<1>6. task'[w].step = s /\ task'[w].fee = 0
  BY <1>5 DEF Resting
<1>7. /\ task'[w].step \notin ReserveSteps \cup ApplySteps \cup CancelSteps
      /\ task[w].step \notin {"consume_find", "consume"} \cup CancelSteps
  BY <1>4, <1>5, <1>6 DEF ReserveSteps, ApplySteps, CancelSteps
<1>8. /\ books'.revenue = books.revenue /\ "revenue" \in DOMAIN books' /\ row' = row
      /\ \A r \in Rows : /\ <<"redeem", r>> \in posted' => <<"redeem", r>> \in posted
                         /\ <<"redeem_reverse", r>> \in posted' => <<"redeem_reverse", r>> \in posted
      /\ task'[w].fee \in Nat
  BY <1>1, <1>2, <1>6
<1> QED
  BY <1>1, <1>5, <1>6, <1>7, <1>8, FeesQuiet

LEMMA ChargedKept ==
  ASSUME Charged, UNCHANGED <<row, books, posted, task>>, befell \subseteq befell'
  PROVE  Charged'
<1>1. SpentToday' = SpentToday /\ Unearned' = Unearned /\ Earned' = Earned
  BY DEF SpentToday, AmountIn, Unearned, Earned
<1> QED
  BY <1>1 DEF Charged, Alone, Apart, Idle, Rationed, Priced, InTurn, Unposted, FeesAdd

(***************************************************************************)
(* The steps that cover, charge and give back.                             *)
(***************************************************************************)

\* A redemption row with a new status, or another fee.
LEMMA RowEdited ==
  ASSUME Typed, NEW r \in Rows, NEW x,
         \/ row' = [row EXCEPT ![r].status = x]
         \/ row' = [row EXCEPT ![r].fee = x]
  PROVE  /\ OtherRows(r) /\ row'[r].user = row[r].user /\ row'[r].amount = row[r].amount
         /\ row' = [row EXCEPT ![r].status = x] => row'[r].status = x /\ row'[r].fee = row[r].fee
         /\ row' = [row EXCEPT ![r].fee = x] => row'[r].fee = x /\ row'[r].status = row[r].status
<1> DEFINE s == [row[r] EXCEPT !.status = x]
           f == [row[r] EXCEPT !.fee = x]
<1>1. /\ row[r] \in RedemptionRows
      /\ [row EXCEPT ![r].status = x] = [row EXCEPT ![r] = s]
      /\ [row EXCEPT ![r].fee = x] = [row EXCEPT ![r] = f]
  BY DEF Typed
<1>2. /\ s.status = x /\ s.user = row[r].user /\ s.amount = row[r].amount /\ s.fee = row[r].fee
      /\ f.fee = x /\ f.user = row[r].user /\ f.amount = row[r].amount /\ f.status = row[r].status
  BY <1>1 DEF RedemptionRows
<1> HIDE DEF s, f
<1>3. CASE row' = [row EXCEPT ![r] = s]
  BY <1>1, <1>2, <1>3 DEF Typed, OtherRows
<1>4. CASE row' = [row EXCEPT ![r] = f]
  BY <1>1, <1>2, <1>4 DEF Typed, OtherRows
<1> QED
  BY <1>1, <1>3, <1>4

\* The amounts that count against the day's budget are never negative.
LEMMA SpentIsNat ==
  ASSUME Typed, NEW S
  PROVE  AmountIn(S) \in Nat
<1> DEFINE f == [r \in Rows |-> IF row[r].status \in S THEN row[r].amount ELSE 0]
<1>1. \A r \in Rows : f[r] \in Nat
  BY DEF Typed, RedemptionRows
<1>2. AmountIn(S) = SumFunctionOnSet(f, Rows)
  BY DEF AmountIn, SumFunction
<1> HIDE DEF f
<1> QED
  BY <1>1, <1>2, SumNotNegative, PayForwardAssumption

\* What is covered fits what is left of the day.
LEMMA CoverageFits ==
  ASSUME Typed, NEW u \in Users, Coverage(u) > 0
  PROVE  Coverage(u) <= DayCap - SpentToday /\ Coverage(u) \in Nat
<1> DEFINE left == DayCap - SpentToday
           T == {Want[u], pool, left}
           least == Min(T)
<1>1. Want[u] \in Int /\ pool \in Int /\ left \in Int
  BY AmountIsInt, PayForwardAssumption DEF Typed, SpentToday
<1> HIDE DEF left
<1>2. least \in Int /\ least <= left
  <2>1. \E x \in T : \A y \in T : x <= y
    BY <1>1
  <2>2. least \in T /\ \A y \in T : least <= y
    BY <2>1 DEF Min
  <2> QED
    BY <1>1, <2>2
<1>3. Coverage(u) = Max({0, least})
  BY DEF Coverage, left
<1> HIDE DEF least
<1>4. \E x \in {0, least} : \A y \in {0, least} : x >= y
  BY <1>2
<1>5. Max({0, least}) \in {0, least} /\ Max({0, least}) >= least
  BY <1>4 DEF Max
<1> QED
  BY <1>2, <1>3, <1>5, CoverageType DEF left

\* Redemptions go forward only.
LEMMA InTurnKept ==
  ASSUME InTurn, Addressed, NEW w \in Workers, Others(w),
         \A r \in Rows : /\ row[r].status \in Passed => row'[r].status \in Passed
                         /\ row[r].status \in {"refunded", "released"} =>
                              row'[r].status \in {"refunded", "released"},
         task'[w].step \in ApplySteps => row'[task'[w].row].status \in Passed,
         task'[w].step \in CancelSteps => row'[task'[w].row].status \in {"refunded", "released"},
         \A r \in Rows : /\ <<"redeem", r>> \in posted' => 
                              <<"redeem", r>> \in posted \/ row'[r].status \in Passed
                         /\ <<"redeem_reverse", r>> \in posted' => 
                              \/ <<"redeem_reverse", r>> \in posted
                              \/ row'[r].status \in {"refunded", "released"}
  PROVE  InTurn'
<1>1. \A v \in Workers \ {w} :
        /\ task'[v].step \in ApplySteps => row'[task'[v].row].status \in Passed
        /\ task'[v].step \in CancelSteps => row'[task'[v].row].status \in {"refunded", "released"}
  BY DEF InTurn, Addressed, Others
<1> QED
  BY <1>1 DEF InTurn

LEMMA QuoteCharged ==
  ASSUME IInv, Charged, NEW w \in Workers, NEW u \in Users, ReserveQuote(w, u)
  PROVE  Charged'
<1>1. Typed /\ Addressed /\ SpentToday \in Nat /\ DayCap \in Nat
  BY SpentIsNat, PayForwardAssumption DEF IInv, SpentToday
<1>2. Coverage(u) <= DayCap - SpentToday /\ Coverage(u) \in Nat
  BY <1>1, CoverageFits DEF ReserveQuote
<1> DEFINE n == Coverage(u)
<1>3. Begin(w, [Resting EXCEPT !.step = "reserve_pool", !.user = u, !.amount = n])
  BY DEF ReserveQuote
<1>4. SpentToday + n <= DayCap /\ n <= DayCap /\ n \in Nat
  BY <1>1, <1>2
<1>5. UNCHANGED <<row, books, posted>>
  BY DEF ReserveQuote
<1> HIDE DEF n
<1>6. /\ Only(w) /\ task[w].step = "idle" /\ task'[w].step = "reserve_pool" /\ task'[w].amount = n
      /\ task'[w].fee = 0
  <2>1. /\ Only(w) /\ task[w].step = "idle"
        /\ task'[w] = [Resting EXCEPT !.step = "reserve_pool", !.user = u, !.amount = n]
    BY <1>1, <1>3, BeginsAlone
  <2> QED
    BY <2>1 DEF Resting
<1>7. SpentToday' = SpentToday
  BY <1>5 DEF SpentToday, AmountIn
<1>8. Alone'
  BY <1>6, AloneKept
<1>9. Rationed'
  BY <1>4, <1>6, <1>7 DEF Charged, Rationed, Only, Others, Apart, ReserveSteps
<1>10. Priced'
  BY <1>4, <1>5, <1>6 DEF Charged, Priced, Only, Others
<1>11. InTurn'
  BY <1>5, <1>6 DEF Charged, InTurn, Only, Others, ApplySteps, CancelSteps
<1>12. Unposted'
  BY <1>5, <1>6 DEF Charged, Unposted, Only, Others, Apart, ApplySteps, CancelSteps
<1>13. FeesAdd'
  <2>1. Unearned[w] = 0 /\ Unearned'[w] = 0
    BY <1>6 DEF Unearned, CancelSteps
  <2>2. SumFunction(Unearned)' = SumFunction(Unearned) /\ SumFunction(Earned)' = SumFunction(Earned)
    BY <1>5, <1>6, <1>10, <2>1, UnearnedSums, EarnedKept DEF Charged, Only
  <2> QED
    BY <1>5, <1>6, <2>2 DEF Charged, FeesAdd, Only
<1> QED
  BY <1>8, <1>9, <1>10, <1>11, <1>12, <1>13 DEF Charged

LEMMA ReserveRowCharged ==
  ASSUME IInv, IInv', Charged, NEW w \in Workers, NEW r \in Rows, ReserveRow(w, r)
  PROVE  Charged'
<1>1. Typed /\ Typed' /\ Alone /\ Addressed /\ task[w].step = "reserve_row" /\ row[r].status = "none"
  BY DEF IInv, Charged, ReserveRow, At
<1>2. UNCHANGED <<books, posted>> /\ befell' = befell
  BY DEF ReserveRow, Finish
<1> DEFINE n == task[w].amount
<1>3. /\ OtherRows(r) /\ row'[r].status = "reserved" /\ row'[r].amount = n /\ row'[r].fee = 0
  BY <1>1 DEF ReserveRow, OtherRows, Typed
<1>4. Others(w) /\ task'[w] = Resting
  BY <1>1, FinishEnds DEF ReserveRow, Finish, Ends
<1>5. Only(w) /\ task'[w].step = "idle" /\ task'[w].fee = 0
  BY <1>1, <1>2, <1>4, StaysAlone DEF Resting
<1>6. /\ SpentToday' = SpentToday + n /\ n <= DayCap
      /\ Apart' => SpentToday + n <= DayCap
  <2>1. SpentToday' = SpentToday + n
    BY <1>1, <1>3, RowSums, AmountIsInt DEF SpentToday, Live, Typed, Tasks
  <2> QED
    BY <1>1, <1>2, <2>1 DEF Charged, Priced, Rationed, ReserveSteps, Apart
<1> HIDE DEF n
<1>7. Alone'
  BY <1>5, AloneKept
<1>8. Rationed'
  BY <1>5, <1>6 DEF Rationed, Only, Others, Apart, ReserveSteps
<1>9. Priced'
  <2>1. \A s \in Rows : /\ row'[s].amount <= DayCap /\ row'[s].fee \in Nat
                        /\ row'[s].status \in {"none", "reserved"} => row'[s].fee = 0
    BY <1>3, <1>6 DEF Charged, Priced, OtherRows, n
  <2> QED
    BY <1>2, <1>5, <2>1, PricedKept DEF Charged, Only, ReserveSteps, ApplySteps
<1>10. InTurn'
  <2>1. \A s \in Rows : /\ row[s].status \in Passed => row'[s].status \in Passed
                        /\ row[s].status \in {"refunded", "released"} =>
                             row'[s].status \in {"refunded", "released"}
    BY <1>1, <1>3 DEF OtherRows, Passed
  <2> QED
    BY <1>1, <1>2, <1>5, <2>1, InTurnKept DEF Charged, Only, ApplySteps, CancelSteps
<1>11. Unposted'
  BY <1>2, <1>3, <1>5 DEF Charged, Unposted, Only, Others, Apart, ApplySteps, CancelSteps
<1>12. FeesAdd'
  <2>1. Unearned[w] = 0 /\ Unearned'[w] = 0 /\ Earned[r] = 0 /\ Earned'[r] = 0
    BY <1>1, <1>3, <1>5 DEF Unearned, Earned, CancelSteps
  <2>2. SumFunction(Unearned)' = SumFunction(Unearned) /\ SumFunction(Earned)' = SumFunction(Earned)
    BY <1>3, <1>5, <1>9, <2>1, UnearnedSums, EarnedSums DEF Charged, Only
  <2> QED
    BY <1>2, <1>5, <2>2 DEF Charged, FeesAdd, Only
<1> QED
  BY <1>7, <1>8, <1>9, <1>10, <1>11, <1>12 DEF Charged

LEMMA ApplyClaimCharged ==
  ASSUME IInv, Charged, NEW w \in Workers, NEW r \in Rows, ApplyClaim(w, r)
  PROVE  Charged'
<1>1. Typed /\ Addressed /\ row[r].status = "reserved" /\ row[r].amount \in Nat
  BY DEF IInv, Charged, ApplyClaim, Typed, RedemptionRows
<1>2. UNCHANGED <<books, posted>> /\ row' = [row EXCEPT ![r].status = "applied"]
  BY DEF ApplyClaim
<1>3. /\ OtherRows(r) /\ row'[r].status = "applied" /\ row'[r].amount = row[r].amount
      /\ row'[r].fee = row[r].fee /\ row[r].fee = 0 /\ row[r].amount <= DayCap
  BY <1>1, <1>2, RowEdited DEF Charged, Priced
<1> DEFINE n == row[r].amount
<1>4. Only(w) /\ task[w].step = "idle" /\ task'[w] = [Resting EXCEPT !.step = "apply_fee", !.row = r, !.amount = n]
  BY <1>1, BeginsAlone DEF ApplyClaim
<1> HIDE DEF n
<1>5. task'[w].step = "apply_fee" /\ task'[w].row = r /\ task'[w].fee = 0 /\ task'[w].amount = n
  BY <1>4 DEF Resting
<1>6. Priced'
  <2>1. \A s \in Rows : /\ row'[s].amount <= DayCap /\ row'[s].fee \in Nat
                        /\ row'[s].status \in {"none", "reserved"} => row'[s].fee = 0
    BY <1>3 DEF Charged, Priced, OtherRows
  <2>2. task'[w].fee \in Nat /\ task'[w].amount <= DayCap
    BY <1>3, <1>5 DEF n
  <2> QED
    BY <1>2, <1>4, <2>1, <2>2, PricedKept DEF Charged, Only
<1>7. SpentToday' = SpentToday
  <2>1. Typed'
    BY ApplyClaimStep DEF IInv
  <2>2. SpentToday \in Int
    BY <1>1, AmountIsInt DEF SpentToday
  <2> QED
    BY <1>1, <1>3, <2>1, <2>2, RowSums DEF SpentToday, Live
<1>8. Alone'
  BY <1>4, AloneKept
<1>9. Rationed'
  BY <1>4, <1>5, <1>7 DEF Charged, Rationed, Only, Others, Apart, ReserveSteps
<1>10. InTurn'
  <2>1. \A s \in Rows : /\ row[s].status \in Passed => row'[s].status \in Passed
                        /\ row[s].status \in {"refunded", "released"} =>
                             row'[s].status \in {"refunded", "released"}
    BY <1>1, <1>3 DEF OtherRows, Passed
  <2>2. row'[r].status \in Passed
    BY <1>3 DEF Passed
  <2> QED
    BY <1>1, <1>2, <1>4, <1>5, <2>1, <2>2, InTurnKept DEF Charged, Only, CancelSteps
<1>11. Unposted'
  <2>1. <<"redeem", r>> \notin posted
    BY <1>1 DEF Charged, InTurn, Passed
  <2> QED
    BY <1>2, <1>3, <1>4, <1>5, <2>1 DEF Unposted, Only, Apart, ApplySteps, CancelSteps
<1>12. FeesAdd'
  <2>1. Unearned[w] = 0 /\ Unearned'[w] = 0 /\ Earned[r] = 0 /\ Earned'[r] = 0
    BY <1>1, <1>3, <1>4, <1>5 DEF Unearned, Earned, CancelSteps
  <2>2. SumFunction(Unearned)' = SumFunction(Unearned) /\ SumFunction(Earned)' = SumFunction(Earned)
    BY <1>3, <1>4, <1>6, <2>1, UnearnedSums, EarnedSums DEF Charged, Only
  <2> QED
    BY <1>2, <1>4, <2>2 DEF Charged, FeesAdd, Only
<1> QED
  BY <1>6, <1>8, <1>9, <1>10, <1>11, <1>12 DEF Charged

LEMMA ApplyFeeCharged ==
  ASSUME IInv, IInv', Charged, NEW w \in Workers, ApplyFee(w)
  PROVE  Charged'
<1> DEFINE r == task[w].row
           fee == FeeOf[task[w].amount]
<1>1. /\ Typed /\ Typed' /\ Alone /\ Addressed /\ task[w].step = "apply_fee" /\ r \in Rows
      /\ task[w].amount \in Nat
  BY DEF IInv, Charged, ApplyFee, At, Addressed, ApplySteps, Typed, Tasks
<1>2. fee \in Nat
  <2>1. task[w].amount <= DayCap
    BY <1>1 DEF Charged, Priced, ApplySteps
  <2>2. task[w].amount \in DOMAIN FeeOf
    BY <1>1, <2>1, PayForwardAssumption
  <2> QED
    BY <1>1, <2>2, PayForwardAssumption
<1>3. /\ UNCHANGED <<books, posted>> /\ befell' = befell /\ row' = [row EXCEPT ![r].fee = fee]
      /\ task' = [task EXCEPT ![w] = [@ EXCEPT !.step = "consume_find", !.fee = fee]]
  BY DEF ApplyFee
<1>4. /\ Others(w) /\ task'[w].step = "consume_find" /\ task'[w].fee = fee
      /\ task'[w].row = task[w].row /\ task'[w].amount = task[w].amount
  <2> DEFINE t == [task[w] EXCEPT !.step = "consume_find", !.fee = fee]
  <2>1. task[w] \in Tasks /\ task' = [task EXCEPT ![w] = t]
    BY <1>1, <1>3 DEF Typed
  <2> HIDE DEF fee
  <2>2. t.step = "consume_find" /\ t.fee = fee /\ t.row = task[w].row /\ t.amount = task[w].amount
    BY <2>1 DEF Tasks
  <2> HIDE DEF t
  <2> QED
    BY <1>1, <2>1, <2>2 DEF Typed, Others
<1> HIDE DEF fee, r
<1>5. OtherRows(r) /\ row'[r].status = row[r].status /\ row'[r].amount = row[r].amount /\ row'[r].fee = fee
  BY <1>1, <1>3, RowEdited
<1>6. Only(w)
  BY <1>1, <1>3, <1>4, StaysAlone
<1>7. Priced'
  <2>1. row[r].status \notin {"none", "reserved"}
    BY <1>1 DEF Charged, InTurn, Passed, ApplySteps, r
  <2>2. \A s \in Rows : /\ row'[s].amount <= DayCap /\ row'[s].fee \in Nat
                        /\ row'[s].status \in {"none", "reserved"} => row'[s].fee = 0
    BY <1>2, <1>5, <2>1 DEF Charged, Priced, OtherRows
  <2>3. task'[w].fee \in Nat /\ task'[w].amount <= DayCap
    BY <1>1, <1>2, <1>4 DEF Charged, Priced, ApplySteps
  <2> QED
    BY <1>3, <1>4, <2>2, <2>3 DEF Charged, Priced, Others
<1>8. SpentToday' = SpentToday
  <2>1. \A s \in Rows : row'[s].status = row[s].status /\ row'[s].amount = row[s].amount
    BY <1>5 DEF OtherRows
  <2> QED
    BY <1>1, <2>1, RowSumsKept DEF SpentToday
<1>9. Alone'
  BY <1>6, AloneKept
<1>10. Rationed'
  BY <1>4, <1>6, <1>8 DEF Charged, Rationed, Only, Others, Apart, ReserveSteps
<1>11. InTurn'
  <2>1. \A s \in Rows : row'[s].status = row[s].status
    BY <1>5 DEF OtherRows
  <2>2. row'[task'[w].row].status \in Passed
    BY <1>1, <1>4, <2>1 DEF Charged, InTurn, ApplySteps, r
  <2> QED
    BY <1>1, <1>3, <1>4, <2>1, <2>2, InTurnKept DEF Charged, CancelSteps
<1>12. Unposted'
  BY <1>1, <1>3, <1>4, <1>6 DEF Charged, Unposted, Only, Apart, ApplySteps, CancelSteps
<1>13. FeesAdd'
  <2> SUFFICES ASSUME befell' \cap {"crash", "overlap"} = {}
               PROVE  books'.revenue = SumFunction(Earned)' + SumFunction(Unearned)'
    BY DEF FeesAdd
  <2>1. row[r].status = "applied" /\ row[r].fee = 0
    BY <1>1, <1>3 DEF Charged, Unposted, Apart, r
  <2>2. Unearned[w] = 0 /\ Unearned'[w] = - fee /\ Earned[r] = 0 /\ Earned'[r] = fee
    BY <1>1, <1>4, <1>5, <2>1 DEF Unearned, Earned, CancelSteps
  <2>3. /\ SumFunction(Unearned)' = SumFunction(Unearned) - fee /\ SumFunction(Unearned) \in Int
        /\ SumFunction(Earned)' = SumFunction(Earned) + fee /\ SumFunction(Earned) \in Int
    BY <1>1, <1>2, <1>4, <1>5, <1>7, <2>2, UnearnedSums, EarnedSums DEF Charged
  <2> QED
    BY <1>2, <1>3, <2>3 DEF Charged, FeesAdd
<1> QED
  BY <1>7, <1>9, <1>10, <1>11, <1>12, <1>13 DEF Charged

LEMMA ApplyBooksCharged ==
  ASSUME IInv, Charged, NEW w \in Workers, ApplyBooks(w)
  PROVE  Charged'
<1> DEFINE r == task[w].row
           n == task[w].amount
           fee == task[w].fee
<1>1. /\ Typed /\ Alone /\ Addressed /\ task[w].step = "consume" /\ r \in Rows /\ fee \in Nat
      /\ n \in Nat
  BY DEF IInv, Charged, Priced, ApplyBooks, At, Addressed, ApplySteps, Typed, Tasks
<1>2. /\ UNCHANGED row /\ befell' = befell /\ Others(w) /\ task'[w] = Resting
      /\ Post(<<"redeem", r>>, Deltas(0, -n, n - fee, fee, 0))
  BY <1>1, FinishEnds DEF ApplyBooks, Finish, Ends
<1>3. Only(w) /\ task'[w].step = "idle" /\ task'[w].fee = 0
  BY <1>1, <1>2, StaysAlone DEF Resting
<1>4. row[r].status \in Passed
  BY <1>1 DEF Charged, InTurn, ApplySteps
<1> HIDE DEF r, n, fee
<1>5. /\ posted' = posted \cup {<<"redeem", r>>}
      /\ "revenue" \in DOMAIN books' /\ books'.revenue \in Int
      /\ <<"redeem", r>> \notin posted => books'.revenue = books.revenue + fee
  BY <1>1, <1>2, PostEarns DEF Charged, Priced
<1>6. SpentToday' = SpentToday
  BY <1>2 DEF SpentToday, AmountIn
<1>7. Alone'
  BY <1>3, AloneKept
<1>8. Rationed'
  BY <1>3, <1>6 DEF Charged, Rationed, Only, Others, Apart, ReserveSteps
<1>9. Priced'
  BY <1>2, <1>3, <1>5 DEF Charged, Priced, Only, Others, ReserveSteps, ApplySteps
<1>10. InTurn'
  <2>1. \A s \in Rows : /\ <<"redeem", s>> \in posted' =>
                             <<"redeem", s>> \in posted \/ row'[s].status \in Passed
                        /\ <<"redeem_reverse", s>> \in posted' => <<"redeem_reverse", s>> \in posted
    BY <1>2, <1>4, <1>5
  <2> QED
    BY <1>1, <1>2, <1>3, <2>1, InTurnKept DEF Charged, ApplySteps, CancelSteps
<1>11. Unposted'
  BY <1>3 DEF Charged, Unposted, Only, Apart, ApplySteps, CancelSteps
<1>12. FeesAdd'
  <2> SUFFICES ASSUME befell' \cap {"crash", "overlap"} = {}
               PROVE  books'.revenue = SumFunction(Earned)' + SumFunction(Unearned)'
    BY DEF FeesAdd
  <2>1. <<"redeem", r>> \notin posted
    BY <1>1, <1>2 DEF Charged, Unposted, Apart, ApplySteps, r
  <2>2. Unearned[w] = - fee /\ Unearned'[w] = 0
    BY <1>1, <1>3 DEF Unearned, CancelSteps, fee
  <2>3. /\ SumFunction(Unearned)' = SumFunction(Unearned) + fee /\ SumFunction(Unearned) \in Int
        /\ SumFunction(Earned)' = SumFunction(Earned) /\ SumFunction(Earned) \in Int
    BY <1>1, <1>2, <1>9, <2>2, UnearnedSums, EarnedKept DEF Charged
  <2>4. books.revenue = SumFunction(Earned) + SumFunction(Unearned)
    BY <1>2 DEF Charged, FeesAdd
  <2> QED
    BY <1>1, <1>5, <2>1, <2>3, <2>4
<1> QED
  BY <1>7, <1>8, <1>9, <1>10, <1>11, <1>12 DEF Charged

LEMMA CancelBooksCharged ==
  ASSUME IInv, Charged, NEW w \in Workers, CancelBooks(w)
  PROVE  Charged'
<1> DEFINE r == task[w].row
           n == task[w].amount
           fee == task[w].fee
<1>1. /\ Typed /\ Alone /\ Addressed /\ task[w].step = "restore" /\ r \in Rows /\ fee \in Nat
      /\ n \in Nat
  BY DEF IInv, Charged, Priced, CancelBooks, At, Addressed, CancelSteps, Typed, Tasks
<1>2. /\ UNCHANGED row /\ befell \subseteq befell' /\ Others(w) /\ task'[w] = Resting
      /\ Post(<<"redeem_reverse", r>>, Deltas(0, n, fee - n, -fee, 0))
  BY <1>1, FinishEnds DEF CancelBooks, Befalls, Ends
<1>3. Only(w) /\ task'[w].step = "idle" /\ task'[w].fee = 0
  BY <1>1, <1>2, StaysAlone DEF Resting
<1>4. row[r].status \in {"refunded", "released"}
  BY <1>1 DEF Charged, InTurn, CancelSteps
<1> HIDE DEF r, n, fee
<1>5. /\ posted' = posted \cup {<<"redeem_reverse", r>>}
      /\ "revenue" \in DOMAIN books' /\ books'.revenue \in Int
      /\ <<"redeem_reverse", r>> \notin posted => books'.revenue = books.revenue - fee
  <2>1. - fee \in Int /\ books.revenue \in Int /\ books.revenue + (- fee) = books.revenue - fee
    BY <1>1 DEF Charged, Priced
  <2> QED
    BY <1>2, <2>1, PostEarns DEF Charged, Priced
<1>6. SpentToday' = SpentToday
  BY <1>2 DEF SpentToday, AmountIn
<1>7. Alone'
  BY <1>3, AloneKept
<1>8. Rationed'
  BY <1>3, <1>6 DEF Charged, Rationed, Only, Others, Apart, ReserveSteps
<1>9. Priced'
  BY <1>2, <1>3, <1>5 DEF Charged, Priced, Only, Others, ReserveSteps, ApplySteps
<1>10. InTurn'
  <2>1. \A s \in Rows : /\ <<"redeem", s>> \in posted' => <<"redeem", s>> \in posted
                        /\ <<"redeem_reverse", s>> \in posted' =>
                             \/ <<"redeem_reverse", s>> \in posted
                             \/ row'[s].status \in {"refunded", "released"}
    BY <1>2, <1>4, <1>5
  <2> QED
    BY <1>1, <1>2, <1>3, <2>1, InTurnKept DEF Charged, ApplySteps, CancelSteps
<1>11. Unposted'
  BY <1>3 DEF Charged, Unposted, Only, Apart, ApplySteps, CancelSteps
<1>12. FeesAdd'
  <2> SUFFICES ASSUME befell' \cap {"crash", "overlap"} = {}
               PROVE  books'.revenue = SumFunction(Earned)' + SumFunction(Unearned)'
    BY DEF FeesAdd
  <2>1. <<"redeem_reverse", r>> \notin posted
    BY <1>1, <1>2 DEF Charged, Unposted, Apart, CancelSteps, r
  <2>2. Unearned[w] = fee /\ Unearned'[w] = 0
    BY <1>1, <1>3 DEF Unearned, CancelSteps, fee
  <2>3. /\ SumFunction(Unearned)' = SumFunction(Unearned) - fee /\ SumFunction(Unearned) \in Int
        /\ SumFunction(Earned)' = SumFunction(Earned) /\ SumFunction(Earned) \in Int
    BY <1>1, <1>2, <1>9, <2>2, UnearnedSums, EarnedKept DEF Charged
  <2>4. books.revenue = SumFunction(Earned) + SumFunction(Unearned)
    BY <1>2 DEF Charged, FeesAdd
  <2> QED
    BY <1>1, <1>5, <2>1, <2>3, <2>4
<1> QED
  BY <1>7, <1>8, <1>9, <1>10, <1>11, <1>12 DEF Charged

LEMMA ReleaseCharged ==
  ASSUME IInv, IInv', Charged, NEW w \in Workers, NEW r \in Rows, ReleaseClaim(w, r)
  PROVE  Charged'
<1>1. Typed /\ Typed' /\ Addressed /\ row[r].status = "reserved" /\ row[r].amount \in Nat
  BY DEF IInv, ReleaseClaim, Typed, RedemptionRows
<1>2. UNCHANGED <<books, posted>> /\ row' = [row EXCEPT ![r].status = "released"]
  BY DEF ReleaseClaim
<1>3. /\ OtherRows(r) /\ row'[r].status = "released" /\ row'[r].amount = row[r].amount
      /\ row'[r].fee = row[r].fee
  BY <1>1, <1>2, RowEdited
<1> DEFINE n == row[r].amount
<1>4. Only(w) /\ task[w].step = "idle" /\ task'[w] = [Resting EXCEPT !.step = "give_back", !.amount = n]
  BY <1>1, BeginsAlone DEF ReleaseClaim
<1>5. task'[w].step = "give_back" /\ task'[w].fee = 0 /\ Others(w)
  BY <1>4 DEF Resting, Only
<1>6. Priced'
  <2>1. \A s \in Rows : /\ row'[s].amount <= DayCap /\ row'[s].fee \in Nat
                        /\ row'[s].status \in {"none", "reserved"} => row'[s].fee = 0
    BY <1>3 DEF Charged, Priced, OtherRows
  <2> QED
    BY <1>2, <1>5, <2>1, PricedKept DEF Charged, ReserveSteps, ApplySteps
<1>7. SpentToday' = SpentToday - n /\ SpentToday \in Int /\ DayCap \in Nat
  BY <1>1, <1>3, RowSums, AmountIsInt, PayForwardAssumption DEF SpentToday, Live
<1>8. Alone'
  BY <1>4, AloneKept
<1>9. Rationed'
  <2>1. Apart' => SpentToday <= DayCap /\ Only(w)
    BY <1>4 DEF Charged, Rationed, Only, Apart
  <2> QED
    BY <1>1, <1>5, <1>7, <2>1 DEF Rationed, Only, ReserveSteps
<1>10. InTurn'
  <2>1. \A s \in Rows : /\ row[s].status \in Passed => row'[s].status \in Passed
                        /\ row[s].status \in {"refunded", "released"} =>
                             row'[s].status \in {"refunded", "released"}
    BY <1>1, <1>3 DEF OtherRows, Passed
  <2> QED
    BY <1>1, <1>2, <1>4, <1>5, <2>1, InTurnKept DEF Charged, Only, ApplySteps, CancelSteps
<1>11. Unposted'
  BY <1>4, <1>5 DEF Unposted, Only, Apart, ApplySteps, CancelSteps
<1>12. FeesAdd'
  <2>1. Unearned[w] = 0 /\ Unearned'[w] = 0 /\ Earned[r] = 0 /\ Earned'[r] = 0
    BY <1>1, <1>3, <1>4, <1>5 DEF Unearned, Earned, CancelSteps
  <2>2. SumFunction(Unearned)' = SumFunction(Unearned) /\ SumFunction(Earned)' = SumFunction(Earned)
    BY <1>3, <1>4, <1>6, <2>1, UnearnedSums, EarnedSums DEF Charged, Only
  <2> QED
    BY <1>2, <1>4, <2>2 DEF Charged, FeesAdd, Only
<1> QED
  BY <1>6, <1>8, <1>9, <1>10, <1>11, <1>12 DEF Charged

LEMMA CancelClaimCharged ==
  ASSUME IInv, IInv', Charged, NEW w \in Workers, NEW r \in Rows, NEW f \in BOOLEAN,
         CancelClaim(w, r, f)
  PROVE  Charged'
<1> DEFINE n == row[r].amount
           fee == row[r].fee
           s == IF f THEN "released" ELSE "refunded"
<1>1. /\ Typed /\ Typed' /\ Addressed /\ row[r].status = "applied" /\ n \in Nat /\ fee \in Nat
  BY DEF IInv, CancelClaim, Typed, RedemptionRows, Charged, Priced
<1>2. UNCHANGED <<books, posted>> /\ row' = [row EXCEPT ![r].status = s] /\ s \in {"refunded", "released"}
  BY DEF CancelClaim
<1>3. Begin(w, [Resting EXCEPT !.step = "cancel_pool", !.row = r, !.amount = n, !.fee = fee])
  BY DEF CancelClaim
<1> HIDE DEF s
<1>4. /\ OtherRows(r) /\ row'[r].status = s /\ row'[r].amount = row[r].amount
      /\ row'[r].fee = row[r].fee
  BY <1>1, <1>2, RowEdited
<1>5. /\ Only(w) /\ task[w].step = "idle"
      /\ task'[w] = [Resting EXCEPT !.step = "cancel_pool", !.row = r, !.amount = n, !.fee = fee]
  BY <1>1, <1>3, BeginsAlone
<1> HIDE DEF n, fee
<1>6. task'[w].step = "cancel_pool" /\ task'[w].row = r /\ task'[w].fee = fee
  BY <1>5 DEF Resting
<1>7. Priced'
  <2>1. \A t \in Rows : /\ row'[t].amount <= DayCap /\ row'[t].fee \in Nat
                        /\ row'[t].status \in {"none", "reserved"} => row'[t].fee = 0
    BY <1>2, <1>4 DEF Charged, Priced, OtherRows
  <2> QED
    BY <1>1, <1>2, <1>5, <1>6, <2>1, PricedKept DEF Charged, Only, ReserveSteps, ApplySteps
<1>8. SpentToday' = SpentToday - n /\ SpentToday \in Int /\ DayCap \in Nat
  <2>1. AmountIn(Live)' = AmountIn(Live) - (IF row[r].status \in Live THEN row[r].amount ELSE 0)
                                         + (IF row'[r].status \in Live THEN row'[r].amount ELSE 0)
    BY <1>1, <1>4, RowSums
  <2>2. row[r].status \in Live /\ row'[r].status \notin Live /\ row[r].amount = n
    BY <1>1, <1>2, <1>4 DEF Live, n
  <2>3. AmountIn(Live) \in Int
    BY <1>1, AmountIsInt
  <2> QED
    BY <1>1, <2>1, <2>2, <2>3, PayForwardAssumption DEF SpentToday
<1>9. Alone'
  BY <1>5, AloneKept
<1>10. Rationed'
  <2>1. Apart' => SpentToday <= DayCap /\ Only(w)
    BY <1>5 DEF Charged, Rationed, Only, Apart
  <2> QED
    BY <1>1, <1>6, <1>8, <2>1 DEF Rationed, Only, ReserveSteps
<1>11. InTurn'
  <2>1. \A t \in Rows : /\ row[t].status \in Passed => row'[t].status \in Passed
                        /\ row[t].status \in {"refunded", "released"} =>
                             row'[t].status \in {"refunded", "released"}
    BY <1>1, <1>2, <1>4 DEF OtherRows, Passed
  <2>2. row'[task'[w].row].status \in {"refunded", "released"} /\ task'[w].step \notin ApplySteps
    BY <1>2, <1>4, <1>6 DEF ApplySteps
  <2> QED
    BY <1>1, <1>2, <1>5, <2>1, <2>2, InTurnKept DEF Charged, Only
<1>12. Unposted'
  <2>1. <<"redeem_reverse", r>> \notin posted
    BY <1>1 DEF Charged, InTurn
  <2> QED
    BY <1>2, <1>5, <1>6, <2>1 DEF Unposted, Only, Apart, ApplySteps, CancelSteps
<1>13. FeesAdd'
  <2>1. Unearned[w] = 0 /\ Unearned'[w] = fee /\ Earned[r] = fee /\ Earned'[r] = 0
    BY <1>1, <1>2, <1>4, <1>5, <1>6 DEF Unearned, Earned, CancelSteps, fee
  <2>2. /\ SumFunction(Unearned)' = SumFunction(Unearned) + fee /\ SumFunction(Unearned) \in Int
        /\ SumFunction(Earned)' = SumFunction(Earned) - fee /\ SumFunction(Earned) \in Int
    BY <1>1, <1>4, <1>5, <1>7, <2>1, UnearnedSums, EarnedSums DEF Charged, Only
  <2> QED
    BY <1>1, <1>2, <1>5, <2>2 DEF Charged, FeesAdd, Only
<1> QED
  BY <1>7, <1>9, <1>10, <1>11, <1>12, <1>13 DEF Charged

LEMMA InitCharged == Init => Charged
<1> SUFFICES ASSUME Init
             PROVE  Charged
  OBVIOUS
<1>1. \A w \in Workers : task[w].step = "idle" /\ task[w].fee = 0
  BY DEF Init, Resting
<1>2. SpentToday = 0
  <2> DEFINE f == [r \in Rows |-> IF row[r].status \in Live THEN row[r].amount ELSE 0]
  <2>1. \A r \in Rows : f[r] = 0
    BY DEF Init, Live
  <2>2. SpentToday = SumFunctionOnSet(f, Rows)
    BY DEF SpentToday, AmountIn, SumFunction
  <2> HIDE DEF f
  <2> QED
    BY <2>1, <2>2, SumNothing, PayForwardAssumption
<1>3. SumFunction(Earned) = 0 /\ SumFunction(Unearned) = 0
  <2>1. /\ \A r \in Rows : Earned[r] = 0
        /\ \A w \in Workers : Unearned[w] = 0
        /\ DOMAIN Earned = Rows /\ DOMAIN Unearned = Workers
    BY <1>1 DEF Init, Earned, Unearned, CancelSteps
  <2> QED
    BY <2>1, SumNothing, PayForwardAssumption DEF SumFunction
<1>4. Alone /\ Rationed /\ Unposted
  BY <1>1, <1>2, PayForwardAssumption
     DEF Alone, Idle, Rationed, Unposted, ReserveSteps, ApplySteps, CancelSteps
<1>5. Priced /\ InTurn
  BY <1>1, PayForwardAssumption
  DEF Init, Priced, InTurn, Deltas, ReserveSteps, ApplySteps, CancelSteps
<1>6. FeesAdd
  BY <1>3 DEF Init, FeesAdd, Deltas
<1> QED
  BY <1>4, <1>5, <1>6 DEF Charged

LEMMA NextKeepsCharged == IInv /\ IInv' /\ Charged /\ [Next]_vars => Charged'
<1> SUFFICES ASSUME IInv, IInv', Charged, [Next]_vars
             PROVE  Charged'
  OBVIOUS
<1>1. CASE \/ UNCHANGED vars
           \/ \E g \in Gift : Contribute(g) \/ FailGift(g) \/ Age(g)
           \/ \E g \in Gift, o \in {"succeeded", "canceled", "declined"} : Settle(g, o)
  <2>1. UNCHANGED <<row, books, posted, task>> /\ befell \subseteq befell'
    BY <1>1 DEF vars, Contribute, FailGift, Age, Settle, Befalls
  <2> QED
    BY <2>1, ChargedKept
<1>2. CASE \E w \in Workers, g \in Gift : CreditClaim(w, g) \/ RefundRead(w, g) \/ ExpireClaim(w, g)
  BY <1>2, GiftClaims
<1>3. CASE \E w \in Workers, u \in Users : ReserveQuote(w, u)
  BY <1>3, QuoteCharged
<1>4. CASE \E w \in Workers, r \in Rows :
             ApplyClaim(w, r) \/ ReleaseClaim(w, r) \/ \E f \in BOOLEAN : CancelClaim(w, r, f)
  BY <1>4, ApplyClaimCharged, ReleaseCharged, CancelClaimCharged
<1>5. CASE \E w \in Workers : Continue(w) \/ Crash(w)
  <2>1. PICK w \in Workers : Continue(w) \/ Crash(w)
    BY <1>5
  <2>2. CASE Crash(w)
    BY <2>2, CrashStepCharged
  <2>3. CASE \/ CreditPool(w) \/ CreditBooks(w) \/ ReservePool(w) \/ ReserveUndo(w) \/ GiveBack(w)
             \/ CancelPool(w) \/ RefundPool(w) \/ RefundClaim(w) \/ RefundRefused(w) \/ RefundUndo(w)
             \/ RefundRow(w) \/ RefundBooks(w) \/ ExpireBooks(w)
    BY <2>3, OtherSteps
  <2>4. CASE \/ ConsumeFind(w) \/ ConsumeGift(w) \/ RestoreFind(w) \/ RestoreGift(w)
             \/ RefundStripe(w) \/ ExpirePool(w)
    BY <2>4, PassSteps, MishapSteps
  <2>5. CASE \/ ApplyFee(w) \/ ApplyBooks(w) \/ CancelBooks(w)
             \/ \E r \in Rows : ReserveRow(w, r)
    BY <2>5, ApplyFeeCharged, ApplyBooksCharged, CancelBooksCharged, ReserveRowCharged
  <2> QED
    BY <2>1, <2>2, <2>3, <2>4, <2>5 DEF Continue
<1> QED
  BY <1>1, <1>2, <1>3, <1>4, <1>5 DEF Next

-----------------------------------------------------------------------------
(***************************************************************************)
(* The gifts' remainders.                                                  *)
(***************************************************************************)

\* A gift is whole until it arrives; refunds and passes are about gifts that arrived.
Whole ==
  /\ \A g \in Gift : gift[g].status = "pending" => gift[g].remaining = Given[g]
  /\ \A w \in Workers :
       /\ task[w].step \in RefundSteps => gift[task[w].gift].status = "succeeded"
       /\ task[w].step \in {"consume", "restore"} =>
            \A g \in DOMAIN task[w].found : gift[g].status = "succeeded"

\* By how much the gifts are ahead of the pool on account of a handler half way.
Lag ==
  [w \in Workers |->
     CASE task[w].step \in {"credit_pool", "reserve_row", "give_back", "apply_fee", "consume_find",
                            "refund_claim"} -> task[w].amount
       [] task[w].step = "consume" -> task[w].left
       [] task[w].step \in {"restore_find", "refund_undo", "expire_pool"} -> - task[w].amount
       [] task[w].step = "restore" -> - task[w].left
       [] OTHER -> 0]

\* Every operation ran to its end, alone, and found what it was to take or to give.
Strict == befell \cap {"crash", "overlap", "expired_in_use", "restored_in_part"} = {}

\* GiftsMatchPool, with the operations half way.
GiftsAdd == Strict => Unspent = pool + AmountIn({"reserved"}) + SumFunction(Lag)

Found(w) == [g \in Gift |-> IF g \in DOMAIN task[w].found THEN task[w].found[g] ELSE 0]

\* A pass that draws finds enough on the gifts it has left.
Covered ==
  Strict => \A w \in Workers : task[w].step = "consume" =>
    /\ \A g \in DOMAIN task[w].found : gift[g].remaining = task[w].found[g]
    /\ task[w].left <= SumFunction(Found(w))

Spread == Whole /\ GiftsAdd /\ Covered

\* What of each gift is unspent.
Spare == [g \in Gift |-> IF gift[g].status = "succeeded" THEN gift[g].remaining ELSE 0]

LEMMA SpareSums ==
  ASSUME Typed, Typed', NEW g \in Gift, \A h \in Gift \ {g} : Spare'[h] = Spare[h]
  PROVE  /\ Unspent \in Int /\ Spare[g] \in Int /\ Spare'[g] \in Int
         /\ Unspent' = Unspent - Spare[g] + Spare'[g]
<1>1. \A h \in Gift : Spare[h] \in Int /\ Spare'[h] \in Int
  BY DEF Spare, Typed, GiftRows
<1>2. Unspent = SumFunctionOnSet(Spare, Gift) /\ Unspent' = SumFunctionOnSet(Spare', Gift)
  BY DEF Unspent, Spare, SumFunction
<1>3. SumFunctionOnSet(Spare, Gift) \in Int
  BY <1>1, SumTakeOut, GiftIsFinite
<1>4. SumFunctionOnSet(Spare', Gift) = SumFunctionOnSet(Spare, Gift) - Spare[g] + Spare'[g]
  <2>1. ChangesAt(Spare, Spare', Gift, g)
    BY <1>1 DEF ChangesAt
  <2> QED
    BY <2>1, GiftIsFinite, SumChange
<1> QED
  BY <1>1, <1>2, <1>3, <1>4

LEMMA SpareKept ==
  ASSUME Typed, \A h \in Gift : Spare'[h] = Spare[h]
  PROVE  Unspent \in Int /\ Unspent' = Unspent
<1>1. \A h \in Gift : Spare[h] \in Int
  BY DEF Spare, Typed, GiftRows
<1>2. Unspent = SumFunctionOnSet(Spare, Gift) /\ Unspent' = SumFunctionOnSet(Spare', Gift)
  BY DEF Unspent, Spare, SumFunction
<1>3. SumFunctionOnSet(Spare', Gift) = SumFunctionOnSet(Spare, Gift)
  BY <1>1, SumAgrees, GiftIsFinite
<1>4. SumFunctionOnSet(Spare, Gift) \in Int
  BY <1>1, SumTakeOut, GiftIsFinite
<1> QED
  BY <1>2, <1>3, <1>4

LEMMA LagSums ==
  ASSUME Typed, Typed', NEW w \in Workers, Others(w)
  PROVE  /\ SumFunction(Lag) \in Int /\ Lag[w] \in Int /\ Lag'[w] \in Int
         /\ SumFunction(Lag)' = SumFunction(Lag) - Lag[w] + Lag'[w]
<1> DEFINE L == Lag
           M == Lag'
<1>1. \A x \in Workers : L[x] \in Int /\ M[x] \in Int
  <2>1. \A x \in Workers : /\ task[x].amount \in Nat /\ task[x].left \in Nat
                           /\ task'[x].amount \in Nat /\ task'[x].left \in Nat
    BY DEF Typed, Tasks
  <2> QED
    BY <2>1 DEF Lag
<1>2. \A x \in Workers \ {w} : M[x] = L[x]
  BY DEF Others, Lag
<1>3. SumFunction(L) = SumFunctionOnSet(L, Workers) /\ SumFunction(L)' = SumFunctionOnSet(M, Workers)
  BY DEF SumFunction, Lag
<1>4. IsFiniteSet(Workers)
  BY PayForwardAssumption
<1> HIDE DEF L, M
<1>5. SumFunctionOnSet(L, Workers) \in Int
  BY <1>1, <1>4, SumTakeOut
<1>6. SumFunctionOnSet(M, Workers) = SumFunctionOnSet(L, Workers) - L[w] + M[w]
  <2>1. ChangesAt(L, M, Workers, w)
    BY <1>1, <1>2 DEF ChangesAt
  <2> QED
    BY <1>4, <2>1, SumChange
<1> QED
  BY <1>1, <1>3, <1>5, <1>6 DEF L, M


LEMMA WholeKept ==
  ASSUME IInv, Whole, NEW w \in Workers, Others(w),
         \A g \in Gift : /\ gift[g].status = "succeeded" => gift'[g].status = "succeeded"
                         /\ gift'[g].status = "pending" => gift'[g].remaining = Given[g],
         task'[w].step \in RefundSteps => gift'[task'[w].gift].status = "succeeded",
         task'[w].step \in {"consume", "restore"} =>
           \A g \in DOMAIN task'[w].found : gift'[g].status = "succeeded"
  PROVE  Whole'
<1>1. \A v \in Workers \ {w} : task'[v] = task[v]
  BY DEF Others
<1>2. \A v \in Workers : DOMAIN task[v].found \subseteq Gift
  BY DEF IInv, Typed, Tasks, Findings
<1>3. \A v \in Workers : task[v].step \in RefundSteps => task[v].gift \in Gift
  BY DEF IInv, Addressed
<1> QED
  BY <1>1, <1>2, <1>3 DEF Whole

\* The invariant holds after a step of handler w that keeps the account.
LEMMA SpreadKept ==
  ASSUME IInv, IInv', Spread, NEW w \in Workers, Only(w),
         \A g \in Gift : /\ gift[g].status = "succeeded" => gift'[g].status = "succeeded"
                         /\ gift'[g].status = "pending" => gift'[g].remaining = Given[g],
         task'[w].step \in RefundSteps => gift'[task'[w].gift].status = "succeeded",
         task'[w].step \in {"consume", "restore"} =>
           \A g \in DOMAIN task'[w].found : gift'[g].status = "succeeded",
         Strict' /\ task'[w].step = "consume" =>
           /\ \A g \in DOMAIN task'[w].found : gift'[g].remaining = task'[w].found[g]
           /\ task'[w].left <= SumFunction(Found(w))',
         Strict' => Unspent' - pool' - AmountIn({"reserved"})' - Lag'[w]
                      = Unspent - pool - AmountIn({"reserved"}) - Lag[w]
  PROVE  Spread'
<1>1. Whole'
  BY WholeKept DEF Spread, Only
<1>2. GiftsAdd'
  <2> SUFFICES ASSUME Strict'
               PROVE  Unspent' = pool' + AmountIn({"reserved"})' + SumFunction(Lag)'
    BY DEF GiftsAdd
  <2>1. Unspent = pool + AmountIn({"reserved"}) + SumFunction(Lag)
    BY DEF Spread, GiftsAdd, Strict, Only
  <2>2. /\ pool \in Int /\ pool' \in Int
        /\ AmountIn({"reserved"}) \in Int /\ AmountIn({"reserved"})' \in Int
    BY AmountType DEF IInv, Typed
  <2>3. /\ SumFunction(Lag) \in Int /\ Lag[w] \in Int /\ Lag'[w] \in Int
        /\ SumFunction(Lag)' = SumFunction(Lag) - Lag[w] + Lag'[w]
    BY LagSums DEF IInv, Only
  <2>4. Unspent' \in Int
    <3>1. \A h \in Gift : Spare'[h] \in Int
      BY DEF Spare, IInv, Typed, GiftRows
    <3>2. Unspent' = SumFunctionOnSet(Spare', Gift)
      BY DEF Unspent, Spare, SumFunction
    <3> QED
      BY <3>1, <3>2, SumTakeOut, GiftIsFinite
  <2> QED
    BY <2>1, <2>2, <2>3, <2>4
<1>3. Covered'
  <2> SUFFICES ASSUME Strict', NEW v \in Workers, task'[v].step = "consume"
               PROVE  /\ \A g \in DOMAIN task'[v].found : gift'[g].remaining = task'[v].found[g]
                      /\ task'[v].left <= SumFunction(Found(v))'
    BY DEF Covered
  <2>1. v = w
    BY DEF Strict, Apart, Only
  <2> QED
    BY <2>1
<1> QED
  BY <1>1, <1>2, <1>3 DEF Spread

\* The gifts stay as they are, and no pass is begun.
LEMMA PoolSpread ==
  ASSUME IInv, IInv', Spread, NEW w \in Workers, Only(w), UNCHANGED gift,
         task'[w].step \notin {"consume", "restore"},
         task'[w].step \in RefundSteps => gift[task'[w].gift].status = "succeeded",
         Strict' => pool' + AmountIn({"reserved"})' + Lag'[w]
                      = pool + AmountIn({"reserved"}) + Lag[w]
  PROVE  Spread'
<1>1. Unspent \in Int /\ Unspent' = Unspent
  BY SpareKept DEF Spare, IInv
<1>2. \A g \in Gift : /\ gift[g].status = "succeeded" => gift'[g].status = "succeeded"
                      /\ gift'[g].status = "pending" => gift'[g].remaining = Given[g]
  BY DEF Spread, Whole
<1>3. Strict' => Unspent' - pool' - AmountIn({"reserved"})' - Lag'[w]
                   = Unspent - pool - AmountIn({"reserved"}) - Lag[w]
  <2>1. /\ pool \in Int /\ pool' \in Int
        /\ AmountIn({"reserved"}) \in Int /\ AmountIn({"reserved"})' \in Int
    BY AmountType DEF IInv, Typed
  <2>2. Lag[w] \in Int /\ Lag'[w] \in Int
    BY LagSums DEF IInv, Only
  <2> QED
    BY <1>1, <2>1, <2>2
<1> QED
  BY <1>2, <1>3, SpreadKept

\* Handlers that move money between the pool and their hand.
LEMMA PoolMoves ==
  ASSUME IInv, IInv', Charged, Spread, NEW w \in Workers,
         \/ CreditPool(w) \/ CreditBooks(w) \/ ReservePool(w) \/ ReserveUndo(w) \/ GiveBack(w)
         \/ CancelPool(w) \/ RefundPool(w) \/ RefundRefused(w) \/ RefundBooks(w) \/ ExpireBooks(w)
  PROVE  Spread'
<1> DEFINE n == task[w].amount
<1>1. Typed /\ Alone /\ pool \in Nat /\ n \in Nat /\ AmountIn({"reserved"}) \in Int
  BY AmountIsInt DEF IInv, Charged, Typed, Tasks
<1>2. UNCHANGED <<gift, row>> /\ befell' = befell /\ task[w].step # "idle"
  BY DEF CreditPool, CreditBooks, ReservePool, ReserveUndo, GiveBack, CancelPool, RefundPool,
         RefundRefused, RefundBooks, ExpireBooks, Goto, Finish, At
<1>3. AmountIn({"reserved"})' = AmountIn({"reserved"})
  BY <1>2 DEF AmountIn
<1>4. task[w].step \in RefundSteps => gift[task[w].gift].status = "succeeded"
  BY DEF Spread, Whole
<1>5. ASSUME Others(w), task'[w].step \notin {"consume", "restore"}, task'[w].gift = task[w].gift,
             task'[w].step \in RefundSteps => task[w].step \in RefundSteps,
             pool' + Lag'[w] = pool + Lag[w]
      PROVE  Spread'
  <2>1. Only(w)
    BY <1>1, <1>2, <1>5, StaysAlone
  <2>2. Lag[w] \in Int /\ Lag'[w] \in Int /\ pool' \in Int
    BY <1>5, LagSums DEF IInv, Typed
  <2>3. pool' + AmountIn({"reserved"})' + Lag'[w] = pool + AmountIn({"reserved"}) + Lag[w]
    BY <1>1, <1>3, <1>5, <2>2
  <2> QED
    BY <1>2, <1>4, <1>5, <2>1, <2>3, PoolSpread
<1>6. ASSUME task' = [task EXCEPT ![w] = Resting], pool' = pool + Lag[w]
      PROVE  Spread'
  <2>1. Others(w) /\ task'[w].step = "idle"
    BY <1>1, <1>6, FinishEnds DEF Ends
  <2>2. Only(w)
    BY <1>1, <1>2, <2>1, StaysAlone
  <2>3. Lag[w] \in Int /\ Lag'[w] = 0 /\ pool' \in Int
    <3>1. Lag[w] \in Int /\ pool' \in Int
      BY <2>1, LagSums DEF IInv, Typed
    <3>2. Lag'[w] = 0
      BY <2>1 DEF Lag
    <3> QED
      BY <3>1, <3>2
  <2>4. pool' + AmountIn({"reserved"})' + Lag'[w] = pool + AmountIn({"reserved"}) + Lag[w]
    BY <1>1, <1>3, <1>6, <2>3
  <2> QED
    BY <1>2, <2>1, <2>2, <2>4, PoolSpread DEF RefundSteps
<1>7. CASE CreditPool(w)
  <2>1. /\ task[w].step = "credit_pool" /\ task' = [task EXCEPT ![w].step = "credit_books"]
        /\ pool' = pool + n
    BY <1>7 DEF CreditPool, Goto, PoolBack, At
  <2>2. /\ task'[w].step = "credit_books" /\ task'[w].amount = n
        /\ Others(w) /\ task'[w].gift = task[w].gift
    BY <1>1, <2>1, Onward
  <2>3. Lag[w] = n /\ Lag'[w] = 0
    BY <2>1, <2>2 DEF Lag
  <2>4. pool' + Lag'[w] = pool + Lag[w]
    BY <1>1, <2>1, <2>3
  <2> QED
    BY <1>5, <2>1, <2>2, <2>4 DEF RefundSteps
<1>8. CASE ReserveUndo(w)
  <2>1. /\ task[w].step = "reserve_row" /\ task' = [task EXCEPT ![w].step = "give_back"]
        /\ pool' = pool
    BY <1>8 DEF ReserveUndo, Goto, At
  <2>2. /\ task'[w].step = "give_back" /\ task'[w].amount = n
        /\ Others(w) /\ task'[w].gift = task[w].gift
    BY <1>1, <2>1, Onward
  <2>3. Lag[w] = n /\ Lag'[w] = n
    BY <2>1, <2>2 DEF Lag
  <2>4. pool' + Lag'[w] = pool + Lag[w]
    BY <1>1, <2>1, <2>3
  <2> QED
    BY <1>5, <2>1, <2>2, <2>4 DEF RefundSteps
<1>9. CASE CancelPool(w)
  <2>1. /\ task[w].step = "cancel_pool" /\ task' = [task EXCEPT ![w].step = "restore_find"]
        /\ pool' = pool + n
    BY <1>9 DEF CancelPool, Goto, PoolBack, At
  <2>2. /\ task'[w].step = "restore_find" /\ task'[w].amount = n
        /\ Others(w) /\ task'[w].gift = task[w].gift
    BY <1>1, <2>1, Onward
  <2>3. Lag[w] = 0 /\ Lag'[w] = - n
    BY <2>1, <2>2 DEF Lag
  <2>4. pool' + Lag'[w] = pool + Lag[w]
    BY <1>1, <2>1, <2>3
  <2> QED
    BY <1>5, <2>1, <2>2, <2>4 DEF RefundSteps
<1>10. CASE RefundRefused(w)
  <2>1. /\ task[w].step = "refund_stripe" /\ task' = [task EXCEPT ![w].step = "refund_undo"]
        /\ pool' = pool + n
    BY <1>10 DEF RefundRefused, Goto, PoolBack, At
  <2>2. /\ task'[w].step = "refund_undo" /\ task'[w].amount = n
        /\ Others(w) /\ task'[w].gift = task[w].gift
    BY <1>1, <2>1, Onward
  <2>3. Lag[w] = 0 /\ Lag'[w] = - n
    BY <2>1, <2>2 DEF Lag
  <2>4. pool' + Lag'[w] = pool + Lag[w]
    BY <1>1, <2>1, <2>3
  <2> QED
    BY <1>5, <2>1, <2>2, <2>4 DEF RefundSteps
<1>11. CASE ReservePool(w)
  <2>1. /\ task[w].step = "reserve_pool"
        /\ \/ pool' = pool - n /\ task' = [task EXCEPT ![w].step = "reserve_row"]
           \/ pool' = pool /\ task' = [task EXCEPT ![w] = Resting]
    BY <1>11 DEF ReservePool, PoolTake, PoolShort, Goto, Finish, At
  <2>2. Lag[w] = 0
    BY <2>1 DEF Lag
  <2>3. CASE pool' = pool /\ task' = [task EXCEPT ![w] = Resting]
    BY <1>1, <1>6, <2>2, <2>3
  <2>4. CASE pool' = pool - n /\ task' = [task EXCEPT ![w].step = "reserve_row"]
    <3>1. /\ task'[w].step = "reserve_row" /\ task'[w].amount = n
          /\ Others(w) /\ task'[w].gift = task[w].gift
      BY <1>1, <2>4, Onward
    <3>2. Lag'[w] = n
      BY <3>1 DEF Lag
    <3>3. pool' + Lag'[w] = pool + Lag[w]
      BY <1>1, <2>2, <2>4, <3>2
    <3> QED
      BY <1>5, <2>1, <3>1, <3>3 DEF RefundSteps
  <2> QED
    BY <2>1, <2>3, <2>4
<1>12. CASE RefundPool(w)
  <2>1. /\ task[w].step = "refund_pool"
        /\ \/ pool' = pool - n /\ task' = [task EXCEPT ![w].step = "refund_claim"]
           \/ pool' = pool /\ task' = [task EXCEPT ![w] = Resting]
    BY <1>12 DEF RefundPool, PoolTake, PoolShort, Goto, Finish, At
  <2>2. Lag[w] = 0
    BY <2>1 DEF Lag
  <2>3. CASE pool' = pool /\ task' = [task EXCEPT ![w] = Resting]
    BY <1>1, <1>6, <2>2, <2>3
  <2>4. CASE pool' = pool - n /\ task' = [task EXCEPT ![w].step = "refund_claim"]
    <3>1. /\ task'[w].step = "refund_claim" /\ task'[w].amount = n
          /\ Others(w) /\ task'[w].gift = task[w].gift
      BY <1>1, <2>4, Onward
    <3>2. Lag'[w] = n
      BY <3>1 DEF Lag
    <3>3. pool' + Lag'[w] = pool + Lag[w]
      BY <1>1, <2>2, <2>4, <3>2
    <3> QED
      BY <1>5, <2>1, <3>1, <3>3 DEF RefundSteps
  <2> QED
    BY <2>1, <2>3, <2>4
<1>13. CASE GiveBack(w)
  <2>1. task[w].step = "give_back" /\ task' = [task EXCEPT ![w] = Resting] /\ pool' = pool + n
    BY <1>13 DEF GiveBack, PoolBack, Finish, At
  <2>2. Lag[w] = n
    BY <2>1 DEF Lag
  <2> QED
    BY <1>1, <1>6, <2>1, <2>2
<1>14. CASE CreditBooks(w)
  <2>1. task[w].step = "credit_books" /\ task' = [task EXCEPT ![w] = Resting] /\ pool' = pool
    BY <1>14 DEF CreditBooks, Finish, At
  <2>2. Lag[w] = 0
    BY <2>1 DEF Lag
  <2> QED
    BY <1>1, <1>6, <2>1, <2>2
<1>15. CASE RefundBooks(w)
  <2>1. task[w].step = "refund_books" /\ task' = [task EXCEPT ![w] = Resting] /\ pool' = pool
    BY <1>15 DEF RefundBooks, Finish, At
  <2>2. Lag[w] = 0
    BY <2>1 DEF Lag
  <2> QED
    BY <1>1, <1>6, <2>1, <2>2
<1>16. CASE ExpireBooks(w)
  <2>1. task[w].step = "expire_books" /\ task' = [task EXCEPT ![w] = Resting] /\ pool' = pool
    BY <1>16 DEF ExpireBooks, Finish, At
  <2>2. Lag[w] = 0
    BY <2>1 DEF Lag
  <2> QED
    BY <1>1, <1>6, <2>1, <2>2
<1> QED
  BY <1>7, <1>8, <1>9, <1>10, <1>11, <1>12, <1>13, <1>14, <1>15, <1>16

\* An operation begins that leaves the gifts alone.
LEMMA QuoteSpread ==
  ASSUME IInv, IInv', Spread, NEW w \in Workers, NEW u \in Users, ReserveQuote(w, u)
  PROVE  Spread'
<1> DEFINE n == Coverage(u)
<1>1. Typed /\ UNCHANGED <<gift, row, pool>>
  BY DEF IInv, ReserveQuote
<1>2. Begin(w, [Resting EXCEPT !.step = "reserve_pool", !.user = u, !.amount = n])
  BY DEF ReserveQuote
<1> HIDE DEF n
<1>3. /\ Only(w) /\ task[w].step = "idle"
      /\ task'[w] = [Resting EXCEPT !.step = "reserve_pool", !.user = u, !.amount = n]
  BY <1>1, <1>2, BeginsAlone
<1>4. task'[w].step = "reserve_pool"
  BY <1>3 DEF Resting
<1>5. Lag[w] = 0 /\ Lag'[w] = 0
  BY <1>3, <1>4 DEF Lag
<1>6. AmountIn({"reserved"})' = AmountIn({"reserved"})
  BY <1>1 DEF AmountIn
<1> QED
  BY <1>1, <1>3, <1>4, <1>5, <1>6, PoolSpread DEF RefundSteps

LEMMA RefundReadSpread ==
  ASSUME IInv, IInv', Spread, NEW w \in Workers, NEW g \in Gift, RefundRead(w, g)
  PROVE  Spread'
<1> DEFINE n == gift[g].remaining
<1>1. Typed /\ UNCHANGED <<gift, row, pool>> /\ gift[g].status = "succeeded"
  BY DEF IInv, RefundRead
<1>2. Begin(w, [Resting EXCEPT !.step = "refund_pool", !.gift = g, !.amount = n])
  BY DEF RefundRead
<1> HIDE DEF n
<1>3. /\ Only(w) /\ task[w].step = "idle"
      /\ task'[w] = [Resting EXCEPT !.step = "refund_pool", !.gift = g, !.amount = n]
  BY <1>1, <1>2, BeginsAlone
<1>4. task'[w].step = "refund_pool" /\ task'[w].gift = g
  BY <1>3 DEF Resting
<1>5. Lag[w] = 0 /\ Lag'[w] = 0
  BY <1>3, <1>4 DEF Lag
<1>6. AmountIn({"reserved"})' = AmountIn({"reserved"})
  BY <1>1 DEF AmountIn
<1> QED
  BY <1>1, <1>3, <1>4, <1>5, <1>6, PoolSpread

LEMMA CancelClaimSpread ==
  ASSUME IInv, IInv', Spread, NEW w \in Workers, NEW r \in Rows, NEW f \in BOOLEAN,
         CancelClaim(w, r, f)
  PROVE  Spread'
<1> DEFINE n == row[r].amount
           fee == row[r].fee
           s == IF f THEN "released" ELSE "refunded"
<1>1. Typed /\ Typed' /\ UNCHANGED <<gift, pool>> /\ row[r].status = "applied" /\ n \in Nat
  BY DEF IInv, CancelClaim, Typed, RedemptionRows
<1>2. row' = [row EXCEPT ![r].status = s] /\ s \in {"refunded", "released"}
  BY DEF CancelClaim
<1>3. Begin(w, [Resting EXCEPT !.step = "cancel_pool", !.row = r, !.amount = n, !.fee = fee])
  BY DEF CancelClaim
<1> HIDE DEF s
<1>4. OtherRows(r) /\ row'[r].status = s /\ row'[r].amount = n
  BY <1>1, <1>2, RowEdited
<1>5. AmountIn({"reserved"})' = AmountIn({"reserved"})
  BY <1>1, <1>2, <1>4, RowSums, AmountIsInt
<1> HIDE DEF n, fee
<1>6. /\ Only(w) /\ task[w].step = "idle"
      /\ task'[w] = [Resting EXCEPT !.step = "cancel_pool", !.row = r, !.amount = n, !.fee = fee]
  BY <1>1, <1>3, BeginsAlone
<1>7. task'[w].step = "cancel_pool"
  BY <1>6 DEF Resting
<1>8. Lag[w] = 0 /\ Lag'[w] = 0
  BY <1>6, <1>7 DEF Lag
<1> QED
  BY <1>1, <1>5, <1>6, <1>7, <1>8, PoolSpread DEF RefundSteps

\* What was reserved goes to the handler that applies or releases it.
LEMMA ReservedTaken ==
  ASSUME IInv, IInv', Spread, NEW w \in Workers, NEW r \in Rows,
         ApplyClaim(w, r) \/ ReleaseClaim(w, r)
  PROVE  Spread'
<1> DEFINE n == row[r].amount
           s == row'[r].status
<1>1. Typed /\ Typed' /\ UNCHANGED <<gift, pool>> /\ row[r].status = "reserved" /\ n \in Nat /\ pool \in Nat
  BY DEF IInv, ApplyClaim, ReleaseClaim, Typed, RedemptionRows
<1>2. \/ row' = [row EXCEPT ![r].status = "applied"]
      \/ row' = [row EXCEPT ![r].status = "released"]
  BY DEF ApplyClaim, ReleaseClaim
<1>3. OtherRows(r) /\ row'[r].status \in {"applied", "released"} /\ row'[r].amount = n
  BY <1>1, <1>2, RowEdited
<1>4. AmountIn({"reserved"})' = AmountIn({"reserved"}) - n /\ AmountIn({"reserved"}) \in Int
  BY <1>1, <1>3, RowSums, AmountIsInt
<1>5. \/ Begin(w, [Resting EXCEPT !.step = "apply_fee", !.row = r, !.amount = n])
      \/ Begin(w, [Resting EXCEPT !.step = "give_back", !.amount = n])
  BY DEF ApplyClaim, ReleaseClaim
<1> HIDE DEF n
<1>6. /\ Only(w) /\ task[w].step = "idle"
      /\ \/ task'[w] = [Resting EXCEPT !.step = "apply_fee", !.row = r, !.amount = n]
         \/ task'[w] = [Resting EXCEPT !.step = "give_back", !.amount = n]
  BY <1>1, <1>5, BeginsAlone
<1>7. task'[w].step \in {"apply_fee", "give_back"} /\ task'[w].amount = n
  BY <1>6 DEF Resting
<1>8. Lag[w] = 0 /\ Lag'[w] = n
  BY <1>6, <1>7 DEF Lag
<1>9. pool' + AmountIn({"reserved"})' + Lag'[w] = pool + AmountIn({"reserved"}) + Lag[w]
  BY <1>1, <1>4, <1>8
<1> QED
  BY <1>1, <1>6, <1>7, <1>9, PoolSpread DEF RefundSteps

LEMMA ReserveRowSpread ==
  ASSUME IInv, IInv', Charged, Spread, NEW w \in Workers, NEW r \in Rows, ReserveRow(w, r)
  PROVE  Spread'
<1> DEFINE n == task[w].amount
<1>1. /\ Typed /\ Typed' /\ Alone /\ UNCHANGED <<gift, pool>> /\ befell' = befell /\ pool \in Nat
      /\ task[w].step = "reserve_row" /\ row[r].status = "none" /\ n \in Nat
  BY DEF IInv, Charged, ReserveRow, Finish, At, Typed, Tasks
<1>2. OtherRows(r) /\ row'[r].status = "reserved" /\ row'[r].amount = n
  BY <1>1 DEF ReserveRow, OtherRows, Typed
<1>3. AmountIn({"reserved"})' = AmountIn({"reserved"}) + n /\ AmountIn({"reserved"}) \in Int
  BY <1>1, <1>2, RowSums, AmountIsInt
<1>4. Others(w) /\ task'[w] = Resting
  BY <1>1, FinishEnds DEF ReserveRow, Finish, Ends
<1>5. Only(w) /\ task'[w].step = "idle"
  BY <1>1, <1>4, StaysAlone DEF Resting
<1>6. Lag[w] = n /\ Lag'[w] = 0
  BY <1>1, <1>5 DEF Lag
<1>7. pool' + AmountIn({"reserved"})' + Lag'[w] = pool + AmountIn({"reserved"}) + Lag[w]
  BY <1>1, <1>3, <1>6
<1> QED
  BY <1>1, <1>5, <1>7, PoolSpread DEF RefundSteps

LEMMA ApplyFeeSpread ==
  ASSUME IInv, IInv', Charged, Spread, NEW w \in Workers, ApplyFee(w)
  PROVE  Spread'
<1> DEFINE r == task[w].row
           fee == FeeOf[task[w].amount]
<1>1. /\ Typed /\ Typed' /\ Alone /\ UNCHANGED <<gift, pool>> /\ befell' = befell
      /\ task[w].step = "apply_fee" /\ r \in Rows
  BY DEF IInv, Charged, ApplyFee, At, Addressed, ApplySteps
<1>2. /\ row' = [row EXCEPT ![r].fee = fee]
      /\ task' = [task EXCEPT ![w] = [@ EXCEPT !.step = "consume_find", !.fee = fee]]
  BY DEF ApplyFee
<1> HIDE DEF fee
<1>3. Others(w) /\ task'[w].step = "consume_find" /\ task'[w].amount = task[w].amount
  <2> DEFINE t == [task[w] EXCEPT !.step = "consume_find", !.fee = fee]
  <2>1. task[w] \in Tasks /\ task' = [task EXCEPT ![w] = t]
    BY <1>1, <1>2 DEF Typed
  <2>2. t.step = "consume_find" /\ t.amount = task[w].amount
    BY <2>1 DEF Tasks
  <2> HIDE DEF t
  <2> QED
    BY <1>1, <2>1, <2>2 DEF Typed, Others
<1> HIDE DEF r
<1>4. OtherRows(r) /\ row'[r].status = row[r].status /\ row'[r].amount = row[r].amount
  BY <1>1, <1>2, RowEdited
<1>5. AmountIn({"reserved"})' = AmountIn({"reserved"})
  BY <1>1, <1>4, RowSumsKept DEF OtherRows
<1>6. Only(w)
  BY <1>1, <1>3, StaysAlone
<1>7. Lag'[w] = Lag[w]
  BY <1>1, <1>3 DEF Lag
<1>8. pool' + AmountIn({"reserved"})' + Lag'[w] = pool + AmountIn({"reserved"}) + Lag[w]
  BY <1>1, <1>5, <1>7
<1> QED
  BY <1>1, <1>3, <1>6, <1>8, PoolSpread DEF RefundSteps

\* A handler pays the giver, takes the expired money out, or dies.
LEMMA MishapSpread ==
  ASSUME IInv, IInv', Charged, Spread, NEW w \in Workers,
         RefundStripe(w) \/ ExpirePool(w) \/ Crash(w)
  PROVE  Spread'
<1> DEFINE n == task[w].amount
<1>1. /\ Typed /\ Typed' /\ Alone /\ UNCHANGED <<gift, row>> /\ befell \subseteq befell'
      /\ pool \in Nat /\ n \in Nat
  BY DEF IInv, Charged, RefundStripe, ExpirePool, Crash, Befalls, Typed, Tasks
<1>2. task[w].step # "idle"
  BY DEF RefundStripe, ExpirePool, Crash, Idle, At
<1>3. AmountIn({"reserved"})' = AmountIn({"reserved"}) /\ AmountIn({"reserved"}) \in Int
  BY <1>1, AmountIsInt DEF AmountIn
<1>4. CASE RefundStripe(w)
  <2>1. task[w].step = "refund_stripe" /\ task' = [task EXCEPT ![w].step = "refund_row"] /\ pool' = pool
    BY <1>4 DEF RefundStripe, At
  <2>2. Others(w) /\ task'[w].step = "refund_row"
    BY <1>1, <2>1, Onward
  <2>3. Only(w)
    BY <1>1, <1>2, <2>2, StaysAlone
  <2>4. Lag[w] = 0 /\ Lag'[w] = 0
    BY <2>1, <2>2 DEF Lag
  <2> QED
    BY <1>1, <1>3, <2>1, <2>2, <2>3, <2>4, PoolSpread DEF RefundSteps
<1>5. CASE ExpirePool(w)
  <2>1. /\ task[w].step = "expire_pool" /\ task' = [task EXCEPT ![w].step = "expire_books"]
        /\ pool' = pool - n \/ "expired_in_use" \in befell'
    BY <1>5 DEF ExpirePool, PoolTake, PoolShort, Befalls, At
  <2>2. Others(w) /\ task'[w].step = "expire_books"
    BY <1>1, <2>1, Onward
  <2>3. Only(w)
    BY <1>1, <1>2, <2>2, StaysAlone
  <2>4. Lag[w] = - n /\ Lag'[w] = 0
    BY <2>1, <2>2 DEF Lag
  <2>5. Strict' => pool' + AmountIn({"reserved"})' + Lag'[w] = pool + AmountIn({"reserved"}) + Lag[w]
    BY <1>1, <1>3, <2>1, <2>4 DEF Strict
  <2> QED
    BY <1>1, <2>2, <2>3, <2>5, PoolSpread DEF RefundSteps
<1>6. CASE Crash(w)
  <2>1. "crash" \in befell' /\ task' = [task EXCEPT ![w] = Resting]
    BY <1>6 DEF Crash, Befalls
  <2>2. Others(w) /\ task'[w].step = "idle"
    BY <1>1, <2>1, FinishEnds DEF Ends
  <2>3. Only(w) /\ ~Strict'
    BY <1>1, <1>2, <2>1, <2>2, StaysAlone DEF Strict
  <2> QED
    BY <1>1, <2>2, <2>3, PoolSpread DEF RefundSteps
<1> QED
  BY <1>4, <1>5, <1>6

LEMMA FoundNothing ==
  ASSUME NEW w \in Workers, \A g \in DOMAIN task[w].found : FALSE
  PROVE  SumFunction(Found(w)) = 0
<1>1. /\ \A g \in Gift : Found(w)[g] = 0
      /\ SumFunction(Found(w)) = SumFunctionOnSet(Found(w), Gift)
  BY DEF Found, SumFunction
<1> QED
  BY <1>1, SumNothing, GiftIsFinite

\* A pass is over: the drawn money is spent, or the money given back is on the gifts.
LEMMA PassEndsSpread ==
  ASSUME IInv, IInv', Charged, Spread, NEW w \in Workers, ApplyBooks(w) \/ CancelBooks(w)
  PROVE  Spread'
<1> DEFINE n == task[w].left
<1>1. /\ Typed /\ Typed' /\ Alone /\ UNCHANGED <<gift, row, pool>> /\ befell \subseteq befell'
      /\ pool \in Nat /\ n \in Nat
  BY DEF IInv, Charged, ApplyBooks, CancelBooks, Finish, Befalls, Typed, Tasks
<1>2. AmountIn({"reserved"})' = AmountIn({"reserved"}) /\ AmountIn({"reserved"}) \in Int
  BY <1>1, AmountIsInt DEF AmountIn
<1>3. task' = [task EXCEPT ![w] = Resting] /\ task[w].step \in {"consume", "restore"}
  BY DEF ApplyBooks, CancelBooks, Finish, At
<1>4. Others(w) /\ task'[w].step = "idle"
  BY <1>1, <1>3, FinishEnds DEF Ends
<1>5. Only(w)
  BY <1>1, <1>3, <1>4, StaysAlone
<1>6. Strict' => n = 0
  <2>1. CASE ApplyBooks(w)
    <3>1. SUFFICES ASSUME Strict', n # 0
                   PROVE  FALSE
      OBVIOUS
    <3>2. task[w].step = "consume" /\ task[w].found = NoGifts
      BY <2>1, <3>1 DEF ApplyBooks, FifoDone, At
    <3>3. SumFunction(Found(w)) = 0
      BY <3>2, FoundNothing DEF NoGifts
    <3>4. n <= SumFunction(Found(w))
      BY <1>1, <3>1, <3>2 DEF Spread, Covered, Strict
    <3> QED
      BY <1>1, <3>1, <3>3, <3>4
  <2>2. CASE CancelBooks(w)
    BY <2>2 DEF CancelBooks, Befalls, Strict
  <2> QED
    BY <2>1, <2>2
<1>7. Lag'[w] = 0 /\ (n = 0 => Lag[w] = 0)
  BY <1>3, <1>4 DEF Lag
<1> QED
  BY <1>1, <1>2, <1>4, <1>5, <1>6, <1>7, PoolSpread DEF RefundSteps

\* The others rest: what the gifts are ahead by is this handler's part.
LEMMA LagAlone ==
  ASSUME Typed, NEW w \in Workers, \A v \in Workers \ {w} : task[v].step = "idle"
  PROVE  SumFunction(Lag) = Lag[w]
<1> DEFINE L == Lag
<1>1. \A x \in Workers : L[x] \in Int
  <2>1. \A x \in Workers : task[x].amount \in Nat /\ task[x].left \in Nat
    BY DEF Typed, Tasks
  <2> QED
    BY <2>1 DEF Lag
<1>2. \A x \in Workers \ {w} : L[x] = 0
  BY DEF Lag
<1>3. SumFunction(L) = SumFunctionOnSet(L, Workers)
  BY DEF SumFunction, Lag
<1>4. IsFiniteSet(Workers) /\ IsFiniteSet(Workers \ {w})
  BY PayForwardAssumption, FS_Subset
<1> HIDE DEF L
<1>5. SumFunctionOnSet(L, Workers) = L[w] + SumFunctionOnSet(L, Workers \ {w})
  BY <1>1, <1>4, SumTakeOut
<1>6. SumFunctionOnSet(L, Workers \ {w}) = 0
  BY <1>2, <1>4, SumNothing
<1> QED
  BY <1>1, <1>3, <1>5, <1>6 DEF L

\* All that is spendable is found: a pass that draws begins with enough.
LEMMA ConsumeFindSpread ==
  ASSUME IInv, IInv', Charged, Spread, NEW w \in Workers, ConsumeFind(w)
  PROVE  Spread'
<1> DEFINE n == task[w].amount
           f == [g \in Spendable |-> gift[g].remaining]
<1>1. /\ Typed /\ Typed' /\ Alone /\ UNCHANGED <<gift, row, pool>> /\ befell' = befell
      /\ pool \in Nat /\ n \in Nat /\ task[w].step = "consume_find"
      /\ task' = [task EXCEPT ![w] = [@ EXCEPT !.step = "consume", !.left = n, !.found = f]]
  BY DEF IInv, Charged, ConsumeFind, At, Typed, Tasks
<1>2. AmountIn({"reserved"})' = AmountIn({"reserved"})
  BY <1>1 DEF AmountIn
<1>3. /\ \A g \in DOMAIN f : g \in Gift /\ gift[g].status = "succeeded" /\ f[g] = gift[g].remaining
      /\ \A g \in Gift \ DOMAIN f : gift[g].status = "succeeded" => gift[g].remaining = 0
  BY <1>1 DEF Spendable, Typed, GiftRows
<1>4. Others(w) /\ task'[w].step = "consume" /\ task'[w].left = n /\ task'[w].found = f
  <2> DEFINE t == [task[w] EXCEPT !.step = "consume", !.left = n, !.found = f]
  <2>1. task[w] \in Tasks /\ task' = [task EXCEPT ![w] = t]
    BY <1>1 DEF Typed
  <2> HIDE DEF f, n
  <2>2. t.step = "consume" /\ t.left = n /\ t.found = f
    BY <2>1 DEF Tasks
  <2> HIDE DEF t
  <2> QED
    BY <1>1, <2>1, <2>2 DEF Typed, Others
<1> HIDE DEF f, n
<1>5. Only(w)
  BY <1>1, <1>4, StaysAlone
<1>6. Lag[w] = n /\ Lag'[w] = n
  BY <1>1, <1>4 DEF Lag, n
<1>7. Unspent' = Unspent /\ Unspent \in Int
  BY <1>1, SpareKept DEF Spare
<1>8. SumFunction(Found(w))' = Unspent
  <2>1. \A g \in Gift : Found(w)'[g] = Spare[g] /\ Spare[g] \in Int
    BY <1>1, <1>3, <1>4 DEF Found, Spare, Typed, GiftRows
  <2>2. /\ SumFunction(Found(w))' = SumFunctionOnSet(Found(w)', Gift)
        /\ Unspent = SumFunctionOnSet(Spare, Gift)
    BY DEF Found, Unspent, Spare, SumFunction
  <2>3. SumFunctionOnSet(Found(w)', Gift) = SumFunctionOnSet(Spare, Gift)
    BY <2>1, SumAgrees, GiftIsFinite
  <2> QED
    BY <2>2, <2>3
<1>9. Strict' => n <= Unspent
  <2> SUFFICES ASSUME Strict'
               PROVE  n <= Unspent
    OBVIOUS
  <2>1. SumFunction(Lag) = n
    BY <1>1, <1>5, <1>6, LagAlone DEF Strict, Apart, Only
  <2>2. Unspent = pool + AmountIn({"reserved"}) + n
    BY <1>1, <2>1 DEF Spread, GiftsAdd, Strict
  <2>3. AmountIn({"reserved"}) \in Nat
    BY <1>1, SpentIsNat
  <2> QED
    BY <1>1, <1>7, <2>2, <2>3 DEF n
<1>10. \A g \in Gift : /\ gift[g].status = "succeeded" => gift'[g].status = "succeeded"
                       /\ gift'[g].status = "pending" => gift'[g].remaining = Given[g]
  BY <1>1 DEF Spread, Whole
<1>11. \A g \in DOMAIN task'[w].found :
         gift'[g].status = "succeeded" /\ gift'[g].remaining = task'[w].found[g]
  BY <1>1, <1>3, <1>4
<1>12. Strict' => task'[w].left <= SumFunction(Found(w))'
  BY <1>4, <1>8, <1>9
<1>13. Unspent' - pool' - AmountIn({"reserved"})' - Lag'[w]
         = Unspent - pool - AmountIn({"reserved"}) - Lag[w]
  BY <1>1, <1>2, <1>6, <1>7
<1> QED
  BY <1>4, <1>5, <1>10, <1>11, <1>12, <1>13, SpreadKept DEF RefundSteps

LEMMA RestoreFindSpread ==
  ASSUME IInv, IInv', Charged, Spread, NEW w \in Workers, RestoreFind(w)
  PROVE  Spread'
<1> DEFINE n == task[w].amount
           f == [g \in Drawn |-> Given[g] - gift[g].remaining]
<1>1. /\ Typed /\ Typed' /\ Alone /\ UNCHANGED <<gift, row, pool>> /\ befell' = befell
      /\ pool \in Nat /\ n \in Nat /\ task[w].step = "restore_find"
      /\ task' = [task EXCEPT ![w] = [@ EXCEPT !.step = "restore", !.left = n, !.found = f]]
  BY DEF IInv, Charged, RestoreFind, At, Typed, Tasks
<1>2. AmountIn({"reserved"})' = AmountIn({"reserved"})
  BY <1>1 DEF AmountIn
<1>3. \A g \in DOMAIN f : gift[g].status = "succeeded"
  BY DEF Drawn
<1>4. Others(w) /\ task'[w].step = "restore" /\ task'[w].left = n /\ task'[w].found = f
  <2> DEFINE t == [task[w] EXCEPT !.step = "restore", !.left = n, !.found = f]
  <2>1. task[w] \in Tasks /\ task' = [task EXCEPT ![w] = t]
    BY <1>1 DEF Typed
  <2> HIDE DEF f, n
  <2>2. t.step = "restore" /\ t.left = n /\ t.found = f
    BY <2>1 DEF Tasks
  <2> HIDE DEF t
  <2> QED
    BY <1>1, <2>1, <2>2 DEF Typed, Others
<1> HIDE DEF f, n
<1>5. Only(w)
  BY <1>1, <1>4, StaysAlone
<1>6. Lag[w] = - n /\ Lag'[w] = - n
  BY <1>1, <1>4 DEF Lag, n
<1>7. Unspent' = Unspent /\ Unspent \in Int
  BY <1>1, SpareKept DEF Spare
<1>8. \A g \in Gift : /\ gift[g].status = "succeeded" => gift'[g].status = "succeeded"
                      /\ gift'[g].status = "pending" => gift'[g].remaining = Given[g]
  BY <1>1 DEF Spread, Whole
<1>9. \A g \in DOMAIN task'[w].found : gift'[g].status = "succeeded"
  BY <1>1, <1>3, <1>4
<1>10. Unspent' - pool' - AmountIn({"reserved"})' - Lag'[w]
         = Unspent - pool - AmountIn({"reserved"}) - Lag[w]
  BY <1>1, <1>2, <1>6, <1>7
<1> QED
  BY <1>4, <1>5, <1>8, <1>9, <1>10, SpreadKept DEF RefundSteps

\* A handler of one gift takes a step that changes what of the gift is unspent.
LEMMA GiftStep ==
  ASSUME IInv, IInv', Charged, Spread, NEW w \in Workers, Only(w), row' = row, NEW g \in Gift,
         \A h \in Gift \ {g} : gift'[h] = gift[h],
         gift'[g].status = "succeeded",
         task'[w].step \notin {"consume", "restore"},
         task'[w].step \in RefundSteps => task'[w].gift = g,
         Strict' => Spare'[g] - pool' - Lag'[w] = Spare[g] - pool - Lag[w]
  PROVE  Spread'
<1>1. Typed /\ Typed' /\ pool \in Nat /\ pool' \in Nat
  BY DEF IInv, Typed
<1>2. AmountIn({"reserved"})' = AmountIn({"reserved"}) /\ AmountIn({"reserved"}) \in Int
  BY <1>1, AmountIsInt DEF AmountIn
<1>3. \A h \in Gift \ {g} : Spare'[h] = Spare[h]
  BY DEF Spare
<1>4. /\ Unspent \in Int /\ Spare[g] \in Int /\ Spare'[g] \in Int
      /\ Unspent' = Unspent - Spare[g] + Spare'[g]
  BY <1>1, <1>3, SpareSums
<1>5. Lag[w] \in Int /\ Lag'[w] \in Int
  BY <1>1, LagSums DEF Only
<1>6. \A h \in Gift : /\ gift[h].status = "succeeded" => gift'[h].status = "succeeded"
                      /\ gift'[h].status = "pending" => gift'[h].remaining = Given[h]
  BY DEF Spread, Whole
<1>7. Strict' => Unspent' - pool' - AmountIn({"reserved"})' - Lag'[w]
                   = Unspent - pool - AmountIn({"reserved"}) - Lag[w]
  BY <1>1, <1>2, <1>4, <1>5
<1> QED
  BY <1>6, <1>7, SpreadKept

LEMMA CreditClaimSpread ==
  ASSUME IInv, IInv', Charged, Spread, NEW w \in Workers, NEW g \in Gift, CreditClaim(w, g)
  PROVE  Spread'
<1> DEFINE n == Given[g]
           new == [gift[g] EXCEPT !.status = "succeeded", !.age = "fresh"]
<1>1. /\ Typed /\ Typed' /\ UNCHANGED <<row, pool>> /\ pool \in Nat /\ n \in Nat
      /\ gift[g].status = "pending" /\ gift[g].remaining = n /\ gift[g] \in GiftRows
  <2>1. n \in Nat
    BY PayForwardAssumption DEF Gift
  <2>2. /\ Typed /\ Typed' /\ UNCHANGED <<row, pool>> /\ pool \in Nat
        /\ gift[g].status = "pending" /\ gift[g] \in GiftRows
    BY DEF IInv, CreditClaim, Typed
  <2> QED
    BY <2>1, <2>2 DEF Spread, Whole
<1>2. /\ gift' = [gift EXCEPT ![g] = new]
      /\ Begin(w, [Resting EXCEPT !.step = "credit_pool", !.gift = g, !.amount = n])
  BY DEF CreditClaim
<1> HIDE DEF n
<1>3. new \in GiftRows /\ new.status = "succeeded" /\ new.remaining = n
  BY <1>1 DEF GiftRows
<1> HIDE DEF new
<1>4. gift'[g] = new /\ \A h \in Gift \ {g} : gift'[h] = gift[h]
  BY <1>1, <1>2, <1>3, GiftEdit
<1>5. /\ Only(w) /\ task[w].step = "idle"
      /\ task'[w] = [Resting EXCEPT !.step = "credit_pool", !.gift = g, !.amount = n]
  BY <1>1, <1>2, BeginsAlone
<1>6. task'[w].step = "credit_pool" /\ task'[w].amount = n
  BY <1>5 DEF Resting
<1>7. Lag[w] = 0 /\ Lag'[w] = n
  BY <1>5, <1>6 DEF Lag
<1>8. Spare[g] = 0 /\ Spare'[g] = n
  BY <1>1, <1>3, <1>4 DEF Spare
<1>9. gift'[g].status = "succeeded" /\ task'[w].step \notin RefundSteps \cup {"consume", "restore"}
  BY <1>3, <1>4, <1>6 DEF RefundSteps
<1>10. Spare'[g] - pool' - Lag'[w] = Spare[g] - pool - Lag[w]
  BY <1>1, <1>7, <1>8
<1> QED
  BY <1>1, <1>4, <1>5, <1>9, <1>10, GiftStep

LEMMA ExpireClaimSpread ==
  ASSUME IInv, IInv', Charged, Spread, NEW w \in Workers, NEW g \in Gift, ExpireClaim(w, g)
  PROVE  Spread'
<1> DEFINE n == gift[g].remaining
           new == [gift[g] EXCEPT !.age = "expired", !.remaining = 0]
<1>1. /\ Typed /\ Typed' /\ UNCHANGED <<row, pool>> /\ pool \in Nat /\ n \in Nat
      /\ gift[g].status = "succeeded" /\ gift[g] \in GiftRows
  BY DEF IInv, ExpireClaim, Typed, GiftRows
<1>2. /\ gift' = [gift EXCEPT ![g] = new]
      /\ Begin(w, [Resting EXCEPT !.step = "expire_pool", !.gift = g, !.amount = n])
  BY DEF ExpireClaim
<1>3. new \in GiftRows /\ new.status = "succeeded" /\ new.remaining = 0
  BY <1>1 DEF GiftRows
<1>4. Spare[g] = n
  BY <1>1 DEF Spare
<1> HIDE DEF new, n
<1>5. gift'[g] = new /\ \A h \in Gift \ {g} : gift'[h] = gift[h]
  BY <1>1, <1>2, <1>3, GiftEdit
<1>6. /\ Only(w) /\ task[w].step = "idle"
      /\ task'[w] = [Resting EXCEPT !.step = "expire_pool", !.gift = g, !.amount = n]
  BY <1>1, <1>2, BeginsAlone
<1>7. task'[w].step = "expire_pool" /\ task'[w].amount = n
  BY <1>6 DEF Resting
<1>8. Lag[w] = 0 /\ Lag'[w] = - n
  BY <1>6, <1>7 DEF Lag
<1>9. Spare'[g] = 0
  BY <1>3, <1>5 DEF Spare
<1>10. gift'[g].status = "succeeded" /\ task'[w].step \notin RefundSteps \cup {"consume", "restore"}
  BY <1>3, <1>5, <1>7 DEF RefundSteps
<1>11. Spare'[g] - pool' - Lag'[w] = Spare[g] - pool - Lag[w]
  BY <1>1, <1>4, <1>8, <1>9
<1> QED
  BY <1>1, <1>5, <1>6, <1>10, <1>11, GiftStep

\* The giver's refund takes the unspent part, puts it back, or writes down that it was paid.
LEMMA RefundGiftSpread ==
  ASSUME IInv, IInv', Charged, Spread, NEW w \in Workers,
         RefundClaim(w) \/ RefundUndo(w) \/ RefundRow(w)
  PROVE  Spread'
<1> DEFINE g == task[w].gift
           n == task[w].amount
           m == gift[g].remaining
<1>1. /\ Typed /\ Typed' /\ Alone /\ UNCHANGED <<row, pool>> /\ befell' = befell /\ pool \in Nat
      /\ n \in Nat /\ task[w].step \in {"refund_claim", "refund_undo", "refund_row"}
  BY DEF IInv, Charged, RefundClaim, RefundUndo, RefundRow, Goto, Finish, At, Typed, Tasks
<1>2. g \in Gift
  BY <1>1 DEF IInv, Addressed, RefundSteps, RefundedSteps
<1>3. m \in Nat /\ gift[g].refunded \in Nat
  BY <1>1, <1>2 DEF Typed, GiftRows
<1>4. AmountIn({"reserved"})' = AmountIn({"reserved"}) /\ AmountIn({"reserved"}) \in Int
  BY <1>1, AmountIsInt DEF AmountIn
<1>5. CASE RefundClaim(w)
  <2>1. task[w].step = "refund_claim" /\ gift[g].status = "succeeded"
    BY <1>5 DEF RefundClaim, At, Spread, Whole, RefundSteps
  <2>2. \/ /\ m >= n /\ gift' = [gift EXCEPT ![g].remaining = m - n]
           /\ task' = [task EXCEPT ![w].step = "refund_stripe"]
        \/ gift' = gift /\ task' = [task EXCEPT ![w].step = "give_back"]
    BY <1>5 DEF RefundClaim, Goto
  <2> HIDE DEF g, n, m
  <2>3. CASE gift' = gift /\ task' = [task EXCEPT ![w].step = "give_back"]
    <3>1. Others(w) /\ task'[w].step = "give_back" /\ task'[w].amount = n
      BY <1>1, <2>3, Onward DEF n
    <3>2. Only(w)
      BY <1>1, <3>1, StaysAlone
    <3>3. Lag[w] = n /\ Lag'[w] = n
      BY <2>1, <3>1 DEF Lag, n
    <3> QED
      BY <1>1, <1>4, <2>3, <3>1, <3>2, <3>3, PoolSpread DEF RefundSteps
  <2>4. CASE /\ m >= n /\ gift' = [gift EXCEPT ![g].remaining = m - n]
             /\ task' = [task EXCEPT ![w].step = "refund_stripe"]
    <3>1. Others(w) /\ task'[w].step = "refund_stripe" /\ task'[w].gift = g
      BY <1>1, <2>4, Onward DEF g
    <3>2. Only(w)
      BY <1>1, <3>1, StaysAlone
    <3>3. Lag[w] = n /\ Lag'[w] = 0
      BY <2>1, <3>1 DEF Lag, n
    <3>4. m - n \in Nat
      BY <1>1, <1>3, <2>4
    <3>5. /\ \A h \in Gift \ {g} : gift'[h] = gift[h]
          /\ gift'[g].status = gift[g].status /\ gift'[g].remaining = m - n
      BY <1>1, <1>2, <2>4, <3>4, RemainderEdit
    <3>6. Spare[g] = m /\ Spare'[g] = m - n
      BY <1>2, <2>1, <3>5 DEF Spare, m
    <3>7. Spare'[g] - pool' - Lag'[w] = Spare[g] - pool - Lag[w]
      BY <1>1, <1>3, <3>3, <3>6
    <3> QED
      BY <1>1, <1>2, <2>1, <3>1, <3>2, <3>5, <3>7, GiftStep
  <2> QED
    BY <2>2, <2>3, <2>4
<1>6. CASE RefundUndo(w)
  <2>1. task[w].step = "refund_undo" /\ gift[g].status = "succeeded"
    BY <1>6 DEF RefundUndo, At, Spread, Whole, RefundSteps
  <2>2. gift' = [gift EXCEPT ![g].remaining = m + n] /\ task' = [task EXCEPT ![w] = Resting]
    BY <1>6 DEF RefundUndo, Finish
  <2> HIDE DEF g, n, m
  <2>3. Others(w) /\ task'[w].step = "idle"
    BY <1>1, <2>2, FinishEnds DEF Ends
  <2>4. Only(w)
    BY <1>1, <2>3, StaysAlone
  <2>5. Lag[w] = - n /\ Lag'[w] = 0
    BY <2>1, <2>3 DEF Lag, n
  <2>6. m + n \in Nat
    BY <1>1, <1>3
  <2>7. /\ \A h \in Gift \ {g} : gift'[h] = gift[h]
        /\ gift'[g].status = gift[g].status /\ gift'[g].remaining = m + n
    BY <1>1, <1>2, <2>2, <2>6, RemainderEdit
  <2>8. Spare[g] = m /\ Spare'[g] = m + n
    BY <1>2, <2>1, <2>7 DEF Spare, m
  <2>9. Spare'[g] - pool' - Lag'[w] = Spare[g] - pool - Lag[w]
    BY <1>1, <1>3, <2>5, <2>8
  <2> QED
    BY <1>1, <1>2, <2>1, <2>3, <2>4, <2>7, <2>9, GiftStep DEF RefundSteps
<1>7. CASE RefundRow(w)
  <2> DEFINE k == gift[g].refunded + n
  <2>1. task[w].step = "refund_row"
    BY <1>7 DEF RefundRow, At
  <2>2. gift' = [gift EXCEPT ![g].refunded = k] /\ task' = [task EXCEPT ![w].step = "refund_books"]
    BY <1>7 DEF RefundRow, Goto
  <2>3. k \in Nat
    BY <1>1, <1>3
  <2> HIDE DEF g, n, m, k
  <2>4. Others(w) /\ task'[w].step = "refund_books"
    BY <1>1, <2>2, Onward
  <2>5. Only(w)
    BY <1>1, <2>4, StaysAlone
  <2>6. Lag[w] = 0 /\ Lag'[w] = 0
    BY <2>1, <2>4 DEF Lag
  <2>7. /\ \A h \in Gift \ {g} : gift'[h] = gift[h]
        /\ \A h \in Gift : gift'[h].status = gift[h].status
        /\ gift'[g].remaining = gift[g].remaining
    BY <1>1, <1>2, <2>2, <2>3, RemainderEdit
  <2>8. \A h \in Gift : Spare'[h] = Spare[h]
    BY <2>7 DEF Spare
  <2>9. Unspent \in Int /\ Unspent' = Unspent
    BY <1>1, <2>8, SpareKept
  <2>10. \A h \in Gift : /\ gift[h].status = "succeeded" => gift'[h].status = "succeeded"
                         /\ gift'[h].status = "pending" => gift'[h].remaining = Given[h]
    BY <2>7 DEF Spread, Whole
  <2>11. Unspent' - pool' - AmountIn({"reserved"})' - Lag'[w]
           = Unspent - pool - AmountIn({"reserved"}) - Lag[w]
    BY <1>1, <1>4, <2>6, <2>9
  <2> QED
    BY <2>4, <2>5, <2>10, <2>11, SpreadKept DEF RefundSteps
<1> QED
  BY <1>5, <1>6, <1>7

\* A gift whose share is settled leaves what is found.
LEMMA FoundLess ==
  ASSUME Typed, Typed', NEW w \in Workers, NEW g \in DOMAIN task[w].found,
         task'[w].found = Restrict(task[w].found, (DOMAIN task[w].found) \ {g})
  PROVE  /\ DOMAIN task'[w].found = (DOMAIN task[w].found) \ {g}
         /\ \A h \in (DOMAIN task[w].found) \ {g} : task'[w].found[h] = task[w].found[h]
         /\ SumFunction(Found(w)) \in Int /\ SumFunction(Found(w))' \in Nat
         /\ SumFunction(Found(w))' = SumFunction(Found(w)) - task[w].found[g]
<1> DEFINE F == Found(w)
           G == Found(w)'
<1>1. /\ DOMAIN task'[w].found = (DOMAIN task[w].found) \ {g}
      /\ \A h \in (DOMAIN task[w].found) \ {g} : task'[w].found[h] = task[w].found[h]
  BY DEF Restrict
<1>2. DOMAIN task[w].found \subseteq Gift /\ \A h \in DOMAIN task[w].found : task[w].found[h] \in Nat
  <2>1. task[w] \in Tasks
    BY DEF Typed
  <2>2. PICK S \in SUBSET Gift : task[w].found \in [S -> Nat]
    BY <2>1 DEF Tasks, Findings
  <2> QED
    BY <2>2
<1>3. /\ F[g] = task[w].found[g] /\ G[g] = 0 /\ \A h \in Gift \ {g} : G[h] = F[h]
      /\ \A h \in Gift : F[h] \in Nat /\ G[h] \in Nat
  BY <1>1, <1>2 DEF Found
<1>4. /\ SumFunction(Found(w)) = SumFunctionOnSet(F, Gift)
      /\ SumFunction(Found(w))' = SumFunctionOnSet(G, Gift)
  BY DEF Found, SumFunction
<1>5. g \in Gift
  BY <1>2
<1> HIDE DEF F, G
<1>6. SumFunctionOnSet(F, Gift) \in Int /\ SumFunctionOnSet(G, Gift) \in Nat
  <2>1. /\ \A h \in Gift : F[h] \in Int
        /\ \A h \in Gift : G[h] \in Nat
    BY <1>3
  <2> QED
    BY <2>1, GiftIsFinite, SumTakeOut, SumNotNegative
<1>7. SumFunctionOnSet(G, Gift) = SumFunctionOnSet(F, Gift) - F[g] + G[g]
  <2>1. \A h \in Gift : F[h] \in Int /\ G[h] \in Int
    BY <1>3
  <2>2. \A h \in Gift \ {g} : G[h] = F[h]
    BY <1>3
  <2>3. ChangesAt(F, G, Gift, g)
    BY <2>1, <2>2 DEF ChangesAt
  <2> QED
    BY <1>5, <2>3, GiftIsFinite, SumChange
<1>8. F[g] = task[w].found[g] /\ G[g] = 0 /\ F[g] \in Nat
  BY <1>3, <1>5
<1>9. /\ SumFunction(Found(w)) \in Int /\ SumFunction(Found(w))' \in Nat
      /\ SumFunction(Found(w))' = SumFunction(Found(w)) - task[w].found[g]
  <2>1. SumFunctionOnSet(G, Gift) = SumFunctionOnSet(F, Gift) - task[w].found[g]
    BY <1>6, <1>7, <1>8
  <2> QED
    BY <1>4, <1>6, <2>1
<1> QED
  BY <1>1, <1>9

\* Both passes: what a gift gives or gets is off what is left to draw or to give back.
LEMMA ShareSpread ==
  ASSUME IInv, IInv', Charged, Spread, NEW w \in Workers, NEW g \in DOMAIN task[w].found,
         NEW ok \in BOOLEAN, Moved(w, g, ok), UNCHANGED <<row, pool>>,
         \/ /\ task[w].step = "consume" /\ (ok <=> gift[g].remaining >= Share(w, g))
            /\ gift' = IF ok THEN [gift EXCEPT ![g].remaining = gift[g].remaining - Share(w, g)] ELSE gift
         \/ /\ task[w].step = "restore"
            /\ gift' = IF ok THEN [gift EXCEPT ![g].remaining = gift[g].remaining + Share(w, g)] ELSE gift
  PROVE  Spread'
<1> DEFINE n == task[w].left
           x == Share(w, g)
           m == gift[g].remaining
           found == Restrict(task[w].found, (DOMAIN task[w].found) \ {g})
           left == IF ok THEN n - x ELSE n
<1>1. /\ Typed /\ Typed' /\ Alone /\ befell' = befell /\ pool \in Nat /\ n \in Nat
      /\ task[w].step \in {"consume", "restore"}
  BY DEF IInv, Charged, Moved, Typed, Tasks
<1>2. g \in Gift /\ x \in Nat /\ x <= n /\ x \in {n, task[w].found[g]}
      /\ x <= task[w].found[g]
  BY <1>1, PassMoves
<1>3. /\ Others(w) /\ task'[w].step = task[w].step /\ task'[w].left = left
      /\ task'[w].found = found
  <2>1. task' = [task EXCEPT ![w] = [task[w] EXCEPT !.found = found, !.left = left]]
    BY DEF Moved
  <2> DEFINE t == [task[w] EXCEPT !.found = found, !.left = left]
  <2>2. task[w] \in Tasks /\ task' = [task EXCEPT ![w] = t]
    BY <1>1, <2>1 DEF Typed
  <2> HIDE DEF found, left
  <2>3. t.step = task[w].step /\ t.left = left /\ t.found = found
    BY <2>2 DEF Tasks
  <2> HIDE DEF t
  <2> QED
    BY <1>1, <2>2, <2>3 DEF Typed, Others
<1>4. Only(w)
  BY <1>1, <1>3, StaysAlone
<1>5. /\ DOMAIN task'[w].found = (DOMAIN task[w].found) \ {g}
      /\ \A h \in (DOMAIN task[w].found) \ {g} : task'[w].found[h] = task[w].found[h]
      /\ SumFunction(Found(w)) \in Int /\ SumFunction(Found(w))' \in Nat
      /\ SumFunction(Found(w))' = SumFunction(Found(w)) - task[w].found[g]
  BY <1>1, <1>3, FoundLess
<1>6. \A h \in DOMAIN task[w].found : h \in Gift /\ gift[h].status = "succeeded"
  <2>1. DOMAIN task[w].found \subseteq Gift
    BY <1>1 DEF Typed, Tasks, Findings
  <2> QED
    BY <1>1, <2>1 DEF Spread, Whole
<1>7. m \in Nat
  BY <1>1, <1>2 DEF Typed, GiftRows
<1>8. AmountIn({"reserved"})' = AmountIn({"reserved"}) /\ AmountIn({"reserved"}) \in Int
  BY <1>1, AmountIsInt DEF AmountIn
<1> DEFINE y == IF ~ok THEN 0 ELSE IF task[w].step = "consume" THEN - x ELSE x
<1>9. /\ \A h \in Gift \ {g} : gift'[h] = gift[h]
      /\ \A h \in Gift : gift'[h].status = gift[h].status
      /\ gift'[g].remaining = m + y
  <2>1. CASE ~ok
    BY <1>7, <2>1
  <2>2. CASE ok
    <3>1. gift' = [gift EXCEPT ![g].remaining = m + y] /\ m + y \in Nat
      BY <1>1, <1>2, <1>7, <2>2
    <3> HIDE DEF m, y
    <3> QED
      BY <1>1, <1>2, <3>1, RemainderEdit
  <2> QED
    BY <2>1, <2>2
<1>10. Spare[g] = m /\ Spare'[g] = m + y
  BY <1>2, <1>6, <1>9 DEF Spare
<1>11. Lag'[w] = Lag[w] + y /\ Lag[w] \in Int
  <2>1. left \in Int
    BY <1>1, <1>2
  <2>2. CASE task[w].step = "consume"
    <3>1. Lag[w] = n /\ Lag'[w] = left
      BY <1>3, <2>2 DEF Lag
    <3> QED
      BY <1>1, <1>2, <2>2, <3>1
  <2>3. CASE task[w].step = "restore"
    <3>1. Lag[w] = - n /\ Lag'[w] = - left
      BY <1>3, <2>3 DEF Lag
    <3> QED
      BY <1>1, <1>2, <2>3, <3>1
  <2> QED
    BY <1>1, <2>2, <2>3
<1> HIDE DEF n, x, m, found, y
<1>12. Unspent' = Unspent + y /\ Unspent \in Int /\ y \in Int
  <2>1. \A h \in Gift \ {g} : Spare'[h] = Spare[h]
    BY <1>9 DEF Spare
  <2>2. y \in Int
    BY <1>2 DEF y
  <2>3. Unspent \in Int /\ Unspent' = Unspent - Spare[g] + Spare'[g]
    BY <1>1, <1>2, <2>1, SpareSums
  <2> QED
    BY <1>7, <1>10, <2>2, <2>3
<1>13. Unspent' - pool' - AmountIn({"reserved"})' - Lag'[w]
         = Unspent - pool - AmountIn({"reserved"}) - Lag[w]
  BY <1>1, <1>8, <1>11, <1>12
<1>14. \A h \in Gift : /\ gift[h].status = "succeeded" => gift'[h].status = "succeeded"
                       /\ gift'[h].status = "pending" => gift'[h].remaining = Given[h]
  BY <1>2, <1>6, <1>9 DEF Spread, Whole
<1>15. \A h \in DOMAIN task'[w].found : gift'[h].status = "succeeded"
  BY <1>5, <1>6, <1>9
<1>16. ASSUME Strict', task'[w].step = "consume"
       PROVE  /\ \A h \in DOMAIN task'[w].found : gift'[h].remaining = task'[w].found[h]
              /\ task'[w].left <= SumFunction(Found(w))'
  <2>1. /\ \A h \in DOMAIN task[w].found : gift[h].remaining = task[w].found[h]
        /\ n <= SumFunction(Found(w))
    BY <1>1, <1>3, <1>16 DEF Spread, Covered, Strict, n
  <2>2. m = task[w].found[g]
    BY <2>1 DEF m
  <2>3. ok
    <3>1. m >= x
      BY <1>2, <1>7, <2>2
    <3> QED
      BY <1>3, <1>16, <3>1 DEF x, m
  <2>4. task'[w].left = n - x
    BY <1>3, <2>3
  <2>5. n - x <= SumFunction(Found(w))'
    BY <1>1, <1>2, <1>5, <1>7, <2>1, <2>2
  <2> QED
    BY <1>5, <1>6, <1>9, <2>1, <2>4, <2>5
<1>17. task'[w].step \notin RefundSteps
  BY <1>1, <1>3 DEF RefundSteps
<1> QED
  BY <1>4, <1>13, <1>14, <1>15, <1>16, <1>17, SpreadKept

LEMMA PassGiftSpread ==
  ASSUME IInv, IInv', Charged, Spread, NEW w \in Workers, ConsumeGift(w) \/ RestoreGift(w)
  PROVE  Spread'
<1>1. Typed /\ task[w].found # NoGifts /\ UNCHANGED <<row, pool>>
  BY DEF IInv, ConsumeGift, RestoreGift, FifoDone
<1>2. CASE ConsumeGift(w)
  <2> DEFINE g == Min(DOMAIN task[w].found)
             ok == gift[g].remaining >= Share(w, g)
  <2>1. task[w].step = "consume" /\ Moved(w, g, ok)
    BY <1>2 DEF ConsumeGift, At
  <2>2. gift' = IF ok THEN [gift EXCEPT ![g].remaining = gift[g].remaining - Share(w, g)] ELSE gift
    BY <1>2 DEF ConsumeGift
  <2>3. g \in DOMAIN task[w].found
    BY <1>1, OldestFound
  <2>4. ok \in BOOLEAN /\ (ok <=> gift[g].remaining >= Share(w, g))
    OBVIOUS
  <2> HIDE DEF g, ok
  <2> QED
    BY <1>1, <2>1, <2>2, <2>3, <2>4, ShareSpread
<1>3. CASE RestoreGift(w)
  <2> DEFINE g == Max(DOMAIN task[w].found)
             ok == gift[g].remaining <= Given[g] - Share(w, g)
  <2>1. task[w].step = "restore" /\ Moved(w, g, ok)
    BY <1>3 DEF RestoreGift, At
  <2>2. gift' = IF ok THEN [gift EXCEPT ![g].remaining = gift[g].remaining + Share(w, g)] ELSE gift
    BY <1>3 DEF RestoreGift
  <2>3. g \in DOMAIN task[w].found
    BY <1>1, NewestFound
  <2>4. ok \in BOOLEAN
    OBVIOUS
  <2> HIDE DEF g, ok
  <2> QED
    BY <1>1, <2>1, <2>2, <2>3, <2>4, ShareSpread
<1> QED
  BY <1>2, <1>3

\* What givers and the card networks do concerns gifts that have not arrived.
LEMMA OutsideSpread ==
  ASSUME IInv, IInv', Spread, NEW g \in Gift,
         \/ Contribute(g) \/ FailGift(g) \/ Age(g)
         \/ \E o \in {"succeeded", "canceled", "declined"} : Settle(g, o)
  PROVE  Spread'
<1>1. Typed /\ Typed' /\ UNCHANGED <<task, row, pool>> /\ befell \subseteq befell' /\ gift[g] \in GiftRows
  BY DEF IInv, Typed, Contribute, FailGift, Age, Settle, Befalls
<1>2. \A h \in Gift : /\ gift[h].status = "succeeded" =>
                           gift'[h].status = "succeeded" /\ gift'[h].remaining = gift[h].remaining
                      /\ gift'[h].status = "succeeded" => gift[h].status = "succeeded"
                      /\ gift'[h].status = "pending" => gift'[h].remaining = Given[h]
  <2>1. CASE Contribute(g)
    <3> DEFINE new == [gift[g] EXCEPT !.status = "pending", !.remaining = Given[g]]
    <3>1. gift' = [gift EXCEPT ![g] = new] /\ gift[g].status = "none"
      BY <2>1 DEF Contribute
    <3>2. new.status = "pending" /\ new.remaining = Given[g]
      BY <1>1 DEF GiftRows
    <3> HIDE DEF new
    <3> QED
      BY <1>1, <3>1, <3>2 DEF Typed, Spread, Whole
  <2>2. CASE FailGift(g)
    BY <1>1, <2>2 DEF FailGift, Typed, GiftRows, Spread, Whole
  <2>3. CASE Age(g)
    BY <1>1, <2>3 DEF Age, Typed, GiftRows, Spread, Whole
  <2>4. CASE \E o \in {"succeeded", "canceled", "declined"} : Settle(g, o)
    BY <2>4 DEF Settle, Spread, Whole
  <2> QED
    BY <2>1, <2>2, <2>3, <2>4
<1>3. \A w \in Workers : /\ task[w].step \in RefundSteps => task[w].gift \in Gift
                         /\ DOMAIN task[w].found \subseteq Gift
  BY <1>1 DEF IInv, Addressed, Typed, Tasks, Findings
<1>4. Whole'
  BY <1>1, <1>2, <1>3 DEF Spread, Whole
<1>5. Unspent' = Unspent
  <2>1. \A h \in Gift : Spare'[h] = Spare[h]
    BY <1>2 DEF Spare
  <2> QED
    BY <1>1, <2>1, SpareKept
<1>6. AmountIn({"reserved"})' = AmountIn({"reserved"}) /\ SumFunction(Lag)' = SumFunction(Lag)
  BY <1>1 DEF AmountIn, Lag
<1>7. GiftsAdd'
  BY <1>1, <1>5, <1>6 DEF Spread, GiftsAdd, Strict
<1>8. Covered'
  <2>1. \A w \in Workers : SumFunction(Found(w))' = SumFunction(Found(w))
    BY <1>1 DEF Found
  <2>2. \A w \in Workers : task[w].step = "consume" =>
          \A h \in DOMAIN task[w].found : gift'[h].remaining = gift[h].remaining
    BY <1>2, <1>3 DEF Spread, Whole
  <2> QED
    BY <1>1, <2>1, <2>2 DEF Spread, Covered, Strict
<1> QED
  BY <1>4, <1>7, <1>8 DEF Spread

LEMMA InitSpread == Init => Spread
<1> SUFFICES ASSUME Init
             PROVE  Spread
  OBVIOUS
<1>1. \A w \in Workers : task[w].step = "idle"
  BY DEF Init, Resting
<1>2. Whole /\ Covered
  BY <1>1 DEF Init, Whole, Covered, RefundSteps
<1>3. SumFunction(Lag) = 0
  <2>1. (\A w \in Workers : Lag[w] = 0) /\ SumFunction(Lag) = SumFunctionOnSet(Lag, Workers)
    BY <1>1 DEF Lag, SumFunction
  <2>2. IsFiniteSet(Workers)
    BY PayForwardAssumption
  <2> QED
    BY <2>1, <2>2, SumNothing
<1>4. Unspent = 0
  <2>1. (\A g \in Gift : Spare[g] = 0) /\ Unspent = SumFunctionOnSet(Spare, Gift)
    BY DEF Init, Spare, Unspent, SumFunction
  <2> QED
    BY <2>1, SumNothing, GiftIsFinite
<1>5. AmountIn({"reserved"}) = 0
  <2> DEFINE f == [r \in Rows |-> IF row[r].status \in {"reserved"} THEN row[r].amount ELSE 0]
  <2>1. (\A r \in Rows : f[r] = 0) /\ AmountIn({"reserved"}) = SumFunctionOnSet(f, Rows)
    BY DEF Init, AmountIn, SumFunction
  <2>2. IsFiniteSet(Rows)
    BY PayForwardAssumption
  <2> HIDE DEF f
  <2> QED
    BY <2>1, <2>2, SumNothing
<1>6. GiftsAdd
  BY <1>3, <1>4, <1>5 DEF Init, GiftsAdd
<1> QED
  BY <1>2, <1>6 DEF Spread

LEMMA NextKeepsSpread == IInv /\ IInv' /\ Charged /\ Spread /\ [Next]_vars => Spread'
<1> SUFFICES ASSUME IInv, IInv', Charged, Spread, [Next]_vars
             PROVE  Spread'
  OBVIOUS
<1>1. CASE UNCHANGED vars
  <2>1. UNCHANGED <<gift, row, pool, task, befell>>
    BY <1>1 DEF vars
  <2>2. \A w \in Workers : SumFunction(Found(w))' = SumFunction(Found(w))
    BY <2>1 DEF Found
  <2>3. /\ Unspent' = Unspent /\ AmountIn({"reserved"})' = AmountIn({"reserved"})
        /\ SumFunction(Lag)' = SumFunction(Lag)
    BY <2>1 DEF Unspent, AmountIn, Lag
  <2>4. Whole'
    BY <2>1 DEF Spread, Whole
  <2>5. GiftsAdd'
    BY <2>1, <2>3 DEF Spread, GiftsAdd, Strict
  <2>6. Covered'
    BY <2>1, <2>2 DEF Spread, Covered, Strict
  <2> QED
    BY <2>4, <2>5, <2>6 DEF Spread
<1>2. CASE \/ \E g \in Gift : Contribute(g) \/ FailGift(g) \/ Age(g)
           \/ \E g \in Gift, o \in {"succeeded", "canceled", "declined"} : Settle(g, o)
  BY <1>2, OutsideSpread
<1>3. CASE \E w \in Workers, g \in Gift : CreditClaim(w, g) \/ RefundRead(w, g) \/ ExpireClaim(w, g)
  BY <1>3, CreditClaimSpread, RefundReadSpread, ExpireClaimSpread
<1>4. CASE \E w \in Workers, u \in Users : ReserveQuote(w, u)
  BY <1>4, QuoteSpread
<1>5. CASE \E w \in Workers, r \in Rows :
             ApplyClaim(w, r) \/ ReleaseClaim(w, r) \/ \E f \in BOOLEAN : CancelClaim(w, r, f)
  BY <1>5, ReservedTaken, CancelClaimSpread
<1>6. CASE \E w \in Workers : Continue(w) \/ Crash(w)
  <2>1. PICK w \in Workers : Continue(w) \/ Crash(w)
    BY <1>6
  <2>2. CASE Crash(w) \/ RefundStripe(w) \/ ExpirePool(w)
    BY <2>2, MishapSpread
  <2>3. CASE \/ CreditPool(w) \/ CreditBooks(w) \/ ReservePool(w) \/ ReserveUndo(w) \/ GiveBack(w)
             \/ CancelPool(w) \/ RefundPool(w) \/ RefundRefused(w) \/ RefundBooks(w) \/ ExpireBooks(w)
    BY <2>3, PoolMoves
  <2>4. CASE RefundClaim(w) \/ RefundUndo(w) \/ RefundRow(w)
    BY <2>4, RefundGiftSpread
  <2>5. CASE ConsumeGift(w) \/ RestoreGift(w) \/ ApplyBooks(w) \/ CancelBooks(w)
    BY <2>5, PassGiftSpread, PassEndsSpread
  <2>6. CASE ApplyFee(w) \/ ConsumeFind(w) \/ RestoreFind(w) \/ \E r \in Rows : ReserveRow(w, r)
    BY <2>6, ApplyFeeSpread, ConsumeFindSpread, RestoreFindSpread, ReserveRowSpread
  <2> QED
    BY <2>1, <2>2, <2>3, <2>4, <2>5, <2>6 DEF Continue
<1> QED
  BY <1>1, <1>2, <1>3, <1>4, <1>5, <1>6 DEF Next

LEMMA GiftsAccounted == Spec => [](IInv /\ Charged /\ Spread)
BY InitInvariant, NextKeepsInvariant, InitCharged, NextKeepsCharged, InitSpread,
   NextKeepsSpread,
   PTL DEF Spec

\* Nothing is half way: all that is owed to the ledger and to the pool is settled.
LEMMA RestOwesNothing ==
  ASSUME \A w \in Workers : Idle(w)
  PROVE  SumFunction(Lag) = 0 /\ SumFunction(Unearned) = 0
<1>1. /\ \A w \in Workers : Lag[w] = 0 /\ Unearned[w] = 0
      /\ SumFunction(Lag) = SumFunctionOnSet(Lag, Workers)
      /\ SumFunction(Unearned) = SumFunctionOnSet(Unearned, Workers)
  BY DEF Idle, Lag, Unearned, CancelSteps, SumFunction
<1>2. IsFiniteSet(Workers)
  BY PayForwardAssumption
<1> QED
  BY <1>1, <1>2, SumNothing

\* The gifts' remainders are the pool's money, what the platform earned is the fees of the
\* redemptions that stand, and no day is given more than its cap, as long as no two
\* operations run at once (consumeFifo, restoreFifo, refundRedemptionForOrder,
\* computeCoverage).
THEOREM GiftsSpentAsPromised == Spec => []GiftsRight
<1>1. IInv /\ Charged /\ Spread => GiftsRight
  <2> SUFFICES ASSUME IInv, Charged, Spread
               PROVE  GiftsRight
    OBVIOUS
  <2>1. GiftsMatchPool
    <3> SUFFICES ASSUME Settled({"crash", "overlap", "expired_in_use", "restored_in_part"})
                 PROVE  Unspent = pool + AmountIn({"reserved"})
      BY DEF GiftsMatchPool
    <3>1. SumFunction(Lag) = 0
      BY RestOwesNothing DEF Settled
    <3>2. Unspent = pool + AmountIn({"reserved"}) + SumFunction(Lag)
      BY DEF Settled, Spread, GiftsAdd, Strict
    <3>3. pool \in Nat /\ AmountIn({"reserved"}) \in Int
      BY AmountIsInt DEF IInv, Typed
    <3> QED
      BY <3>1, <3>2, <3>3
  <2>2. FeesOfStandingOrders
    <3> SUFFICES ASSUME Settled({"crash", "overlap"})
                 PROVE  books.revenue = SumFunction(Earned)
      BY DEF FeesOfStandingOrders, Earned
    <3>1. SumFunction(Unearned) = 0
      BY RestOwesNothing DEF Settled
    <3>2. books.revenue = SumFunction(Earned) + SumFunction(Unearned)
      BY DEF Settled, Charged, FeesAdd
    <3>3. SumFunction(Earned) \in Int
      <4>1. (\A r \in Rows : Earned[r] \in Int) /\ SumFunction(Earned) = SumFunctionOnSet(Earned, Rows)
        BY DEF Charged, Priced, Earned, SumFunction
      <4>2. IsFiniteSet(Rows)
        BY PayForwardAssumption
      <4> QED
        BY <4>1, <4>2, SumTakeOut
    <3> QED
      BY <3>1, <3>2, <3>3
  <2>3. DailyBudget
    BY DEF Charged, Rationed, Apart, DailyBudget
  <2> QED
    BY <2>1, <2>2, <2>3 DEF GiftsRight
<1> QED
  BY <1>1, GiftsAccounted, PTL

=============================================================================
