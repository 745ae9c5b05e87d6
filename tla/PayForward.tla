----------------------------- MODULE PayForward -----------------------------
(***************************************************************************)
(* One business's Pay It Forward pool                                      *)
(* (src/modules/payforward/payforward.service.ts over the postings of      *)
(* src/modules/ledger/communityFund.ts).                                   *)
(*                                                                         *)
(* The same money is written down three times: in the pool's cached        *)
(* balance, in the unspent remainder of every gift, and in the ledger.     *)
(* No operation writes the three together: each is a chain of single       *)
(* document updates, and workers (requests, webhooks, sweeps) interleave   *)
(* between any two of them, or die.                                        *)
(*                                                                         *)
(* A worker's task names the step it is about to take.  Each step is one   *)
(* await of the code.  A ledger posting is idempotent by its id.           *)
(***************************************************************************)
EXTENDS Integers, Sequences, FiniteSets, FiniteSetsExt, Functions

CONSTANTS
  Given,     \* Given[g]: amount_cents of gift g; gifts are numbered, oldest first
  Users,     \* people who ask the pool to cover an order today
  Want,      \* Want[u]: what the order and the vendor's per-order caps let the pool cover
  DayCap,    \* max_per_day_cents
  FeeOf,     \* FeeOf[a]: the marketplace fee on a covered amount a
  Rows,      \* redemption rows
  Workers,
  Again,     \* bound: may a process die more than once?
  None

Gift == DOMAIN Given

ASSUME PayForwardAssumption ==
  /\ Given \in Seq(Nat \ {0})
  /\ Want \in [Users -> Nat]
  /\ DayCap \in Nat
  /\ IsFiniteSet(Rows) /\ IsFiniteSet(Workers)
  /\ None \notin Users
  /\ 0..DayCap \subseteq DOMAIN FeeOf
  /\ \A a \in DOMAIN FeeOf : FeeOf[a] \in 0..a

VARIABLES
  intent,    \* external: what Stripe knows of each gift's payment intent
  refunded,  \* external: what Stripe returned to each giver's card
  gift,      \* community_contributions
  row,       \* community_redemptions
  pool,      \* community_funds.balance_cents
  books,     \* the ledger accounts the pool's money moves between
  posted,    \* ledger transaction ids already booked
  task,      \* what each worker is about to do
  befell     \* history: what out of the ordinary happened so far

vars == <<intent, refunded, gift, row, pool, books, posted, task, befell>>

NoGifts == [g \in {} |-> 0]

Resting == [step |-> "idle", gift |-> None, row |-> None, user |-> None,
            amount |-> 0, fee |-> 0, found |-> NoGifts, left |-> 0]

Idle(w) == task[w].step = "idle"

At(w, s) == task[w].step = s

Befalls(mishap) == befell' = befell \cup {mishap}

\* An operation begins, with the given fields of its task; others may be half way.
Begin(w, t) ==
  /\ Idle(w)
  /\ task' = [task EXCEPT ![w] = t]
  /\ IF \A v \in Workers : Idle(v) THEN UNCHANGED befell ELSE Befalls("overlap")

Goto(w, s) == task' = [task EXCEPT ![w].step = s] /\ UNCHANGED befell

Finish(w) == task' = [task EXCEPT ![w] = Resting] /\ UNCHANGED befell

Live == {"reserved", "applied"}

\* The ids of ledger postings, one per kind and row (cfund_<kind>_<id>).
Post(id, deltas) ==
  IF id \in posted
    THEN UNCHANGED <<books, posted>>
    ELSE /\ posted' = posted \cup {id}
         /\ books' = [a \in DOMAIN books |-> books[a] + deltas[a]]

Deltas(cash, fund, payable, revenue, city) ==
  [cash |-> cash, fund |-> fund, payable |-> payable, revenue |-> revenue, city |-> city]

PoolBack(w) == pool' = pool + task[w].amount

\* findOneAndUpdate({ balance_cents: { $gte: amount } }, { $inc: -amount })
PoolTake(w) == pool >= task[w].amount /\ pool' = pool - task[w].amount

PoolShort(w) == pool < task[w].amount /\ UNCHANGED pool

(***************************************************************************)
(* Money in: contribute, creditContribution, failContribution and the      *)
(* sweep that asks Stripe about gifts whose webhook never came.            *)
(***************************************************************************)

Contribute(g) ==
  /\ gift[g].status = "none"
  /\ gift' = [gift EXCEPT ![g] = [@ EXCEPT !.status = "pending", !.remaining = Given[g]]]
  /\ intent' = [intent EXCEPT ![g] = "open"]
  /\ UNCHANGED <<refunded, row, pool, books, posted, task, befell>>

\* External: the card is charged, the intent is given up for good, or a first card is
\* declined, which leaves the intent open to another one.
Settle(g, outcome) ==
  /\ intent[g] \in {"open", "declined"} \ {outcome}
  /\ intent' = [intent EXCEPT ![g] = outcome]
  /\ IF intent[g] = "declined" /\ outcome = "succeeded"
       THEN Befalls("second_card") ELSE UNCHANGED befell
  /\ UNCHANGED <<refunded, gift, row, pool, books, posted, task>>

\* A webhook, its redelivery, or the sweep: whoever flips the row credits the pool.
CreditClaim(w, g) ==
  /\ intent[g] = "succeeded"
  /\ gift[g].status = "pending"
  /\ gift' = [gift EXCEPT ![g] = [@ EXCEPT !.status = "succeeded", !.age = "fresh"]]
  /\ Begin(w, [Resting EXCEPT !.step = "credit_pool", !.gift = g,
                                                 !.amount = Given[g]])
  /\ UNCHANGED <<intent, refunded, row, pool, books, posted>>

\* Mutant: the pool is credited and the ledger forgotten.
CreditPoolOnly(w) ==
  /\ At(w, "credit_pool")
  /\ PoolBack(w)
  /\ Finish(w)
  /\ UNCHANGED <<intent, refunded, gift, row, books, posted>>

CreditPool(w) ==
  /\ At(w, "credit_pool")
  /\ PoolBack(w)
  /\ Goto(w, "credit_books")
  /\ UNCHANGED <<intent, refunded, gift, row, books, posted>>

CreditBooks(w) ==
  LET n == task[w].amount IN
    /\ At(w, "credit_books")
    /\ Post(<<"contribute", task[w].gift>>, Deltas(n, n, 0, 0, 0))
    /\ Finish(w)
    /\ UNCHANGED <<intent, refunded, gift, row, pool>>

\* payment_intent.payment_failed, or the sweep that finds the intent canceled.
FailGift(g) ==
  /\ intent[g] \in {"canceled", "declined"}
  /\ gift[g].status = "pending"
  /\ gift' = [gift EXCEPT ![g].status = "failed"]
  /\ UNCHANGED <<intent, refunded, row, pool, books, posted, task, befell>>

\* The 24-hour window of the giver's refund closes; the gift expires, if at all, no sooner
\* than a month after it.
Age(g) ==
  /\ gift[g].age = "fresh"
  /\ gift' = [gift EXCEPT ![g].age = "stale"]
  /\ UNCHANGED <<intent, refunded, row, pool, books, posted, task, befell>>

(***************************************************************************)
(* Money out: reserve, apply, release.                                     *)
(***************************************************************************)

\* The total of the redemption rows in the given statuses.
AmountIn(statuses) ==
  SumFunction([r \in Rows |-> IF row[r].status \in statuses THEN row[r].amount ELSE 0])

\* The rows that count against the day's budget.
SpentToday == AmountIn(Live)

\* computeCoverage: every cap is a ceiling on the same number.
Coverage(u) == Max({0, Min({Want[u], pool, DayCap - SpentToday})})

\* The bound on redemptions: every reservation under way finds a row to write.
RowsLeft ==
  Cardinality({r \in Rows : row[r].status = "none"})
    > Cardinality({w \in Workers : task[w].step \in {"reserve_pool", "reserve_row"}})

\* quoteRedemption: nobody is quoted twice in a day.
ReserveQuote(w, u) ==
  /\ \A r \in Rows : row[r].user = u => row[r].status \notin Live
  /\ Coverage(u) > 0
  /\ RowsLeft
  /\ Begin(w, [Resting EXCEPT !.step = "reserve_pool", !.user = u,
                                                 !.amount = Coverage(u)])
  /\ UNCHANGED <<intent, refunded, gift, row, pool, books, posted>>

ReservePool(w) ==
  /\ At(w, "reserve_pool")
  /\ \/ PoolTake(w) /\ Goto(w, "reserve_row")
     \/ PoolShort(w) /\ Finish(w)
  /\ UNCHANGED <<intent, refunded, gift, row, books, posted>>

\* Mutant: a cancelled order hands the person a fresh draw.
SlotTakenLive(u) == \E r \in Rows : row[r].user = u /\ row[r].status \in Live

\* The unique index on (business, user, day) covers every row that was not released.
SlotTaken(u) == \E r \in Rows : row[r].user = u /\ row[r].status \in Live \cup {"refunded"}

ReserveRow(w, r) ==
  /\ At(w, "reserve_row")
  /\ ~SlotTaken(task[w].user)
  /\ row[r].status = "none"
  /\ row' = [row EXCEPT ![r] = [status |-> "reserved", user |-> task[w].user,
                                amount |-> task[w].amount, fee |-> 0]]
  /\ Finish(w)
  /\ UNCHANGED <<intent, refunded, gift, pool, books, posted>>

\* Mutant: the refused reservation keeps the money.
ReserveUndoKeeps(w) ==
  /\ At(w, "reserve_row")
  /\ SlotTaken(task[w].user)
  /\ Finish(w)
  /\ UNCHANGED <<intent, refunded, gift, row, pool, books, posted>>

\* Duplicate key: give the money straight back to the pool.
ReserveUndo(w) ==
  /\ At(w, "reserve_row")
  /\ SlotTaken(task[w].user)
  /\ Goto(w, "give_back")
  /\ UNCHANGED <<intent, refunded, gift, row, pool, books, posted>>

\* The last step of a refused reservation and of release().
GiveBack(w) ==
  /\ At(w, "give_back")
  /\ PoolBack(w)
  /\ Finish(w)
  /\ UNCHANGED <<intent, refunded, gift, row, books, posted>>

\* The order's payment went through.
ApplyClaim(w, r) ==
  /\ row[r].status = "reserved"
  /\ row' = [row EXCEPT ![r].status = "applied"]
  /\ Begin(w, [Resting EXCEPT !.step = "apply_fee", !.row = r,
                                                 !.amount = row[r].amount])
  /\ UNCHANGED <<intent, refunded, gift, pool, books, posted>>

ApplyFee(w) ==
  LET fee == FeeOf[task[w].amount] IN
    /\ At(w, "apply_fee")
    /\ row' = [row EXCEPT ![task[w].row].fee = fee]
    /\ task' = [task EXCEPT ![w] = [@ EXCEPT !.step = "consume_find", !.fee = fee]]
    /\ UNCHANGED <<intent, refunded, gift, pool, books, posted, befell>>

Spendable == {g \in Gift : gift[g].status = "succeeded" /\ gift[g].remaining > 0}

\* Mutant: only the oldest live gift is drawn on.
ConsumeFindFirst(w) ==
  LET oldest == {g \in Spendable : \A h \in Spendable : g <= h} IN
    /\ At(w, "consume_find")
    /\ task' = [task EXCEPT ![w] = [@ EXCEPT !.step = "consume", !.left = task[w].amount,
                                     !.found = [g \in oldest |-> gift[g].remaining]]]
    /\ UNCHANGED <<intent, refunded, gift, row, pool, books, posted, befell>>

\* consumeFifo: find() returns the live gifts, each with what can be drawn from it.
ConsumeFind(w) ==
  /\ At(w, "consume_find")
  /\ task' = [task EXCEPT ![w] = [@ EXCEPT !.step = "consume", !.left = task[w].amount,
                                   !.found = [g \in Spendable |-> gift[g].remaining]]]
  /\ UNCHANGED <<intent, refunded, gift, row, pool, books, posted, befell>>

\* One gift of a FIFO pass: its share was decided by the read, the guard by the row as it is.
\* A guard that fails leaves the share for the gifts after it.
Share(w, g) == Min({task[w].left, task[w].found[g]})

FifoDone(w) == task[w].left = 0 \/ task[w].found = NoGifts

Moved(w, g, ok) ==
  LET rest == Restrict(task[w].found, (DOMAIN task[w].found) \ {g})
      left == IF ok THEN task[w].left - Share(w, g) ELSE task[w].left
  IN  /\ task' = [task EXCEPT ![w] = [@ EXCEPT !.found = rest, !.left = left]]
      /\ UNCHANGED befell

ConsumeGift(w) ==
  LET g == Min(DOMAIN task[w].found)
      ok == gift[g].remaining >= Share(w, g)
  IN  /\ At(w, "consume")
      /\ ~FifoDone(w)
      /\ gift' = IF ok THEN [gift EXCEPT ![g].remaining = @ - Share(w, g)] ELSE gift
      /\ Moved(w, g, ok)
      /\ UNCHANGED <<intent, refunded, row, pool, books, posted>>

ApplyBooks(w) ==
  LET n == task[w].amount
      fee == task[w].fee
  IN  /\ At(w, "consume")
      /\ FifoDone(w)
      /\ Post(<<"redeem", task[w].row>>, Deltas(0, -n, n - fee, fee, 0))
      /\ Finish(w)
      /\ UNCHANGED <<intent, refunded, gift, row, pool>>

\* The payment failed before the order existed.
ReleaseClaim(w, r) ==
  /\ row[r].status = "reserved"
  /\ row' = [row EXCEPT ![r].status = "released"]
  /\ Begin(w, [Resting EXCEPT !.step = "give_back", !.amount = row[r].amount])
  /\ UNCHANGED <<intent, refunded, gift, pool, books, posted>>

(***************************************************************************)
(* refundRedemptionForOrder: a cancelled order gives the community its     *)
(* money back; an abandoned one also frees the person's slot.              *)
(***************************************************************************)

\* Mutant: an order cancelled twice gives its money back twice.
CancelClaimAgain(w, r, freeDailySlot) ==
  /\ row[r].status \in {"applied", "refunded"}
  /\ row' = [row EXCEPT ![r].status = IF freeDailySlot THEN "released" ELSE "refunded"]
  /\ Begin(w, [Resting EXCEPT !.step = "cancel_pool", !.row = r,
                                    !.amount = row[r].amount, !.fee = row[r].fee])
  /\ UNCHANGED <<intent, refunded, gift, pool, books, posted>>

CancelClaim(w, r, freeDailySlot) ==
  /\ row[r].status = "applied"
  /\ row' = [row EXCEPT ![r].status = IF freeDailySlot THEN "released" ELSE "refunded"]
  /\ Begin(w, [Resting EXCEPT !.step = "cancel_pool", !.row = r,
                                    !.amount = row[r].amount, !.fee = row[r].fee])
  /\ UNCHANGED <<intent, refunded, gift, pool, books, posted>>

CancelPool(w) ==
  /\ At(w, "cancel_pool")
  /\ PoolBack(w)
  /\ Goto(w, "restore_find")
  /\ UNCHANGED <<intent, refunded, gift, row, books, posted>>

Drawn == {g \in Gift : /\ gift[g].status = "succeeded" /\ gift[g].age # "expired"
                       /\ gift[g].remaining < Given[g]}

\* restoreFifo: find() returns the drawn gifts that have not expired, each with its room.
RestoreFind(w) ==
  /\ At(w, "restore_find")
  /\ task' = [task EXCEPT ![w] = [@ EXCEPT !.step = "restore", !.left = task[w].amount,
                                   !.found = [g \in Drawn |-> Given[g] - gift[g].remaining]]]
  /\ UNCHANGED <<intent, refunded, gift, row, pool, books, posted, befell>>

\* The newest of them first.
RestoreGift(w) ==
  LET g == Max(DOMAIN task[w].found)
      ok == gift[g].remaining <= Given[g] - Share(w, g)
  IN  /\ At(w, "restore")
      /\ ~FifoDone(w)
      /\ gift' = IF ok THEN [gift EXCEPT ![g].remaining = @ + Share(w, g)] ELSE gift
      /\ Moved(w, g, ok)
      /\ UNCHANGED <<intent, refunded, row, pool, books, posted>>

CancelBooks(w) ==
  LET n == task[w].amount
      fee == task[w].fee
  IN  /\ At(w, "restore")
      /\ FifoDone(w)
      /\ Post(<<"redeem_reverse", task[w].row>>, Deltas(0, n, fee - n, -fee, 0))
      /\ task' = [task EXCEPT ![w] = Resting]
      /\ IF task[w].left = 0 THEN UNCHANGED befell ELSE Befalls("restored_in_part")
      /\ UNCHANGED <<intent, refunded, gift, row, pool>>

(***************************************************************************)
(* refundContribution: the giver takes the unspent part back within a day. *)
(***************************************************************************)

RefundRead(w, g) ==
  /\ gift[g].status = "succeeded" /\ gift[g].age = "fresh" /\ gift[g].remaining > 0
  /\ Begin(w, [Resting EXCEPT !.step = "refund_pool", !.gift = g,
                                                 !.amount = gift[g].remaining])
  /\ UNCHANGED <<intent, refunded, gift, row, pool, books, posted>>

RefundPool(w) ==
  /\ At(w, "refund_pool")
  /\ \/ PoolTake(w) /\ Goto(w, "refund_claim")
     \/ PoolShort(w) /\ Finish(w)
  /\ UNCHANGED <<intent, refunded, gift, row, books, posted>>

RefundClaim(w) ==
  LET g == task[w].gift IN
    /\ At(w, "refund_claim")
    /\ \/ /\ gift[g].remaining >= task[w].amount
          /\ gift' = [gift EXCEPT ![g].remaining = @ - task[w].amount]
          /\ Goto(w, "refund_stripe")
       \/ /\ gift[g].remaining < task[w].amount
          /\ Goto(w, "give_back")
          /\ UNCHANGED gift
    /\ UNCHANGED <<intent, refunded, row, pool, books, posted>>

\* Stripe honours the key pf_refund_<gift>: the first call moves the money, a repetition
\* with the same amount returns the first refund; another amount, or more than was captured,
\* is refused.
RefundStripe(w) ==
  LET g == task[w].gift IN
    /\ At(w, "refund_stripe")
    /\ refunded[g] \in {0, task[w].amount} /\ task[w].amount <= Given[g]
    /\ refunded' = [refunded EXCEPT ![g] = task[w].amount]
    /\ task' = [task EXCEPT ![w].step = "refund_row"]
    /\ IF refunded[g] = 0 THEN UNCHANGED befell ELSE Befalls("refund_replayed")
    /\ UNCHANGED <<intent, gift, row, pool, books, posted>>

\* The processor refused: the pool, then the gift, are put back.
RefundRefused(w) ==
  /\ At(w, "refund_stripe")
  /\ PoolBack(w)
  /\ Goto(w, "refund_undo")
  /\ UNCHANGED <<intent, refunded, gift, row, books, posted>>

RefundUndo(w) ==
  /\ At(w, "refund_undo")
  /\ gift' = [gift EXCEPT ![task[w].gift].remaining = @ + task[w].amount]
  /\ Finish(w)
  /\ UNCHANGED <<intent, refunded, row, pool, books, posted>>

RefundRow(w) ==
  /\ At(w, "refund_row")
  /\ gift' = [gift EXCEPT ![task[w].gift].refunded = @ + task[w].amount]
  /\ Goto(w, "refund_books")
  /\ UNCHANGED <<intent, refunded, row, pool, books, posted>>

RefundBooks(w) ==
  LET n == task[w].amount IN
    /\ At(w, "refund_books")
    /\ Post(<<"refund", task[w].gift>>, Deltas(-n, -n, 0, 0, 0))
    /\ Finish(w)
    /\ UNCHANGED <<intent, refunded, gift, row, pool>>

(***************************************************************************)
(* expireStale: unredeemed money moves to the city fund.                   *)
(***************************************************************************)

ExpireClaim(w, g) ==
  /\ gift[g].status = "succeeded" /\ gift[g].age = "stale" /\ gift[g].remaining > 0
  /\ gift' = [gift EXCEPT ![g] = [@ EXCEPT !.age = "expired", !.remaining = 0]]
  /\ Begin(w, [Resting EXCEPT !.step = "expire_pool", !.gift = g,
                                                 !.amount = gift[g].remaining])
  /\ UNCHANGED <<intent, refunded, row, pool, books, posted>>

\* The guarded update's result is not looked at: the posting follows either way.
ExpirePool(w) ==
  /\ At(w, "expire_pool")
  /\ task' = [task EXCEPT ![w].step = "expire_books"]
  /\ \/ PoolTake(w) /\ UNCHANGED befell
     \/ PoolShort(w) /\ Befalls("expired_in_use")
  /\ UNCHANGED <<intent, refunded, gift, row, books, posted>>

ExpireBooks(w) ==
  LET n == task[w].amount IN
    /\ At(w, "expire_books")
    /\ Post(<<"expire", task[w].gift>>, Deltas(0, -n, 0, 0, n))
    /\ Finish(w)
    /\ UNCHANGED <<intent, refunded, gift, row, pool>>

\* The process dies between two awaits.
Crash(w) ==
  /\ ~Idle(w)
  /\ "crash" \notin befell \/ Again
  /\ task' = [task EXCEPT ![w] = Resting]
  /\ Befalls("crash")
  /\ UNCHANGED <<intent, refunded, gift, row, pool, books, posted>>

Init ==
  /\ intent = [g \in Gift |-> "none"]
  /\ refunded = [g \in Gift |-> 0]
  /\ gift = [g \in Gift |-> [status |-> "none", remaining |-> 0, refunded |-> 0, age |-> "none"]]
  /\ row = [r \in Rows |-> [status |-> "none", user |-> None, amount |-> 0, fee |-> 0]]
  /\ pool = 0
  /\ books = Deltas(0, 0, 0, 0, 0)
  /\ posted = {}
  /\ task = [w \in Workers |-> Resting]
  /\ befell = {}

\* One await of the operation a worker is in.
Continue(w) ==
  \/ CreditPool(w) \/ CreditBooks(w)
  \/ ReservePool(w) \/ ReserveUndo(w) \/ GiveBack(w)
  \/ \E r \in Rows : ReserveRow(w, r)
  \/ ApplyFee(w) \/ ConsumeFind(w) \/ ConsumeGift(w) \/ ApplyBooks(w)
  \/ CancelPool(w) \/ RestoreFind(w) \/ RestoreGift(w) \/ CancelBooks(w)
  \/ RefundPool(w) \/ RefundClaim(w) \/ RefundStripe(w) \/ RefundRefused(w)
  \/ RefundUndo(w) \/ RefundRow(w) \/ RefundBooks(w)
  \/ ExpirePool(w) \/ ExpireBooks(w)

Next ==
  \/ \E g \in Gift : Contribute(g)
  \/ \E g \in Gift, o \in {"succeeded", "canceled", "declined"} : Settle(g, o)
  \/ \E g \in Gift : FailGift(g)
  \/ \E g \in Gift : Age(g)
  \/ \E w \in Workers, g \in Gift : CreditClaim(w, g)
  \/ \E w \in Workers, u \in Users : ReserveQuote(w, u)
  \/ \E w \in Workers, r \in Rows : ApplyClaim(w, r)
  \/ \E w \in Workers, r \in Rows : ReleaseClaim(w, r)
  \/ \E w \in Workers, r \in Rows, f \in BOOLEAN : CancelClaim(w, r, f)
  \/ \E w \in Workers, g \in Gift : RefundRead(w, g)
  \/ \E w \in Workers, g \in Gift : ExpireClaim(w, g)
  \/ \E w \in Workers : Continue(w)
  \/ \E w \in Workers : Crash(w)

Spec == Init /\ [][Next]_vars

\* A worker's awaits come back; Stripe redelivers and the sweep asks again until a captured
\* gift is off the pending list.
FairSpec ==
  /\ Spec
  /\ \A w \in Workers : WF_vars(Continue(w))
  /\ \A g \in Gift : SF_vars(\E w \in Workers : CreditClaim(w, g))

-----------------------------------------------------------------------------

Steps ==
  {"idle", "credit_pool", "credit_books", "reserve_pool", "reserve_row", "give_back",
   "apply_fee", "consume_find", "consume", "cancel_pool", "restore_find", "restore",
   "refund_pool", "refund_claim", "refund_stripe", "refund_undo", "refund_row", "refund_books",
   "expire_pool", "expire_books"}

Mishaps == {"overlap", "crash", "second_card", "refund_replayed", "expired_in_use",
            "restored_in_part"}

\* Every variable keeps its type; a pool or a gift never counts below zero, a redemption row
\* always has an owner.
TypeOK ==
  /\ intent \in [Gift -> {"none", "open", "declined", "succeeded", "canceled"}]
  /\ refunded \in [Gift -> Nat]
  /\ gift \in [Gift -> [status : {"none", "pending", "succeeded", "failed"}, remaining : Nat,
                        refunded : Nat, age : {"none", "fresh", "stale", "expired"}]]
  /\ \A r \in Rows : /\ row[r].status \in Live \cup {"none", "released", "refunded"}
                     /\ row[r].user \in IF row[r].status = "none" THEN {None} ELSE Users
                     /\ row[r].amount \in Nat /\ row[r].fee \in 0..row[r].amount
  /\ pool \in Nat
  /\ \A w \in Workers : task[w].step \in Steps /\ task[w].left \in 0..task[w].amount
  /\ befell \subseteq Mishaps

\* No operation is half way, and nothing of the kind ever happened.
Settled(mishaps) == (\A w \in Workers : Idle(w)) /\ befell \cap mishaps = {}

Unspent ==
  SumFunction([g \in Gift |-> IF gift[g].status = "succeeded" THEN gift[g].remaining ELSE 0])

\* What the card networks delivered of a gift, less what they returned.
Arrived == [g \in Gift |-> (IF intent[g] = "succeeded" THEN Given[g] ELSE 0) - refunded[g]]

\* "One redemption per person per business per day, decided by the database": two taps at
\* once, a cancellation in between and a crash never help one person twice.
OneHelpADay ==
  \A u \in Users : Cardinality({r \in Rows : row[r].user = u /\ row[r].status # "released"}) <= 1

\* Nothing but gifts that arrived comes out again, whatever befalls: what the pool still
\* holds and what is committed to orders never exceeds what the card networks delivered
\* less what they returned.
BackedByMoney == pool + AmountIn(Live) <= SumFunction(Arrived)

\* "balance_cents: CACHED PROJECTION of community_fund_payable": once no operation is half
\* way, the pool and what it has committed to orders are what the ledger says is held.
BooksMatchPool ==
  Settled({"crash", "refund_replayed", "expired_in_use"})
    => books.fund = pool + AmountIn({"reserved"})

\* The gifts' unspent remainders (consumeFifo, restoreFifo) are the same money again, as
\* long as operations come one after the other.
GiftsMatchPool ==
  Settled({"crash", "overlap", "expired_in_use", "restored_in_part"})
    => Unspent = pool + AmountIn({"reserved"})

\* "refunded_cents ... records the part that came back" (refundContribution): what the row
\* says the giver got is what the card got.
RefundRecorded ==
  Settled({"crash", "refund_replayed"}) => \A g \in Gift : gift[g].refunded = refunded[g]

\* The pool, the ledger, the rows and the card tell of the same money (reserve, release,
\* refundContribution, expireContributions).
PoolMoneyRight == BooksMatchPool /\ RefundRecorded

\* "Ceiling on total redemptions per calendar day across all customers" (computeCoverage),
\* as long as no two customers are served at once.
DailyBudget == "overlap" \notin befell => SpentToday <= DayCap

\* "The fee reversed is the one actually taken at redeem time": what the platform has earned
\* is the fees of the redemptions that stand.
FeesOfStandingOrders ==
  Settled({"crash", "overlap"}) =>
    books.revenue = SumFunction([r \in Rows |-> IF row[r].status = "applied" THEN row[r].fee ELSE 0])

\* Gift by gift, order by order and day by day the pool is spent as promised (consumeFifo,
\* applyToOrder, computeCoverage).
GiftsRight == GiftsMatchPool /\ FeesOfStandingOrders /\ DailyBudget

\* A captured gift reaches the pool and the ledger (creditContribution, the sweep).
GiftArrives ==
  \A g \in Gift :
    intent[g] = "succeeded"
      ~> <<"contribute", g>> \in posted \/ befell \cap {"crash", "second_card"} # {}

=============================================================================
