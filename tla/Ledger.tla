------------------------------- MODULE Ledger -------------------------------
(***************************************************************************)
(* The double-entry ledger (src/modules/ledger/ledger.service.ts): workers *)
(* (webhook deliveries, job runs, admin requests) posting transactions and *)
(* their reversals, and the nightly reconciliation that repairs the cached *)
(* balances.                                                               *)
(*                                                                         *)
(* ledger_entries is append-only, so the collection is what was inserted:  *)
(* copies[t] insertions of transaction t's entry set, mirrored[t] mirror   *)
(* sets of it.  entries[a] is what the aggregation over an account returns *)
(* (its total debits and credits); balance[a] is the cached projection.    *)
(* The insert and the $inc of every balance commit in one Mongo            *)
(* transaction; the existence check that makes a post idempotent is made   *)
(* before that transaction starts.                                         *)
(***************************************************************************)
EXTENDS Integers, FiniteSets, FiniteSetsExt

CONSTANTS
  Workers,   \* processes that call post() or reverse()
  Accounts,  \* ledger accounts, created on first use with balance 0
  Normal,    \* NORMAL_BALANCE: the side each account grows on
  NoTxn,     \* what an idle worker works on
  Txns,      \* transaction ids callers derive from their row (`cfund_redeem_<id>`, ...)
  Amount,    \* Amount[t][a]: the debit and credit cents transaction t books to account a
  Poster,    \* Poster[t]: the workers that may be told to post t
  Reverser,  \* Reverser[t]: the workers that may be told to reverse t
  Repair     \* whether reconcile() runs with { repair: true }

ASSUME LedgerAssumption ==
  /\ IsFiniteSet(Accounts)
  /\ NoTxn \notin Txns
  /\ Normal \in [Accounts -> {"debit", "credit"}]
  /\ Amount \in [Txns -> [Accounts -> [debit : Nat, credit : Nat]]]
  /\ Poster \in [Txns -> SUBSET Workers]
  /\ Reverser \in [Txns -> SUBSET Workers]
  /\ Repair \in BOOLEAN

VARIABLES
  copies,    \* how many times t's entry set is in ledger_entries
  mirrored,  \* how many mirror images of t's entry set are in ledger_entries
  reversals, \* how many commits of the transaction id rev_<t> there have been
  entries,   \* per account: the debits and credits its entries sum to
  balance,   \* per account: ledger_accounts.balance_cents, the cached projection
  work,      \* what each worker is doing
  audit      \* the reconciliation job: what it has read and what it has left to do

vars == <<copies, mirrored, reversals, entries, balance, work, audit>>

books == <<copies, mirrored, reversals, entries, balance>>

\* signedDelta, for a debit total d and a credit total c of account a.
Natural(a, d, c) == IF Normal[a] = "debit" THEN d - c ELSE c - d

\* The natural balance an account's entries sum to.
Computed(a, totals) == Natural(a, totals[a].debit, totals[a].credit)

\* THE INVARIANT of post(): debits equal credits over the whole set.
Balanced(t) ==
  MapThenSumSet(LAMBDA a : Amount[t][a].debit, Accounts)
    = MapThenSumSet(LAMBDA a : Amount[t][a].credit, Accounts)

Idle == [pc |-> "idle", txn |-> NoTxn, sets |-> 0]

Asleep == [read |-> {}, cached |-> [a \in Accounts |-> 0],
           sums |-> [a \in Accounts |-> [debit |-> 0, credit |-> 0]], todo |-> {}]

\* Mutant: every account grows on its debit side.
BookUnsigned(lines) ==
  /\ entries' = [a \in Accounts |-> [debit |-> entries[a].debit + lines[a].debit,
                                     credit |-> entries[a].credit + lines[a].credit]]
  /\ balance' = [a \in Accounts |-> balance[a] + lines[a].debit - lines[a].credit]

\* One commit: the entries inserted, and their signed deltas on the cached balances.
Book(lines) ==
  /\ entries' = [a \in Accounts |-> [debit |-> entries[a].debit + lines[a].debit,
                                     credit |-> entries[a].credit + lines[a].credit]]
  /\ balance' = [a \in Accounts |-> balance[a] + Computed(a, lines)]

(***************************************************************************)
(* post()                                                                  *)
(***************************************************************************)

\* Mutant: a repeated post is not recognised.
StartPostAgain(w, t) ==
  /\ work[w].pc = "idle"
  /\ w \in Poster[t]
  /\ copies[t] <= 1
  /\ Balanced(t)
  /\ work' = [work EXCEPT ![w] = [pc |-> "post", txn |-> t, sets |-> 1]]
  /\ UNCHANGED <<books, audit>>

\* A post whose id is already in the books is a no-op, one that does not balance is rejected.
StartPost(w, t) ==
  /\ work[w].pc = "idle"
  /\ w \in Poster[t]
  /\ copies[t] = 0
  /\ Balanced(t)
  /\ work' = [work EXCEPT ![w] = [pc |-> "post", txn |-> t, sets |-> 1]]
  /\ UNCHANGED <<books, audit>>

\* session.withTransaction retries on a write conflict without checking the id again.
CommitPost(w) ==
  LET t == work[w].txn IN
    /\ work[w].pc = "post"
    /\ Book(Amount[t])
    /\ copies' = [copies EXCEPT ![t] = @ + 1]
    /\ work' = [work EXCEPT ![w] = Idle]
    /\ UNCHANGED <<mirrored, reversals, audit>>

(***************************************************************************)
(* reverse()                                                               *)
(***************************************************************************)

\* The mirror image of n copies of t's entries.
Mirror(t, n) ==
  [a \in Accounts |-> [debit |-> n * Amount[t][a].credit, credit |-> n * Amount[t][a].debit]]

\* findByTransaction: reversing an unknown transaction is refused.
ReadOriginal(w, t) ==
  /\ work[w].pc = "idle"
  /\ w \in Reverser[t]
  /\ copies[t] > 0
  /\ work' = [work EXCEPT ![w] = [pc |-> "read", txn |-> t, sets |-> copies[t]]]
  /\ UNCHANGED <<books, audit>>

\* Mutant: an earlier reversal is not noticed.
CheckReversalBlind(w) ==
  /\ work[w].pc = "read"
  /\ work' = [work EXCEPT ![w].pc = "reverse"]
  /\ UNCHANGED <<books, audit>>

\* transactionExists(rev_<t>): refused when reversed before, a no-op when reversed meanwhile.
CheckReversal(w) ==
  /\ work[w].pc = "read"
  /\ work' = [work EXCEPT ![w] = IF reversals[@.txn] = 0 THEN [@ EXCEPT !.pc = "reverse"] ELSE Idle]
  /\ UNCHANGED <<books, audit>>

CommitReversal(w) ==
  LET t == work[w].txn
      n == work[w].sets IN
    /\ work[w].pc = "reverse"
    /\ Book(Mirror(t, n))
    /\ mirrored' = [mirrored EXCEPT ![t] = @ + n]
    /\ reversals' = [reversals EXCEPT ![t] = @ + 1]
    /\ work' = [work EXCEPT ![w] = Idle]
    /\ UNCHANGED <<copies, audit>>

\* The process dies, or the Mongo transaction aborts: nothing was written.
Crash(w) ==
  /\ work[w].pc # "idle"
  /\ work' = [work EXCEPT ![w] = Idle]
  /\ UNCHANGED <<books, audit>>

(***************************************************************************)
(* reconcile(): two queries that do not see the same moment, then one      *)
(* blind write per account found to differ.                                *)
(***************************************************************************)

ReadAccounts ==
  /\ "accounts" \notin audit.read
  /\ audit' = [audit EXCEPT !.read = @ \cup {"accounts"}, !.cached = balance]
  /\ UNCHANGED <<books, work>>

ReadSums ==
  /\ "sums" \notin audit.read
  /\ audit' = [audit EXCEPT !.read = @ \cup {"sums"}, !.sums = entries]
  /\ UNCHANGED <<books, work>>

\* The drifted accounts: repaired when { repair: true }, only reported otherwise.
Compare ==
  /\ audit.read = {"accounts", "sums"}
  /\ LET drifted == {a \in Accounts : Computed(a, audit.sums) # audit.cached[a]}
     IN  audit' = IF Repair /\ drifted # {}
                    THEN [audit EXCEPT !.read = {"accounts", "sums", "compared"}, !.todo = drifted]
                    ELSE Asleep
  /\ UNCHANGED <<books, work>>

\* Mutant: the repair writes back what the cache already said.
RepairAccountAsCached(a) ==
  /\ a \in audit.todo
  /\ balance' = [balance EXCEPT ![a] = audit.cached[a]]
  /\ audit' = IF audit.todo = {a} THEN Asleep ELSE [audit EXCEPT !.todo = @ \ {a}]
  /\ UNCHANGED <<copies, mirrored, reversals, entries, work>>

\* setBalance(computed).
RepairAccount(a) ==
  /\ a \in audit.todo
  /\ balance' = [balance EXCEPT ![a] = Computed(a, audit.sums)]
  /\ audit' = IF audit.todo = {a} THEN Asleep ELSE [audit EXCEPT !.todo = @ \ {a}]
  /\ UNCHANGED <<copies, mirrored, reversals, entries, work>>

Init ==
  /\ copies = [t \in Txns |-> 0]
  /\ mirrored = [t \in Txns |-> 0]
  /\ reversals = [t \in Txns |-> 0]
  /\ entries = [a \in Accounts |-> [debit |-> 0, credit |-> 0]]
  /\ balance = [a \in Accounts |-> 0]
  /\ work = [w \in Workers |-> Idle]
  /\ audit = Asleep

Reconcile == ReadAccounts \/ ReadSums \/ Compare \/ \E a \in Accounts : RepairAccount(a)

Next ==
  \/ \E w \in Workers, t \in Txns : StartPost(w, t)
  \/ \E w \in Workers : CommitPost(w)
  \/ \E w \in Workers, t \in Txns : ReadOriginal(w, t)
  \/ \E w \in Workers : CheckReversal(w)
  \/ \E w \in Workers : CommitReversal(w)
  \/ \E w \in Workers : Crash(w)
  \/ Reconcile

Spec == Init /\ [][Next]_vars

\* The reconciliation job is scheduled every night and runs to its end.
FairSpec == Spec /\ WF_vars(Reconcile)

-----------------------------------------------------------------------------

Totals == [Accounts -> [debit : Nat, credit : Nat]]

\* Every variable keeps its type; a worker away from idle has a transaction in hand.
TypeOK ==
  /\ copies \in [Txns -> Nat]
  /\ mirrored \in [Txns -> Nat]
  /\ reversals \in [Txns -> Nat]
  /\ entries \in Totals
  /\ balance \in [Accounts -> Int]
  /\ work \in [Workers -> [pc : {"idle", "post", "read", "reverse"},
                           txn : Txns \cup {NoTxn}, sets : Nat]]
  /\ \A w \in Workers : work[w].pc # "idle" => work[w].txn \in Txns
  /\ audit \in [read : SUBSET {"accounts", "sums", "compared"},
                cached : [Accounts -> Int], sums : Totals, todo : SUBSET Accounts]

\* "A repeated post is a no-op" (PostInput.transactionId): an id is never booked twice.
NoDoublePost == \A t \in Txns : copies[t] <= 1

\* The cached balances are what the entries sum to (computedBalanceOf = balanceOf).
CacheAgrees == \A a \in Accounts : balance[a] = Computed(a, entries)

\* What a caller must ensure for post() to be idempotent: one worker at a time per id.
SerialPosting == \A t \in Txns : \A v, w \in Poster[t] : v = w

SerialReversing == \A t \in Txns : \A v, w \in Reverser[t] : v = w

\* A reversal leaves nothing of the transaction it reverses in the books, and is made once.
ReversalCancels == \A t \in Txns : reversals[t] > 0 => reversals[t] = 1 /\ mirrored[t] = copies[t]

\* "Drift means a bug - the cache is repaired": once the posting stops, the nightly repair
\* leaves every cached balance equal to its entries, even where it made the drift itself.
DriftHeals == <>[]CacheAgrees

\* post() and reverse() never make a cached balance wrong that was right, whichever side an
\* account grows on: only the reconciliation's own writes, which the audit shows, can.
PostKeepsRight ==
  [][audit' = audit => \A a \in Accounts :
       balance[a] = Computed(a, entries) => balance'[a] = Computed(a, entries')]_vars

\* A reconciliation that repairs never makes a balance wrong that was right.
RepairKeepsRight ==
  [][\A a \in Accounts :
       balance[a] = Computed(a, entries) => balance'[a] = Computed(a, entries')]_vars

(***************************************************************************)
(* The inductive invariants: what a worker read still holds when it        *)
(* commits, because no other worker handles the same id.                   *)
(***************************************************************************)

PostInFlight ==
  \A w \in Workers : work[w].pc = "post" =>
    /\ w \in Poster[work[w].txn]
    /\ copies[work[w].txn] = 0

ReversalInFlight ==
  \A w \in Workers : work[w].pc \in {"read", "reverse"} =>
    /\ w \in Reverser[work[w].txn]
    /\ copies[work[w].txn] = 1 /\ work[w].sets = 1
    /\ work[w].pc = "reverse" => reversals[work[w].txn] = 0

ReversedOnce ==
  \A t \in Txns :
    \/ reversals[t] = 0 /\ mirrored[t] = 0
    \/ reversals[t] = 1 /\ mirrored[t] = 1 /\ copies[t] = 1

PostInv == TypeOK /\ NoDoublePost /\ PostInFlight

ReverseInv == PostInv /\ ReversalInFlight /\ ReversedOnce

CacheInv == TypeOK /\ CacheAgrees /\ audit.todo = {}

=============================================================================
