----------------------------- MODULE OnceProofs -----------------------------
(***************************************************************************)
(* What a retry must not do a second time: the middleware's guarantees,    *)
(* for every set of requests, keys and bodies, and the ledger's, for every *)
(* set of workers, accounts, transactions and amounts.                     *)
(***************************************************************************)
EXTENDS Idempotency, Ledger, TLAPS

(***************************************************************************)
(* The middleware.                                                         *)
(*                                                                         *)
(* AtMostOneEffect is not inductive: it says nothing of a request that is  *)
(* about to move the money.  IInv adds who may be about to: a key has one  *)
(* owner inside the handler, or one write on its way back to the store, or *)
(* neither, and each of them determines the effects so far.                *)
(***************************************************************************)

\* What an entry says of itself.
LEMMA EntryFields ==
  ASSUME NEW b
  PROVE  /\ Absent.state = "absent"
         /\ Reserved(b).state = "reserved" /\ Reserved(b).body = b
         /\ Answered(b).state = "answered" /\ Answered(b).body = b
BY DEF Absent, Reserved, Answered

\* Entries are of the store's type.
LEMMA EntryTypes ==
  ASSUME NEW b \in Bodies
  PROVE  Absent \in StoredResult /\ Reserved(b) \in StoredResult /\ Answered(b) \in StoredResult
BY DEF Absent, Reserved, Answered, StoredResult

\* Before the first request nothing is held and nothing charged.
LEMMA InitEffectsIInv == IdempotencyInit => IInv
<1> SUFFICES ASSUME IdempotencyInit PROVE IInv
  OBVIOUS
<1>1. IdempotencyTyped
  BY EntryTypes DEF IdempotencyInit, IdempotencyTyped, Locations, Write, StoredResult
<1>2. OwnerHolds /\ WriteHolds /\ OwnerEffects /\ WriteEffects
  BY DEF IdempotencyInit, OwnerHolds, WriteHolds, OwnerEffects, WriteEffects, Owner, KeyOf
<1>3. KeyEffects /\ AtMostOneEffect
  BY DEF IdempotencyInit, KeyEffects, Held, AtMostOneEffect, Absent
<1> QED
  BY <1>1, <1>2, <1>3 DEF IInv

\* A request that moves to a place outside the handler, touching nothing else, preserves IInv.
LEMMA OutsideTheHandler ==
  ASSUME IInv, NEW r \in Requests, NEW l \in Locations \ {"handling", "effected"},
         pc' = [pc EXCEPT ![r] = l], UNCHANGED <<store, req, pending, charged, effects>>
  PROVE  IInv'
<1> USE DEF IInv
<1>1. IdempotencyTyped'
  BY DEF IdempotencyTyped
<1>2. \A s \in Requests :
        /\ Owner(s)' => Owner(s) /\ pc'[s] = pc[s]
        /\ KeyOf(s)' = KeyOf(s) /\ BodyOf(s)' = BodyOf(s)
  BY DEF IdempotencyTyped, Owner, KeyOf, BodyOf
<1>3. OwnerHolds'
  BY <1>2 DEF OwnerHolds
<1>4. OwnerEffects'
  BY <1>2 DEF OwnerEffects, Owner
<1>5. WriteHolds' /\ WriteEffects' /\ KeyEffects' /\ AtMostOneEffect'
  BY DEF WriteHolds, WriteEffects, KeyEffects, AtMostOneEffect, Held
<1> QED
  BY <1>1, <1>3, <1>4, <1>5

\* Every step of the middleware, of a handler and of the store preserves IInv.
LEMMA NextEffectsIInv == IInv /\ [IdempotencyNext]_idempotencyVars => IInv'
<1> SUFFICES ASSUME IInv, [IdempotencyNext]_idempotencyVars PROVE IInv'
  OBVIOUS
<1> USE DEF IInv
<1>1. ASSUME NEW r \in Requests, Reserve(r) PROVE IInv'
  <2>1. CASE Held(KeyOf(r))
    BY <1>1, <2>1, OutsideTheHandler DEF Reserve, Goto, Locations
  <2>2. CASE ~Held(KeyOf(r))
    <3> DEFINE k == KeyOf(r)
               b == BodyOf(r)
    <3>0. /\ k \in Keys /\ b \in Bodies
          /\ store' = [store EXCEPT ![k] = Reserved(b)]
          /\ pc' = [pc EXCEPT ![r] = "handling"]
          /\ UNCHANGED <<req, pending, charged, effects>>
      BY <1>1, <2>2 DEF Reserve, Goto, KeyOf, BodyOf, IdempotencyTyped
    <3>1. \A s \in Requests : Owner(s) => KeyOf(s) # k
      BY <2>2, EntryFields DEF OwnerHolds, Held
    <3>2. \A w \in pending : w.key # k
      BY <2>2, EntryFields DEF WriteHolds, Held
    <3>3. effects[k] = 0 /\ charged[k] = {}
      BY <2>2, <3>0 DEF KeyEffects, Held, IdempotencyTyped
    <3>4. IdempotencyTyped'
      BY <3>0, EntryTypes DEF IdempotencyTyped, Locations
    <3>5. OwnerHolds' /\ WriteHolds'
      BY <3>0, <3>1, <3>2 DEF OwnerHolds, WriteHolds, Owner, KeyOf, BodyOf, IdempotencyTyped, Write
    <3>6. OwnerEffects' /\ WriteEffects'
      BY <3>0, <3>3 DEF OwnerEffects, WriteEffects, Owner, KeyOf, BodyOf, IdempotencyTyped, Write
    <3>7. KeyEffects' /\ AtMostOneEffect'
      BY <3>0, <3>3, EntryFields DEF KeyEffects, Held, AtMostOneEffect, IdempotencyTyped
    <3> QED
      BY <3>4, <3>5, <3>6, <3>7
  <2> QED
    BY <2>1, <2>2
<1>2. ASSUME NEW r \in Requests, Lookup(r) PROVE IInv'
  <2>1. LookupOutcome(r) \in {"conflict", "mismatch", "replayed"}
    BY DEF LookupOutcome
  <2> QED
    BY <1>2, <2>1, OutsideTheHandler DEF Lookup, Goto, Locations
<1>3. ASSUME NEW r \in Requests, Effect(r) PROVE IInv'
  <2> DEFINE k == KeyOf(r)
             b == BodyOf(r)
  <2>0. /\ k \in Keys /\ b \in Bodies /\ pc[r] = "handling"
        /\ pc' = [pc EXCEPT ![r] = "effected"]
        /\ effects' = [effects EXCEPT ![k] = @ + 1]
        /\ charged' = [charged EXCEPT ![k] = @ \cup {b}]
        /\ UNCHANGED <<store, req, pending>>
    BY <1>3 DEF Effect, Goto, KeyOf, BodyOf, IdempotencyTyped
  <2>1. /\ effects[k] = 0 /\ charged[k] = {} /\ store[k] = Reserved(b)
        /\ \A s \in Requests : Owner(s) /\ KeyOf(s) = k => s = r
        /\ \A w \in pending : w.key # k
    BY <2>0 DEF OwnerEffects, KeyEffects, OwnerHolds, Owner
  <2>2. effects'[k] = 1 /\ charged'[k] = {b}
    BY <2>0, <2>1 DEF IdempotencyTyped
  <2>3. IdempotencyTyped'
    BY <2>0 DEF IdempotencyTyped, Locations
  <2>4. OwnerHolds' /\ WriteHolds'
    BY <2>0, <2>1 DEF OwnerHolds, WriteHolds, Owner, KeyOf, BodyOf, IdempotencyTyped
  <2>5. OwnerEffects' /\ WriteEffects'
    BY <2>0, <2>1, <2>2 DEF OwnerEffects, WriteEffects, Owner, KeyOf, BodyOf, IdempotencyTyped, Write
  <2>6. KeyEffects' /\ AtMostOneEffect'
    BY <2>0, <2>1, <2>2, EntryFields DEF KeyEffects, Held, AtMostOneEffect, IdempotencyTyped
  <2> QED
    BY <2>3, <2>4, <2>5, <2>6
<1>4. ASSUME NEW r \in Requests, AnswerOk(r) \/ AnswerRejected(r) PROVE IInv'
  <2> DEFINE k == KeyOf(r)
             b == BodyOf(r)
  <2>0. PICK op \in {"set", "del"} :
          /\ k \in Keys /\ b \in Bodies
          /\ pc[r] = IF op = "set" THEN "effected" ELSE "handling"
          /\ pc' = [pc EXCEPT ![r] = IF op = "set" THEN "ok" ELSE "rejected"]
          /\ pending' = pending \cup {[key |-> k, op |-> op, body |-> b]}
          /\ UNCHANGED <<store, req, charged, effects>>
    BY <1>4 DEF AnswerOk, AnswerRejected, Goto, KeyOf, BodyOf, IdempotencyTyped
  <2>1. /\ store[k] = Reserved(b)
        /\ \A s \in Requests : Owner(s) /\ KeyOf(s) = k => s = r
        /\ \A w \in pending : w.key # k
    BY <2>0 DEF OwnerHolds, Owner
  <2>2. IdempotencyTyped'
    BY <2>0 DEF IdempotencyTyped, Locations, Write
  <2>3. OwnerHolds' /\ WriteHolds'
    BY <2>0, <2>1 DEF OwnerHolds, WriteHolds, Owner, KeyOf, BodyOf, IdempotencyTyped, Write
  <2>4. OwnerEffects' /\ WriteEffects'
    BY <2>0 DEF OwnerEffects, WriteEffects, Owner, KeyOf, BodyOf, IdempotencyTyped, Write
  <2>5. KeyEffects' /\ AtMostOneEffect'
    BY <2>0 DEF KeyEffects, Held, AtMostOneEffect
  <2> QED
    BY <2>2, <2>3, <2>4, <2>5
<1>5. ASSUME NEW r \in Requests, AnswerUnknown(r) \/ Retry(r) PROVE IInv'
  BY <1>5, OutsideTheHandler DEF AnswerUnknown, Retry, Goto, Locations
<1>6. ASSUME NEW w \in pending, LandWrite(w) PROVE IInv'
  <2> DEFINE e == IF w.op = "set" THEN Answered(w.body) ELSE Absent
  <2>0. /\ w \in Write
        /\ store' = [store EXCEPT ![w.key] = e]
        /\ pending' = pending \ {w}
        /\ UNCHANGED <<req, pc, charged, effects>>
    BY <1>6 DEF LandWrite, IdempotencyTyped
  <2>1. /\ \A v \in pending : v.key = w.key => v = w
        /\ \A r \in Requests : Owner(r) => KeyOf(r) # w.key
    BY DEF WriteHolds, OwnerHolds
  <2>2. IdempotencyTyped'
    BY <2>0, EntryTypes DEF IdempotencyTyped, Write
  <2>3. OwnerHolds' /\ WriteHolds'
    BY <2>0, <2>1 DEF OwnerHolds, WriteHolds, Owner, KeyOf, BodyOf, IdempotencyTyped, Write
  <2>4. OwnerEffects' /\ WriteEffects'
    BY <2>0 DEF OwnerEffects, WriteEffects, Owner, KeyOf, BodyOf, IdempotencyTyped, Write
  <2>5. KeyEffects' /\ AtMostOneEffect'
    BY <2>0, EntryFields DEF KeyEffects, Held, AtMostOneEffect, WriteEffects, IdempotencyTyped, Write
  <2> QED
    BY <2>2, <2>3, <2>4, <2>5
<1>7. ASSUME NEW w \in pending, LoseWrite(w) PROVE IInv'
  BY <1>7 DEF LoseWrite, KeyOf, BodyOf, IdempotencyTyped, OwnerHolds, WriteHolds,
     OwnerEffects, WriteEffects, KeyEffects, Held, AtMostOneEffect, Owner
<1>8. ASSUME NEW k \in Keys, Expire(k) PROVE IInv'
  <2>0. /\ store' = [store EXCEPT ![k] = Absent]
        /\ charged' = [charged EXCEPT ![k] = {}]
        /\ effects' = [effects EXCEPT ![k] = 0]
        /\ UNCHANGED <<req, pc, pending>>
        /\ \A r \in Requests : Owner(r) => KeyOf(r) # k
        /\ \A w \in pending : w.key # k
    BY <1>8 DEF Expire, Quiescent, Owner
  <2>1. IdempotencyTyped'
    BY <2>0, EntryTypes DEF IdempotencyTyped, StoredResult
  <2>2. OwnerHolds' /\ WriteHolds'
    BY <2>0 DEF OwnerHolds, WriteHolds, Owner, KeyOf, BodyOf, IdempotencyTyped, Write
  <2>3. \A j \in Keys \ {k} : effects'[j] = effects[j] /\ charged'[j] = charged[j]
    BY <2>0 DEF IdempotencyTyped
  <2>4. OwnerEffects'
    <3>1. ASSUME NEW r \in Requests, Owner(r)
          PROVE  effects'[KeyOf(r)] = effects[KeyOf(r)] /\ charged'[KeyOf(r)] = charged[KeyOf(r)]
      BY <2>0, <2>3, <3>1 DEF IdempotencyTyped, KeyOf
    <3> QED
      BY <2>0, <3>1 DEF OwnerEffects, Owner, KeyOf, BodyOf
  <2>5. WriteEffects'
    BY <2>0, <2>3 DEF WriteEffects, IdempotencyTyped, Write
  <2>6. KeyEffects' /\ AtMostOneEffect'
    BY <2>0 DEF KeyEffects, Held, AtMostOneEffect, IdempotencyTyped, Absent
  <2> QED
    BY <2>1, <2>2, <2>4, <2>5, <2>6
<1>9. CASE UNCHANGED idempotencyVars
  BY <1>9 DEF idempotencyVars, KeyOf, BodyOf, IdempotencyTyped, OwnerHolds, WriteHolds,
     OwnerEffects, WriteEffects, KeyEffects, Held, AtMostOneEffect, Owner
<1> QED
  BY <1>1, <1>2, <1>3, <1>4, <1>5, <1>6, <1>7, <1>8, <1>9 DEF IdempotencyNext

\* Every reachable state of the middleware satisfies the inductive invariant.
THEOREM EffectsIInvHolds == IdempotencySpec => []IInv
BY InitEffectsIInv, NextEffectsIInv, PTL DEF IdempotencySpec

\* However requests, retries and the store's late writes interleave, the variables keep
\* their types.
THEOREM IdempotencyTypeCorrect == IdempotencySpec => []IdempotencyTyped
<1>1. IInv => IdempotencyTyped
  BY DEF IInv
<1> QED
  BY <1>1, EffectsIInvHolds, PTL

\* Never a second charge: in the lifetime of a key the handler behind the middleware moves
\* the money at most once, for every number of concurrent requests and retries.
THEOREM NeverASecondCharge == IdempotencySpec => []AtMostOneEffect
<1>1. IInv => AtMostOneEffect
  BY DEF IInv
<1> QED
  BY <1>1, EffectsIInvHolds, PTL

\* A key under which money moved stays held until it times out.
THEOREM KeyStaysHeld == IdempotencySpec => []EffectHoldsKey
<1>1. IInv => EffectHoldsKey
  BY DEF IInv, KeyEffects, EffectHoldsKey
<1> QED
  BY <1>1, EffectsIInvHolds, PTL

\* A replay answers with the stored result of this very body, and that body's effect
\* happened.
THEOREM ReplaysAreOwn == IdempotencySpec => ReplayIsOwn
<1> DEFINE Own == \A r \in Requests :
              pc[r] = "lookup" /\ pc'[r] = "replayed" => charged[KeyOf(r)] = {BodyOf(r)}
<1>1. IInv /\ [IdempotencyNext]_idempotencyVars => [Own]_idempotencyVars
  <2> SUFFICES ASSUME IInv, IdempotencyNext, NEW r \in Requests, pc[r] = "lookup", pc'[r] = "replayed"
               PROVE  charged[KeyOf(r)] = {BodyOf(r)}
    OBVIOUS
  <2> USE DEF IInv
  <2>1. PICK s \in Requests : Lookup(s)
    BY DEF IdempotencyNext, Reserve, Effect, AnswerOk, AnswerRejected, AnswerUnknown, Retry, LandWrite,
       LoseWrite, Expire, Goto, IdempotencyTyped
  <2>2. s = r /\ LookupOutcome(r) = "replayed"
    BY <2>1 DEF Lookup, Goto, IdempotencyTyped
  <2>3. store[KeyOf(r)].body = BodyOf(r) /\ store[KeyOf(r)].state = "answered"
    BY <2>2 DEF LookupOutcome
  <2> QED
    BY <2>3 DEF KeyEffects, Held, KeyOf, IdempotencyTyped
<1> QED
  BY <1>1, EffectsIInvHolds, PTL DEF IdempotencySpec, ReplayIsOwn

(***************************************************************************)
(* The ledger.                                                             *)
(*                                                                         *)
(* The cached balances agree with the entries whenever nothing repairs     *)
(* them, because the two are written in one commit.  Idempotency rests on  *)
(* the caller: the check is made before the commit, so it is enough        *)
(* exactly when one worker at a time handles an id.                        *)
(***************************************************************************)

\* Booking lines moves the cached balance and the balance computed from the entries alike.
LEMMA BookBalance ==
  ASSUME TypeOK, NEW lines \in Totals, Book(lines), NEW a \in Accounts
  PROVE  /\ entries' \in Totals /\ balance' \in [Accounts -> Int]
         /\ balance[a] = Computed(a, entries) => balance'[a] = Computed(a, entries')
<1>1. entries' \in Totals
  BY DEF TypeOK, Totals, Book
<1>2. \A b \in Accounts : Computed(b, lines) \in Int
  BY DEF Totals, Computed, Natural
<1>3. balance' \in [Accounts -> Int]
  BY <1>2 DEF TypeOK, Book
<1>4. balance[a] = Computed(a, entries) => balance'[a] = Computed(a, entries')
  BY DEF TypeOK, Totals, Book, Computed, Natural
<1> QED
  BY <1>1, <1>3, <1>4

\* The lines of a transaction are totals.
LEMMA AmountTotals == ASSUME NEW t \in Txns PROVE Amount[t] \in Totals
BY LedgerAssumption DEF Totals

\* Multiplying naturals stays in them; stated for the solver.
LEMMA ProductNat == ASSUME NEW m \in Nat, NEW n \in Nat PROVE m * n \in Nat
OBVIOUS

\* So are the lines of a reversal.
LEMMA MirrorTotals == ASSUME NEW t \in Txns, NEW n \in Nat PROVE Mirror(t, n) \in Totals
BY LedgerAssumption, ProductNat DEF Totals, Mirror

\* The empty books are well typed.
LEMMA InitType == Init => TypeOK
BY LedgerAssumption DEF Init, TypeOK, Totals, Idle, Asleep

\* A worker at rest is well typed.
LEMMA IdleType ==
  Idle.pc = "idle" /\ Idle \in [pc : {"idle", "post", "read", "reverse"},
                                txn : Txns \cup {NoTxn}, sets : Nat]
BY DEF Idle

\* A reconciliation that has not begun has nothing to repair.
LEMMA AsleepType ==
  /\ Asleep.todo = {}
  /\ Asleep \in [read : SUBSET {"accounts", "sums", "compared"},
                 cached : [Accounts -> Int], sums : Totals, todo : SUBSET Accounts]
BY DEF Asleep, Totals

\* Every step of a worker or of the reconciliation keeps the types.
LEMMA NextType == TypeOK /\ [Next]_vars => TypeOK'
<1> SUFFICES ASSUME TypeOK, [Next]_vars PROVE TypeOK'
  OBVIOUS
<1>1. ASSUME NEW w \in Workers, NEW t \in Txns, StartPost(w, t) PROVE TypeOK'
  BY <1>1 DEF StartPost, TypeOK, books
<1>2. ASSUME NEW w \in Workers, CommitPost(w) PROVE TypeOK'
  <2>1. work[w].txn \in Txns /\ Amount[work[w].txn] \in Totals
    BY <1>2, AmountTotals DEF CommitPost, TypeOK
  <2>2. entries' \in Totals /\ balance' \in [Accounts -> Int]
    <3>1. \A b \in Accounts : Computed(b, Amount[work[w].txn]) \in Int
      BY <2>1 DEF Totals, Computed, Natural
    <3> QED
      BY <1>2, <2>1, <3>1 DEF CommitPost, Book, TypeOK, Totals
  <2> QED
    BY <1>2, <2>1, <2>2, IdleType DEF CommitPost, TypeOK
<1>3. ASSUME NEW w \in Workers, NEW t \in Txns, ReadOriginal(w, t) PROVE TypeOK'
  BY <1>3 DEF ReadOriginal, TypeOK, books
<1>4. ASSUME NEW w \in Workers, CheckReversal(w) PROVE TypeOK'
  <2>1. CASE reversals[work[w].txn] = 0
    BY <1>4, <2>1 DEF CheckReversal, TypeOK, books
  <2>2. CASE reversals[work[w].txn] # 0
    BY <1>4, <2>2, IdleType DEF CheckReversal, TypeOK, books
  <2> QED
    BY <2>1, <2>2
<1>5. ASSUME NEW w \in Workers, CommitReversal(w) PROVE TypeOK'
  <2> DEFINE lines == Mirror(work[w].txn, work[w].sets)
  <2>1. work[w].txn \in Txns /\ work[w].sets \in Nat /\ lines \in Totals
    BY <1>5, MirrorTotals DEF CommitReversal, TypeOK
  <2>2. entries' \in Totals /\ balance' \in [Accounts -> Int]
    <3>1. \A b \in Accounts : Computed(b, lines) \in Int
      BY <2>1 DEF Totals, Computed, Natural
    <3>2. Book(lines)
      BY <1>5 DEF CommitReversal
    <3> HIDE DEF lines
    <3> QED
      BY <2>1, <3>1, <3>2 DEF Book, TypeOK, Totals
  <2> QED
    BY <1>5, <2>1, <2>2, IdleType DEF CommitReversal, TypeOK
<1>6. ASSUME NEW w \in Workers, Crash(w) PROVE TypeOK'
  BY <1>6, IdleType DEF Crash, TypeOK, books
<1>7. CASE ReadAccounts \/ ReadSums
  <2>1. CASE ReadAccounts
    BY <2>1 DEF ReadAccounts, TypeOK, books
  <2>2. CASE ReadSums
    BY <2>2 DEF ReadSums, TypeOK, books
  <2> QED
    BY <1>7, <2>1, <2>2
<1>8. CASE Compare
  <2> DEFINE drifted == {a \in Accounts : Computed(a, audit.sums) # audit.cached[a]}
  <2>1. CASE Repair /\ drifted # {}
    BY <1>8, <2>1 DEF Compare, TypeOK, books
  <2>2. CASE ~(Repair /\ drifted # {})
    BY <1>8, <2>2, AsleepType DEF Compare, TypeOK, books
  <2> QED
    BY <2>1, <2>2
<1>9. ASSUME NEW a \in Accounts, RepairAccount(a) PROVE TypeOK'
  <2>1. Computed(a, audit.sums) \in Int
    BY DEF TypeOK, Totals, Computed, Natural
  <2> QED
    BY <1>9, <2>1, AsleepType DEF RepairAccount, TypeOK
<1>10. CASE UNCHANGED vars
  BY <1>10 DEF vars, TypeOK
<1> QED
  BY <1>1, <1>2, <1>3, <1>4, <1>5, <1>6, <1>7, <1>8, <1>9, <1>10 DEF Next, Reconcile

\* However posts, reversals and reconciliations interleave, the variables keep their types.
THEOREM TypeCorrect == Spec => []TypeOK
BY InitType, NextType, PTL DEF Spec

-----------------------------------------------------------------------------
(***************************************************************************)
(* The cache.                                                              *)
(***************************************************************************)

\* Without { repair: true } nothing but a commit writes a cached balance.
LEMMA NextCache == ASSUME ~Repair PROVE CacheInv /\ [Next]_vars => CacheInv'
<1> SUFFICES ASSUME CacheInv, [Next]_vars PROVE CacheInv'
  OBVIOUS
<1> USE DEF CacheInv
<1>0. TypeOK'
  BY NextType
<1>1. ASSUME NEW w \in Workers, CommitPost(w) PROVE CacheInv'
  <2>1. Amount[work[w].txn] \in Totals
    BY <1>1, AmountTotals DEF CommitPost, TypeOK
  <2> QED
    BY <1>0, <1>1, <2>1, BookBalance DEF CommitPost, CacheAgrees
<1>2. ASSUME NEW w \in Workers, CommitReversal(w) PROVE CacheInv'
  <2>1. Mirror(work[w].txn, work[w].sets) \in Totals
    BY <1>2, MirrorTotals DEF CommitReversal, TypeOK
  <2> QED
    BY <1>0, <1>2, <2>1, BookBalance DEF CommitReversal, CacheAgrees
<1>3. CASE Compare
  BY <1>0, <1>3, AsleepType DEF Compare, CacheAgrees, books, Computed
<1>4. CASE ReadAccounts \/ ReadSums
  BY <1>0, <1>4 DEF ReadAccounts, ReadSums, CacheAgrees, books, Computed, TypeOK
<1>5. ASSUME NEW a \in Accounts, RepairAccount(a) PROVE CacheInv'
  BY <1>5 DEF RepairAccount
<1>6. CASE UNCHANGED <<books, audit>>
  BY <1>0, <1>6 DEF CacheAgrees, books, Computed
<1> QED
  BY <1>1, <1>2, <1>3, <1>4, <1>5, <1>6
  DEF Next, Reconcile, StartPost, ReadOriginal, CheckReversal, Crash, vars, books

\* With a reporting reconciliation the cached balances always equal the sum of the entries:
\* the insert and the increments of post() and reverse() commit together.
THEOREM CacheCorrect == ASSUME ~Repair PROVE Spec => []CacheAgrees
<1>1. Init => CacheInv
  BY InitType, AsleepType DEF Init, CacheInv, CacheAgrees, Computed, Natural
<1>2. CacheInv /\ [Next]_vars => CacheInv'
  BY NextCache
<1>3. CacheInv => CacheAgrees
  BY DEF CacheInv
<1> QED
  BY <1>1, <1>2, <1>3, PTL DEF Spec

\* With repairs as without, no post and no reversal makes a right balance wrong: what
\* parts the cache from the entries is a repair.
THEOREM PostingKeepsRight == Spec => PostKeepsRight
<1> DEFINE Right(a) == balance[a] = Computed(a, entries)
<1>1. ASSUME TypeOK, [Next]_vars, audit' = audit, NEW a \in Accounts, Right(a)
      PROVE  Right(a)'
  <2>1. ASSUME NEW w \in Workers, CommitPost(w) PROVE Right(a)'
    <3>1. Amount[work[w].txn] \in Totals
      BY <1>1, <2>1, AmountTotals DEF CommitPost, TypeOK
    <3> QED
      BY <1>1, <2>1, <3>1, BookBalance DEF CommitPost
  <2>2. ASSUME NEW w \in Workers, CommitReversal(w) PROVE Right(a)'
    <3>1. Mirror(work[w].txn, work[w].sets) \in Totals
      BY <1>1, <2>2, MirrorTotals DEF CommitReversal, TypeOK
    <3> QED
      BY <1>1, <2>2, <3>1, BookBalance DEF CommitReversal
  <2>3. CASE UNCHANGED books
    BY <1>1, <2>3 DEF books, Computed
  <2>4. ASSUME NEW b \in Accounts, RepairAccount(b) PROVE FALSE
    <3>1. b \in audit.todo /\ Asleep.todo = {}
      BY <2>4, AsleepType DEF RepairAccount
    <3> QED
      BY <1>1, <2>4, <3>1 DEF RepairAccount, TypeOK
  <2> QED
    BY <1>1, <2>1, <2>2, <2>3, <2>4
    DEF Next, Reconcile, ReadAccounts, ReadSums, Compare, StartPost, ReadOriginal,
        CheckReversal, Crash, vars, books
<1>2. TypeOK /\ [Next]_vars =>
        [audit' = audit => \A a \in Accounts :
           balance[a] = Computed(a, entries) => balance'[a] = Computed(a, entries')]_vars
  BY <1>1
<1> QED
  BY <1>2, TypeCorrect, PTL DEF Spec, PostKeepsRight

-----------------------------------------------------------------------------
(***************************************************************************)
(* Idempotency.                                                            *)
(***************************************************************************)

\* What a poster read of its own id still holds when it commits.
LEMMA NextPost == ASSUME SerialPosting PROVE PostInv /\ [Next]_vars => PostInv'
<1> SUFFICES ASSUME PostInv, [Next]_vars PROVE PostInv'
  OBVIOUS
<1> USE DEF PostInv
<1>0. TypeOK'
  BY NextType
<1>1. ASSUME NEW w \in Workers, NEW t \in Txns, StartPost(w, t) PROVE PostInv'
  BY <1>0, <1>1 DEF StartPost, books, PostInFlight, NoDoublePost, TypeOK
<1>2. ASSUME NEW w \in Workers, CommitPost(w) PROVE PostInv'
  <2> DEFINE t == work[w].txn
  <2>1. /\ t \in Txns /\ w \in Poster[t] /\ copies[t] = 0
        /\ copies' = [copies EXCEPT ![t] = @ + 1]
        /\ work' = [work EXCEPT ![w] = Idle]
    BY <1>2 DEF CommitPost, TypeOK, PostInFlight
  <2>2. NoDoublePost'
    BY <2>1 DEF NoDoublePost, TypeOK
  <2>3. ASSUME NEW v \in Workers, work'[v].pc = "post"
        PROVE  v # w /\ work'[v] = work[v] /\ work[v].txn # t /\ work[v].txn \in Txns
    <3>1. v # w /\ work'[v] = work[v]
      BY <2>1, <2>3, IdleType DEF TypeOK
    <3> QED
      BY <2>1, <2>3, <3>1 DEF PostInFlight, SerialPosting, TypeOK
  <2>4. PostInFlight'
    BY <2>1, <2>3 DEF PostInFlight, TypeOK
  <2> QED
    BY <1>0, <2>2, <2>4
<1>3. ASSUME NEW w \in Workers, NEW t \in Txns, ReadOriginal(w, t) PROVE PostInv'
  BY <1>0, <1>3 DEF ReadOriginal, books, PostInFlight, NoDoublePost, TypeOK
<1>4. ASSUME NEW w \in Workers, CheckReversal(w) \/ CommitReversal(w) \/ Crash(w) PROVE PostInv'
  <2>1. /\ UNCHANGED copies
        /\ \A v \in Workers : work'[v].pc = "post" => work'[v] = work[v]
    BY <1>4, IdleType DEF CheckReversal, CommitReversal, Crash, books, TypeOK
  <2> QED
    BY <1>0, <2>1 DEF PostInFlight, NoDoublePost
<1>5. CASE UNCHANGED <<copies, work>>
  BY <1>0, <1>5 DEF PostInFlight, NoDoublePost
<1> QED
  BY <1>1, <1>2, <1>3, <1>4, <1>5
  DEF Next, Reconcile, ReadAccounts, ReadSums, Compare, RepairAccount, vars, books

\* At first nobody posts anything.
LEMMA InitPost == Init => PostInv
BY InitType DEF Init, PostInv, PostInFlight, NoDoublePost, Idle

\* "A repeated post is a no-op" holds as long as no two workers post the same id at once:
\* crashed and repeated attempts, and a reversal in between, never book it twice.
THEOREM NeverDoublePosted == ASSUME SerialPosting PROVE Spec => []NoDoublePost
<1>1. PostInv /\ [Next]_vars => PostInv'
  BY NextPost
<1>2. PostInv => NoDoublePost
  BY DEF PostInv
<1> QED
  BY InitPost, <1>1, <1>2, PTL DEF Spec

-----------------------------------------------------------------------------
(***************************************************************************)
(* Reversals.                                                              *)
(***************************************************************************)

\* What a reverser read of its original still holds when it commits.
LEMMA NextReverse ==
  ASSUME SerialPosting, SerialReversing PROVE ReverseInv /\ [Next]_vars => ReverseInv'
<1> SUFFICES ASSUME ReverseInv, [Next]_vars PROVE ReverseInv'
  OBVIOUS
<1> USE DEF ReverseInv
<1>0. PostInv' /\ TypeOK
  BY NextPost DEF PostInv
<1>1. ASSUME NEW w \in Workers, NEW t \in Txns, StartPost(w, t) PROVE ReverseInv'
  BY <1>0, <1>1 DEF StartPost, books, ReversalInFlight, ReversedOnce, TypeOK
<1>2. ASSUME NEW w \in Workers, CommitPost(w) PROVE ReverseInv'
  <2> DEFINE t == work[w].txn
  <2>1. /\ t \in Txns /\ copies[t] = 0
        /\ copies' = [copies EXCEPT ![t] = @ + 1]
        /\ work' = [work EXCEPT ![w] = Idle]
        /\ UNCHANGED <<mirrored, reversals>>
    BY <1>0, <1>2 DEF CommitPost, TypeOK, PostInv, PostInFlight
  <2>2. \A v \in Workers : work'[v].pc \in {"read", "reverse"} => v # w /\ work'[v] = work[v]
    BY <1>0, <2>1, IdleType DEF TypeOK
  <2>3. ReversalInFlight'
    BY <1>0, <2>1, <2>2 DEF ReversalInFlight, TypeOK
  <2>4. ReversedOnce'
    BY <1>0, <2>1 DEF ReversedOnce, TypeOK
  <2> QED
    BY <1>0, <2>3, <2>4
<1>3. ASSUME NEW w \in Workers, NEW t \in Txns, ReadOriginal(w, t) PROVE ReverseInv'
  <2>1. copies[t] = 1
    BY <1>0, <1>3 DEF ReadOriginal, PostInv, NoDoublePost, TypeOK
  <2> QED
    BY <1>0, <1>3, <2>1 DEF ReadOriginal, books, ReversalInFlight, ReversedOnce, TypeOK
<1>4. ASSUME NEW w \in Workers, CheckReversal(w) PROVE ReverseInv'
  <2>1. CASE reversals[work[w].txn] = 0
    BY <1>0, <1>4, <2>1 DEF CheckReversal, books, ReversalInFlight, ReversedOnce, TypeOK
  <2>2. CASE reversals[work[w].txn] # 0
    BY <1>0, <1>4, <2>2, IdleType
    DEF CheckReversal, books, ReversalInFlight, ReversedOnce, TypeOK
  <2> QED
    BY <2>1, <2>2
<1>5. ASSUME NEW w \in Workers, CommitReversal(w) PROVE ReverseInv'
  <2> DEFINE t == work[w].txn
  <2>1. /\ t \in Txns /\ w \in Reverser[t]
        /\ copies[t] = 1 /\ work[w].sets = 1 /\ reversals[t] = 0 /\ mirrored[t] = 0
    BY <1>0, <1>5 DEF CommitReversal, TypeOK, ReversalInFlight, ReversedOnce
  <2>2. /\ mirrored' = [mirrored EXCEPT ![t] = 1]
        /\ reversals' = [reversals EXCEPT ![t] = 1]
        /\ work' = [work EXCEPT ![w] = Idle]
        /\ UNCHANGED copies
    BY <1>0, <1>5, <2>1 DEF CommitReversal, TypeOK
  <2>3. ReversedOnce'
    BY <1>0, <2>1, <2>2 DEF ReversedOnce, TypeOK
  <2>4. ASSUME NEW v \in Workers, work'[v].pc \in {"read", "reverse"}
        PROVE  v # w /\ work'[v] = work[v] /\ work[v].txn # t /\ work[v].txn \in Txns
    <3>1. v # w /\ work'[v] = work[v]
      BY <1>0, <2>2, <2>4, IdleType DEF TypeOK
    <3> QED
      BY <1>0, <2>1, <2>4, <3>1 DEF ReversalInFlight, SerialReversing, TypeOK
  <2>5. ReversalInFlight'
    BY <1>0, <2>2, <2>4 DEF ReversalInFlight, TypeOK
  <2> QED
    BY <1>0, <2>3, <2>5
<1>6. ASSUME NEW w \in Workers, Crash(w) PROVE ReverseInv'
  BY <1>0, <1>6, IdleType DEF Crash, books, ReversalInFlight, ReversedOnce, TypeOK
<1>7. CASE UNCHANGED <<copies, mirrored, reversals, work>>
  BY <1>0, <1>7 DEF ReversalInFlight, ReversedOnce
<1> QED
  BY <1>1, <1>2, <1>3, <1>4, <1>5, <1>6, <1>7
  DEF Next, Reconcile, ReadAccounts, ReadSums, Compare, RepairAccount, vars, books

\* Under one poster and one reverser per id, a reversed transaction leaves nothing in the
\* books, however the post, its retries and the reversal interleave.
THEOREM ReversalsCancel ==
  ASSUME SerialPosting, SerialReversing PROVE Spec => []ReversalCancels
<1>1. Init => ReverseInv
  BY InitPost DEF Init, ReverseInv, ReversalInFlight, ReversedOnce, Idle
<1>2. ReverseInv /\ [Next]_vars => ReverseInv'
  BY NextReverse
<1>3. ReverseInv => ReversalCancels
  BY DEF ReverseInv, ReversedOnce, ReversalCancels
<1> QED
  BY <1>1, <1>2, <1>3, PTL DEF Spec

=============================================================================
