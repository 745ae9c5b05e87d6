---------------------------- MODULE Idempotency ----------------------------
(***************************************************************************)
(* The Idempotency-Key middleware in front of every money-mutating POST    *)
(* (src/middleware/idempotency.ts) over the key/value store it reserves    *)
(* its keys in (src/shared/kv.ts).                                         *)
(*                                                                         *)
(* A request reserves its key with an atomic setNx before anything else.   *)
(* The winner runs the handler; its answer is written back to the store    *)
(* WITHOUT being awaited (`void kv().set`, `void kv().del`), so the write  *)
(* lands after the client already has the answer, or never.  A loser reads *)
(* the entry, in a second round trip, and replays, conflicts or rejects.   *)
(*                                                                         *)
(* A key is scoped to the principal, so one model Key stands for one       *)
(* (user, header) pair; a body stands for its canonical hash.              *)
(***************************************************************************)
EXTENDS Naturals

CONSTANTS
  Requests,  \* the HTTP requests in flight (a client retry reuses its slot)
  Keys,      \* idempotency keys, each scoped to one principal
  Bodies,    \* canonicalised request bodies
  NoBody     \* what an absent entry holds instead of a body

ASSUME NoBodyAssumption == NoBody \notin Bodies

VARIABLES
  store,     \* the kv entry of each key
  req,       \* the key and body each request slot carries
  pc,        \* where the middleware is with each request
  pending,   \* un-awaited kv writes still on their way to the store
  charged,   \* ghost: the bodies whose effect was performed since the key last expired
  effects    \* ghost: how often the money moved since the key last expired

idempotencyVars == <<store, req, pc, pending, charged, effects>>

Absent == [state |-> "absent", body |-> NoBody]

\* StoredResult without a `response`: the first request has not answered 2xx (yet).
Reserved(b) == [state |-> "reserved", body |-> b]

\* StoredResult with its `response`, to be replayed.
Answered(b) == [state |-> "answered", body |-> b]

Held(k) == store[k].state # "absent"

Write == [key : Keys, op : {"set", "del"}, body : Bodies]

KeyOf(r) == req[r].key

BodyOf(r) == req[r].body

Goto(r, l) == pc' = [pc EXCEPT ![r] = l]

(***************************************************************************)
(* The middleware.                                                         *)
(***************************************************************************)

\* setNx: the only step that decides who runs the handler.
Reserve(r) ==
  /\ pc[r] = "arrived"
  /\ IF Held(KeyOf(r))
       THEN /\ Goto(r, "lookup")
            /\ UNCHANGED store
       ELSE /\ store' = [store EXCEPT ![KeyOf(r)] = Reserved(BodyOf(r))]
            /\ Goto(r, "handling")
  /\ UNCHANGED <<req, pending, charged, effects>>

\* Mutant: any answered entry is replayed, whatever body it was stored for.
LookupOutcomeAnyBody(r) ==
  LET e == store[KeyOf(r)] IN IF e.state = "answered" THEN "replayed" ELSE "conflict"

\* The loser's read.  The entry may be gone by now: that is a conflict too.
LookupOutcome(r) ==
  LET e == store[KeyOf(r)] IN
    IF e.state = "absent" THEN "conflict"
    ELSE IF e.body # BodyOf(r) THEN "mismatch"
    ELSE IF e.state = "answered" THEN "replayed" ELSE "conflict"

Lookup(r) ==
  /\ pc[r] = "lookup"
  /\ Goto(r, LookupOutcome(r))
  /\ UNCHANGED <<store, req, pending, charged, effects>>

(***************************************************************************)
(* The handler behind the middleware, and the wrapped res.json.            *)
(***************************************************************************)

\* The handler moves the money (a charge, a transfer, a refund).
Effect(r) ==
  /\ pc[r] = "handling"
  /\ Goto(r, "effected")
  /\ effects' = [effects EXCEPT ![KeyOf(r)] = @ + 1]
  /\ charged' = [charged EXCEPT ![KeyOf(r)] = @ \cup {BodyOf(r)}]
  /\ UNCHANGED <<store, req, pending>>

\* 2xx: the response is sent and the entry overwritten, un-awaited.
AnswerOk(r) ==
  /\ pc[r] = "effected"
  /\ Goto(r, "ok")
  /\ pending' = pending \cup {[key |-> KeyOf(r), op |-> "set", body |-> BodyOf(r)]}
  /\ UNCHANGED <<store, req, charged, effects>>

\* 4xx: refused before doing anything; the key is released, un-awaited.
AnswerRejected(r) ==
  /\ pc[r] = "handling"
  /\ Goto(r, "rejected")
  /\ pending' = pending \cup {[key |-> KeyOf(r), op |-> "del", body |-> BodyOf(r)]}
  /\ UNCHANGED <<store, req, charged, effects>>

\* Mutant: a 5xx releases the key as a 4xx does.
AnswerUnknownReleases(r) ==
  /\ pc[r] \in {"handling", "effected"}
  /\ Goto(r, "unknown")
  /\ pending' = pending \cup {[key |-> KeyOf(r), op |-> "del", body |-> BodyOf(r)]}
  /\ UNCHANGED <<store, req, charged, effects>>

\* 5xx, or the process died: nobody knows whether the money moved; the key stays held.
AnswerUnknown(r) ==
  /\ pc[r] \in {"handling", "effected"}
  /\ Goto(r, "unknown")
  /\ UNCHANGED <<store, req, pending, charged, effects>>

(***************************************************************************)
(* The store: un-awaited writes land late or are lost, entries time out.   *)
(***************************************************************************)

\* Mutant: every write back releases the key.
LandWriteAsDelete(w) ==
  /\ w \in pending
  /\ store' = [store EXCEPT ![w.key] = Absent]
  /\ pending' = pending \ {w}
  /\ UNCHANGED <<req, pc, charged, effects>>

LandWrite(w) ==
  /\ w \in pending
  /\ store' = [store EXCEPT ![w.key] = IF w.op = "set" THEN Answered(w.body) ELSE Absent]
  /\ pending' = pending \ {w}
  /\ UNCHANGED <<req, pc, charged, effects>>

LoseWrite(w) ==
  /\ w \in pending
  /\ pending' = pending \ {w}
  /\ UNCHANGED <<store, req, pc, charged, effects>>

\* No request is inside the handler, and no write is in flight, for this key.
Quiescent(k) ==
  /\ \A r \in Requests : KeyOf(r) = k => pc[r] \notin {"handling", "effected"}
  /\ \A w \in pending : w.key # k

\* IDEMPOTENCY_TTL_SEC is a day: an entry outlives every request that is using it.
Expire(k) ==
  /\ Held(k)
  /\ Quiescent(k)
  /\ store' = [store EXCEPT ![k] = Absent]
  /\ charged' = [charged EXCEPT ![k] = {}]
  /\ effects' = [effects EXCEPT ![k] = 0]
  /\ UNCHANGED <<req, pc, pending>>

\* The client tries again after a conflict, a refusal or an unknown outcome, or double-taps.
Retry(r) ==
  /\ pc[r] \in {"conflict", "rejected", "unknown", "ok", "replayed"}
  /\ Goto(r, "arrived")
  /\ UNCHANGED <<store, req, pending, charged, effects>>

IdempotencyInit ==
  /\ store = [k \in Keys |-> Absent]
  /\ req \in [Requests -> [key : Keys, body : Bodies]]
  /\ pc = [r \in Requests |-> "arrived"]
  /\ pending = {}
  /\ charged = [k \in Keys |-> {}]
  /\ effects = [k \in Keys |-> 0]

IdempotencyNext ==
  \/ \E r \in Requests : Reserve(r)
  \/ \E r \in Requests : Lookup(r)
  \/ \E r \in Requests : Effect(r)
  \/ \E r \in Requests : AnswerOk(r)
  \/ \E r \in Requests : AnswerRejected(r)
  \/ \E r \in Requests : AnswerUnknown(r)
  \/ \E r \in Requests : Retry(r)
  \/ \E w \in pending : LandWrite(w)
  \/ \E w \in pending : LoseWrite(w)
  \/ \E k \in Keys : Expire(k)

IdempotencySpec == IdempotencyInit /\ [][IdempotencyNext]_idempotencyVars

-----------------------------------------------------------------------------
(***************************************************************************)
(* What the middleware promises.                                           *)
(***************************************************************************)

Locations ==
  {"arrived", "lookup", "handling", "effected", "ok", "rejected", "unknown",
   "conflict", "mismatch", "replayed"}

StoredResult ==
  {Absent} \cup [state : {"reserved", "answered"}, body : Bodies]

\* Every variable keeps its type; an entry carries a body exactly while its key is held.
IdempotencyTyped ==
  /\ store \in [Keys -> StoredResult]
  /\ req \in [Requests -> [key : Keys, body : Bodies]]
  /\ pc \in [Requests -> Locations]
  /\ pending \subseteq Write
  /\ charged \in [Keys -> SUBSET Bodies]
  /\ effects \in [Keys -> Nat]

\* "Never a second charge": however the retries, the late store writes and the lost ones
\* interleave, the money moves at most once in the lifetime of a key (idempotency.ts).
AtMostOneEffect == \A k \in Keys : effects[k] <= 1

\* Once the money moved, the key stays held until it times out, whatever the answer was:
\* a released key would let a retry run the handler again.
EffectHoldsKey == \A k \in Keys : effects[k] > 0 => Held(k)

\* A replayed response always belongs to this very request body, and to an effect that
\* really happened: never to another body under the same key, never to an attempt that failed.
ReplayIsOwn ==
  [][\A r \in Requests :
       pc[r] = "lookup" /\ pc'[r] = "replayed" => charged[KeyOf(r)] = {BodyOf(r)}]_idempotencyVars

(***************************************************************************)
(* The inductive invariant.  An owner is a request inside the handler; a   *)
(* key has one owner, or one write in flight, or neither.                  *)
(***************************************************************************)

Owner(r) == pc[r] \in {"handling", "effected"}

OwnerHolds ==
  \A r \in Requests : Owner(r) =>
    /\ store[KeyOf(r)] = Reserved(BodyOf(r))
    /\ \A s \in Requests : Owner(s) /\ KeyOf(s) = KeyOf(r) => s = r
    /\ \A w \in pending : w.key # KeyOf(r)

WriteHolds ==
  \A w \in pending :
    /\ store[w.key] = Reserved(w.body)
    /\ \A v \in pending : v.key = w.key => v = w

OwnerEffects ==
  \A r \in Requests :
    /\ pc[r] = "handling" => effects[KeyOf(r)] = 0
    /\ pc[r] = "effected" => effects[KeyOf(r)] = 1 /\ charged[KeyOf(r)] = {BodyOf(r)}

WriteEffects ==
  \A w \in pending :
    /\ w.op = "del" => effects[w.key] = 0
    /\ w.op = "set" => effects[w.key] = 1 /\ charged[w.key] = {w.body}

KeyEffects ==
  \A k \in Keys :
    /\ effects[k] = 0 => charged[k] = {}
    /\ effects[k] > 0 => Held(k)
    /\ store[k].state = "answered" =>
         effects[k] = 1 /\ charged[k] = {store[k].body}

IInv ==
  /\ IdempotencyTyped
  /\ OwnerHolds
  /\ WriteHolds
  /\ OwnerEffects
  /\ WriteEffects
  /\ KeyEffects
  /\ AtMostOneEffect

=============================================================================
