------------------------------ MODULE Disputes ------------------------------
(***************************************************************************)
(* What people hold against a seller, and what it does to his standing:    *)
(* disputes are opened, argued and resolved, a resolution may take a sale's *)
(* money back, and the trust score is computed anew from the disputes that *)
(* were upheld, the consignments that were settled and the reviews.        *)
(***************************************************************************)
EXTENDS Handlers

CONSTANTS
  Cases,      \* disputes, all over one sale of one seller
  Ratings,    \* what a reviewer may give
  MaxClosed,  \* bound: consignments the seller finishes
  Threshold   \* reports that hide a review's photos

VARIABLES
  dispute,   \* disputes
  decided,   \* history: how often each was resolved, whether it was ever upheld, and whether
             \* its refund was asked for
  sale,      \* the transaction, and what Stripe gave back of it
  returns,   \* the seller's consignments, settled and overdue
  followups, \* jobs in the settlement queue
  score,     \* the newest row of trust_scores: what it was computed from
  review,    \* the rating the sale's review gave
  photos     \* of a review: the reports against its photos, and whether they are hidden

disputeVars == <<dispute, decided, sale, returns, followups, score, review, photos, task, befell>>

NoScore == [upheld |-> 0, settled |-> 0, overdue |-> 0, rating |-> 3]

DisputesInit ==
  /\ dispute = [d \in Cases |-> [status |-> "none", outcome |-> None]]
  /\ decided = [d \in Cases |-> [times |-> 0, upheld |-> FALSE, clawback |-> FALSE]]
  /\ sale = [status |-> "completed", returned |-> 0]
  /\ returns = [settled |-> 0, overdue |-> 0]
  /\ followups = 0
  /\ score = None
  /\ review = None
  /\ photos = [reports |-> 0, hidden |-> FALSE]

(***************************************************************************)
(* The score: a hundred, less what was upheld and what is late, more what  *)
(* was on time and well reviewed; and only as far from where one starts as *)
(* the seller's record goes.                                               *)
(***************************************************************************)

Starting == 40

Completions == 5

AtLeast(a, b) == IF a < b THEN b ELSE a

AtMost(a, b) == IF a < b THEN a ELSE b

Closed(i) == AtLeast(1, i.settled + i.overdue)

\* Mutant: being late costs less than being on time brings, and a review outweighs both.
LatenessForgiven(i) ==
  100 * Closed(i) - 25 * i.upheld + 15 * i.overdue + 10 * i.settled
    + 5 * Closed(i) * (i.rating - 3)

\* As many times the hundred as consignments ended.
Behaved(i) ==
  100 * Closed(i) - 25 * i.upheld - 15 * i.overdue + 10 * i.settled
    + 5 * Closed(i) * (i.rating - 3)

\* Rounded half up.
TrustScore(i) ==
  LET start == Starting * Closed(i)
      evidence == AtMost(Completions, i.settled + i.overdue)
      ramped == Completions * start + (Behaved(i) - start) * evidence
      earned == AtMost(ramped, Completions * Behaved(i))
      scale == Completions * Closed(i)
  IN  AtMost(100, AtLeast(0, (2 * earned + scale) \div (2 * scale)))

\* Mutant: whatever was resolved counts against the seller.
AllResolved == Cardinality({d \in Cases : dispute[d].status = "resolved"})

Upheld ==
  Cardinality({d \in Cases : dispute[d].status = "resolved" /\ dispute[d].outcome = "upheld"})

Rating == IF review = None THEN 3 ELSE review

\* recompute: the consignments; then the disputes and the reviews; then a new row.
ScoreReturns(w) ==
  /\ At(w, "score_returns")
  /\ Becomes(w, [step |-> "score_counts", settled |-> returns.settled, overdue |-> returns.overdue])
  /\ UNCHANGED <<dispute, decided, sale, returns, followups, score, review, photos, befell>>

ScoreCounts(w) ==
  /\ At(w, "score_counts")
  /\ Becomes(w, [step |-> "score_row", settled |-> task[w].settled, overdue |-> task[w].overdue,
                 upheld |-> Upheld, rating |-> Rating])
  /\ UNCHANGED <<dispute, decided, sale, returns, followups, score, review, photos, befell>>

ScoreRow(w) ==
  /\ At(w, "score_row")
  /\ score' = [f \in DOMAIN NoScore |-> task[w][f]]
  /\ Finish(w)
  /\ UNCHANGED <<dispute, decided, sale, returns, followups, review, photos>>

(***************************************************************************)
(* open, addEvidence, resolve.                                             *)
(***************************************************************************)

OpenDispute(d) ==
  /\ dispute[d].status = "none"
  /\ dispute' = [dispute EXCEPT ![d].status = "open"]
  /\ AtOnce
  /\ UNCHANGED <<decided, sale, returns, followups, score, review, photos>>

EvidenceRead(w, d) ==
  /\ dispute[d].status \in {"open", "evidence_requested"}
  /\ Begin(w, [step |-> "evidence_add", of |-> d])
  /\ UNCHANGED <<dispute, decided, sale, returns, followups, score, review, photos>>

\* Written by its id, whatever has become of the dispute.
AddEvidence(w) ==
  /\ At(w, "evidence_add")
  /\ dispute' = [dispute EXCEPT ![task[w].of].status = "evidence_requested"]
  /\ Finish(w)
  /\ UNCHANGED <<decided, sale, returns, followups, score, review, photos>>

\* Mutant: what is resolved may be resolved again.
EverOpened(d) == dispute[d].status # "none"

Unresolved(d) == dispute[d].status \in {"open", "evidence_requested"}

Resolve(w, d, outcome, clawback) ==
  /\ Unresolved(d)
  /\ dispute' = [dispute EXCEPT ![d] = [status |-> "resolved", outcome |-> outcome]]
  /\ decided' = [decided EXCEPT ![d].times = AtMost(2, @ + 1), ![d].clawback = clawback,
                                ![d].upheld = @ \/ outcome = "upheld"]
  /\ Begin(w, [step |-> IF clawback THEN "clawback_read" ELSE "score_returns"])
  /\ UNCHANGED <<sale, returns, followups, score, review, photos>>

\* refund: only a completed transaction.  What throws here leaves the dispute resolved.
ClawbackRead(w) ==
  /\ At(w, "clawback_read")
  /\ sale.status = "completed"
  /\ Goto(w, "clawback")
  /\ UNCHANGED <<dispute, decided, sale, returns, followups, score, review, photos>>

ClawbackThrown(w) ==
  /\ \/ At(w, "clawback_read") /\ sale.status # "completed"
     \/ At(w, "clawback")
  /\ FinishAfter(w, "thrown")
  /\ UNCHANGED <<dispute, decided, sale, returns, followups, score, review, photos>>

\* Mutant: each refund of a transaction is a new one to Stripe.
RefundedAnew(c) == c + 1

RefundKeyed(c) == 1

Clawback(w) ==
  /\ At(w, "clawback")
  /\ sale' = [sale EXCEPT !.returned = RefundKeyed(@)]
  /\ Goto(w, "clawback_mark")
  /\ UNCHANGED <<dispute, decided, returns, followups, score, review, photos>>

ClawbackMark(w) ==
  /\ At(w, "clawback_mark")
  /\ sale' = [sale EXCEPT !.status = "refunded"]
  /\ Goto(w, "score_returns")
  /\ UNCHANGED <<dispute, decided, returns, followups, score, review, photos>>

(***************************************************************************)
(* Consignments end: settled, with a job that computes the score later, or *)
(* swept as overdue by a sweep that computes it at once.  A job that dies  *)
(* is run again by the queue, which nothing here relies on.                *)
(***************************************************************************)

SettleCheckout ==
  /\ returns.settled + returns.overdue < MaxClosed
  /\ returns' = [returns EXCEPT !.settled = @ + 1]
  /\ followups' = followups + 1
  /\ AtOnce
  /\ UNCHANGED <<dispute, decided, sale, score, review, photos>>

SettlementFollowup(w) ==
  /\ followups > 0
  /\ followups' = followups - 1
  /\ Begin(w, [step |-> "score_returns"])
  /\ UNCHANGED <<dispute, decided, sale, returns, score, review, photos>>

SweepOverdue(w) ==
  /\ returns.settled + returns.overdue < MaxClosed
  /\ returns' = [returns EXCEPT !.overdue = @ + 1]
  /\ Begin(w, [step |-> "score_returns"])
  /\ UNCHANGED <<dispute, decided, sale, followups, score, review, photos>>

(***************************************************************************)
(* Reviews: one for a completed transaction, whose photos enough reports   *)
(* hide and a moderator shows again.                                       *)
(***************************************************************************)

CreateReview(rating) ==
  /\ review = None
  /\ sale.status = "completed"
  /\ review' = rating
  /\ AtOnce
  /\ UNCHANGED <<dispute, decided, sale, returns, followups, score, photos>>

\* Mutant: the report that reaches the threshold does not count itself.
HidesPast(reports) == reports >= Threshold

Hides(reports) == reports + 1 >= Threshold

\* Counted and hidden in one update.
ReportPhotos ==
  /\ photos.reports <= Threshold
  /\ photos' = [reports |-> photos.reports + 1, hidden |-> photos.hidden \/ Hides(photos.reports)]
  /\ AtOnce
  /\ UNCHANGED <<dispute, decided, sale, returns, followups, score, review>>

ModeratePhotos(visible) ==
  /\ photos' = [reports |-> IF visible THEN 0 ELSE photos.reports, hidden |-> ~visible]
  /\ AtOnce
  /\ UNCHANGED <<dispute, decided, sale, returns, followups, score, review>>

DisputeHandlerDies(w) ==
  /\ Dies(w)
  /\ UNCHANGED <<dispute, decided, sale, returns, followups, score, review, photos>>

DisputesNext ==
  \/ \E w \in Workers :
       \/ ScoreReturns(w) \/ ScoreCounts(w) \/ ScoreRow(w) \/ AddEvidence(w)
       \/ ClawbackRead(w) \/ ClawbackThrown(w) \/ Clawback(w) \/ ClawbackMark(w)
       \/ SettlementFollowup(w) \/ SweepOverdue(w) \/ DisputeHandlerDies(w)
       \/ \E d \in Cases :
            \/ EvidenceRead(w, d)
            \/ \E outcome \in {"upheld", "dismissed"}, clawback \in BOOLEAN :
                 Resolve(w, d, outcome, clawback)
  \/ \E d \in Cases : OpenDispute(d)
  \/ SettleCheckout
  \/ \E rating \in Ratings : CreateReview(rating)

PhotosNext == ReportPhotos \/ \E visible \in BOOLEAN : ModeratePhotos(visible)

(***************************************************************************)
(* Properties.                                                             *)
(***************************************************************************)

\* A dispute is resolved once, and stays resolved: unless evidence is being added meanwhile, which
\* opens it again.
ResolvedOnce ==
  Spared({"overlap"}) =>
    \A d \in Cases :
      /\ decided[d].times <= 1
      /\ decided[d].times = 1 => dispute[d].status = "resolved"

\* The customer gets his money once, however many disputes ask for it.
ReturnedOnce == sale.returned <= 1

\* A resolution that takes the money back did: unless it broke off, when it cannot be asked again.
ClawedBack ==
  AllIdle /\ Spared(Interrupted) =>
    ((\E d \in Cases : decided[d].times > 0 /\ decided[d].clawback) <=> sale.status = "refunded")

\* The newest score knows every dispute that was upheld and every consignment that ended, and
\* holds nothing against the seller that was not upheld.  Not when the resolution threw before the
\* score, nor when two computations overlap.
ScoreIsCurrent ==
  AllIdle /\ Spared(Interrupted) /\ followups = 0 /\ score # None =>
    score.upheld = Upheld /\ score.settled = returns.settled /\ score.overdue = returns.overdue

ScoreIsFair ==
  score # None => score.upheld <= Cardinality({d \in Cases : decided[d].upheld})

\* A score is a percentage, nobody gains by a dispute upheld, nor by being late rather than on
\* time, and somebody without a record stands no higher than where everybody starts.
ScoreMakesSense ==
  score # None =>
    /\ TrustScore(score) \in 0..100
    /\ TrustScore([score EXCEPT !.upheld = @ + 1]) <= TrustScore(score)
    /\ TrustScore([score EXCEPT !.overdue = @ + 1]) <= TrustScore([score EXCEPT !.settled = @ + 1])
    /\ score.settled + score.overdue = 0 => TrustScore(score) <= Starting

\* Photos that enough people reported are not shown, until a moderator has looked.
ReportedAreHidden == photos.reports >= Threshold => photos.hidden

DisputesRight ==
  /\ ResolvedOnce /\ ReturnedOnce /\ ClawedBack /\ ScoreIsCurrent /\ ScoreIsFair
  /\ ScoreMakesSense /\ ReportedAreHidden

=============================================================================
