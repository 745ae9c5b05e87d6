---------------------------- MODULE OrdersProofs ----------------------------
(***************************************************************************)
(* What holds of every order, however many handlers run at once, wherever  *)
(* they die and whatever Stripe delivers, for every set of orders and of   *)
(* workers.                                                                *)
(***************************************************************************)
EXTENDS Orders, TLAPS

\* The worker that is making order o real.
Announcing(w, o) == OrderOf(w) = o /\ task[w].step \in {"apply", "announce"}

\* Before an order is real no one announces it; while someone does he is alone, and nobody
\* has before.
OneHerald ==
  /\ \A o \in Orders : status[o] \in {"none", "checkout", "refused", "pending_payment"} =>
       announced[o] = 0 /\ \A w \in Workers : ~Announcing(w, o)
  /\ \A o \in Orders : \A w \in Workers : Announcing(w, o) =>
       announced[o] = 0 /\ \A v \in Workers : Announcing(v, o) => v = w

\* The worker that is checking order o out.
Placing(w, o) ==
  OrderOf(w) = o /\ task[w].step \in {"place_charge", "place_release", "place_order"}

\* A checkout is one worker's, and an order whose lines are being removed is past it.
OneBuyer ==
  /\ \A o \in Orders : \A w \in Workers : Placing(w, o) =>
       status[o] = "checkout" /\ \A v \in Workers : Placing(v, o) => v = w
  /\ \A w \in Workers : task[w].step \in {"remove_refund", "remove_update"} =>
       status[OrderOf(w)] \notin {"none", "checkout"}

IInv == TypeOK /\ OneBuyer /\ VendorOnlyPaid /\ OneHerald /\ AnnouncedOnce

\* The documents start with every order before its checkout.
LEMMA InitIInv == Init => IInv
BY OrdersAssumption
DEF Init, IInv, TypeOK, OneBuyer, Placing, VendorOnlyPaid, OneHerald, AnnouncedOnce, Announcing,
    Statuses, Steps, Mishaps,
    Resting, Idle, At, OrderOf

\* Types are kept by the first steps of handlers.
LEMMA CallTypes ==
  ASSUME TypeOK, NEW w \in Workers, NEW o \in Orders, Call(w, o)
  PROVE  TypeOK'
<1> USE OrdersAssumption
    DEF TypeOK, Statuses, Steps, Mishaps, Idle, OrderOf, Begin, Transition, stripe
<1>1. CASE \E c \in {"none", "part", "full"} : PlaceReserve(w, o, c)
  BY <1>1 DEF PlaceReserve
<1>2. CASE ConfirmClaim(w, o) BY <1>2 DEF ConfirmClaim
<1>3. CASE FailClaim(w, o) BY <1>3 DEF FailClaim
<1>4. CASE Complete(w, o) BY <1>4 DEF Complete
<1>5. CASE CancelClaim(w, o) BY <1>5 DEF CancelClaim
<1>6. CASE RemoveRead(w, o) BY <1>6 DEF RemoveRead
<1>7. CASE SweepRead(w, o) BY <1>7 DEF SweepRead
<1> QED BY <1>1, <1>2, <1>3, <1>4, <1>5, <1>6, <1>7 DEF Call

\* Types are kept by the handlers of one step and by what happens at Stripe.
LEMMA InstantTypes ==
  ASSUME TypeOK, NEW o \in Orders, Instant(o)
  PROVE  TypeOK'
<1> USE DEF TypeOK, Statuses, Steps, Mishaps, Idle, OrderOf, Transition, SettleTxn, stripe
<1>1. CASE CardClears(o) BY <1>1 DEF CardClears
<1>2. CASE CardDeclines(o) BY <1>2 DEF CardDeclines
<1>3. CASE SettlePaid(o) BY <1>3 DEF SettlePaid
<1>4. CASE FailTxn(o) BY <1>4 DEF FailTxn
<1>5. CASE Accept(o) BY <1>5 DEF Accept
<1>6. CASE Ready(o) BY <1>6 DEF Ready
<1> QED BY <1>1, <1>2, <1>3, <1>4, <1>5, <1>6 DEF Instant

\* Types are kept by the later steps of handlers.
LEMMA ContinueTypes ==
  ASSUME TypeOK, NEW w \in Workers, Continue(w) \/ PlaceBothOptions(w) \/ Crash(w)
  PROVE  TypeOK'
<1>0. None \notin Orders BY OrdersAssumption
<1> USE <1>0
    DEF TypeOK, Statuses, Steps, Mishaps, Idle, At, OrderOf, Goto, Finish, GotoAfter,
        FinishAfter, Resting, Transition, Redeem,
        SettleTxn, stripe
<1>1. CASE PlaceCharge(w)
  <2>1. OrderOf(w) \in Orders BY <1>1 DEF PlaceCharge
  <2>2. txn' \in [Orders -> {"none", "pending", "completed", "failed", "refunded"}]
    BY <1>1 DEF PlaceCharge
  <2>3. CASE Goto(w, "place_order") BY <1>1, <2>1, <2>2, <2>3 DEF PlaceCharge
  <2>4. CASE Goto(w, "place_release") BY <1>1, <2>1, <2>2, <2>4 DEF PlaceCharge
  <2> QED BY <1>1, <2>3, <2>4 DEF PlaceCharge
<1>2. CASE PlaceRelease(w) BY <1>2 DEF PlaceRelease
<1>3. CASE PlaceOrder(w)
  <2>1. OrderOf(w) \in Orders BY <1>3 DEF PlaceOrder
  <2>2. CASE At(w, "place_order") /\ Finish(w) /\ Transition(OrderOf(w), {"checkout"}, "pending_payment")
    BY <1>3, <2>1, <2>2 DEF PlaceOrder
  <2>3. CASE At(w, "place_charge") /\ Goto(w, "apply") /\ Transition(OrderOf(w), {"checkout"}, "pending")
    BY <1>3, <2>1, <2>3 DEF PlaceOrder
  <2> QED BY <1>3, <2>2, <2>3 DEF PlaceOrder
<1>4. CASE Apply(w) BY <1>4 DEF Apply
<1>5. CASE Announce(w)
  <2>1. OrderOf(w) \in Orders BY <1>5 DEF Announce
  <2>2. announced' \in [Orders -> Nat] BY <1>5, <2>1 DEF Announce
  <2>3. /\ UNCHANGED <<cover, status, txn, stripe, redemption>>
        /\ Finish(w) \/ Goto(w, "complete_txn")
    BY <1>5 DEF Announce
  <2>4. CASE Finish(w) BY <2>1, <2>2, <2>3, <2>4
  <2>5. CASE Goto(w, "complete_txn") BY <1>5, <2>1, <2>2, <2>3, <2>5 DEF Announce
  <2> QED BY <2>3, <2>4, <2>5
<1>6. CASE CompleteTxn(w) BY <1>6 DEF CompleteTxn
<1>7. CASE Release(w) BY <1>7 DEF Release
<1>8. CASE CancelRead(w) BY <1>8 DEF CancelRead
<1>9. CASE CancelStripe(w)
  <2>1. OrderOf(w) \in Orders BY <1>9 DEF CancelStripe
  <2>2. refunded' \in [Orders -> {"no", "lines", "all"}] BY <1>9 DEF CancelStripe
  <2>3. CASE Goto(w, "cancel_mark") BY <1>9, <2>1, <2>2, <2>3 DEF CancelStripe
  <2>4. CASE GotoAfter(w, "refund_refused", "cancel_community")
    BY <1>9, <2>1, <2>2, <2>4 DEF CancelStripe
  <2> QED BY <1>9, <2>3, <2>4 DEF CancelStripe
<1>10. CASE CancelMark(w) BY <1>10 DEF CancelMark
<1>11. CASE CancelCommunity(w) BY <1>11 DEF CancelCommunity
<1>12. CASE RemoveRefund(w)
  <2>1. OrderOf(w) \in Orders BY <1>12 DEF RemoveRefund
  <2>2. refunded' \in [Orders -> {"no", "lines", "all"}] BY <1>12 DEF RemoveRefund
  <2>3. CASE Goto(w, "remove_update") BY <1>12, <2>1, <2>2, <2>3 DEF RemoveRefund
  <2>4. CASE Finish(w) BY <1>12, <2>1, <2>2, <2>4 DEF RemoveRefund
  <2>5. CASE GotoAfter(w, "line_removed", "remove_update")
    BY <1>12, <2>1, <2>2, <2>5 DEF RemoveRefund
  <2> QED BY <1>12, <2>3, <2>4, <2>5 DEF RemoveRefund
<1>13. CASE RemoveUpdate(w) BY <1>13 DEF RemoveUpdate
<1>14. CASE SweepTxn(w)
  <2>1. OrderOf(w) \in Orders BY <1>14 DEF SweepTxn
  <2>2. CASE Goto(w, "sweep_redeem") BY <1>14, <2>1, <2>2 DEF SweepTxn
  <2>3. CASE Finish(w) BY <1>14, <2>1, <2>3 DEF SweepTxn
  <2> QED BY <1>14, <2>2, <2>3 DEF SweepTxn
<1>15. CASE SweepRedeem(w)
  <2>1. OrderOf(w) \in Orders BY <1>15 DEF SweepRedeem
  <2>2. CASE GotoAfter(w, "swept", "sweep_close") BY <1>15, <2>1, <2>2 DEF SweepRedeem
  <2>3. CASE Finish(w) BY <1>15, <2>1, <2>3 DEF SweepRedeem
  <2> QED BY <1>15, <2>2, <2>3 DEF SweepRedeem
<1>16. CASE SweepClose(w) BY <1>16 DEF SweepClose
<1>17. CASE PlaceBothOptions(w) BY <1>17 DEF PlaceBothOptions
<1>18. CASE Crash(w) BY <1>18 DEF Crash
<1> QED
  BY <1>1, <1>2, <1>3, <1>4, <1>5, <1>6, <1>7, <1>8, <1>9,
     <1>10, <1>11, <1>12, <1>13, <1>14, <1>15, <1>16, <1>17, <1>18 DEF Continue

\* No step lets a second handler into a checkout, or moves an order from under it.
LEMMA BuyerStep ==
  ASSUME TypeOK, OneBuyer, Next
  PROVE  OneBuyer'
<1>0. None \notin Orders BY OrdersAssumption
<1> USE <1>0
    DEF OneBuyer, Placing, TypeOK, Statuses, Steps, Mishaps, Idle, At, OrderOf, Begin, Goto,
        Finish, GotoAfter, FinishAfter, Resting, Transition, stripe
<1>1. ASSUME NEW w \in Workers, NEW o \in Orders, Call(w, o) PROVE OneBuyer'
  <2>1. CASE \E c \in {"none", "part", "full"} : PlaceReserve(w, o, c)
    BY <2>1 DEF PlaceReserve
  <2>2. CASE ConfirmClaim(w, o) BY <2>2 DEF ConfirmClaim
  <2>3. CASE FailClaim(w, o) BY <2>3 DEF FailClaim
  <2>4. CASE Complete(w, o) BY <2>4 DEF Complete
  <2>5. CASE CancelClaim(w, o) BY <2>5 DEF CancelClaim
  <2>6. CASE RemoveRead(w, o) BY <2>6 DEF RemoveRead
  <2>7. CASE SweepRead(w, o) BY <2>7 DEF SweepRead
  <2> QED BY <1>1, <2>1, <2>2, <2>3, <2>4, <2>5, <2>6, <2>7 DEF Call
<1>2. ASSUME NEW o \in Orders, Instant(o) PROVE OneBuyer'
  <2>1. CASE CardClears(o) BY <2>1 DEF CardClears
  <2>2. CASE CardDeclines(o) BY <2>2 DEF CardDeclines
  <2>3. CASE SettlePaid(o) BY <2>3 DEF SettlePaid
  <2>4. CASE FailTxn(o) BY <2>4 DEF FailTxn
  <2>5. CASE Accept(o) BY <2>5 DEF Accept
  <2>6. CASE Ready(o) BY <2>6 DEF Ready
  <2> QED BY <1>2, <2>1, <2>2, <2>3, <2>4, <2>5, <2>6 DEF Instant
<1>3. ASSUME NEW w \in Workers, Continue(w) \/ PlaceBothOptions(w) \/ Crash(w) PROVE OneBuyer'
  <2>1. CASE PlaceCharge(w)
    <3>1. CASE Goto(w, "place_order") BY <2>1, <3>1 DEF PlaceCharge
    <3>2. CASE Goto(w, "place_release") BY <2>1, <3>2 DEF PlaceCharge
    <3> QED BY <2>1, <3>1, <3>2 DEF PlaceCharge
  <2>2. CASE PlaceRelease(w) BY <2>2 DEF PlaceRelease
  <2>3. CASE PlaceOrder(w)
    <3>1. Finish(w) \/ Goto(w, "apply") BY <2>3 DEF PlaceOrder
    <3>2. /\ Placing(w, OrderOf(w))
          /\ OrderOf(w) \in Orders
          /\ status' \in {[status EXCEPT ![OrderOf(w)] = x] : x \in {"pending", "pending_payment"}}
      BY <2>3 DEF PlaceOrder
    <3>3. CASE Finish(w) BY <3>2, <3>3
    <3>4. CASE Goto(w, "apply") BY <3>2, <3>4
    <3> QED BY <3>1, <3>3, <3>4
  <2>4. CASE Apply(w) BY <2>4 DEF Apply
  <2>5. CASE Announce(w)
    <3>1. Finish(w) \/ Goto(w, "complete_txn") BY <2>5 DEF Announce
    <3>2. status' = status BY <2>5 DEF Announce
    <3>3. CASE Finish(w) BY <3>2, <3>3
    <3>4. CASE Goto(w, "complete_txn") BY <3>2, <3>4
    <3> QED BY <3>1, <3>3, <3>4
  <2>6. CASE CompleteTxn(w) BY <2>6 DEF CompleteTxn
  <2>7. CASE Release(w) BY <2>7 DEF Release
  <2>8. CASE CancelRead(w) BY <2>8 DEF CancelRead
  <2>9. CASE CancelStripe(w)
    <3>1. CASE Goto(w, "cancel_mark") BY <2>9, <3>1 DEF CancelStripe
    <3>2. CASE GotoAfter(w, "refund_refused", "cancel_community") BY <2>9, <3>2 DEF CancelStripe
    <3> QED BY <2>9, <3>1, <3>2 DEF CancelStripe
  <2>10. CASE CancelMark(w) BY <2>10 DEF CancelMark
  <2>11. CASE CancelCommunity(w) BY <2>11 DEF CancelCommunity
  <2>12. CASE RemoveRefund(w)
    <3>1. CASE Goto(w, "remove_update") BY <2>12, <3>1 DEF RemoveRefund
    <3>2. CASE Finish(w) BY <2>12, <3>2 DEF RemoveRefund
    <3>3. CASE GotoAfter(w, "line_removed", "remove_update") BY <2>12, <3>3 DEF RemoveRefund
    <3> QED BY <2>12, <3>1, <3>2, <3>3 DEF RemoveRefund
  <2>13. CASE RemoveUpdate(w) BY <2>13 DEF RemoveUpdate
  <2>14. CASE SweepTxn(w)
    <3>1. Finish(w) \/ Goto(w, "sweep_redeem") BY <2>14 DEF SweepTxn
    <3>2. status' = status BY <2>14 DEF SweepTxn
    <3>3. CASE Finish(w) BY <3>2, <3>3
    <3>4. CASE Goto(w, "sweep_redeem") BY <3>2, <3>4
    <3> QED BY <3>1, <3>3, <3>4
  <2>15. CASE SweepRedeem(w)
    <3>1. CASE GotoAfter(w, "swept", "sweep_close") BY <2>15, <3>1 DEF SweepRedeem
    <3>2. CASE Finish(w) BY <2>15, <3>2 DEF SweepRedeem
    <3> QED BY <2>15, <3>1, <3>2 DEF SweepRedeem
  <2>16. CASE SweepClose(w) BY <2>16 DEF SweepClose
  <2>17. CASE PlaceBothOptions(w) BY <2>17 DEF PlaceBothOptions
  <2>18. CASE Crash(w) BY <2>18 DEF Crash
  <2> QED
    BY <1>3, <2>1, <2>2, <2>3, <2>4, <2>5, <2>6, <2>7, <2>8, <2>9, <2>10,
        <2>11, <2>12, <2>13, <2>14, <2>15, <2>16, <2>17, <2>18 DEF Continue
<1> QED BY <1>1, <1>2, <1>3 DEF Next

\* No step shows the vendor an order that is not paid for.
LEMMA PaidStep ==
  ASSUME TypeOK, OneBuyer, VendorOnlyPaid, Next
  PROVE  VendorOnlyPaid'
<1>0. None \notin Orders BY OrdersAssumption
<1> USE <1>0
    DEF VendorOnlyPaid, TypeOK, Statuses, Steps, Mishaps, Idle, At, OrderOf, Begin, Goto,
        Finish, GotoAfter, FinishAfter, Resting, Transition, stripe
<1>1. ASSUME NEW w \in Workers, NEW o \in Orders, Call(w, o) PROVE VendorOnlyPaid'
  <2>1. CASE \E c \in {"none", "part", "full"} : PlaceReserve(w, o, c)
    BY <2>1 DEF PlaceReserve
  <2>2. CASE ConfirmClaim(w, o) BY <2>2 DEF ConfirmClaim
  <2>3. CASE FailClaim(w, o) BY <2>3 DEF FailClaim
  <2>4. CASE Complete(w, o) BY <2>4 DEF Complete
  <2>5. CASE CancelClaim(w, o) BY <2>5 DEF CancelClaim
  <2>6. CASE RemoveRead(w, o) BY <2>6 DEF RemoveRead
  <2>7. CASE SweepRead(w, o) BY <2>7 DEF SweepRead
  <2> QED BY <1>1, <2>1, <2>2, <2>3, <2>4, <2>5, <2>6, <2>7 DEF Call
<1>2. ASSUME NEW o \in Orders, Instant(o) PROVE VendorOnlyPaid'
  <2>1. CASE CardClears(o) BY <2>1 DEF CardClears
  <2>2. CASE CardDeclines(o) BY <2>2 DEF CardDeclines
  <2>3. CASE SettlePaid(o) BY <2>3 DEF SettlePaid
  <2>4. CASE FailTxn(o) BY <2>4 DEF FailTxn
  <2>5. CASE Accept(o) BY <2>5 DEF Accept
  <2>6. CASE Ready(o) BY <2>6 DEF Ready
  <2> QED BY <1>2, <2>1, <2>2, <2>3, <2>4, <2>5, <2>6 DEF Instant
<1>3. ASSUME NEW w \in Workers, Continue(w) \/ PlaceBothOptions(w) \/ Crash(w) PROVE VendorOnlyPaid'
  <2>1. CASE PlaceCharge(w) BY <2>1 DEF PlaceCharge, OneBuyer, Placing
  <2>2. CASE PlaceRelease(w) BY <2>2 DEF PlaceRelease
  <2>3. CASE PlaceOrder(w) BY <2>3 DEF PlaceOrder
  <2>4. CASE Apply(w) BY <2>4 DEF Apply
  <2>5. CASE Announce(w) BY <2>5 DEF Announce
  <2>6. CASE CompleteTxn(w) BY <2>6 DEF CompleteTxn
  <2>7. CASE Release(w) BY <2>7 DEF Release
  <2>8. CASE CancelRead(w) BY <2>8 DEF CancelRead
  <2>9. CASE CancelStripe(w) BY <2>9 DEF CancelStripe
  <2>10. CASE CancelMark(w) BY <2>10 DEF CancelMark
  <2>11. CASE CancelCommunity(w) BY <2>11 DEF CancelCommunity
  <2>12. CASE RemoveRefund(w) BY <2>12 DEF RemoveRefund
  <2>13. CASE RemoveUpdate(w) BY <2>13 DEF RemoveUpdate
  <2>14. CASE SweepTxn(w) BY <2>14 DEF SweepTxn
  <2>15. CASE SweepRedeem(w) BY <2>15 DEF SweepRedeem
  <2>16. CASE SweepClose(w) BY <2>16 DEF SweepClose
  <2>17. CASE PlaceBothOptions(w) BY <2>17 DEF PlaceBothOptions
  <2>18. CASE Crash(w) BY <2>18 DEF Crash
  <2> QED
    BY <1>3, <2>1, <2>2, <2>3, <2>4, <2>5, <2>6, <2>7, <2>8, <2>9, <2>10,
        <2>11, <2>12, <2>13, <2>14, <2>15, <2>16, <2>17, <2>18 DEF Continue
<1> QED BY <1>1, <1>2, <1>3 DEF Next

\* No step lets a second handler announce an order, or one that nobody owns.
LEMMA HeraldStep ==
  ASSUME TypeOK, OneHerald, AnnouncedOnce, Next
  PROVE  OneHerald' /\ AnnouncedOnce'
<1>0. None \notin Orders BY OrdersAssumption
<1> USE <1>0
    DEF OneHerald, AnnouncedOnce, Announcing, TypeOK, Statuses, Steps, Mishaps, Idle, At,
        OrderOf, Begin, Goto, Finish, GotoAfter, FinishAfter, Resting, Transition, stripe
<1>1. ASSUME NEW w \in Workers, NEW o \in Orders, Call(w, o) PROVE OneHerald' /\ AnnouncedOnce'
  <2>1. CASE \E c \in {"none", "part", "full"} : PlaceReserve(w, o, c)
    BY <2>1 DEF PlaceReserve
  <2>2. CASE ConfirmClaim(w, o) BY <2>2 DEF ConfirmClaim
  <2>3. CASE FailClaim(w, o) BY <2>3 DEF FailClaim
  <2>4. CASE Complete(w, o) BY <2>4 DEF Complete
  <2>5. CASE CancelClaim(w, o) BY <2>5 DEF CancelClaim
  <2>6. CASE RemoveRead(w, o) BY <2>6 DEF RemoveRead
  <2>7. CASE SweepRead(w, o) BY <2>7 DEF SweepRead
  <2> QED BY <1>1, <2>1, <2>2, <2>3, <2>4, <2>5, <2>6, <2>7 DEF Call
<1>2. ASSUME NEW o \in Orders, Instant(o) PROVE OneHerald' /\ AnnouncedOnce'
  <2>1. CASE CardClears(o) BY <2>1 DEF CardClears
  <2>2. CASE CardDeclines(o) BY <2>2 DEF CardDeclines
  <2>3. CASE SettlePaid(o) BY <2>3 DEF SettlePaid
  <2>4. CASE FailTxn(o) BY <2>4 DEF FailTxn
  <2>5. CASE Accept(o) BY <2>5 DEF Accept
  <2>6. CASE Ready(o) BY <2>6 DEF Ready
  <2> QED BY <1>2, <2>1, <2>2, <2>3, <2>4, <2>5, <2>6 DEF Instant
<1>3. ASSUME NEW w \in Workers, Continue(w) \/ PlaceBothOptions(w) \/ Crash(w) PROVE OneHerald' /\ AnnouncedOnce'
  <2>1. CASE PlaceCharge(w)
    <3>1. CASE Goto(w, "place_order") BY <2>1, <3>1 DEF PlaceCharge
    <3>2. CASE Goto(w, "place_release") BY <2>1, <3>2 DEF PlaceCharge
    <3> QED BY <2>1, <3>1, <3>2 DEF PlaceCharge
  <2>2. CASE PlaceRelease(w) BY <2>2 DEF PlaceRelease
  <2>3. CASE PlaceOrder(w)
    <3>1. /\ announced' = announced
          /\ OrderOf(w) \in Orders
          /\ status[OrderOf(w)] = "checkout"
          /\ Finish(w) \/ Goto(w, "apply")
          /\ status' \in {[status EXCEPT ![OrderOf(w)] = x] : x \in {"pending", "pending_payment"}}
          /\ Goto(w, "apply") => status' = [status EXCEPT ![OrderOf(w)] = "pending"]
      BY <2>3 DEF PlaceOrder
    <3>2. CASE Finish(w) BY <3>1, <3>2
    <3>3. CASE Goto(w, "apply") BY <3>1, <3>3
    <3> QED BY <3>1, <3>2, <3>3
  <2>4. CASE Apply(w) BY <2>4 DEF Apply
  <2>5. CASE Announce(w)
    <3>1. Finish(w) \/ Goto(w, "complete_txn") BY <2>5 DEF Announce
    <3>2. /\ status' = status
          /\ Announcing(w, OrderOf(w))
          /\ OrderOf(w) \in Orders
          /\ announced' = [announced EXCEPT ![OrderOf(w)] = announced[OrderOf(w)] + 1]
      BY <2>5 DEF Announce
    <3>3. /\ announced[OrderOf(w)] = 0
          /\ \A v \in Workers : Announcing(v, OrderOf(w)) => v = w
      BY <3>2
    <3>4. CASE Finish(w) BY <3>2, <3>3, <3>4
    <3>5. CASE Goto(w, "complete_txn") BY <3>2, <3>3, <3>5
    <3> QED BY <3>1, <3>4, <3>5
  <2>6. CASE CompleteTxn(w) BY <2>6 DEF CompleteTxn
  <2>7. CASE Release(w) BY <2>7 DEF Release
  <2>8. CASE CancelRead(w) BY <2>8 DEF CancelRead
  <2>9. CASE CancelStripe(w)
    <3>1. CASE Goto(w, "cancel_mark") BY <2>9, <3>1 DEF CancelStripe
    <3>2. CASE GotoAfter(w, "refund_refused", "cancel_community") BY <2>9, <3>2 DEF CancelStripe
    <3> QED BY <2>9, <3>1, <3>2 DEF CancelStripe
  <2>10. CASE CancelMark(w) BY <2>10 DEF CancelMark
  <2>11. CASE CancelCommunity(w) BY <2>11 DEF CancelCommunity
  <2>12. CASE RemoveRefund(w)
    <3>1. CASE Goto(w, "remove_update") BY <2>12, <3>1 DEF RemoveRefund
    <3>2. CASE Finish(w) BY <2>12, <3>2 DEF RemoveRefund
    <3>3. CASE GotoAfter(w, "line_removed", "remove_update") BY <2>12, <3>3 DEF RemoveRefund
    <3> QED BY <2>12, <3>1, <3>2, <3>3 DEF RemoveRefund
  <2>13. CASE RemoveUpdate(w) BY <2>13 DEF RemoveUpdate
  <2>14. CASE SweepTxn(w)
    <3>1. Finish(w) \/ Goto(w, "sweep_redeem") BY <2>14 DEF SweepTxn
    <3>2. status' = status /\ announced' = announced BY <2>14 DEF SweepTxn
    <3>3. CASE Finish(w) BY <3>2, <3>3
    <3>4. CASE Goto(w, "sweep_redeem") BY <3>2, <3>4
    <3> QED BY <3>1, <3>3, <3>4
  <2>15. CASE SweepRedeem(w)
    <3>1. CASE GotoAfter(w, "swept", "sweep_close") BY <2>15, <3>1 DEF SweepRedeem
    <3>2. CASE Finish(w) BY <2>15, <3>2 DEF SweepRedeem
    <3> QED BY <2>15, <3>1, <3>2 DEF SweepRedeem
  <2>16. CASE SweepClose(w) BY <2>16 DEF SweepClose
  <2>17. CASE PlaceBothOptions(w) BY <2>17 DEF PlaceBothOptions
  <2>18. CASE Crash(w) BY <2>18 DEF Crash
  <2> QED
    BY <1>3, <2>1, <2>2, <2>3, <2>4, <2>5, <2>6, <2>7, <2>8, <2>9, <2>10,
        <2>11, <2>12, <2>13, <2>14, <2>15, <2>16, <2>17, <2>18 DEF Continue
<1> QED BY <1>1, <1>2, <1>3 DEF Next

\* The invariant holds throughout.
THEOREM IInvHolds == Spec => []IInv
<1>1. ASSUME IInv, [Next]_vars PROVE IInv'
  <2>1. CASE Next
    <3>1. TypeOK'
      BY <1>1, <2>1, CallTypes, InstantTypes, ContinueTypes DEF IInv, Next
    <3> QED BY <1>1, <2>1, <3>1, BuyerStep, PaidStep, HeraldStep DEF IInv
  <2>2. CASE UNCHANGED vars
    BY <1>1, <2>2
    DEF IInv, TypeOK, OneBuyer, Placing, VendorOnlyPaid, OneHerald, Announcing, AnnouncedOnce,
        vars, Idle, OrderOf
  <2> QED BY <1>1, <2>1, <2>2
<1> QED BY <1>1, InitIInv, PTL DEF Spec

\* The documents of an order, the worker's place in a handler and what Stripe holds have
\* their types in every behaviour of place, cancel, the webhooks and the sweep.
THEOREM TypeCorrect == Spec => []TypeOK
BY IInvHolds, PTL DEF IInv

\* The vendor's screen never shows an order that is not paid for: place and
\* confirmByPaymentIntent are the only ways to 'pending', and money is real at both.
THEOREM VendorSeesPaidOrders == Spec => []VendorOnlyPaid
BY IInvHolds, PTL DEF IInv

\* announcePlaced runs at most once for an order: the guarded transition to 'pending' is
\* the idempotency of confirmByPaymentIntent.
THEOREM OneAnnouncement == Spec => []AnnouncedOnce
BY IInvHolds, PTL DEF IInv

\* Unless a line was removed, no handler moves an order that was handed over or cancelled:
\* every other write to orders.status is guarded by the status it moves from.
THEOREM FinishedOrdersStay == Spec => TerminalStays
<1> DEFINE Stays ==
      \A o \in Orders : status[o] \in {"completed", "cancelled"} /\ "line_removed" \notin befell'[o]
                          => status'[o] = status[o]
<1>1. ASSUME IInv, [Next]_vars PROVE [Stays]_vars
  <2> SUFFICES ASSUME Next, NEW p \in Orders, status[p] \in {"completed", "cancelled"},
                      "line_removed" \notin befell'[p]
               PROVE  status'[p] = status[p]
    BY <1>1
  <2> USE <1>1 DEF IInv, TypeOK, Transition
  <2>1. ASSUME NEW w \in Workers, NEW o \in Orders, Call(w, o) PROVE status'[p] = status[p]
    BY <2>1
    DEF Call, PlaceReserve, ConfirmClaim, FailClaim, Complete, CancelClaim, RemoveRead,
        SweepRead
  <2>2. ASSUME NEW o \in Orders, Instant(o) PROVE status'[p] = status[p]
    BY <2>2 DEF Instant, CardClears, CardDeclines, SettlePaid, FailTxn, Accept, Ready
  <2>3. ASSUME NEW w \in Workers, Continue(w) \/ PlaceBothOptions(w) \/ Crash(w)
        PROVE  status'[p] = status[p]
    <3>1. CASE RemoveUpdate(w) BY <3>1 DEF RemoveUpdate, FinishAfter
    <3>2. CASE PlaceRelease(w) \/ PlaceOrder(w) \/ PlaceBothOptions(w)
      BY <3>2 DEF PlaceRelease, PlaceOrder, PlaceBothOptions
    <3>3. CASE SweepClose(w) BY <3>3 DEF SweepClose
    <3>4. CASE status' = status BY <3>4
    <3> QED
      BY <2>3, <3>1, <3>2, <3>3, <3>4
      DEF Continue, PlaceCharge, Apply, Announce, CompleteTxn, Release, CancelRead,
          CancelStripe, CancelMark, CancelCommunity, RemoveRefund, SweepTxn, SweepRedeem, Crash
  <2> QED BY <2>1, <2>2, <2>3 DEF Next
<1>2. IInv /\ [Next]_vars => [Stays]_vars
  BY <1>1
<1> QED BY IInvHolds, <1>2, PTL DEF Spec, TerminalStays

-----------------------------------------------------------------------------
(***************************************************************************)
(* The money of one order.  What the properties say of an order nobody is  *)
(* at work on rests on what holds of it half way through every handler,    *)
(* beside every other.                                                     *)
(***************************************************************************)

\* The statuses in which the vendor sees an order, or handed it over.
Served == {"pending", "accepted", "ready", "completed"}

\* None of these befell order o.
Spared(o, mishaps) == \A m \in mishaps : m \notin befell[o]

\* Handler w, or some handler, is about to do one of the steps to order o.
Doing(w, o, steps) == OrderOf(w) = o /\ task[w].step \in steps

UnderWay(o, steps) == \E w \in Workers : Doing(w, o, steps)

\* How the documents of an order go together.
Documents(o) ==
  /\ status[o] \in {"none", "checkout", "refused"} =>
       /\ intent[o] # "succeeded" /\ ~declined[o]
       /\ txn[o] \in {"none", "pending"} /\ refunded[o] = "no"
  /\ status[o] \in {"none", "refused"} => intent[o] = "none"
  /\ status[o] = "none" => txn[o] = "none" /\ redemption[o] = "none"
  /\ redemption[o] = "none" <=> cover[o] = "none"
  /\ cover[o] = "full" => txn[o] = "none" /\ intent[o] = "none" /\ refunded[o] = "no"
  /\ status[o] \in {"checkout", "pending_payment"} => redemption[o] \in {"none", "reserved"}
  /\ status[o] = "pending_payment" => cover[o] # "full" /\ txn[o] \in {"pending", "completed"}
  /\ status[o] \in Served /\ cover[o] # "full" => txn[o] # "none"
  /\ status[o] = "cancelled" => intent[o] = "succeeded" \/ declined[o] \/ cover[o] = "full"
  /\ declined[o] => intent[o] # "none"
  /\ declined[o] /\ intent[o] = "succeeded" => "second_card" \in befell[o]
  /\ txn[o] = "failed" => declined[o]
  /\ txn[o] \in {"completed", "refunded"} => intent[o] = "succeeded"
  /\ txn[o] = "refunded" \/ refunded[o] = "all" => status[o] = "cancelled"
  /\ refunded[o] = "lines" => "line_removed" \in befell[o]

\* What a handler half way knows of its order.
Handlers(o) ==
  \A w \in Workers :
    /\ Doing(w, o, {"place_charge"}) => txn[o] = "none" /\ intent[o] = "none"
    /\ Doing(w, o, {"place_release"}) => intent[o] = "none"
    /\ Doing(w, o, {"place_order"}) => cover[o] # "full" /\ txn[o] = "pending"
    /\ Doing(w, o, {"apply", "announce", "complete_txn"}) =>
         intent[o] = "succeeded" \/ cover[o] = "full"
    /\ Doing(w, o, {"release", "cancel_read", "cancel_stripe", "cancel_mark",
                    "cancel_community"}) =>
         status[o] = "cancelled"
    /\ Doing(w, o, {"cancel_read", "cancel_stripe"}) => cover[o] # "full"
    /\ Doing(w, o, {"remove_refund", "remove_update", "sweep_txn", "sweep_redeem",
                    "sweep_close"}) =>
         status[o] \in Served \cup {"cancelled"}

\* One handler at a time, unless two overlapped.
Alone(o) ==
  Spared(o, {"overlap"}) =>
    \A v, w \in Workers : OrderOf(v) = o /\ OrderOf(w) = o => v = w

\* The refund of a line is followed by the order's cancellation.
GivenBack(o) ==
  Spared(o, {"crash"}) /\ refunded[o] = "lines" =>
    status[o] = "cancelled" \/ UnderWay(o, {"remove_update"})

\* Who hands an order over settles its transaction.
Settles(o) ==
  Spared(o, {"crash", "second_card"}) /\ status[o] = "completed" /\ txn[o] = "pending" =>
    UnderWay(o, {"complete_txn"})

\* The community's share of an order the vendor sees is spent, or about to be.
Spends(o) ==
  Spared(o, {"crash", "swept"}) /\ status[o] \in Served /\ cover[o] # "none" =>
    redemption[o] = "applied" \/ (redemption[o] = "reserved" /\ UnderWay(o, {"apply"}))

\* It is held as long as the order may be paid for, or somebody is about to decide.
Holds(o) ==
  Spared(o, {"crash", "both_options"}) /\ redemption[o] = "reserved" =>
    \/ status[o] = "pending_payment"
    \/ UnderWay(o, {"place_charge", "place_release", "place_order", "apply", "release"})

\* Who makes an order real settles its transaction before anybody else has a hand in it.
Clears(o) ==
  Spared(o, {"crash", "overlap"}) /\ status[o] \in Served /\ txn[o] = "pending" =>
    UnderWay(o, {"apply", "announce", "complete_txn"})

\* An order being swept has no card payment, and one being announced or swept is not over.
Sweeps(o) ==
  Spared(o, {"crash", "overlap"}) => \A w \in Workers :
     /\ Doing(w, o, {"apply", "announce", "sweep_txn", "sweep_redeem", "sweep_close"}) =>
          status[o] \in {"pending", "accepted", "ready"}
     /\ Doing(w, o, {"sweep_redeem", "sweep_close"}) => cover[o] = "full"
     /\ Doing(w, o, {"sweep_close"}) => redemption[o] = "released"

\* Who cancels an order gives the community's share back.
Shares(o) ==
  /\ Spared(o, {"crash", "overlap", "line_removed"})
  /\ status[o] = "cancelled" /\ redemption[o] = "applied"
  => UnderWay(o, {"cancel_read", "cancel_stripe", "cancel_mark", "cancel_community"})

\* Who cancels an order the card paid for finds its transaction settled and refunds it.
Refunds(o) ==
  /\ Spared(o, {"crash", "overlap", "second_card", "refund_refused", "line_removed"})
  /\ status[o] = "cancelled" /\ intent[o] = "succeeded" /\ refunded[o] # "all"
  => UnderWay(o, {"cancel_read", "cancel_stripe"}) /\ txn[o] = "completed"

\* All of it.
Accounted(o) ==
  /\ Documents(o) /\ Handlers(o) /\ Alone(o)
  /\ GivenBack(o) /\ Settles(o) /\ Spends(o) /\ Holds(o)
  /\ Clears(o) /\ Sweeps(o) /\ Shares(o) /\ Refunds(o)

\* Handler v's is the only task that changes.
Others(w) == \A v \in Workers : v # w => task'[v] = task[v]

Grows(o) == befell[o] \subseteq befell'[o]

\* Handler w begins on order o with step s; it may not be alone there.
Begins(w, o, s) ==
  /\ Idle(w) /\ Others(w) /\ Grows(o)
  /\ task'[w].step = s /\ OrderOf(w)' = o
  /\ (\E v \in Workers : OrderOf(v) = o) => "overlap" \in befell'[o]

\* Handler w goes on with order o to step s.
GoesOn(w, o, s) ==
  /\ OrderOf(w) = o /\ Others(w) /\ Grows(o)
  /\ task'[w].step = s /\ OrderOf(w)' = o

\* Handler w is done with order o.
Ends(w, o) ==
  /\ OrderOf(w) = o /\ Others(w) /\ Grows(o)
  /\ task'[w].step = "idle" /\ OrderOf(w)' = None

\* Nothing happens to order p, and no handler of its moves, comes or goes.
Untouched(p) ==
  /\ status'[p] = status[p] /\ cover'[p] = cover[p] /\ txn'[p] = txn[p]
  /\ intent'[p] = intent[p] /\ declined'[p] = declined[p] /\ refunded'[p] = refunded[p]
  /\ redemption'[p] = redemption[p] /\ befell'[p] = befell[p]
  /\ \A v \in Workers : /\ OrderOf(v)' = p <=> OrderOf(v) = p
                        /\ OrderOf(v) = p => task'[v] = task[v]

OnlyOn(o) == \A p \in Orders \ {o} : Untouched(p)

\* What the first invariant says of order o.
Known(o) ==
  /\ status[o] \in Statuses
  /\ cover[o] \in {"none", "part", "full"}
  /\ txn[o] \in {"none", "pending", "completed", "failed", "refunded"}
  /\ intent[o] \in {"none", "open", "succeeded"}
  /\ declined[o] \in BOOLEAN
  /\ refunded[o] \in {"no", "lines", "all"}
  /\ redemption[o] \in {"none", "reserved", "applied", "released", "refunded"}
  /\ status[o] \in Served => cover[o] = "full" \/ intent[o] = "succeeded"
  /\ \A w \in Workers :
       /\ OrderOf(w) = o => ~Idle(w)
       /\ Doing(w, o, {"place_charge", "place_release", "place_order"}) => 
            /\ status[o] = "checkout"
            /\ \A v \in Workers :
                 Doing(v, o, {"place_charge", "place_release", "place_order"}) => v = w
       /\ Doing(w, o, {"apply", "announce"}) =>
            /\ status[o] \in Served \cup {"cancelled"}
            /\ \A v \in Workers : Doing(v, o, {"apply", "announce"}) => v = w

\* What the first invariant says of one order.
LEMMA FirstKnows ==
  ASSUME IInv, IInv', NEW o \in Orders
  PROVE  Known(o) /\ Known(o)'
<1> USE DEF Served, Doing, Idle, OrderOf
<1>1. Known(o)
  BY OrdersAssumption
  DEF IInv, TypeOK, OneBuyer, Placing, VendorOnlyPaid, OneHerald, Announcing, Known, Statuses
<1>2. Known(o)'
  BY OrdersAssumption
  DEF IInv, TypeOK, OneBuyer, Placing, VendorOnlyPaid, OneHerald, Announcing, Known, Statuses
<1> QED BY <1>1, <1>2

(***************************************************************************)
(* The first steps of handlers.                                            *)
(***************************************************************************)

LEMMA PlaceReserveKeeps ==
  ASSUME IInv, IInv', NEW w \in Workers, NEW o \in Orders, NEW c \in {"none", "part", "full"},
         PlaceReserve(w, o, c), Accounted(o)
  PROVE  OnlyOn(o) /\ Accounted(o)'
<1> USE OrdersAssumption
    DEF Known, Statuses, Served, Spared, Doing, UnderWay, Others, Grows, Begins, GoesOn, Ends,
        Idle, At, OrderOf
<1>1. /\ o \in Orders /\ OnlyOn(o)
      /\ Begins(w, o, "place_charge")
      /\ status[o] = "none" /\ status'[o] = "checkout"
      /\ cover'[o] = c
      /\ redemption'[o] = IF c = "none" THEN redemption[o] ELSE "reserved"
      /\ UNCHANGED <<txn, intent, declined, refunded>>
  BY DEF PlaceReserve, IInv, TypeOK, Begin, Transition, stripe, OnlyOn, Untouched
<1>2. Known(o) /\ Known(o)'
  <2>1. o \in Orders
    BY <1>1
  <2> QED
    BY <2>1, FirstKnows
<1>3. /\ Documents(o)' /\ Alone(o)' /\ GivenBack(o)' /\ Settles(o)'
      /\ Spends(o)' /\ Holds(o)' /\ Clears(o)' /\ Sweeps(o)'
      /\ Shares(o)' /\ Refunds(o)'
  BY <1>1, <1>2
  DEF Accounted, Documents, Alone, GivenBack, Settles, Spends, Holds, Clears, Sweeps, Shares,
      Refunds
<1>4. Handlers(o)'
  BY <1>1, <1>2 DEF Accounted, Documents, Handlers
<1> QED
  BY <1>1, <1>3, <1>4 DEF Accounted

LEMMA ConfirmClaimKeeps ==
  ASSUME IInv, IInv', NEW w \in Workers, NEW o \in Orders,
         ConfirmClaim(w, o), Accounted(o)
  PROVE  OnlyOn(o) /\ Accounted(o)'
<1> USE OrdersAssumption
    DEF Known, Statuses, Served, Spared, Doing, UnderWay, Others, Grows, Begins, GoesOn, Ends,
        Idle, At, OrderOf
<1>1. /\ o \in Orders /\ OnlyOn(o)
      /\ Begins(w, o, "apply")
      /\ status[o] = "pending_payment" /\ status'[o] = "pending" /\ intent[o] = "succeeded"
      /\ UNCHANGED <<cover, txn, intent, declined, refunded, redemption>>
  BY DEF ConfirmClaim, IInv, TypeOK, Begin, Transition, stripe, OnlyOn, Untouched
<1>2. Known(o) /\ Known(o)'
  <2>1. o \in Orders
    BY <1>1
  <2> QED
    BY <2>1, FirstKnows
<1>3. /\ Documents(o)' /\ Handlers(o)' /\ Alone(o)' /\ GivenBack(o)'
      /\ Settles(o)' /\ Holds(o)' /\ Clears(o)' /\ Sweeps(o)'
      /\ Shares(o)' /\ Refunds(o)'
  BY <1>1, <1>2
  DEF Accounted, Documents, Handlers, Alone, GivenBack, Settles, Holds, Clears, Sweeps, Shares,
      Refunds
<1>4. Spends(o)'
  BY <1>1, <1>2 DEF Accounted, Documents, Handlers, Spends
<1> QED
  BY <1>1, <1>3, <1>4 DEF Accounted

LEMMA FailClaimKeeps ==
  ASSUME IInv, IInv', NEW w \in Workers, NEW o \in Orders,
         FailClaim(w, o), Accounted(o)
  PROVE  OnlyOn(o) /\ Accounted(o)'
<1> USE OrdersAssumption
    DEF Known, Statuses, Served, Spared, Doing, UnderWay, Others, Grows, Begins, GoesOn, Ends,
        Idle, At, OrderOf
<1>1. /\ o \in Orders /\ OnlyOn(o)
      /\ Begins(w, o, "release")
      /\ status[o] = "pending_payment" /\ status'[o] = "cancelled" /\ declined[o]
      /\ UNCHANGED <<cover, txn, intent, declined, refunded, redemption>>
  BY DEF FailClaim, IInv, TypeOK, Begin, Transition, stripe, OnlyOn, Untouched
<1>2. Known(o) /\ Known(o)'
  <2>1. o \in Orders
    BY <1>1
  <2> QED
    BY <2>1, FirstKnows
<1>3. /\ Documents(o)' /\ Handlers(o)' /\ Alone(o)' /\ GivenBack(o)'
      /\ Settles(o)' /\ Spends(o)' /\ Holds(o)' /\ Clears(o)'
      /\ Sweeps(o)'
  BY <1>1, <1>2
  DEF Accounted, Documents, Handlers, Alone, GivenBack, Settles, Spends, Holds, Clears, Sweeps
<1>4. Shares(o)' /\ Refunds(o)'
  BY <1>1, <1>2 DEF Accounted, Documents, Handlers, Shares, Refunds
<1> QED
  BY <1>1, <1>3, <1>4 DEF Accounted

LEMMA CompleteKeeps ==
  ASSUME IInv, IInv', NEW w \in Workers, NEW o \in Orders,
         Complete(w, o), Accounted(o)
  PROVE  OnlyOn(o) /\ Accounted(o)'
<1> USE OrdersAssumption
    DEF Known, Statuses, Served, Spared, Doing, UnderWay, Others, Grows, Begins, GoesOn, Ends,
        Idle, At, OrderOf
<1>1. /\ o \in Orders /\ OnlyOn(o)
      /\ Begins(w, o, "complete_txn")
      /\ status[o] = "ready" /\ status'[o] = "completed"
      /\ UNCHANGED <<cover, txn, intent, declined, refunded, redemption>>
  BY DEF Complete, IInv, TypeOK, Begin, Transition, stripe, OnlyOn, Untouched
<1>2. Known(o) /\ Known(o)'
  <2>1. o \in Orders
    BY <1>1
  <2> QED
    BY <2>1, FirstKnows
<1>3. /\ Documents(o)' /\ Handlers(o)' /\ Alone(o)' /\ GivenBack(o)'
      /\ Settles(o)' /\ Spends(o)' /\ Holds(o)' /\ Clears(o)'
      /\ Sweeps(o)' /\ Shares(o)' /\ Refunds(o)'
  BY <1>1, <1>2
  DEF Accounted, Documents, Handlers, Alone, GivenBack, Settles, Spends, Holds, Clears, Sweeps,
      Shares, Refunds
<1> QED
  BY <1>1, <1>3 DEF Accounted

LEMMA CancelClaimKeeps ==
  ASSUME IInv, IInv', NEW w \in Workers, NEW o \in Orders,
         CancelClaim(w, o), Accounted(o)
  PROVE  OnlyOn(o) /\ Accounted(o)'
<1> USE OrdersAssumption
    DEF Known, Statuses, Served, Spared, Doing, UnderWay, Others, Grows, Begins, GoesOn, Ends,
        Idle, At, OrderOf
<1>1. /\ o \in Orders /\ OnlyOn(o)
      /\ Begins(w, o, IF cover[o] = "full" THEN "cancel_community" ELSE "cancel_read")
      /\ status[o] \in {"pending", "accepted"} /\ status'[o] = "cancelled"
      /\ UNCHANGED <<cover, txn, intent, declined, refunded, redemption>>
  BY DEF CancelClaim, IInv, TypeOK, Begin, Transition, stripe, OnlyOn, Untouched
<1>2. Known(o) /\ Known(o)'
  <2>1. o \in Orders
    BY <1>1
  <2> QED
    BY <2>1, FirstKnows
<1>3. /\ Documents(o)' /\ Handlers(o)' /\ Alone(o)' /\ GivenBack(o)'
      /\ Settles(o)' /\ Spends(o)' /\ Holds(o)' /\ Clears(o)'
      /\ Sweeps(o)' /\ Shares(o)'
  BY <1>1, <1>2
  DEF Accounted, Documents, Handlers, Alone, GivenBack, Settles, Spends, Holds, Clears, Sweeps,
      Shares
<1>4. Refunds(o)'
  BY <1>1, <1>2 DEF Accounted, Documents, Handlers, Alone, Clears, Refunds
<1> QED
  BY <1>1, <1>3, <1>4 DEF Accounted

LEMMA RemoveReadKeeps ==
  ASSUME IInv, IInv', NEW w \in Workers, NEW o \in Orders,
         RemoveRead(w, o), Accounted(o)
  PROVE  OnlyOn(o) /\ Accounted(o)'
<1> USE OrdersAssumption
    DEF Known, Statuses, Served, Spared, Doing, UnderWay, Others, Grows, Begins, GoesOn, Ends,
        Idle, At, OrderOf
<1>1. /\ o \in Orders /\ OnlyOn(o)
      /\ Begins(w, o, IF cover[o] = "full" THEN "remove_update" ELSE "remove_refund")
      /\ status[o] \in {"pending", "accepted"}
      /\ UNCHANGED <<status, cover, txn, intent, declined, refunded, redemption>>
  BY DEF RemoveRead, IInv, TypeOK, Begin, stripe, OnlyOn, Untouched
<1>2. Known(o) /\ Known(o)'
  <2>1. o \in Orders
    BY <1>1
  <2> QED
    BY <2>1, FirstKnows
<1>3. /\ Documents(o)' /\ Handlers(o)' /\ Alone(o)' /\ GivenBack(o)'
      /\ Settles(o)' /\ Spends(o)' /\ Holds(o)' /\ Clears(o)'
      /\ Sweeps(o)' /\ Shares(o)' /\ Refunds(o)'
  BY <1>1, <1>2
  DEF Accounted, Documents, Handlers, Alone, GivenBack, Settles, Spends, Holds, Clears, Sweeps,
      Shares, Refunds
<1> QED
  BY <1>1, <1>3 DEF Accounted

LEMMA SweepReadKeeps ==
  ASSUME IInv, IInv', NEW w \in Workers, NEW o \in Orders,
         SweepRead(w, o), Accounted(o)
  PROVE  OnlyOn(o) /\ Accounted(o)'
<1> USE OrdersAssumption
    DEF Known, Statuses, Served, Spared, Doing, UnderWay, Others, Grows, Begins, GoesOn, Ends,
        Idle, At, OrderOf
<1>1. /\ o \in Orders /\ OnlyOn(o)
      /\ Begins(w, o, "sweep_txn")
      /\ status[o] = "pending"
      /\ UNCHANGED <<status, cover, txn, intent, declined, refunded, redemption>>
  BY DEF SweepRead, IInv, TypeOK, Begin, stripe, OnlyOn, Untouched
<1>2. Known(o) /\ Known(o)'
  <2>1. o \in Orders
    BY <1>1
  <2> QED
    BY <2>1, FirstKnows
<1>3. /\ Documents(o)' /\ Handlers(o)' /\ Alone(o)' /\ GivenBack(o)'
      /\ Settles(o)' /\ Spends(o)' /\ Holds(o)' /\ Clears(o)'
      /\ Sweeps(o)' /\ Shares(o)' /\ Refunds(o)'
  BY <1>1, <1>2
  DEF Accounted, Documents, Handlers, Alone, GivenBack, Settles, Spends, Holds, Clears, Sweeps,
      Shares, Refunds
<1> QED
  BY <1>1, <1>3 DEF Accounted

(***************************************************************************)
(* What happens at Stripe, and the handlers of one step.                   *)
(***************************************************************************)

LEMMA CardClearsKeeps ==
  ASSUME IInv, IInv', NEW o \in Orders,
         CardClears(o), Accounted(o)
  PROVE  OnlyOn(o) /\ Accounted(o)'
<1> USE OrdersAssumption
    DEF Known, Statuses, Served, Spared, Doing, UnderWay, Others, Grows, Begins, GoesOn, Ends,
        Idle, At, OrderOf
<1>1. /\ o \in Orders /\ OnlyOn(o)
      /\ intent[o] = "open" /\ intent'[o] = "succeeded" /\ status[o] \notin {"none", "checkout"}
      /\ Grows(o) /\ (declined[o] => "second_card" \in befell'[o])
      /\ UNCHANGED <<status, cover, txn, declined, refunded, redemption, task>>
  BY DEF CardClears, IInv, TypeOK, OnlyOn, Untouched
<1>2. Known(o) /\ Known(o)'
  <2>1. o \in Orders
    BY <1>1
  <2> QED
    BY <2>1, FirstKnows
<1>3. /\ Documents(o)' /\ Handlers(o)' /\ Alone(o)' /\ GivenBack(o)'
      /\ Settles(o)' /\ Spends(o)' /\ Holds(o)' /\ Clears(o)'
      /\ Sweeps(o)' /\ Shares(o)'
  BY <1>1, <1>2
  DEF Accounted, Documents, Handlers, Alone, GivenBack, Settles, Spends, Holds, Clears, Sweeps,
      Shares
<1>4. Refunds(o)'
  BY <1>1, <1>2 DEF Accounted, Documents, Handlers, Refunds
<1> QED
  BY <1>1, <1>3, <1>4 DEF Accounted

LEMMA CardDeclinesKeeps ==
  ASSUME IInv, IInv', NEW o \in Orders,
         CardDeclines(o), Accounted(o)
  PROVE  OnlyOn(o) /\ Accounted(o)'
<1> USE OrdersAssumption
    DEF Known, Statuses, Served, Spared, Doing, UnderWay, Others, Grows, Begins, GoesOn, Ends,
        Idle, At, OrderOf
<1>1. /\ o \in Orders /\ OnlyOn(o)
      /\ intent[o] = "open" /\ declined'[o] /\ status[o] \notin {"none", "checkout"}
      /\ UNCHANGED <<status, cover, txn, intent, refunded, redemption, befell, task>>
  BY DEF CardDeclines, IInv, TypeOK, OnlyOn, Untouched
<1>2. Known(o) /\ Known(o)'
  <2>1. o \in Orders
    BY <1>1
  <2> QED
    BY <2>1, FirstKnows
<1>3. /\ Documents(o)' /\ Handlers(o)' /\ Alone(o)' /\ GivenBack(o)'
      /\ Settles(o)' /\ Spends(o)' /\ Holds(o)' /\ Clears(o)'
      /\ Sweeps(o)' /\ Shares(o)' /\ Refunds(o)'
  BY <1>1, <1>2
  DEF Accounted, Documents, Handlers, Alone, GivenBack, Settles, Spends, Holds, Clears, Sweeps,
      Shares, Refunds
<1> QED
  BY <1>1, <1>3 DEF Accounted

LEMMA SettlePaidKeeps ==
  ASSUME IInv, IInv', NEW o \in Orders,
         SettlePaid(o), Accounted(o)
  PROVE  OnlyOn(o) /\ Accounted(o)'
<1> USE OrdersAssumption
    DEF Known, Statuses, Served, Spared, Doing, UnderWay, Others, Grows, Begins, GoesOn, Ends,
        Idle, At, OrderOf
<1>1. /\ o \in Orders /\ OnlyOn(o)
      /\ intent[o] = "succeeded" /\ txn'[o] = "completed" /\ txn[o] = "pending"
      /\ UNCHANGED <<status, cover, intent, declined, refunded, redemption, befell, task>>
  BY DEF SettlePaid, IInv, TypeOK, SettleTxn, stripe, OnlyOn, Untouched
<1>2. Known(o) /\ Known(o)'
  <2>1. o \in Orders
    BY <1>1
  <2> QED
    BY <2>1, FirstKnows
<1>3. /\ Documents(o)' /\ Alone(o)' /\ GivenBack(o)' /\ Settles(o)'
      /\ Spends(o)' /\ Holds(o)' /\ Clears(o)' /\ Sweeps(o)'
      /\ Shares(o)' /\ Refunds(o)'
  BY <1>1, <1>2
  DEF Accounted, Documents, Alone, GivenBack, Settles, Spends, Holds, Clears, Sweeps, Shares,
      Refunds
<1>4. Handlers(o)'
  BY <1>1, <1>2 DEF Accounted, Documents, Handlers
<1> QED
  BY <1>1, <1>3, <1>4 DEF Accounted

LEMMA FailTxnKeeps ==
  ASSUME IInv, IInv', NEW o \in Orders,
         FailTxn(o), Accounted(o)
  PROVE  OnlyOn(o) /\ Accounted(o)'
<1> USE OrdersAssumption
    DEF Known, Statuses, Served, Spared, Doing, UnderWay, Others, Grows, Begins, GoesOn, Ends,
        Idle, At, OrderOf
<1>1. /\ o \in Orders /\ OnlyOn(o)
      /\ declined[o] /\ status[o] # "pending_payment" /\ txn'[o] = "failed" /\ txn[o] = "pending"
      /\ UNCHANGED <<status, cover, intent, declined, refunded, redemption, befell, task>>
  BY DEF FailTxn, IInv, TypeOK, SettleTxn, stripe, OnlyOn, Untouched
<1>2. Known(o) /\ Known(o)'
  <2>1. o \in Orders
    BY <1>1
  <2> QED
    BY <2>1, FirstKnows
<1>3. /\ Documents(o)' /\ Alone(o)' /\ GivenBack(o)' /\ Settles(o)'
      /\ Spends(o)' /\ Holds(o)' /\ Clears(o)' /\ Sweeps(o)'
      /\ Shares(o)' /\ Refunds(o)'
  BY <1>1, <1>2
  DEF Accounted, Documents, Alone, GivenBack, Settles, Spends, Holds, Clears, Sweeps, Shares,
      Refunds
<1>4. Handlers(o)'
  BY <1>1, <1>2 DEF Accounted, Documents, Handlers
<1> QED
  BY <1>1, <1>3, <1>4 DEF Accounted

LEMMA AcceptKeeps ==
  ASSUME IInv, IInv', NEW o \in Orders,
         Accept(o), Accounted(o)
  PROVE  OnlyOn(o) /\ Accounted(o)'
<1> USE OrdersAssumption
    DEF Known, Statuses, Served, Spared, Doing, UnderWay, Others, Grows, Begins, GoesOn, Ends,
        Idle, At, OrderOf
<1>1. /\ o \in Orders /\ OnlyOn(o)
      /\ status[o] = "pending" /\ status'[o] = "accepted"
      /\ UNCHANGED <<cover, txn, intent, declined, refunded, redemption, befell, task>>
  BY DEF Accept, IInv, TypeOK, Transition, stripe, OnlyOn, Untouched
<1>2. Known(o) /\ Known(o)'
  <2>1. o \in Orders
    BY <1>1
  <2> QED
    BY <2>1, FirstKnows
<1>3. /\ Documents(o)' /\ Handlers(o)' /\ Alone(o)' /\ GivenBack(o)'
      /\ Settles(o)' /\ Spends(o)' /\ Holds(o)' /\ Clears(o)'
      /\ Sweeps(o)' /\ Shares(o)' /\ Refunds(o)'
  BY <1>1, <1>2
  DEF Accounted, Documents, Handlers, Alone, GivenBack, Settles, Spends, Holds, Clears, Sweeps,
      Shares, Refunds
<1> QED
  BY <1>1, <1>3 DEF Accounted

LEMMA ReadyKeeps ==
  ASSUME IInv, IInv', NEW o \in Orders,
         Ready(o), Accounted(o)
  PROVE  OnlyOn(o) /\ Accounted(o)'
<1> USE OrdersAssumption
    DEF Known, Statuses, Served, Spared, Doing, UnderWay, Others, Grows, Begins, GoesOn, Ends,
        Idle, At, OrderOf
<1>1. /\ o \in Orders /\ OnlyOn(o)
      /\ status[o] = "accepted" /\ status'[o] = "ready"
      /\ UNCHANGED <<cover, txn, intent, declined, refunded, redemption, befell, task>>
  BY DEF Ready, IInv, TypeOK, Transition, stripe, OnlyOn, Untouched
<1>2. Known(o) /\ Known(o)'
  <2>1. o \in Orders
    BY <1>1
  <2> QED
    BY <2>1, FirstKnows
<1>3. /\ Documents(o)' /\ Handlers(o)' /\ Alone(o)' /\ GivenBack(o)'
      /\ Settles(o)' /\ Spends(o)' /\ Holds(o)' /\ Clears(o)'
      /\ Sweeps(o)' /\ Shares(o)' /\ Refunds(o)'
  BY <1>1, <1>2
  DEF Accounted, Documents, Handlers, Alone, GivenBack, Settles, Spends, Holds, Clears, Sweeps,
      Shares, Refunds
<1> QED
  BY <1>1, <1>3 DEF Accounted

(***************************************************************************)
(* The later steps of handlers.                                            *)
(***************************************************************************)

LEMMA PlaceBothOptionsKeeps ==
  ASSUME IInv, IInv', NEW w \in Workers, NEW o, o = OrderOf(w),
         PlaceBothOptions(w), Accounted(o)
  PROVE  OnlyOn(o) /\ Accounted(o)'
<1> USE OrdersAssumption
    DEF Known, Statuses, Served, Spared, Doing, UnderWay, Others, Grows, Begins, GoesOn, Ends,
        Idle, At, OrderOf
<1>1. /\ o \in Orders /\ OnlyOn(o)
      /\ At(w, "place_charge")
      /\ Ends(w, o)
      /\ "both_options" \in befell'[o]
      /\ status[o] = "checkout" /\ status'[o] = "refused"
      /\ UNCHANGED <<cover, txn, intent, declined, refunded, redemption>>
  BY
  DEF PlaceBothOptions, IInv, TypeOK, FinishAfter, Transition, Resting, stripe, OnlyOn,
      Untouched
<1>2. Known(o) /\ Known(o)'
  <2>1. o \in Orders
    BY <1>1
  <2> QED
    BY <2>1, FirstKnows
<1>3. /\ Handlers(o)' /\ Alone(o)' /\ GivenBack(o)' /\ Settles(o)'
      /\ Spends(o)' /\ Holds(o)' /\ Clears(o)' /\ Sweeps(o)'
      /\ Shares(o)' /\ Refunds(o)'
  BY <1>1, <1>2
  DEF Accounted, Handlers, Alone, GivenBack, Settles, Spends, Holds, Clears, Sweeps, Shares,
      Refunds
<1>4. Documents(o)'
  BY <1>1, <1>2 DEF Accounted, Documents, Handlers
<1> QED
  BY <1>1, <1>3, <1>4 DEF Accounted

LEMMA PlaceChargeKeeps ==
  ASSUME IInv, IInv', NEW w \in Workers, NEW o, o = OrderOf(w),
         PlaceCharge(w), Accounted(o)
  PROVE  OnlyOn(o) /\ Accounted(o)'
<1> USE OrdersAssumption
    DEF Known, Statuses, Served, Spared, Doing, UnderWay, Others, Grows, Begins, GoesOn, Ends,
        Idle, At, OrderOf
<1>1. /\ o \in Orders /\ OnlyOn(o)
      /\ At(w, "place_charge")
      /\ cover[o] # "full"
      /\ txn'[o] = "pending"
      /\ \/ intent'[o] = "open" /\ GoesOn(w, o, "place_order")
         \/ intent'[o] = intent[o] /\ GoesOn(w, o, "place_release")
      /\ UNCHANGED <<status, cover, declined, refunded, redemption>>
  BY DEF PlaceCharge, IInv, TypeOK, Goto, OnlyOn, Untouched
<1>2. Known(o) /\ Known(o)'
  <2>1. o \in Orders
    BY <1>1
  <2> QED
    BY <2>1, FirstKnows
<1>3. /\ Documents(o)' /\ Handlers(o)' /\ Alone(o)' /\ GivenBack(o)'
      /\ Settles(o)' /\ Spends(o)' /\ Holds(o)' /\ Clears(o)'
      /\ Sweeps(o)' /\ Shares(o)' /\ Refunds(o)'
  BY <1>1, <1>2
  DEF Accounted, Documents, Handlers, Alone, GivenBack, Settles, Spends, Holds, Clears, Sweeps,
      Shares, Refunds
<1> QED
  BY <1>1, <1>3 DEF Accounted

LEMMA PlaceReleaseKeeps ==
  ASSUME IInv, IInv', NEW w \in Workers, NEW o, o = OrderOf(w),
         PlaceRelease(w), Accounted(o)
  PROVE  OnlyOn(o) /\ Accounted(o)'
<1> USE OrdersAssumption
    DEF Known, Statuses, Served, Spared, Doing, UnderWay, Others, Grows, Begins, GoesOn, Ends,
        Idle, At, OrderOf
<1>1. /\ o \in Orders /\ OnlyOn(o)
      /\ At(w, "place_release")
      /\ Ends(w, o)
      /\ status[o] = "checkout" /\ status'[o] = "refused"
      /\ redemption'[o] = IF redemption[o] = "reserved" THEN "released" ELSE redemption[o]
      /\ UNCHANGED <<cover, txn, intent, declined, refunded>>
  BY
  DEF PlaceRelease, IInv, TypeOK, Finish, Transition, Redeem, Resting, stripe, OnlyOn, Untouched
<1>2. Known(o) /\ Known(o)'
  <2>1. o \in Orders
    BY <1>1
  <2> QED
    BY <2>1, FirstKnows
<1>3. /\ Handlers(o)' /\ Alone(o)' /\ GivenBack(o)' /\ Settles(o)'
      /\ Spends(o)' /\ Holds(o)' /\ Clears(o)' /\ Sweeps(o)'
      /\ Shares(o)' /\ Refunds(o)'
  BY <1>1, <1>2
  DEF Accounted, Handlers, Alone, GivenBack, Settles, Spends, Holds, Clears, Sweeps, Shares,
      Refunds
<1>4. Documents(o)'
  BY <1>1, <1>2 DEF Accounted, Documents, Handlers
<1> QED
  BY <1>1, <1>3, <1>4 DEF Accounted

LEMMA PlaceOrderKeeps ==
  ASSUME IInv, IInv', NEW w \in Workers, NEW o, o = OrderOf(w),
         PlaceOrder(w), Accounted(o)
  PROVE  OnlyOn(o) /\ Accounted(o)'
<1> USE OrdersAssumption
    DEF Known, Statuses, Served, Spared, Doing, UnderWay, Others, Grows, Begins, GoesOn, Ends,
        Idle, At, OrderOf
<1>1. /\ o \in Orders /\ OnlyOn(o)
      /\ \/ At(w, "place_order") /\ status'[o] = "pending_payment" /\ Ends(w, o)
         \/ /\ At(w, "place_charge") /\ cover[o] = "full" /\ status'[o] = "pending"
            /\ GoesOn(w, o, "apply")
      /\ UNCHANGED <<cover, txn, intent, declined, refunded, redemption>>
  BY DEF PlaceOrder, IInv, TypeOK, Goto, Finish, Transition, Resting, stripe, OnlyOn, Untouched
<1>2. Known(o) /\ Known(o)'
  <2>1. o \in Orders
    BY <1>1
  <2> QED
    BY <2>1, FirstKnows
<1>3. /\ Handlers(o)' /\ Alone(o)' /\ GivenBack(o)' /\ Settles(o)'
      /\ Holds(o)' /\ Clears(o)' /\ Sweeps(o)' /\ Shares(o)'
      /\ Refunds(o)'
  BY <1>1, <1>2
  DEF Accounted, Handlers, Alone, GivenBack, Settles, Holds, Clears, Sweeps, Shares, Refunds
<1>4. Documents(o)' /\ Spends(o)'
  BY <1>1, <1>2 DEF Accounted, Documents, Handlers, Spends
<1> QED
  BY <1>1, <1>3, <1>4 DEF Accounted

LEMMA ApplyKeeps ==
  ASSUME IInv, IInv', NEW w \in Workers, NEW o, o = OrderOf(w),
         Apply(w), Accounted(o)
  PROVE  OnlyOn(o) /\ Accounted(o)'
<1> USE OrdersAssumption
    DEF Known, Statuses, Served, Spared, Doing, UnderWay, Others, Grows, Begins, GoesOn, Ends,
        Idle, At, OrderOf
<1>1. /\ o \in Orders /\ OnlyOn(o)
      /\ At(w, "apply")
      /\ GoesOn(w, o, "announce")
      /\ redemption'[o] = IF redemption[o] = "reserved" THEN "applied" ELSE redemption[o]
      /\ UNCHANGED <<status, cover, txn, intent, declined, refunded>>
  BY DEF Apply, IInv, TypeOK, Goto, Redeem, stripe, OnlyOn, Untouched
<1>2. Known(o) /\ Known(o)'
  <2>1. o \in Orders
    BY <1>1
  <2> QED
    BY <2>1, FirstKnows
<1>3. /\ Documents(o)' /\ Handlers(o)' /\ Alone(o)' /\ GivenBack(o)'
      /\ Settles(o)' /\ Spends(o)' /\ Holds(o)' /\ Clears(o)'
      /\ Sweeps(o)' /\ Refunds(o)'
  BY <1>1, <1>2
  DEF Accounted, Documents, Handlers, Alone, GivenBack, Settles, Spends, Holds, Clears, Sweeps,
      Refunds
<1>4. Shares(o)'
  BY <1>1, <1>2 DEF Accounted, Documents, Handlers, Alone, Sweeps, Shares
<1> QED
  BY <1>1, <1>3, <1>4 DEF Accounted

LEMMA AnnounceKeeps ==
  ASSUME IInv, IInv', NEW w \in Workers, NEW o, o = OrderOf(w),
         Announce(w), Accounted(o)
  PROVE  OnlyOn(o) /\ Accounted(o)'
<1> USE OrdersAssumption
    DEF Known, Statuses, Served, Spared, Doing, UnderWay, Others, Grows, Begins, GoesOn, Ends,
        Idle, At, OrderOf
<1>1. /\ o \in Orders /\ OnlyOn(o)
      /\ At(w, "announce")
      /\ IF cover[o] = "full" THEN Ends(w, o) ELSE GoesOn(w, o, "complete_txn")
      /\ UNCHANGED <<status, cover, txn, intent, declined, refunded, redemption>>
  <2> USE DEF Announce, IInv, TypeOK, Goto, Finish, Resting, stripe, OnlyOn, Untouched
  <2>1. CASE cover[o] = "full"
    BY <2>1
  <2>2. CASE cover[o] # "full"
    BY <2>2
  <2> QED
    BY <2>1, <2>2
<1>2. Known(o) /\ Known(o)'
  <2>1. o \in Orders
    BY <1>1
  <2> QED
    BY <2>1, FirstKnows
<1>3. /\ Documents(o)' /\ Handlers(o)' /\ Alone(o)' /\ GivenBack(o)'
      /\ Settles(o)' /\ Spends(o)' /\ Holds(o)' /\ Sweeps(o)'
      /\ Shares(o)' /\ Refunds(o)'
  BY <1>1, <1>2
  DEF Accounted, Documents, Handlers, Alone, GivenBack, Settles, Spends, Holds, Sweeps, Shares,
      Refunds
<1>4. Clears(o)'
  BY <1>1, <1>2 DEF Accounted, Documents, Handlers, Clears
<1> QED
  BY <1>1, <1>3, <1>4 DEF Accounted

LEMMA CompleteTxnKeeps ==
  ASSUME IInv, IInv', NEW w \in Workers, NEW o, o = OrderOf(w),
         CompleteTxn(w), Accounted(o)
  PROVE  OnlyOn(o) /\ Accounted(o)'
<1> USE OrdersAssumption
    DEF Known, Statuses, Served, Spared, Doing, UnderWay, Others, Grows, Begins, GoesOn, Ends,
        Idle, At, OrderOf
<1>1. /\ o \in Orders /\ OnlyOn(o)
      /\ At(w, "complete_txn")
      /\ Ends(w, o)
      /\ txn'[o] = IF txn[o] = "pending" THEN "completed" ELSE txn[o]
      /\ UNCHANGED <<status, cover, intent, declined, refunded, redemption>>
  BY DEF CompleteTxn, IInv, TypeOK, Finish, SettleTxn, Resting, stripe, OnlyOn, Untouched
<1>2. Known(o) /\ Known(o)'
  <2>1. o \in Orders
    BY <1>1
  <2> QED
    BY <2>1, FirstKnows
<1>3. /\ Alone(o)' /\ GivenBack(o)' /\ Settles(o)' /\ Spends(o)'
      /\ Holds(o)' /\ Clears(o)' /\ Sweeps(o)' /\ Shares(o)'
      /\ Refunds(o)'
  BY <1>1, <1>2
  DEF Accounted, Alone, GivenBack, Settles, Spends, Holds, Clears, Sweeps, Shares, Refunds
<1>4. Documents(o)' /\ Handlers(o)'
  BY <1>1, <1>2 DEF Accounted, Documents, Handlers
<1> QED
  BY <1>1, <1>3, <1>4 DEF Accounted

LEMMA ReleaseKeeps ==
  ASSUME IInv, IInv', NEW w \in Workers, NEW o, o = OrderOf(w),
         Release(w), Accounted(o)
  PROVE  OnlyOn(o) /\ Accounted(o)'
<1> USE OrdersAssumption
    DEF Known, Statuses, Served, Spared, Doing, UnderWay, Others, Grows, Begins, GoesOn, Ends,
        Idle, At, OrderOf
<1>1. /\ o \in Orders /\ OnlyOn(o)
      /\ At(w, "release")
      /\ Ends(w, o)
      /\ redemption'[o] = IF redemption[o] = "reserved" THEN "released" ELSE redemption[o]
      /\ UNCHANGED <<status, cover, txn, intent, declined, refunded>>
  BY DEF Release, IInv, TypeOK, Finish, Redeem, Resting, stripe, OnlyOn, Untouched
<1>2. Known(o) /\ Known(o)'
  <2>1. o \in Orders
    BY <1>1
  <2> QED
    BY <2>1, FirstKnows
<1>3. /\ Handlers(o)' /\ Alone(o)' /\ GivenBack(o)' /\ Settles(o)'
      /\ Holds(o)' /\ Clears(o)' /\ Sweeps(o)' /\ Shares(o)'
      /\ Refunds(o)'
  BY <1>1, <1>2
  DEF Accounted, Handlers, Alone, GivenBack, Settles, Holds, Clears, Sweeps, Shares, Refunds
<1>4. Documents(o)' /\ Spends(o)'
  BY <1>1, <1>2 DEF Accounted, Documents, Handlers, Spends
<1> QED
  BY <1>1, <1>3, <1>4 DEF Accounted

LEMMA CancelReadKeeps ==
  ASSUME IInv, IInv', NEW w \in Workers, NEW o, o = OrderOf(w),
         CancelRead(w), Accounted(o)
  PROVE  OnlyOn(o) /\ Accounted(o)'
<1> USE OrdersAssumption
    DEF Known, Statuses, Served, Spared, Doing, UnderWay, Others, Grows, Begins, GoesOn, Ends,
        Idle, At, OrderOf
<1>1. /\ o \in Orders /\ OnlyOn(o)
      /\ At(w, "cancel_read")
      /\ GoesOn(w, o, IF txn[o] = "completed" THEN "cancel_stripe" ELSE "cancel_community")
      /\ UNCHANGED <<status, cover, txn, intent, declined, refunded, redemption>>
  BY DEF CancelRead, IInv, TypeOK, Goto, stripe, OnlyOn, Untouched
<1>2. Known(o) /\ Known(o)'
  <2>1. o \in Orders
    BY <1>1
  <2> QED
    BY <2>1, FirstKnows
<1>3. /\ Documents(o)' /\ Handlers(o)' /\ Alone(o)' /\ GivenBack(o)'
      /\ Settles(o)' /\ Spends(o)' /\ Holds(o)' /\ Clears(o)'
      /\ Sweeps(o)' /\ Shares(o)' /\ Refunds(o)'
  BY <1>1, <1>2
  DEF Accounted, Documents, Handlers, Alone, GivenBack, Settles, Spends, Holds, Clears, Sweeps,
      Shares, Refunds
<1> QED
  BY <1>1, <1>3 DEF Accounted

LEMMA CancelStripeKeeps ==
  ASSUME IInv, IInv', NEW w \in Workers, NEW o, o = OrderOf(w),
         CancelStripe(w), Accounted(o)
  PROVE  OnlyOn(o) /\ Accounted(o)'
<1> USE OrdersAssumption
    DEF Known, Statuses, Served, Spared, Doing, UnderWay, Others, Grows, Begins, GoesOn, Ends,
        Idle, At, OrderOf
<1>1. /\ o \in Orders /\ OnlyOn(o)
      /\ At(w, "cancel_stripe")
      /\ \/ refunded'[o] = "all" /\ GoesOn(w, o, "cancel_mark")
         \/ /\ refunded'[o] = refunded[o] /\ GoesOn(w, o, "cancel_community")
            /\ "refund_refused" \in befell'[o]
      /\ UNCHANGED <<status, cover, txn, intent, declined, redemption>>
  BY DEF CancelStripe, IInv, TypeOK, Goto, GotoAfter, stripe, OnlyOn, Untouched
<1>2. Known(o) /\ Known(o)'
  <2>1. o \in Orders
    BY <1>1
  <2> QED
    BY <2>1, FirstKnows
<1>3. /\ Handlers(o)' /\ Alone(o)' /\ GivenBack(o)' /\ Settles(o)'
      /\ Spends(o)' /\ Holds(o)' /\ Clears(o)' /\ Sweeps(o)'
      /\ Shares(o)' /\ Refunds(o)'
  BY <1>1, <1>2
  DEF Accounted, Handlers, Alone, GivenBack, Settles, Spends, Holds, Clears, Sweeps, Shares,
      Refunds
<1>4. Documents(o)'
  BY <1>1, <1>2 DEF Accounted, Documents, Handlers
<1> QED
  BY <1>1, <1>3, <1>4 DEF Accounted

LEMMA CancelMarkKeeps ==
  ASSUME IInv, IInv', NEW w \in Workers, NEW o, o = OrderOf(w),
         CancelMark(w), Accounted(o)
  PROVE  OnlyOn(o) /\ Accounted(o)'
<1> USE OrdersAssumption
    DEF Known, Statuses, Served, Spared, Doing, UnderWay, Others, Grows, Begins, GoesOn, Ends,
        Idle, At, OrderOf
<1>1. /\ o \in Orders /\ OnlyOn(o)
      /\ At(w, "cancel_mark")
      /\ GoesOn(w, o, "cancel_community")
      /\ txn'[o] = IF txn[o] = "completed" THEN "refunded" ELSE txn[o]
      /\ UNCHANGED <<status, cover, intent, declined, refunded, redemption>>
  BY DEF CancelMark, IInv, TypeOK, Goto, stripe, OnlyOn, Untouched
<1>2. Known(o) /\ Known(o)'
  <2>1. o \in Orders
    BY <1>1
  <2> QED
    BY <2>1, FirstKnows
<1>3. /\ Handlers(o)' /\ Alone(o)' /\ GivenBack(o)' /\ Settles(o)'
      /\ Spends(o)' /\ Holds(o)' /\ Clears(o)' /\ Sweeps(o)'
      /\ Shares(o)'
  BY <1>1, <1>2
  DEF Accounted, Handlers, Alone, GivenBack, Settles, Spends, Holds, Clears, Sweeps, Shares
<1>4. Documents(o)'
  BY <1>1, <1>2 DEF Accounted, Documents, Handlers
<1>5. Refunds(o)'
  BY <1>1, <1>2 DEF Accounted, Documents, Handlers, Alone, Refunds
<1> QED
  BY <1>1, <1>3, <1>4, <1>5 DEF Accounted

LEMMA CancelCommunityKeeps ==
  ASSUME IInv, IInv', NEW w \in Workers, NEW o, o = OrderOf(w),
         CancelCommunity(w), Accounted(o)
  PROVE  OnlyOn(o) /\ Accounted(o)'
<1> USE OrdersAssumption
    DEF Known, Statuses, Served, Spared, Doing, UnderWay, Others, Grows, Begins, GoesOn, Ends,
        Idle, At, OrderOf
<1>1. /\ o \in Orders /\ OnlyOn(o)
      /\ At(w, "cancel_community")
      /\ Ends(w, o)
      /\ redemption'[o] = IF redemption[o] = "applied" THEN "refunded" ELSE redemption[o]
      /\ UNCHANGED <<status, cover, txn, intent, declined, refunded>>
  BY DEF CancelCommunity, IInv, TypeOK, Finish, Redeem, Resting, stripe, OnlyOn, Untouched
<1>2. Known(o) /\ Known(o)'
  <2>1. o \in Orders
    BY <1>1
  <2> QED
    BY <2>1, FirstKnows
<1>3. /\ Documents(o)' /\ Handlers(o)' /\ Alone(o)' /\ GivenBack(o)'
      /\ Settles(o)' /\ Holds(o)' /\ Clears(o)' /\ Sweeps(o)'
      /\ Shares(o)' /\ Refunds(o)'
  BY <1>1, <1>2
  DEF Accounted, Documents, Handlers, Alone, GivenBack, Settles, Holds, Clears, Sweeps, Shares,
      Refunds
<1>4. Spends(o)'
  BY <1>1, <1>2 DEF Accounted, Documents, Handlers, Spends
<1> QED
  BY <1>1, <1>3, <1>4 DEF Accounted

LEMMA RemoveRefundKeeps ==
  ASSUME IInv, IInv', NEW w \in Workers, NEW o, o = OrderOf(w),
         RemoveRefund(w), Accounted(o)
  PROVE  OnlyOn(o) /\ Accounted(o)'
<1> USE OrdersAssumption
    DEF Known, Statuses, Served, Spared, Doing, UnderWay, Others, Grows, Begins, GoesOn, Ends,
        Idle, At, OrderOf
<1>1. /\ o \in Orders /\ OnlyOn(o)
      /\ At(w, "remove_refund")
      /\ \/ /\ txn[o] = "completed" /\ refunded'[o] = "lines" /\ GoesOn(w, o, "remove_update")
            /\ "line_removed" \in befell'[o]
         \/ refunded'[o] = refunded[o] /\ Ends(w, o)
         \/ refunded'[o] = refunded[o] /\ GoesOn(w, o, "remove_update")
      /\ UNCHANGED <<status, cover, txn, intent, declined, redemption>>
  BY DEF RemoveRefund, IInv, TypeOK, Goto, GotoAfter, Finish, Resting, OnlyOn, Untouched
<1>2. Known(o) /\ Known(o)'
  <2>1. o \in Orders
    BY <1>1
  <2> QED
    BY <2>1, FirstKnows
<1>3. /\ Documents(o)' /\ Handlers(o)' /\ Alone(o)' /\ GivenBack(o)'
      /\ Settles(o)' /\ Spends(o)' /\ Holds(o)' /\ Clears(o)'
      /\ Sweeps(o)' /\ Shares(o)' /\ Refunds(o)'
  BY <1>1, <1>2
  DEF Accounted, Documents, Handlers, Alone, GivenBack, Settles, Spends, Holds, Clears, Sweeps,
      Shares, Refunds
<1> QED
  BY <1>1, <1>3 DEF Accounted

LEMMA RemoveUpdateKeeps ==
  ASSUME IInv, IInv', NEW w \in Workers, NEW o, o = OrderOf(w),
         RemoveUpdate(w), Accounted(o)
  PROVE  OnlyOn(o) /\ Accounted(o)'
<1> USE OrdersAssumption
    DEF Known, Statuses, Served, Spared, Doing, UnderWay, Others, Grows, Begins, GoesOn, Ends,
        Idle, At, OrderOf
<1>1. /\ o \in Orders /\ OnlyOn(o)
      /\ At(w, "remove_update")
      /\ Ends(w, o)
      /\ "line_removed" \in befell'[o]
      /\ status'[o] = "cancelled"
      /\ UNCHANGED <<cover, txn, intent, declined, refunded, redemption>>
  BY DEF RemoveUpdate, IInv, TypeOK, FinishAfter, Resting, stripe, OnlyOn, Untouched
<1>2. Known(o) /\ Known(o)'
  <2>1. o \in Orders
    BY <1>1
  <2> QED
    BY <2>1, FirstKnows
<1>3. /\ Handlers(o)' /\ Alone(o)' /\ GivenBack(o)' /\ Settles(o)'
      /\ Spends(o)' /\ Clears(o)' /\ Shares(o)' /\ Refunds(o)'
  BY <1>1, <1>2
  DEF Accounted, Handlers, Alone, GivenBack, Settles, Spends, Clears, Shares, Refunds
<1>4. Documents(o)' /\ Holds(o)'
  BY <1>1, <1>2 DEF Accounted, Documents, Handlers, Holds
<1>5. Sweeps(o)'
  BY <1>1, <1>2 DEF Accounted, Documents, Handlers, Alone, Sweeps
<1> QED
  BY <1>1, <1>3, <1>4, <1>5 DEF Accounted

LEMMA SweepTxnKeeps ==
  ASSUME IInv, IInv', NEW w \in Workers, NEW o, o = OrderOf(w),
         SweepTxn(w), Accounted(o)
  PROVE  OnlyOn(o) /\ Accounted(o)'
<1> USE OrdersAssumption
    DEF Known, Statuses, Served, Spared, Doing, UnderWay, Others, Grows, Begins, GoesOn, Ends,
        Idle, At, OrderOf
<1>1. /\ o \in Orders /\ OnlyOn(o)
      /\ At(w, "sweep_txn")
      /\ IF txn[o] \in {"none", "pending"} THEN GoesOn(w, o, "sweep_redeem") ELSE Ends(w, o)
      /\ UNCHANGED <<status, cover, txn, intent, declined, refunded, redemption>>
  BY DEF SweepTxn, IInv, TypeOK, Goto, Finish, Resting, stripe, OnlyOn, Untouched
<1>2. Known(o) /\ Known(o)'
  <2>1. o \in Orders
    BY <1>1
  <2> QED
    BY <2>1, FirstKnows
<1>3. /\ Documents(o)' /\ Handlers(o)' /\ Alone(o)' /\ GivenBack(o)'
      /\ Settles(o)' /\ Spends(o)' /\ Holds(o)' /\ Clears(o)'
      /\ Shares(o)' /\ Refunds(o)'
  BY <1>1, <1>2
  DEF Accounted, Documents, Handlers, Alone, GivenBack, Settles, Spends, Holds, Clears, Shares,
      Refunds
<1>4. Sweeps(o)'
  BY <1>1, <1>2 DEF Accounted, Documents, Handlers, Alone, Clears, Sweeps
<1> QED
  BY <1>1, <1>3, <1>4 DEF Accounted

LEMMA SweepRedeemKeeps ==
  ASSUME IInv, IInv', NEW w \in Workers, NEW o, o = OrderOf(w),
         SweepRedeem(w), Accounted(o)
  PROVE  OnlyOn(o) /\ Accounted(o)'
<1> USE OrdersAssumption
    DEF Known, Statuses, Served, Spared, Doing, UnderWay, Others, Grows, Begins, GoesOn, Ends,
        Idle, At, OrderOf
<1>1. /\ o \in Orders /\ OnlyOn(o)
      /\ At(w, "sweep_redeem")
      /\ redemption'[o] = IF redemption[o] = "applied" THEN "released" ELSE redemption[o]
      /\ IF redemption[o] = "applied" THEN GoesOn(w, o, "sweep_close") /\ "swept" \in befell'[o] ELSE Ends(w, o)
      /\ UNCHANGED <<status, cover, txn, intent, declined, refunded>>
  BY
  DEF SweepRedeem, IInv, TypeOK, GotoAfter, Finish, Redeem, Resting, stripe, OnlyOn, Untouched
<1>2. Known(o) /\ Known(o)'
  <2>1. o \in Orders
    BY <1>1
  <2> QED
    BY <2>1, FirstKnows
<1>3. /\ Documents(o)' /\ Handlers(o)' /\ Alone(o)' /\ GivenBack(o)'
      /\ Settles(o)' /\ Spends(o)' /\ Holds(o)' /\ Clears(o)'
      /\ Sweeps(o)' /\ Shares(o)' /\ Refunds(o)'
  BY <1>1, <1>2
  DEF Accounted, Documents, Handlers, Alone, GivenBack, Settles, Spends, Holds, Clears, Sweeps,
      Shares, Refunds
<1> QED
  BY <1>1, <1>3 DEF Accounted

LEMMA SweepCloseKeeps ==
  ASSUME IInv, IInv', NEW w \in Workers, NEW o, o = OrderOf(w),
         SweepClose(w), Accounted(o)
  PROVE  OnlyOn(o) /\ Accounted(o)'
<1> USE OrdersAssumption
    DEF Known, Statuses, Served, Spared, Doing, UnderWay, Others, Grows, Begins, GoesOn, Ends,
        Idle, At, OrderOf
<1>1. /\ o \in Orders /\ OnlyOn(o)
      /\ At(w, "sweep_close")
      /\ Ends(w, o)
      /\ status'[o] = IF status[o] = "pending" THEN "cancelled" ELSE status[o]
      /\ UNCHANGED <<cover, txn, intent, declined, refunded, redemption>>
  BY DEF SweepClose, IInv, TypeOK, Finish, Resting, stripe, OnlyOn, Untouched
<1>2. Known(o) /\ Known(o)'
  <2>1. o \in Orders
    BY <1>1
  <2> QED
    BY <2>1, FirstKnows
<1>3. /\ Documents(o)' /\ Handlers(o)' /\ Alone(o)' /\ GivenBack(o)'
      /\ Settles(o)' /\ Spends(o)' /\ Holds(o)' /\ Clears(o)'
  BY <1>1, <1>2
  DEF Accounted, Documents, Handlers, Alone, GivenBack, Settles, Spends, Holds, Clears
<1>4. Sweeps(o)'
  BY <1>1, <1>2 DEF Accounted, Documents, Handlers, Alone, Sweeps
<1>5. Shares(o)' /\ Refunds(o)'
  BY <1>1, <1>2 DEF Accounted, Documents, Handlers, Alone, Sweeps, Shares, Refunds
<1> QED
  BY <1>1, <1>3, <1>4, <1>5 DEF Accounted

LEMMA CrashKeeps ==
  ASSUME IInv, IInv', NEW w \in Workers, NEW o, o = OrderOf(w),
         Crash(w), Accounted(o)
  PROVE  OnlyOn(o) /\ Accounted(o)'
<1> USE OrdersAssumption
    DEF Known, Statuses, Served, Spared, Doing, UnderWay, Others, Grows, Begins, GoesOn, Ends,
        Idle, At, OrderOf
<1>1. /\ o \in Orders /\ OnlyOn(o)
      /\ Ends(w, o)
      /\ "crash" \in befell'[o]
      /\ UNCHANGED <<status, cover, txn, intent, declined, refunded, redemption>>
  BY DEF Crash, IInv, TypeOK, FinishAfter, Resting, stripe, OnlyOn, Untouched
<1>2. Known(o) /\ Known(o)'
  <2>1. o \in Orders
    BY <1>1
  <2> QED
    BY <2>1, FirstKnows
<1>3. /\ Documents(o)' /\ Handlers(o)' /\ Alone(o)' /\ GivenBack(o)'
      /\ Settles(o)' /\ Spends(o)' /\ Holds(o)' /\ Clears(o)'
      /\ Sweeps(o)' /\ Shares(o)' /\ Refunds(o)'
  BY <1>1, <1>2
  DEF Accounted, Documents, Handlers, Alone, GivenBack, Settles, Spends, Holds, Clears, Sweeps,
      Shares, Refunds
<1> QED
  BY <1>1, <1>3 DEF Accounted

-----------------------------------------------------------------------------

\* An order to which nothing happens stays accounted for.
LEMMA UntouchedKeeps ==
  ASSUME NEW p \in Orders, Untouched(p), Accounted(p)
  PROVE  Accounted(p)'
BY
DEF Untouched, Accounted, Documents, Handlers, Alone, GivenBack, Settles, Spends, Holds, Clears,
       Sweeps, Shares, Refunds, Spared, Doing, UnderWay, Served, OrderOf

AllAccounted == \A o \in Orders : Accounted(o)

\* A step on one order keeps every order accounted for.
LEMMA OneStep ==
  ASSUME AllAccounted, NEW o \in Orders, OnlyOn(o), Accounted(o)'
  PROVE  AllAccounted'
BY UntouchedKeeps DEF AllAccounted, OnlyOn

LEMMA InitAccounted == Init => AllAccounted
<1> SUFFICES ASSUME Init, NEW o \in Orders PROVE Accounted(o)
  BY DEF AllAccounted
<1>1. /\ status[o] = "none" /\ cover[o] = "none" /\ txn[o] = "none" /\ intent[o] = "none"
      /\ ~declined[o] /\ refunded[o] = "no" /\ redemption[o] = "none"
      /\ \A w \in Workers : OrderOf(w) # o
  BY OrdersAssumption DEF Init, Resting, OrderOf
<1> QED
  BY <1>1
  DEF Accounted, Documents, Handlers, Alone, GivenBack, Settles, Spends, Holds, Clears, Sweeps,
      Shares, Refunds, Doing, Served

LEMMA AccountedStep ==
  ASSUME IInv, IInv', AllAccounted, Next
  PROVE  AllAccounted'
<1>1. ASSUME NEW w \in Workers, NEW o \in Orders, Call(w, o)
      PROVE  AllAccounted'
  <2>1. Accounted(o)
    BY DEF AllAccounted
  <2>2. OnlyOn(o) /\ Accounted(o)'
    BY <1>1, <2>1, PlaceReserveKeeps, ConfirmClaimKeeps, FailClaimKeeps, CompleteKeeps,
       CancelClaimKeeps, RemoveReadKeeps, SweepReadKeeps
    DEF Call
  <2> QED BY <2>2, OneStep
<1>2. ASSUME NEW o \in Orders, Instant(o)
      PROVE  AllAccounted'
  <2>1. Accounted(o)
    BY DEF AllAccounted
  <2>2. OnlyOn(o) /\ Accounted(o)'
    BY <1>2, <2>1, CardClearsKeeps, CardDeclinesKeeps, SettlePaidKeeps, FailTxnKeeps,
       AcceptKeeps,
       ReadyKeeps
    DEF Instant
  <2> QED BY <2>2, OneStep
<1>3. ASSUME NEW w \in Workers, Continue(w) \/ PlaceBothOptions(w) \/ Crash(w)
      PROVE  AllAccounted'
  <2>1. ~Idle(w)
    BY <1>3
    DEF Continue, PlaceCharge, PlaceRelease, PlaceOrder, Apply, Announce, CompleteTxn, Release,
        CancelRead, CancelStripe, CancelMark, CancelCommunity, RemoveRefund, RemoveUpdate, SweepTxn,
        SweepRedeem, SweepClose, PlaceBothOptions, Crash, At, Idle
  <2>2. PICK o \in Orders : o = OrderOf(w)
    BY <2>1, OrdersAssumption DEF IInv, TypeOK, OrderOf
  <2>3. Accounted(o)
    BY <2>2 DEF AllAccounted
  <2>4. OnlyOn(o) /\ Accounted(o)'
    BY <1>3, <2>2, <2>3, PlaceChargeKeeps, PlaceReleaseKeeps, PlaceOrderKeeps, ApplyKeeps,
       AnnounceKeeps, CompleteTxnKeeps, ReleaseKeeps, CancelReadKeeps, CancelStripeKeeps,
       CancelMarkKeeps, CancelCommunityKeeps, RemoveRefundKeeps, RemoveUpdateKeeps, SweepTxnKeeps,
       SweepRedeemKeeps, SweepCloseKeeps, PlaceBothOptionsKeeps, CrashKeeps
    DEF Continue
  <2> QED BY <2>2, <2>4, OneStep
<1> QED BY <1>1, <1>2, <1>3 DEF Next

LEMMA AccountedStutter ==
  ASSUME AllAccounted, UNCHANGED vars
  PROVE  AllAccounted'
<1> SUFFICES ASSUME NEW p \in Orders PROVE Accounted(p)'
  BY DEF AllAccounted
<1>1. Untouched(p)
  BY DEF Untouched, vars, OrderOf
<1> QED BY <1>1, UntouchedKeeps DEF AllAccounted

\* Every order's documents, and what each handler half way knows of them, tell one story.
THEOREM OrdersAccounted == Spec => []AllAccounted
<1>1. IInv /\ IInv' /\ AllAccounted /\ [Next]_vars => AllAccounted'
  BY AccountedStep, AccountedStutter
<1> QED BY <1>1, InitAccounted, IInvHolds, PTL DEF Spec

\* What was handed over was paid for and stays paid for (complete, completeForOrder), and whose
\* order was cancelled after the card cleared got the charge back (cancel,
\* failByPaymentIntent), except for the mishaps PaidAndRefunded names.
THEOREM ServedPaidElseRefunded == Spec => []PaidAndRefunded
<1>1. ASSUME IInv, AllAccounted PROVE PaidAndRefunded
  <2> SUFFICES ASSUME NEW o \in Orders
               PROVE  /\ Settled(o, {"crash", "second_card", "swept"}) /\ status[o] = "completed" =>
                           /\ cover[o] # "full" => txn[o] = "completed" /\ refunded[o] = "no"
                           /\ cover[o] # "none" => redemption[o] = "applied"
                      /\ Settled(o, {"crash", "overlap", "second_card", "refund_refused",
                                     "line_removed"}) =>
                           (status[o] = "cancelled" /\ intent[o] = "succeeded" => refunded[o] = "all")
    BY DEF PaidAndRefunded, ServedIsPaid, CancelledIsRefunded
  <2>1. Accounted(o)
    BY <1>1 DEF AllAccounted
  <2>2. /\ txn[o] \in {"none", "pending", "completed", "failed", "refunded"}
        /\ refunded[o] \in {"no", "lines", "all"}
        /\ status[o] = "completed" => cover[o] = "full" \/ intent[o] = "succeeded"
    BY <1>1 DEF IInv, TypeOK, VendorOnlyPaid
  <2>3. ASSUME Settled(o, {"crash", "second_card", "swept"}), status[o] = "completed"
        PROVE  /\ cover[o] # "full" => txn[o] = "completed" /\ refunded[o] = "no"
               /\ cover[o] # "none" => redemption[o] = "applied"
    <3>1. /\ \A S : ~UnderWay(o, S)
          /\ Spared(o, {"crash", "second_card"}) /\ Spared(o, {"crash", "swept"})
          /\ Spared(o, {"crash"})
      BY <2>3 DEF Settled, UnderWay, Doing, Spared
    <3> QED
      BY <2>1, <2>2, <2>3, <3>1
      DEF Accounted, Documents, GivenBack, Settles, Spends, Served, Spared
  <2>4. ASSUME Settled(o, {"crash", "overlap", "second_card", "refund_refused", "line_removed"})
        PROVE  status[o] = "cancelled" /\ intent[o] = "succeeded" => refunded[o] = "all"
    <3>1. /\ \A S : ~UnderWay(o, S)
          /\ Spared(o, {"crash", "overlap", "second_card", "refund_refused", "line_removed"})
      BY <2>4 DEF Settled, UnderWay, Doing, Spared
    <3> QED BY <2>1, <3>1 DEF Accounted, Refunds
  <2> QED BY <2>3, <2>4
<1> QED BY <1>1, IInvHolds, OrdersAccounted, PTL

\* The pool's money is held for an order only while it can still be paid for (place, the
\* webhooks), and goes back to the pool when the order is cancelled
\* (refundRedemptionForOrder), except for the mishaps CommunityMoneyFollows names.
THEOREM MoneyFollowsOrder == Spec => []CommunityMoneyFollows
<1>1. ASSUME AllAccounted PROVE CommunityMoneyFollows
  <2> SUFFICES ASSUME NEW o \in Orders
               PROVE  /\ Settled(o, {"crash", "both_options"}) /\ redemption[o] = "reserved" =>
                           status[o] = "pending_payment"
                      /\ Settled(o, {"crash", "overlap", "line_removed"}) /\ status[o] = "cancelled" =>
                           redemption[o] # "applied"
    BY DEF CommunityMoneyFollows, HeldOnlyForOrders, CommunityShareReturned
  <2>1. Holds(o) /\ Shares(o)
    BY <1>1 DEF AllAccounted, Accounted
  <2>2. ASSUME NEW S, Settled(o, S) PROVE Spared(o, S) /\ \A T : ~UnderWay(o, T)
    BY <2>2 DEF Settled, UnderWay, Doing, Spared
  <2> QED BY <2>1, <2>2 DEF Holds, Shares
<1> QED BY <1>1, OrdersAccounted, PTL

\* The sweep of abandoned checkouts, which read the transaction some time before it takes the
\* community's share back, does not take it from an order whose card cleared, unless a
\* handler of the order died or two overlapped.
THEOREM SweepSparesPaid == Spec => PaidNeverUnwound
<1> DEFINE Unwinds(o) == redemption[o] = "applied" /\ redemption'[o] = "released"
           Spares == \A o \in Orders : Unwinds(o) =>
                       intent[o] # "succeeded" \/ befell[o] \cap {"crash", "overlap"} # {}
<1>1. ASSUME IInv, AllAccounted, [Next]_vars PROVE [Spares]_vars
  <2> SUFFICES ASSUME Next, NEW p \in Orders, Unwinds(p)
               PROVE  intent[p] # "succeeded" \/ befell[p] \cap {"crash", "overlap"} # {}
    BY <1>1
  <2> USE DEF IInv, TypeOK, Redeem
  <2>1. ASSUME NEW w \in Workers, NEW o \in Orders, Call(w, o) PROVE FALSE
    BY <1>1, <2>1
    DEF Call, PlaceReserve, ConfirmClaim, FailClaim, Complete, CancelClaim, RemoveRead,
        SweepRead
  <2>2. ASSUME NEW o \in Orders, Instant(o) PROVE FALSE
    BY <1>1, <2>2 DEF Instant, CardClears, CardDeclines, SettlePaid, FailTxn, Accept, Ready
  <2>3. ASSUME NEW w \in Workers, Continue(w) \/ PlaceBothOptions(w) \/ Crash(w)
        PROVE  At(w, "sweep_redeem") /\ OrderOf(w) = p
    BY <1>1, <2>3
    DEF Continue, PlaceCharge, PlaceRelease, PlaceOrder, Apply, Announce, CompleteTxn, Release,
        CancelRead, CancelStripe, CancelMark, CancelCommunity, RemoveRefund, RemoveUpdate, SweepTxn,
        SweepRedeem, SweepClose, PlaceBothOptions, Crash
  <2>4. PICK w \in Workers : At(w, "sweep_redeem") /\ OrderOf(w) = p
    BY <2>1, <2>2, <2>3 DEF Next
  <2>5. Sweeps(p) /\ Documents(p)
    BY <1>1 DEF AllAccounted, Accounted
  <2> QED BY <2>4, <2>5 DEF Sweeps, Documents, Doing, Spared, At
<1>2. IInv /\ AllAccounted /\ [Next]_vars => [Spares]_vars
  BY <1>1
<1> QED BY IInvHolds, OrdersAccounted, <1>2, PTL DEF Spec, PaidNeverUnwound
=============================================================================
