------------------------------- MODULE Errand -------------------------------
(***************************************************************************)
(* What a delivery promises, whoever taps when and whatever dies: one      *)
(* driver takes it and stays the one; the customer is charged only then,   *)
(* and once; only that driver is paid, and once.                           *)
(***************************************************************************)
CONSTANTS Errands, Couriers, Nobody

VARIABLES holder, charged, paidTo

vars == <<holder, charged, paidTo>>

Init ==
  /\ holder = [e \in Errands |-> Nobody]
  /\ charged = [e \in Errands |-> "no"]
  /\ paidTo = [e \in Errands |-> Nobody]

Take(e, c) ==
  /\ holder[e] = Nobody
  /\ holder' = [holder EXCEPT ![e] = c]
  /\ UNCHANGED <<charged, paidTo>>

Charge(e) ==
  /\ holder[e] # Nobody /\ charged[e] = "no"
  /\ charged' = [charged EXCEPT ![e] = "taken"]
  /\ UNCHANGED <<holder, paidTo>>

GiveBack(e) ==
  /\ charged[e] = "taken"
  /\ charged' = [charged EXCEPT ![e] = "refunded"]
  /\ UNCHANGED <<holder, paidTo>>

Pay(e) ==
  /\ holder[e] # Nobody /\ paidTo[e] = Nobody
  /\ paidTo' = [paidTo EXCEPT ![e] = holder[e]]
  /\ UNCHANGED <<holder, charged>>

Next ==
  \E e \in Errands : Charge(e) \/ GiveBack(e) \/ Pay(e) \/ \E c \in Couriers : Take(e, c)

Spec == Init /\ [][Next]_vars

=============================================================================
