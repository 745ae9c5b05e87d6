---------------------------- MODULE MCPayForward ----------------------------
(***************************************************************************)
(* The pool with two gifts, an older and a newer one, and two people.      *)
(***************************************************************************)
EXTENDS PayForward, TLC

CONSTANTS u1, u2, r1, r2, w1, w2

Alike == Permutations(Workers) \cup Permutations(Rows)

OneAndTwo == <<1, 2>>

JustTwo == <<2>>

WantUneven == [u \in Users |-> IF u = u1 THEN 1 ELSE 2]

WantAll == [u \in Users |-> 4]

Fees == [a \in 0..4 |-> (a + 1) \div 2]

=============================================================================
