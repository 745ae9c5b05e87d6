------------------------------ MODULE MCQueue ------------------------------
(***************************************************************************)
(* Two customers, one of whom waves the vendor down and pays twice.        *)
(***************************************************************************)
EXTENDS Queue, TLC

CONSTANTS c1, c2, v1, k1, k2, w1, w2

MCCaller == v1 :> c1

MCPayer == k1 :> c1 @@ k2 :> c1

Sched(t, c) == [tiers |-> t, cap |-> c]

\* A good schedule, and ones that break a rule each.
MCSchedules == {Sched(<<10, 95>>, 100), Sched(<<10, 20>>, 15), Sched(<<20, 20>>, 30), Sched(<<101>>, 101)}

Symmetry == Permutations(Workers)

=============================================================================
