--------------------------- MODULE MCIdempotency ---------------------------
(***************************************************************************)
(* Idempotency on three request slots, two keys and two bodies: two keys   *)
(* show that keys do not interfere, two bodies that a key is not reused.   *)
(***************************************************************************)
EXTENDS Idempotency, TLC

Slots == Permutations(Requests) \cup Permutations(Keys) \cup Permutations(Bodies)

=============================================================================
