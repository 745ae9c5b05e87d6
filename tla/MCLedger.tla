------------------------------ MODULE MCLedger ------------------------------
(***************************************************************************)
(* The ledger on the accounts of a sale: cash, what the seller is owed,    *)
(* the platform's fee.  sale books three lines, payout two, and typo does  *)
(* not balance.                                                            *)
(***************************************************************************)
EXTENDS Ledger, TLC

CONSTANTS cash, payable, fee, sale, payout, typo, w1, w2

MCNormal == cash :> "debit" @@ payable :> "credit" @@ fee :> "credit"

Line(d, c) == [debit |-> d, credit |-> c]

MCAmount ==
  sale :> (cash :> Line(3, 0) @@ payable :> Line(0, 2) @@ fee :> Line(0, 1))
    @@ payout :> (cash :> Line(0, 2) @@ payable :> Line(2, 0) @@ fee :> Line(0, 0))
    @@ typo :> (cash :> Line(2, 0) @@ payable :> Line(0, 1) @@ fee :> Line(0, 0))

\* Each id is derived from one row, and one worker at a time holds that row.
OneEach == sale :> {w1} @@ payout :> {w2} @@ typo :> {w1}

Others == sale :> {w2} @@ payout :> {w1} @@ typo :> {w1, w2}

\* Two deliveries of the same webhook at once.
Everyone == [t \in Txns |-> Workers]

Nobody == [t \in Txns |-> {}]

=============================================================================
