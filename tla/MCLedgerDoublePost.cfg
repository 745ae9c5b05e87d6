CONSTANTS
  cash = cash
  payable = payable
  fee = fee
  sale = sale
  payout = payout
  typo = typo
  w1 = w1
  w2 = w2
  NoTxn = NoTxn
  Workers = {w1, w2}
  Accounts = {cash, payable, fee}
  Txns = {sale, payout, typo}
  Normal <- MCNormal
  Amount <- MCAmount
  Poster <- Everyone
  Reverser <- Nobody
  Repair = FALSE
SPECIFICATION Spec
INVARIANT NoDoublePost
