SPECIFICATION Spec

CONSTANTS
  a = a
  l1 = l1
  l2 = l2
  Account = {a}
  Loan = {l1, l2}
  DepositOf <- OneAccount
  Terms <- TwoLoans
  Request = {r1, r2}
  Cash = Cash
  Receivable = Receivable
  Income = Income
  Teller <- Tellers
  MaxCash = 3

SYMMETRY Symmetry

INVARIANT NoOverdraft
INVARIANT ClosedIffPaid
INVARIANT MarkedIsPaidFor
INVARIANT UnpayableStopsLoan
