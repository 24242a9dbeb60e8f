SPECIFICATION FairSpec

CONSTANTS
  a = a
  b = b
  Cash = Cash
  Account = {a, b}
  Id <- SpelledIds
  Parse <- SpelledParse
  Amount <- Amounts
  Request = {r1, r2}
  Officer = {f1}
  MaxCash = 1

INVARIANT IInv
INVARIANT NoOverdraft
INVARIANT DeadlockNeedsSpellings
PROPERTY CashOnlyForActive
PROPERTY ImplementsBank
PROPERTY EveryRequestIsAnswered
