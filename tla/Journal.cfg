SPECIFICATION Spec

CONSTANTS
  a = a
  b = b
  Account = {a, b}
  Cash = Cash
  Receivable = Receivable
  Income = Income
  Expense = Expense
  Request <- Asks
  Poster = {p1, p2}
  Reader = {r1}
  PageSize = 1
  MaxDay = 2
  MaxEntries = 2
  MaxBegun = 3
  MaxStamp = 3

SYMMETRY Symmetry

INVARIANT BooksBalance
INVARIANT ReversalsCompensate
INVARIANT StatementAddsUp
INVARIANT HistoryMissesNothing
PROPERTY ClosedDaysStay
INVARIANT OnlyReversalsOverdraw
