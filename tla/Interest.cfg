SPECIFICATION Spec

CONSTANTS
  Account = {a, b}
  Expense = Expense
  Rate = 150
  Opening = 25000
  Teller = {25000}
  Job = {j1, j2}
  Days = {0, 1, 2}
  Quiet = {b}
  MayHappen = {"abort", "restart", "advances"}
  MaxBalance = 25003
  MaxDay = 2
  MaxRows = 3

INVARIANT PaidWhatAccrued
INVARIANT AccruedOnceADay
INVARIANT DayIsAccrued
INVARIANT NoExtraDays
SYMMETRY Symmetry
