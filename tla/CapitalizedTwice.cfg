SPECIFICATION Spec

CONSTANTS
  Account = {a}
  Expense = Expense
  Rate = 150
  Opening = 25000
  Teller = {}
  Job = {j1, j2}
  Days = {0, 1, 2}
  Quiet = {a}
  MayHappen = {"overlap"}
  MaxBalance = 60000
  MaxDay = 2
  MaxRows = 4

INVARIANT PaidWhatAccrued
