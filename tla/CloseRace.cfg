SPECIFICATION Spec

CONSTANTS
  a = a
  b = b
  Cash = Cash
  Account = {a, b}
  Id <- CanonicalIds
  Parse <- CanonicalParse
  Amount <- UnitAmounts
  Request = {r1}
  Officer = {f1}
  MaxCash = 1

PROPERTY ClosedAtZero
