SPECIFICATION Spec

CONSTANTS
  Attempt = {a1, a2, a3}
  Key = {k1, k2}
  Body = {b1, b2}
  Awaited = {k1}
  Kept = {k1}
  MaxMoves = 3

SYMMETRY Symmetry

INVARIANT AnswersAreReal
INVARIANT CarefulKeysMoveOnce
PROPERTY SettledForGood
