SPECIFICATION Spec

CONSTANTS
  Attempt = {a1, a2}
  Key = {k1, k2}
  Body = {b1, b2}
  Awaited = {}
  Kept = {k1, k2}
  MaxMoves = 3

INVARIANT OneMovePerKey
