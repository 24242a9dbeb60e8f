SPECIFICATION FairSpec

CONSTANTS
  x = x
  X = X
  bad = bad
  w1 = w1
  w2 = w2
  p1 = p1
  Peer = {p1}
  Burst = 4
  Cost = 2
  Rate = 1
  Email = {x, X, bad}
  Normalize <- Spellings
  Valid = {x}
  Password = {w1, w2}
  Id = {1, 2, 3, 4}
  Request = {r1, r2}
  Other = {o1}
  MaxConns = 2
  PeerOf <- Peers
  Asked <- Requests

INVARIANT TypeOK
INVARIANT WithinRate
INVARIANT TakenIsTrue
PROPERTY ImplementsRegistry
PROPERTY RegisteredCanLogIn
PROPERTY NobodyIsLockedOut
PROPERTY EveryHandlerEnds
PROPERTY ShutdownCompletes
