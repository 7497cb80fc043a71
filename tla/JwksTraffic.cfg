CONSTANTS
  Requests = {r1, r2, r3}
  Uris = {u1}
  Keys = {k1, k2}
  None = None
  Ttl = 2
  Cooldown = 1
  MaxTime = 2
  MaxRotations = 0
  MaxFailures = 1
SPECIFICATION FairSpec
INVARIANTS SingleFlight OutboundBounded
PROPERTIES EveryCallReturns
