CONSTANTS
  Requests = {r1, r2}
  Uris = {u1}
  k1 = k1
  Keys <- MCKeys
  Tokens <- MixedTokens
  None = None
  Ttl = 1
  Cooldown = 1
  MetadataTtl = 1
  Leeway = 0
  MaxTime = 1
  MaxRotations = 1
  MaxFailures = 1
  MaxMoves = 0
  MaxDiscoveryFailures = 1
SPECIFICATION FairSpec
INVARIANTS NeverBothLocks DiscoveryBounded
 
