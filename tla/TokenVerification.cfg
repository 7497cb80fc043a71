CONSTANTS
  Requests = {r1, r2}
  Uris = {u1, u2}
  k1 = k1
  Keys <- MCKeys
  Tokens <- TimedTokens
  None = None
  Ttl = 1
  Cooldown = 1
  MetadataTtl = 2
  Leeway = 1
  MaxTime = 2
  MaxRotations = 1
  MaxFailures = 0
  MaxMoves = 1
  MaxDiscoveryFailures = 0
SPECIFICATION Spec
SYMMETRY Symmetry
INVARIANTS TypeOK AcceptedTokensCurrent RejectedOnlyForCause
