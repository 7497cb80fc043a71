CONSTANTS
  Requests = {r1, r2}
  Uris = {u1}
  Keys = {k1, k2}
  None = None
  Ttl = 3
  Cooldown = 2
  MaxTime = 4
  MaxRotations = 2
  MaxFailures = 1
SPECIFICATION Spec
SYMMETRY Symmetry
INVARIANTS TypeOK
PROPERTIES SourceSafe RevokedKeyExpires RotatedKeyWaitsAtMostCooldown
