CONSTANTS
  Requests = {r1, r2, r3}
  Uris = {u1}
  Keys = {k1, k2}
  None = None
  Ttl = 3
  Cooldown = 2
  MaxTime = 6
  MaxRotations = 0
  MaxFailures = 2
SPECIFICATION Spec
SYMMETRY Symmetry
PROPERTIES ForcedRefreshesSpaced
