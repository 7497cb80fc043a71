CONSTANTS
  Requests = {r1, r2}
  idp = idp
  cdn = cdn
  local = local
  other = other
  public1 = public1
  public2 = public2
  loopback = loopback
  private = private
  None = None
  Origins <- MCOrigins
  Issuer <- MCIssuer
  AllowedOrigins <- MCAllowed
  AllowLoopback = TRUE
  Addresses <- MCAddresses
  Class <- MCClass
  Literal <- MCLiteral
  Answers <- MCAnswers
  DiscoveryMax = 1
  JwksMax = 2
  MaxHosts = 3
SPECIFICATION Spec
SYMMETRY Symmetry
INVARIANTS TypeOK OnlyVettedConnections IdentityKept ConnectionsExact BudgetSuffices NoOrphanPools
CHECK_DEADLOCK FALSE
