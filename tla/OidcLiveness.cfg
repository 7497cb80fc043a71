CONSTANTS
  Requests = {r1, r2}
  idp = idp
  cdn = cdn
  local = local
  other = other
  public1 = public1
  public2 = public2
  loopback = loopback
  private = private
  None = None
  Origins <- FewOrigins
  Issuer <- MCIssuer
  AllowedOrigins <- FewAllowed
  AllowLoopback = TRUE
  Addresses <- MCAddresses
  Class <- MCClass
  Literal <- FewLiteral
  Answers <- OneAnswer
  DiscoveryMax = 1
  JwksMax = 2
  MaxHosts = 3
SPECIFICATION FairSpec
PROPERTIES EveryRequestEnds
CHECK_DEADLOCK FALSE
