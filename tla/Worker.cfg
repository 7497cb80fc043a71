SPECIFICATION FairSpec
CONSTANTS
  Requests = {r1, r2, r3}
  MaxConcurrent = 2
  None = None
  Environments <- MCEnvironments
  Wires <- MCWires
  LoopbackHosts <- MCLoopback
  PlaceholderHosts <- MCPlaceholders
CHECK_DEADLOCK FALSE
INVARIANTS
  TypeOK
  SlotsExact
  ReadyHasResources
  NoUseAfterClose
  TrustHardened
PROPERTIES
  AdvertisedUrlAdmitted
  ShutdownCompletes
  ProbesAnswered
