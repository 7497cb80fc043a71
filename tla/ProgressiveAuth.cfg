SPECIFICATION Spec
CONSTANTS
  Clients = {c1, c2}
  None = None
  call = call
  health = health
  admin = admin
  Tools <- MCTools
  ScopeNames = {call, health}
  Roles = {admin}
  Deployments <- MCDeployments
  TokenClaims <- MCTokenClaims
  Shapes <- MCShapes
SYMMETRY Callers
INVARIANTS
  TypeOK
  OnlyAuthorizedToolsRun
  CatalogMatchesCalls
  ChallengesJustified
  OneStepUpSuffices
  DenialsAreFinal
