SPECIFICATION Spec
CONSTANTS
  Clients = {c1}
  None = None
  call = call
  health = health
  admin = admin
  Tools <- MCTools
  ScopeNames = {call, health}
  Roles = {admin}
  Deployments <- MCDeployments
  TokenClaims <- MCTokenClaims
  Shapes <- MCShapes
INVARIANT
  NoImpossibleStepUp
