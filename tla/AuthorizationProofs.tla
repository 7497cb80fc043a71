------------------------- MODULE AuthorizationProofs -------------------------
(***************************************************************************)
(* Proofs about ToolAuthorization and ProgressiveAuth: the decision the    *)
(* code makes is the one the policies mean, and no tool runs without it.   *)
(***************************************************************************)
EXTENDS ProgressiveAuth, TLAPS

-----------------------------------------------------------------------------
(* The decision.                                                           *)

\* Qualifying changes the resource of a scope, never its name.
LEMMA QualifiedTyped ==
  ASSUME NEW s \in Scopes
  PROVE  /\ Qualified(s) \in Scopes
         /\ Qualified(s).name = s.name
         /\ Qualified(s).resource = IF s.resource = "" THEN OwnResource ELSE s.resource
  BY DEF Qualified, Scopes, OwnResource

\* Two scopes have one canonical form exactly when they are the same
\* permission.
LEMMA SamePermission ==
  ASSUME NEW s \in Scopes, NEW c \in Scopes
  PROVE  Qualified(c) = Qualified(s) <=>
           \/ c = s
           \/ c.name = s.name /\ {c.resource, s.resource} \subseteq {"", OwnResource}
<1>1. \A x, y \in Scopes : x = y <=> x.name = y.name /\ x.resource = y.resource
  <2>1. SUFFICES ASSUME NEW x \in Scopes, NEW y \in Scopes,
                        x.name = y.name, x.resource = y.resource
                 PROVE  x = y
    OBVIOUS
  <2>2. /\ x = [resource |-> x.resource, name |-> x.name]
        /\ y = [resource |-> y.resource, name |-> y.name]
    BY DEF Scopes
  <2> QED
    BY <2>1, <2>2
<1>2. /\ Qualified(s) \in Scopes /\ Qualified(s).name = s.name
      /\ Qualified(s).resource = IF s.resource = "" THEN OwnResource ELSE s.resource
      /\ Qualified(c) \in Scopes /\ Qualified(c).name = c.name
      /\ Qualified(c).resource = IF c.resource = "" THEN OwnResource ELSE c.resource
  BY QualifiedTyped
<1>3. Qualified(c) = Qualified(s) <=>
        /\ c.name = s.name
        /\ (IF c.resource = "" THEN OwnResource ELSE c.resource)
             = (IF s.resource = "" THEN OwnResource ELSE s.resource)
  BY <1>1, <1>2
<1>4. c = s <=> c.name = s.name /\ c.resource = s.resource
  BY <1>1
<1>5. {c.resource, s.resource} \subseteq {"", OwnResource} <=>
        c.resource \in {"", OwnResource} /\ s.resource \in {"", OwnResource}
  OBVIOUS
<1> QED
  BY <1>3, <1>4, <1>5 DEF OwnResource

\* A set of scopes stays one when it is qualified, empty only if it was.
LEMMA EffectiveTyped ==
  ASSUME NEW d \in Deployment, NEW S \in SUBSET Scopes
  PROVE  /\ Effective(d, S) \in SUBSET Scopes
         /\ S # {} => Effective(d, S) # {}
<1>1. \A s \in S : Qualified(s) \in Scopes
  BY QualifiedTyped
<1> QED
  BY <1>1 DEF Effective

\* A token's normalized scopes contain the normalized form of a set of scopes
\* exactly when its claims carry each of them.
LEMMA ScopesCarried ==
  ASSUME NEW d \in Deployment, NEW claims \in Claims, NEW S \in SUBSET Scopes
  PROVE  Effective(d, S) \subseteq TokenScopes(d, claims) <=> CarriesAll(d, claims, S)
<1> DEFINE U == claims.scope \cup claims.scp
<1>1. U \subseteq Scopes
  BY DEF Claims
<1>2. CASE d.provider = "entra"
  <2>1. \A s \in S : Qualified(s) \in {Qualified(c) : c \in U} <=> Carries(d, claims, s)
    BY <1>1, <1>2, SamePermission DEF Carries
  <2> QED
    BY <1>2, <2>1 DEF Effective, TokenScopes, CarriesAll
<1>3. CASE d.provider # "entra"
  <2>1. \A s \in S : Carries(d, claims, s) <=> s \in U
    BY <1>3 DEF Carries
  <2>2. Effective(d, S) = S /\ TokenScopes(d, claims) = U
    BY <1>3 DEF Effective, TokenScopes
  <2> QED
    BY <2>1, <2>2 DEF CarriesAll
<1> QED
  BY <1>2, <1>3

\* A principal is a principal.
LEMMA PrincipalTyped ==
  ASSUME NEW d \in Deployment, NEW claims \in Claims
  PROVE  Principal(d, claims) \in Principals /\ Principal(d, claims) # None
<1>1. PrincipalKind(d, claims) \in {"delegated", "application", "unknown"}
  BY DEF PrincipalKind
<1>2. TokenScopes(d, claims) \in SUBSET Scopes
  <2>1. claims.scope \cup claims.scp \in SUBSET Scopes
    BY DEF Claims
  <2> QED
    BY <2>1, EffectiveTyped DEF TokenScopes
<1>3. (IF d.provider = "entra" THEN claims.roles ELSE {}) \in SUBSET Roles
  BY DEF Claims
<1>4. Principal(d, claims) \in Principals
  BY <1>1, <1>2, <1>3 DEF Principal, Principals
<1> QED
  BY <1>4, NoneIsNoRecord

\* The effective policy of a tool differs from the configured one in the form
\* of its scopes only.
LEMMA EffectivePolicyShape ==
  ASSUME NEW d \in Deployment, NEW t \in Tools, d.policy[t] # None
  PROVE  LET p == d.policy[t]
             e == EffectivePolicy(d, t)
         IN  /\ p \in Policies /\ e # None
             /\ e.kind = p.kind
             /\ e.permissions = IF p.kind \in {"delegated_scopes", "oauth_scopes"}
                                  THEN Effective(d, p.permissions) ELSE p.permissions
             /\ p.kind \in {"delegated_scopes", "oauth_scopes"} =>
                  p.permissions \in SUBSET Scopes
             /\ e \in Policies
<1> DEFINE p == d.policy[t]
           e == EffectivePolicy(d, t)
<1>1. p \in Policies
  BY DEF Deployment
<1>2. CASE p.kind \in {"delegated_scopes", "oauth_scopes"}
  <2>1. p \in [kind : {"delegated_scopes", "oauth_scopes"},
               permissions : (SUBSET Scopes) \ {{}}]
    BY <1>1, <1>2 DEF Policies
  <2>2. /\ e = [p EXCEPT !.permissions = Effective(d, p.permissions)]
        /\ e.kind = p.kind /\ e.permissions = Effective(d, p.permissions)
    BY <1>2, <2>1 DEF EffectivePolicy
  <2>3. Effective(d, p.permissions) \in (SUBSET Scopes) \ {{}}
    BY <2>1, EffectiveTyped
  <2>4. e \in Policies
    BY <2>1, <2>2, <2>3 DEF Policies
  <2> QED
    BY <1>1, <1>2, <2>1, <2>2, <2>4, NoneIsNoRecord
<1>3. CASE p.kind \notin {"delegated_scopes", "oauth_scopes"}
  BY <1>1, <1>3, NoneIsNoRecord DEF EffectivePolicy
<1> QED
  BY <1>2, <1>3

\* The service allows a tool exactly when its policy permits the claims, for
\* every registry, provider and token (ToolAuthorizationService.authorize on
\* principal_from_access_token).
THEOREM DecisionSound ==
  ASSUME NEW d \in Deployment, NEW t \in Tools, NEW claims \in Claims
  PROVE  Reason(d, t, Principal(d, claims)) = "allowed" <=> Permitted(d, t, claims)
<1> DEFINE p == d.policy[t]
           e == EffectivePolicy(d, t)
           q == Principal(d, claims)
<1>1. CASE p = None
  BY <1>1 DEF Reason, Permitted, EffectivePolicy
<1>2. CASE p # None
  <2>1. /\ p \in Policies /\ e # None /\ e.kind = p.kind
        /\ e.permissions = IF p.kind \in {"delegated_scopes", "oauth_scopes"}
                             THEN Effective(d, p.permissions) ELSE p.permissions
        /\ p.kind \in {"delegated_scopes", "oauth_scopes"} =>
             p.permissions \in SUBSET Scopes
    BY <1>2, EffectivePolicyShape
  <2>2. /\ q # None /\ q.kind = PrincipalKind(d, claims)
        /\ q.scopes = TokenScopes(d, claims)
        /\ q.roles = IF d.provider = "entra" THEN claims.roles ELSE {}
    BY PrincipalTyped DEF Principal
  <2>3. CASE p.kind = "authenticated"
    BY <1>2, <2>1, <2>2, <2>3 DEF Reason, Permitted
  <2>4. CASE p.kind = "delegated_scopes"
    <3>1. p.permissions \in SUBSET Scopes /\ e.permissions = Effective(d, p.permissions)
      BY <2>1, <2>4
    <3>2. q.kind = "delegated" <=> d.provider = "entra" /\ claims.scp # {} /\ ~claims.app
      BY <2>2 DEF PrincipalKind
    <3>3. e.permissions \subseteq q.scopes <=> CarriesAll(d, claims, p.permissions)
      BY <2>2, <3>1, ScopesCarried
    <3>4. Reason(d, t, q) = "allowed" <=> q.kind = "delegated" /\ e.permissions \subseteq q.scopes
      BY <2>1, <2>2, <2>4 DEF Reason, PermissionReason
    <3> QED
      BY <1>2, <2>4, <3>2, <3>3, <3>4 DEF Permitted
  <2>5. CASE p.kind = "oauth_scopes"
    <3>1. p.permissions \in SUBSET Scopes /\ e.permissions = Effective(d, p.permissions)
      BY <2>1, <2>5
    <3>2. e.permissions \subseteq q.scopes <=> CarriesAll(d, claims, p.permissions)
      BY <2>2, <3>1, ScopesCarried
    <3>3. Reason(d, t, q) = "allowed" <=> e.permissions \subseteq q.scopes
      BY <2>1, <2>2, <2>5 DEF Reason, PermissionReason
    <3> QED
      BY <1>2, <2>5, <3>2, <3>3 DEF Permitted
  <2>6. CASE p.kind = "application_roles"
    <3>1. q.kind = "application" <=> d.provider = "entra" /\ claims.scp = {} /\ claims.app
      BY <2>2 DEF PrincipalKind
    <3>2. Reason(d, t, q) = "allowed" <=> q.kind = "application" /\ p.permissions \subseteq q.roles
      BY <2>1, <2>2, <2>6 DEF Reason, PermissionReason
    <3> QED
      BY <1>2, <2>2, <2>6, <3>1, <3>2 DEF Permitted
  <2> QED
    BY <2>1, <2>3, <2>4, <2>5, <2>6 DEF Policies
<1> QED
  BY <1>1, <1>2

\* Delegated-scope and application-role rules cannot satisfy each other
\* (ADR-0005): no token is allowed both kinds of tool.
THEOREM KindsDisjoint ==
  ASSUME NEW d \in Deployment, NEW claims \in Claims,
         NEW t \in Tools, NEW u \in Tools,
         d.policy[t] # None, d.policy[t].kind = "delegated_scopes",
         d.policy[u] # None, d.policy[u].kind = "application_roles"
  PROVE  ~ /\ Reason(d, t, Principal(d, claims)) = "allowed"
           /\ Reason(d, u, Principal(d, claims)) = "allowed"
  BY DecisionSound DEF Permitted

-----------------------------------------------------------------------------
(* Types.                                                                  *)

\* What a client's request is made of while it has one.
LEMMA RequestTyped ==
  ASSUME TypeOK, NEW c \in Clients, pc[c] # "idle"
  PROVE  /\ request[c] \in Request
         /\ request[c].shape \in Shapes /\ request[c].token \in Token
         /\ request[c].shape \in Shape
         /\ request[c].token.claims \in Claims /\ request[c].token.valid \in BOOLEAN
         /\ request[c].replay \in BOOLEAN /\ request[c].verified \in BOOLEAN
<1>1. request[c] \in Request
  BY DEF TypeOK
<1>2. Shapes \subseteq Shape
  BY InputAssumption
<1> QED
  BY <1>1, <1>2 DEF Request, Token

\* The context of a request the server works on.
LEMMA ContextTyped ==
  ASSUME TypeOK, NEW c \in Clients, pc[c] \notin {"idle", "answered"}
  PROVE  /\ context[c] \in Context
         /\ context[c].mcp \in BOOLEAN /\ context[c].target \in Tools \cup {None}
         /\ context[c].required \in SUBSET Scopes
<1>1. context[c] \in Context
  BY DEF TypeOK
<1> QED
  BY <1>1 DEF Context

\* The deployment is one.
LEMMA DeploymentTyped == TypeOK => deployment \in Deployment
  BY InputAssumption DEF TypeOK

\* A plain outcome is one, and lists and challenges nothing.
LEMMA PlainTyped ==
  ASSUME NEW code \in {200, 400, 401, 403}, NEW result \in Results
  PROVE  /\ Plain(code, result) \in Outcome
         /\ Plain(code, result).result = result
  BY DEF Plain, Outcome

\* A challenge is a set of scopes, and covers missing global scopes.
LEMMA ChallengeTyped ==
  ASSUME TypeOK, NEW c \in Clients, pc[c] = "verifying"
  PROVE  LET scopes == Challenge(context[c], request[c].token.claims)
         IN  /\ scopes \in SUBSET Scopes
             /\ scopes = {} => GlobalScopes(deployment)
                                 \subseteq TokenScopes(deployment, request[c].token.claims)
<1> DEFINE claims == request[c].token.claims
           t == context[c].target
<1>1. deployment \in Deployment /\ claims \in Claims /\ t \in Tools \cup {None}
  BY DeploymentTyped, RequestTyped, ContextTyped
<1>2. deployment.required \in SUBSET Scopes
  BY <1>1 DEF Deployment
<1>3. GlobalScopes(deployment) \in SUBSET Scopes
  BY <1>1, <1>2, EffectiveTyped DEF GlobalScopes
<1>4. /\ MissingGlobal(claims) \in SUBSET Scopes
      /\ MissingGlobal(claims) = {} =>
           GlobalScopes(deployment) \subseteq TokenScopes(deployment, claims)
  BY <1>3 DEF MissingGlobal
<1>5. ASSUME t # None,
             Reason(deployment, t, Principal(deployment, claims)) = "missing_permission"
      PROVE  PolicyScopes(EffectivePolicy(deployment, t)) \in SUBSET Scopes
  <2>1. t \in Tools /\ deployment.policy[t] # None
    BY <1>1, <1>5 DEF Reason, EffectivePolicy
  <2>2. LET p == deployment.policy[t]
            e == EffectivePolicy(deployment, t)
        IN  /\ e.kind = p.kind
            /\ e.permissions = IF p.kind \in {"delegated_scopes", "oauth_scopes"}
                                 THEN Effective(deployment, p.permissions)
                                 ELSE p.permissions
            /\ p.kind \in {"delegated_scopes", "oauth_scopes"} =>
                 p.permissions \in SUBSET Scopes
    BY <1>1, <2>1, EffectivePolicyShape
  <2> QED
    BY <1>1, <2>2, EffectiveTyped DEF PolicyScopes
<1> QED
  BY <1>4, <1>5 DEF Challenge

\* What the tool middleware does is an outcome; a tool ran only if the policy
\* of the called tool, the one in the body, permits the claims.
LEMMA HandledTyped ==
  ASSUME TypeOK, NEW c \in Clients, pc[c] = "dispatching"
  PROVE  LET s == request[c].shape
             claims == request[c].token.claims
             out == Handled(s, Principal(deployment, claims))
         IN  /\ out \in Outcome
             /\ out.result = "ran" => Permitted(deployment, s.body.name, claims)
<1> DEFINE s == request[c].shape
           claims == request[c].token.claims
           q == Principal(deployment, claims)
           out == Handled(s, q)
<1>1. deployment \in Deployment /\ claims \in Claims /\ s \in Shape
  BY DeploymentTyped, RequestTyped
<1>2. s.body.method \in {"tools/call", "tools/list", "other"}
      /\ s.body.name \in Tools \cup {None}
  BY <1>1 DEF Shape, Body
<1>3. CASE s.body.method = "tools/list"
  <2>1. out = [code |-> 200, result |-> "listed", tools |-> Visible(deployment, q),
               challenge |-> {}]
    BY <1>3 DEF Handled, Plain
  <2>2. Visible(deployment, q) \in SUBSET Tools
    BY DEF Visible
  <2> QED
    BY <2>1, <2>2 DEF Outcome, Results
<1>4. CASE s.body.method = "tools/call" /\ s.body.name # None
  <2>1. out = IF Reason(deployment, s.body.name, q) = "allowed"
                THEN Plain(200, "ran") ELSE Plain(200, "denied")
    BY <1>4 DEF Handled
  <2>2. /\ Plain(200, "ran") \in Outcome /\ Plain(200, "denied") \in Outcome
        /\ Plain(200, "denied").result = "denied"
    BY PlainTyped DEF Results
  <2>3. s.body.name \in Tools
    BY <1>2, <1>4
  <2>4. Reason(deployment, s.body.name, q) = "allowed"
          <=> Permitted(deployment, s.body.name, claims)
    BY <1>1, <2>3, DecisionSound
  <2> QED
    BY <2>1, <2>2, <2>4
<1>5. CASE ~(s.body.method = "tools/list")
           /\ ~(s.body.method = "tools/call" /\ s.body.name # None)
  <2>1. out = Plain(200, "passed")
    BY <1>5 DEF Handled
  <2> QED
    BY <2>1, PlainTyped DEF Results
<1> QED
  BY <1>3, <1>4, <1>5

\* A new request is well typed and waits for its verification.
LEMMA LaunchTyped ==
  ASSUME TypeOK, NEW c \in Clients, NEW s \in Shapes, NEW tok \in Token,
         NEW replay \in BOOLEAN, Launch(c, s, tok, replay)
  PROVE  /\ pc' \in [Clients -> {"idle", "verifying", "dispatching", "responding", "answered"}]
         /\ request' \in [Clients -> Request \cup {None}]
         /\ context' \in [Clients -> Context \cup {None}]
         /\ answer' \in [Clients -> Outcome \cup {None}]
         /\ pc'[c] = "verifying" /\ answer'[c] = None
         /\ request'[c] # None /\ context'[c] # None
         /\ \A d \in Clients \ {c} :
              /\ pc'[d] = pc[d] /\ request'[d] = request[d]
              /\ context'[d] = context[d] /\ answer'[d] = answer[d]
<1> DEFINE r == [shape |-> s, token |-> tok, replay |-> replay, verified |-> FALSE]
           x == OpenContext(s)
<1>1. r \in Request /\ r # None
  <2>1. r \in Request
    BY Zenon DEF Request
  <2> QED
    BY <2>1, NoneIsNoState
<1>2. x \in Context /\ x # None
  <2>1. s \in Shape
    BY InputAssumption
  <2> QED
    BY <2>1, NoneIsNoState DEF OpenContext, Context, Shape
<1>3. /\ request' = [request EXCEPT ![c] = r]
      /\ context' = [context EXCEPT ![c] = x]
      /\ pc' = [pc EXCEPT ![c] = "verifying"]
      /\ answer' = [answer EXCEPT ![c] = None]
  BY DEF Launch
<1> HIDE DEF r, x
<1> QED
  BY <1>1, <1>2, <1>3 DEF TypeOK

-----------------------------------------------------------------------------
(* The inductive invariant.                                                *)

\* A request that may be dispatched has a valid token with the global scopes.
DispatchCleared ==
  \A c \in Clients :
    pc[c] = "dispatching" =>
      /\ request[c].token.valid
      /\ CarriesAll(deployment, ClaimsOf(c), deployment.required)

IInv == TypeOK /\ DispatchCleared /\ OnlyAuthorizedToolsRun

\* What DispatchCleared and OnlyAuthorizedToolsRun say about one client, of
\* the things they look at.
Cleared(d, p, r) ==
  p = "dispatching" =>
    r.token.valid /\ CarriesAll(d, r.token.claims, d.required)

RanAuthorized(d, r, out) ==
  out # None /\ out.result = "ran" =>
    /\ r.token.valid
    /\ CarriesAll(d, r.token.claims, d.required)
    /\ Permitted(d, r.shape.body.name, r.token.claims)

\* The invariant, client by client.
LEMMA PerClient ==
  /\ DispatchCleared <=> \A c \in Clients : Cleared(deployment, pc[c], request[c])
  /\ OnlyAuthorizedToolsRun <=>
       \A c \in Clients : RanAuthorized(deployment, request[c], pending[c])
  BY DEF DispatchCleared, OnlyAuthorizedToolsRun, Cleared, RanAuthorized, ClaimsOf

\* The same of the next state.
LEMMA PerClientNext ==
  /\ DispatchCleared' <=> \A c \in Clients : Cleared(deployment', pc'[c], request'[c])
  /\ OnlyAuthorizedToolsRun' <=>
       \A c \in Clients : RanAuthorized(deployment', request'[c], pending'[c])
  BY DEF DispatchCleared, OnlyAuthorizedToolsRun, Cleared, RanAuthorized, ClaimsOf

\* A step of one client that keeps its own part of the invariant keeps all of
\* it.
LEMMA OneClient ==
  ASSUME IInv, NEW c \in Clients, deployment' = deployment,
         TypeOK',
         \A d \in Clients \ {c} :
           pc'[d] = pc[d] /\ request'[d] = request[d] /\ pending'[d] = pending[d],
         Cleared(deployment, pc'[c], request'[c]),
         RanAuthorized(deployment, request'[c], pending'[c])
  PROVE  IInv'
<1>1. \A d \in Clients : Cleared(deployment', pc'[d], request'[d])
  BY PerClient DEF IInv
<1>2. \A d \in Clients : RanAuthorized(deployment', request'[d], pending'[d])
  BY PerClient DEF IInv
<1> QED
  BY <1>1, <1>2, PerClientNext DEF IInv

\* Every initial state satisfies the invariant.
LEMMA InitInvariant == Init => IInv
<1> SUFFICES ASSUME Init PROVE IInv
  OBVIOUS
<1>1. TypeOK
  <2>1. [claims : TokenClaims, valid : BOOLEAN] \subseteq Token
    BY InputAssumption DEF Token
  <2> QED
    BY <2>1 DEF Init, TypeOK
<1>2. DispatchCleared /\ OnlyAuthorizedToolsRun
  BY DEF Init, DispatchCleared, OnlyAuthorizedToolsRun
<1> QED
  BY <1>1, <1>2 DEF IInv

\* A fresh request keeps the invariant.
LEMMA LaunchInvariant ==
  ASSUME IInv, NEW c \in Clients, NEW s \in Shapes, NEW tok \in Token,
         NEW replay \in BOOLEAN, Launch(c, s, tok, replay),
         pc[c] \in {"idle", "answered"},
         token' \in [Clients -> Token], UNCHANGED <<deployment, pending>>
  PROVE  IInv'
<1>1. /\ pc' \in [Clients -> {"idle", "verifying", "dispatching", "responding", "answered"}]
      /\ request' \in [Clients -> Request \cup {None}]
      /\ context' \in [Clients -> Context \cup {None}]
      /\ answer' \in [Clients -> Outcome \cup {None}]
      /\ pc'[c] = "verifying" /\ answer'[c] = None
      /\ request'[c] # None /\ context'[c] # None
      /\ \A d \in Clients \ {c} :
           /\ pc'[d] = pc[d] /\ request'[d] = request[d]
           /\ context'[d] = context[d] /\ answer'[d] = answer[d]
  BY LaunchTyped DEF IInv
<1>2. TypeOK'
  BY <1>1 DEF IInv, TypeOK
<1>3. pending'[c] = None
  BY DEF IInv, TypeOK
<1>4. Cleared(deployment, pc'[c], request'[c])
  BY <1>1 DEF Cleared
<1>5. RanAuthorized(deployment, request'[c], pending'[c])
  BY <1>3 DEF RanAuthorized
<1> QED
  BY <1>1, <1>2, <1>4, <1>5, OneClient

\* Extending a token leaves one.
LEMMA ExtendedTyped ==
  ASSUME NEW claims \in Claims, NEW S \in SUBSET Scopes
  PROVE  Extended(claims, S) \in Claims
<1>1. {[resource |-> "", name |-> s.name] : s \in S} \in SUBSET Scopes
  <2>1. \A s \in S : [resource |-> "", name |-> s.name] \in Scopes
    BY DEF Scopes
  <2> QED
    BY <2>1
<1>2. CASE deployment.provider = "entra"
  BY <1>1, <1>2 DEF Extended, Claims
<1>3. CASE deployment.provider # "entra"
  BY <1>3 DEF Extended, Claims
<1> QED
  BY <1>2, <1>3

\* Every step keeps the invariant.
LEMMA NextInvariant == IInv /\ [Next]_vars => IInv'
<1> SUFFICES ASSUME IInv, [Next]_vars PROVE IInv'
  OBVIOUS
<1> USE DEF IInv
<1>1. ASSUME NEW c \in Clients, Send(c) PROVE IInv'
  <2>1. PICK s \in Shapes : Launch(c, s, token[c], FALSE)
    BY <1>1 DEF Send
  <2>2. token[c] \in Token /\ token' \in [Clients -> Token]
    BY <1>1 DEF Send, TypeOK
  <2>3. pc[c] \in {"idle", "answered"} /\ UNCHANGED <<deployment, pending>>
    BY <1>1 DEF Send
  <2>4. FALSE \in BOOLEAN
    OBVIOUS
  <2> HIDE DEF IInv
  <2> QED
    BY <2>1, <2>2, <2>3, <2>4, LaunchInvariant
<1>2. ASSUME NEW c \in Clients, StepUp(c) PROVE IInv'
  <2> DEFINE tok == [claims |-> Extended(token[c].claims, answer[c].challenge),
                     valid |-> token[c].valid]
  <2>1. /\ token' = [token EXCEPT ![c] = tok]
        /\ Launch(c, request[c].shape, tok, TRUE)
        /\ pc[c] = "answered" /\ UNCHANGED <<deployment, pending>>
    BY <1>2 DEF StepUp
  <2>2. token[c] \in Token /\ answer[c] \in Outcome
    BY <2>1 DEF TypeOK
  <2>3. tok \in Token
    <3>1. /\ token[c].claims \in Claims /\ token[c].valid \in BOOLEAN
          /\ answer[c].challenge \in SUBSET Scopes
      BY <2>2 DEF Token, Outcome
    <3>2. Extended(token[c].claims, answer[c].challenge) \in Claims
      BY <3>1, ExtendedTyped
    <3> QED
      BY <3>1, <3>2 DEF Token
  <2> HIDE DEF tok
  <2>4. token' \in [Clients -> Token]
    BY <2>1, <2>3 DEF TypeOK
  <2>5. request[c].shape \in Shapes
    BY <2>1, RequestTyped
  <2>6. TRUE \in BOOLEAN
    OBVIOUS
  <2> HIDE DEF IInv
  <2> QED
    BY <2>1, <2>3, <2>4, <2>5, <2>6, LaunchInvariant
<1>3. ASSUME NEW c \in Clients, Finish(c) PROVE IInv'
  <2>1. /\ pc[c] = "answered" /\ pc' = [pc EXCEPT ![c] = "idle"]
        /\ request' = [request EXCEPT ![c] = None]
        /\ answer' = [answer EXCEPT ![c] = None]
        /\ UNCHANGED <<deployment, context, pending>>
    BY <1>3 DEF Finish
  <2>2. token' \in [Clients -> Token]
    <3>1. PICK tok \in [claims : TokenClaims, valid : BOOLEAN] :
            token' = [token EXCEPT ![c] = tok]
      BY <1>3 DEF Finish
    <3>2. tok \in Token
      BY InputAssumption DEF Token
    <3> QED
      BY <3>1, <3>2 DEF TypeOK
  <2>3. TypeOK'
    BY <2>1, <2>2 DEF TypeOK
  <2>4. pc'[c] = "idle" /\ pending'[c] = None
    BY <2>1 DEF TypeOK
  <2>5. Cleared(deployment, pc'[c], request'[c])
        /\ RanAuthorized(deployment, request'[c], pending'[c])
    BY <2>4 DEF Cleared, RanAuthorized
  <2>6. \A d \in Clients \ {c} :
          pc'[d] = pc[d] /\ request'[d] = request[d] /\ pending'[d] = pending[d]
    BY <2>1 DEF TypeOK
  <2> HIDE DEF IInv
  <2> QED
    BY <2>1, <2>3, <2>5, <2>6, OneClient
<1>4. ASSUME NEW c \in Clients, VerifyFails(c) PROVE IInv'
  <2> DEFINE out == IF context[c].mcp THEN Plain(401, "nothing") ELSE Plain(200, "public")
  <2>1. /\ pc[c] = "verifying" /\ pc' = [pc EXCEPT ![c] = "responding"]
        /\ pending' = [pending EXCEPT ![c] = out]
        /\ UNCHANGED <<deployment, token, request, context, answer>>
    BY <1>4 DEF VerifyFails
  <2>2. out \in Outcome /\ out # None /\ out.result # "ran"
    BY PlainTyped, NoneIsNoState DEF Results
  <2> HIDE DEF out
  <2>3. TypeOK'
    BY <2>1, <2>2 DEF TypeOK
  <2>4. pc'[c] = "responding" /\ pending'[c] = out
    BY <2>1 DEF TypeOK
  <2>5. Cleared(deployment, pc'[c], request'[c])
        /\ RanAuthorized(deployment, request'[c], pending'[c])
    BY <2>2, <2>4 DEF Cleared, RanAuthorized
  <2>6. \A d \in Clients \ {c} :
          pc'[d] = pc[d] /\ request'[d] = request[d] /\ pending'[d] = pending[d]
    BY <2>1 DEF TypeOK
  <2> HIDE DEF IInv
  <2> QED
    BY <2>1, <2>3, <2>5, <2>6, OneClient
<1>5. ASSUME NEW c \in Clients, VerifyChallenges(c) PROVE IInv'
  <2> DEFINE r == [request[c] EXCEPT !.verified = TRUE]
             scopes == Challenge(context[c], request[c].token.claims)
             x == [context[c] EXCEPT !.required = scopes]
             out == Plain(401, "nothing")
  <2>1. /\ pc[c] = "verifying" /\ pc' = [pc EXCEPT ![c] = "responding"]
        /\ request' = [request EXCEPT ![c] = r]
        /\ context' = [context EXCEPT ![c] = x]
        /\ pending' = [pending EXCEPT ![c] = out]
        /\ UNCHANGED <<deployment, token, answer>>
    BY <1>5 DEF VerifyChallenges, TypeOK
  <2>2. out \in Outcome /\ out # None /\ out.result # "ran"
    BY PlainTyped, NoneIsNoState DEF Results
  <2>3. r \in Request /\ r # None
    BY <2>1, RequestTyped, NoneIsNoState DEF Request
  <2>4. x \in Context /\ x # None
    BY <2>1, ContextTyped, ChallengeTyped, NoneIsNoState DEF Context
  <2> HIDE DEF out, r, x
  <2>5. TypeOK'
    BY <2>1, <2>2, <2>3, <2>4 DEF TypeOK
  <2>6. pc'[c] = "responding" /\ pending'[c] = out
    BY <2>1 DEF TypeOK
  <2>7. Cleared(deployment, pc'[c], request'[c])
        /\ RanAuthorized(deployment, request'[c], pending'[c])
    BY <2>2, <2>6 DEF Cleared, RanAuthorized
  <2>8. \A d \in Clients \ {c} :
          pc'[d] = pc[d] /\ request'[d] = request[d] /\ pending'[d] = pending[d]
    BY <2>1 DEF TypeOK
  <2> HIDE DEF IInv
  <2> QED
    BY <2>1, <2>5, <2>7, <2>8, OneClient
<1>6. ASSUME NEW c \in Clients, VerifyAccepts(c) PROVE IInv'
  <2> DEFINE r == [request[c] EXCEPT !.verified = TRUE]
             out == IF context[c].mcp THEN None ELSE Plain(200, "public")
             p == IF context[c].mcp THEN "dispatching" ELSE "responding"
  <2>1. pc[c] = "verifying" /\ request[c] \in Request /\ pending[c] = None
    BY <1>6, RequestTyped DEF VerifyAccepts, TypeOK
  <2>2. /\ pc' = [pc EXCEPT ![c] = p]
        /\ request' = [request EXCEPT ![c] = r]
        /\ pending' = [pending EXCEPT ![c] = out]
        /\ UNCHANGED <<deployment, token, context, answer>>
    <3>1. CASE context[c].mcp
      <4>1. pending = [pending EXCEPT ![c] = None]
        BY <2>1 DEF TypeOK
      <4> QED
        BY <1>6, <3>1, <4>1 DEF VerifyAccepts
    <3>2. CASE ~context[c].mcp
      BY <1>6, <3>2 DEF VerifyAccepts
    <3> QED
      BY <3>1, <3>2
  <2>3. /\ out \in Outcome \cup {None}
        /\ (out # None) <=> (p = "responding")
        /\ out # None => out.result # "ran"
    BY PlainTyped, NoneIsNoState DEF Results
  <2>4. /\ r \in Request /\ r # None
        /\ r.token = request[c].token /\ r.shape = request[c].shape
    BY <2>1, RequestTyped, NoneIsNoState DEF Request
  <2>5. p = "dispatching" =>
          r.token.valid /\ CarriesAll(deployment, r.token.claims, deployment.required)
    <3>1. SUFFICES ASSUME p = "dispatching"
                   PROVE  r.token.valid
                          /\ CarriesAll(deployment, r.token.claims, deployment.required)
      OBVIOUS
    <3>2. /\ request[c].token.valid
          /\ Challenge(context[c], request[c].token.claims) = {}
      BY <1>6, <3>1 DEF VerifyAccepts
    <3>3. GlobalScopes(deployment) \subseteq TokenScopes(deployment, request[c].token.claims)
      BY <2>1, <3>2, ChallengeTyped
    <3>4. /\ deployment \in Deployment /\ request[c].token.claims \in Claims
          /\ deployment.required \in SUBSET Scopes
      BY <2>1, DeploymentTyped, RequestTyped DEF Deployment
    <3>5. CarriesAll(deployment, request[c].token.claims, deployment.required)
      BY <3>3, <3>4, ScopesCarried DEF GlobalScopes
    <3> QED
      BY <2>4, <3>2, <3>5
  <2>6. p \in {"dispatching", "responding"}
    OBVIOUS
  <2> HIDE DEF out, r, p
  <2>7. TypeOK'
    BY <2>1, <2>2, <2>3, <2>4, <2>6 DEF TypeOK
  <2>8. pc'[c] = p /\ pending'[c] = out /\ request'[c] = r
    BY <2>2 DEF TypeOK
  <2>9. Cleared(deployment, pc'[c], request'[c])
        /\ RanAuthorized(deployment, request'[c], pending'[c])
    BY <2>3, <2>5, <2>8 DEF Cleared, RanAuthorized
  <2>10. \A d \in Clients \ {c} :
           pc'[d] = pc[d] /\ request'[d] = request[d] /\ pending'[d] = pending[d]
    BY <2>2 DEF TypeOK
  <2> HIDE DEF IInv
  <2> QED
    BY <2>2, <2>7, <2>9, <2>10, OneClient
<1>7. ASSUME NEW c \in Clients, Dispatch(c) PROVE IInv'
  <2> DEFINE out == Handled(request[c].shape, Principal(deployment, request[c].token.claims))
  <2>1. /\ pc[c] = "dispatching" /\ pc' = [pc EXCEPT ![c] = "responding"]
        /\ pending' = [pending EXCEPT ![c] = out]
        /\ UNCHANGED <<deployment, token, request, context, answer>>
    BY <1>7 DEF Dispatch
  <2>2. /\ out \in Outcome /\ out # None
        /\ out.result = "ran" =>
             Permitted(deployment, request[c].shape.body.name, request[c].token.claims)
    BY <2>1, HandledTyped, NoneIsNoState
  <2>3. request[c].token.valid
        /\ CarriesAll(deployment, request[c].token.claims, deployment.required)
    BY <2>1 DEF DispatchCleared, ClaimsOf
  <2> HIDE DEF out
  <2>4. TypeOK'
    BY <2>1, <2>2 DEF TypeOK
  <2>5. pc'[c] = "responding" /\ pending'[c] = out /\ request'[c] = request[c]
    BY <2>1 DEF TypeOK
  <2>6. Cleared(deployment, pc'[c], request'[c])
        /\ RanAuthorized(deployment, request'[c], pending'[c])
    BY <2>2, <2>3, <2>5 DEF Cleared, RanAuthorized
  <2>7. \A d \in Clients \ {c} :
          pc'[d] = pc[d] /\ request'[d] = request[d] /\ pending'[d] = pending[d]
    BY <2>1 DEF TypeOK
  <2> HIDE DEF IInv
  <2> QED
    BY <2>1, <2>4, <2>6, <2>7, OneClient
<1>8. ASSUME NEW c \in Clients, SdkRefuses(c) PROVE IInv'
  <2> DEFINE out == Plain(400, "nothing")
  <2>1. /\ pc[c] = "dispatching" /\ pc' = [pc EXCEPT ![c] = "responding"]
        /\ pending' = [pending EXCEPT ![c] = out]
        /\ UNCHANGED <<deployment, token, request, context, answer>>
    BY <1>8 DEF SdkRefuses
  <2>2. out \in Outcome /\ out # None /\ out.result # "ran"
    BY PlainTyped, NoneIsNoState DEF Results
  <2> HIDE DEF out
  <2>3. TypeOK'
    BY <2>1, <2>2 DEF TypeOK
  <2>4. pc'[c] = "responding" /\ pending'[c] = out
    BY <2>1 DEF TypeOK
  <2>5. Cleared(deployment, pc'[c], request'[c])
        /\ RanAuthorized(deployment, request'[c], pending'[c])
    BY <2>2, <2>4 DEF Cleared, RanAuthorized
  <2>6. \A d \in Clients \ {c} :
          pc'[d] = pc[d] /\ request'[d] = request[d] /\ pending'[d] = pending[d]
    BY <2>1 DEF TypeOK
  <2> HIDE DEF IInv
  <2> QED
    BY <2>1, <2>3, <2>5, <2>6, OneClient
<1>9. ASSUME NEW c \in Clients, Respond(c) PROVE IInv'
  <2> DEFINE out == AnsweredFrom(context[c], pending[c])
  <2>1. /\ pc[c] = "responding" /\ pc' = [pc EXCEPT ![c] = "answered"]
        /\ answer' = [answer EXCEPT ![c] = out]
        /\ context' = [context EXCEPT ![c] = None]
        /\ pending' = [pending EXCEPT ![c] = None]
        /\ UNCHANGED <<deployment, token, request>>
    BY <1>9 DEF Respond
  <2>2. out \in Outcome /\ out # None
    <3>1. pending[c] \in Outcome /\ context[c].required \in SUBSET Scopes
      BY <2>1, ContextTyped DEF TypeOK
    <3>2. [Plain(403, "nothing") EXCEPT !.challenge = context[c].required] \in Outcome
      BY <3>1 DEF Plain, Outcome, Results
    <3> QED
      BY <3>1, <3>2, NoneIsNoState DEF AnsweredFrom
  <2> HIDE DEF out
  <2>3. TypeOK'
    BY <2>1, <2>2 DEF TypeOK
  <2>4. pc'[c] = "answered" /\ pending'[c] = None
    BY <2>1 DEF TypeOK
  <2>5. Cleared(deployment, pc'[c], request'[c])
        /\ RanAuthorized(deployment, request'[c], pending'[c])
    BY <2>4 DEF Cleared, RanAuthorized
  <2>6. \A d \in Clients \ {c} :
          pc'[d] = pc[d] /\ request'[d] = request[d] /\ pending'[d] = pending[d]
    BY <2>1 DEF TypeOK
  <2> HIDE DEF IInv
  <2> QED
    BY <2>1, <2>3, <2>5, <2>6, OneClient
<1>10. CASE UNCHANGED vars
  BY <1>10 DEF vars, TypeOK, DispatchCleared, OnlyAuthorizedToolsRun, ClaimsOf
<1> HIDE DEF IInv
<1> QED
  BY <1>1, <1>2, <1>3, <1>4, <1>5, <1>6, <1>7, <1>8, <1>9, <1>10 DEF Next

\* The invariant holds in every reachable state.
LEMMA InvariantHolds == Spec => []IInv
  BY InitInvariant, NextInvariant, PTL DEF Spec

\* The variables keep their types, for any clients, deployments, tokens and
\* requests.
THEOREM TypeCorrect == Spec => []TypeOK
<1>1. IInv => TypeOK
  BY DEF IInv
<1> QED
  BY <1>1, InvariantHolds, PTL

\* No tool runs without a valid token that carries the global scopes and what
\* the tool's own policy asks for, whatever the headers say (verify_token and
\* ToolAuthorizationMiddleware.__call__ together).
THEOREM ToolsAuthorized == Spec => []OnlyAuthorizedToolsRun
<1>1. IInv => OnlyAuthorizedToolsRun
  BY DEF IInv
<1> QED
  BY <1>1, InvariantHolds, PTL

-----------------------------------------------------------------------------
(* Challenges.                                                             *)

\* What Challenge, Extensible and Extended say, of any deployment.
MissingGlobalIn(d, claims) ==
  IF GlobalScopes(d) \subseteq TokenScopes(d, claims) THEN {} ELSE GlobalScopes(d)

MissingToolIn(d, t, claims) ==
  IF t # None /\ Reason(d, t, Principal(d, claims)) = "missing_permission"
    THEN PolicyScopes(EffectivePolicy(d, t)) ELSE {}

ChallengeIn(d, t, claims) == MissingGlobalIn(d, claims) \cup MissingToolIn(d, t, claims)

ExtensibleIn(d, claims, scopes) ==
  d.provider = "entra" =>
    /\ claims.scp # {} /\ ~claims.app
    /\ \A s \in scopes : s.resource \in {"", OwnResource}

ExtendedIn(d, claims, scopes) ==
  IF d.provider = "entra"
    THEN [claims EXCEPT !.scp = claims.scp \cup
            {[resource |-> "", name |-> s.name] : s \in scopes}]
    ELSE [claims EXCEPT !.scope = claims.scope \cup scopes]

LEMMA SameChallenges ==
  ASSUME NEW ctx, NEW claims, NEW scopes
  PROVE  /\ Challenge(ctx, claims) = ChallengeIn(deployment, ctx.target, claims)
         /\ Extensible(claims, scopes) <=> ExtensibleIn(deployment, claims, scopes)
         /\ Extended(claims, scopes) = ExtendedIn(deployment, claims, scopes)
BY DEF Challenge, ChallengeIn, MissingGlobal, MissingGlobalIn, MissingToolIn, Extensible,
       ExtensibleIn, Extended, ExtendedIn

\* Qualifying a second time changes nothing, and distributes over a union.
LEMMA EffectiveAgain ==
  ASSUME NEW d \in Deployment, NEW S \in SUBSET Scopes, NEW T \in SUBSET Scopes
  PROVE  /\ Effective(d, Effective(d, S)) = Effective(d, S)
         /\ Effective(d, S \cup T) = Effective(d, S) \cup Effective(d, T)
<1>1. \A s \in S : Qualified(Qualified(s)) = Qualified(s)
  BY DEF Qualified, OwnResource
<1> QED
  BY <1>1 DEF Effective

\* The scopes a tool's policy asks for are the configured ones, qualified.
LEMMA AskedScopes ==
  ASSUME NEW d \in Deployment, NEW t \in Tools, d.policy[t] # None
  PROVE  LET p == d.policy[t]
             asked == PolicyScopes(EffectivePolicy(d, t))
         IN  /\ PolicyScopes(p) \in SUBSET Scopes
             /\ asked = Effective(d, PolicyScopes(p))
             /\ p.kind \in {"delegated_scopes", "oauth_scopes"} =>
                  asked = EffectivePolicy(d, t).permissions
             /\ p.kind \notin {"delegated_scopes", "oauth_scopes"} => asked = {}
<1> DEFINE p == d.policy[t]
<1>1. CASE p.kind \in {"delegated_scopes", "oauth_scopes"}
  BY <1>1, EffectivePolicyShape DEF PolicyScopes
<1>2. CASE p.kind \notin {"delegated_scopes", "oauth_scopes"}
  BY <1>2, EffectivePolicyShape DEF PolicyScopes, Effective
<1> QED
  BY <1>1, <1>2

\* When permission is what a token lacks.
LEMMA MissingMeans ==
  ASSUME NEW d \in Deployment, NEW t \in Tools, NEW claims \in Claims
  PROVE  LET p == d.policy[t]
             asked == EffectivePolicy(d, t).permissions
         IN  Reason(d, t, Principal(d, claims)) = "missing_permission" <=>
               /\ p # None
               /\ \/ /\ p.kind = "oauth_scopes"
                     /\ ~(asked \subseteq TokenScopes(d, claims))
                  \/ /\ p.kind = "delegated_scopes" /\ PrincipalKind(d, claims) = "delegated"
                     /\ ~(asked \subseteq TokenScopes(d, claims))
                  \/ /\ p.kind = "application_roles"
                     /\ PrincipalKind(d, claims) = "application"
                     /\ ~(asked \subseteq Principal(d, claims).roles)
<1> DEFINE p == d.policy[t]
           e == EffectivePolicy(d, t)
           q == Principal(d, claims)
<1>1. CASE p = None
  BY <1>1 DEF Reason, EffectivePolicy
<1>2. CASE p # None
  <2>1. p \in Policies /\ e # None /\ e.kind = p.kind
    BY <1>2, EffectivePolicyShape
  <2>2. q # None /\ q.kind = PrincipalKind(d, claims) /\ q.scopes = TokenScopes(d, claims)
    BY PrincipalTyped DEF Principal
  <2>3. p.kind \in {"authenticated", "delegated_scopes", "oauth_scopes", "application_roles"}
    BY <2>1 DEF Policies
  <2>4. Reason(d, t, q) =
          CASE e.kind = "authenticated" -> "allowed"
            [] e.kind = "delegated_scopes" ->
                 IF q.kind # "delegated" THEN "wrong_principal_kind"
                 ELSE PermissionReason(e, q.scopes)
            [] e.kind = "application_roles" ->
                 IF q.kind # "application" THEN "wrong_principal_kind"
                 ELSE PermissionReason(e, q.roles)
            [] e.kind = "oauth_scopes" -> PermissionReason(e, q.scopes)
    BY <2>1, <2>2 DEF Reason
  <2>5. CASE p.kind = "authenticated"
    BY <1>2, <2>1, <2>4, <2>5
  <2>6. CASE p.kind = "delegated_scopes"
    BY <1>2, <2>1, <2>2, <2>4, <2>6 DEF PermissionReason
  <2>7. CASE p.kind = "oauth_scopes"
    BY <1>2, <2>1, <2>2, <2>4, <2>7 DEF PermissionReason
  <2>8. CASE p.kind = "application_roles"
    BY <1>2, <2>1, <2>2, <2>4, <2>8 DEF PermissionReason
  <2> QED
    BY <2>3, <2>5, <2>6, <2>7, <2>8
<1> QED
  BY <1>1, <1>2

\* What a challenge asks for.
Needed(d, t) ==
  d.required \cup
    (IF t # None /\ d.policy[t] # None THEN PolicyScopes(d.policy[t]) ELSE {})

\* A challenge stays within what is needed, and the token does not carry it.
LEMMA ChallengeFair ==
  ASSUME NEW d \in Deployment, NEW t \in Tools \cup {None}, NEW claims \in Claims,
         ChallengeIn(d, t, claims) # {}
  PROVE  /\ ChallengeIn(d, t, claims) \subseteq Effective(d, Needed(d, t))
         /\ ~CarriesAll(d, claims, ChallengeIn(d, t, claims))
<1> DEFINE global == MissingGlobalIn(d, claims)
           tool   == MissingToolIn(d, t, claims)
<1>1. d.required \in SUBSET Scopes
  BY DEF Deployment
<1>2. /\ global \in {{}, Effective(d, d.required)}
      /\ global # {} => ~(global \subseteq TokenScopes(d, claims))
  BY DEF MissingGlobalIn, GlobalScopes
<1>3. CASE tool = {}
  <2>1. ChallengeIn(d, t, claims) = Effective(d, d.required)
        /\ ~(Effective(d, d.required) \subseteq TokenScopes(d, claims))
    BY <1>2, <1>3 DEF ChallengeIn
  <2>2. Effective(d, d.required) \in SUBSET Scopes
    BY <1>1, EffectiveTyped
  <2>3. ~CarriesAll(d, claims, Effective(d, d.required))
    BY <1>1, <2>1, <2>2, ScopesCarried, EffectiveAgain
  <2>4. Effective(d, d.required) \subseteq Effective(d, Needed(d, t))
    BY DEF Effective, Needed
  <2> QED
    BY <2>1, <2>3, <2>4
<1>4. CASE tool # {}
  <2> DEFINE asked == PolicyScopes(d.policy[t])
  <2>1. /\ t \in Tools /\ tool = PolicyScopes(EffectivePolicy(d, t))
        /\ Reason(d, t, Principal(d, claims)) = "missing_permission"
    BY <1>4 DEF MissingToolIn
  <2>2. d.policy[t] # None
    BY <2>1, MissingMeans
  <2>3. /\ asked \in SUBSET Scopes /\ tool = Effective(d, asked)
        /\ tool = EffectivePolicy(d, t).permissions
        /\ d.policy[t].kind \in {"delegated_scopes", "oauth_scopes"}
    BY <1>4, <2>1, <2>2, AskedScopes
  <2>4. ~(tool \subseteq TokenScopes(d, claims))
    BY <2>1, <2>3, MissingMeans
  <2>5. Needed(d, t) = d.required \cup asked
    BY <2>1, <2>2, InputAssumption DEF Needed
  <2> HIDE DEF asked, global, tool
  <2>6. ChallengeIn(d, t, claims) = global \cup tool
    BY DEF ChallengeIn, global, tool
  <2>7. Effective(d, Needed(d, t)) = Effective(d, d.required) \cup Effective(d, asked)
    <3>1. Effective(d, d.required \cup asked) = Effective(d, d.required) \cup Effective(d, asked)
      <4>1. asked \in SUBSET Scopes
        BY <2>3
      <4> QED
        BY <1>1, <4>1, EffectiveAgain
    <3> QED
      BY <2>5, <3>1
  <2>8. Effective(d, asked) \in SUBSET Scopes /\ Effective(d, d.required) \in SUBSET Scopes
    BY <1>1, <2>3, EffectiveTyped
  <2>9. ~CarriesAll(d, claims, tool)
    <3>1. asked \in SUBSET Scopes /\ tool = Effective(d, asked)
      BY <2>3
    <3>2. Effective(d, tool) = tool /\ tool \in SUBSET Scopes
      BY <2>8, <3>1, EffectiveAgain
    <3> QED
      BY <2>4, <3>2, ScopesCarried
  <2>10. ~CarriesAll(d, claims, global \cup tool)
    BY <2>9 DEF CarriesAll
  <2> QED
    BY <1>2, <2>3, <2>6, <2>7, <2>10
<1> QED
  BY <1>3, <1>4

\* The larger token has what the smaller one had and all that was asked for.
LEMMA ExtensionGrants ==
  ASSUME NEW d \in Deployment, NEW claims \in Claims, NEW S \in SUBSET Scopes,
         Effective(d, S) = S, ExtensibleIn(d, claims, S)
  PROVE  LET larger == ExtendedIn(d, claims, S)
         IN  /\ larger \in Claims
             /\ TokenScopes(d, claims) \cup S \subseteq TokenScopes(d, larger)
             /\ PrincipalKind(d, larger) = "delegated" => PrincipalKind(d, claims) = "delegated"
<1> DEFINE larger == ExtendedIn(d, claims, S)
           short  == {[resource |-> "", name |-> s.name] : s \in S}
<1>1. CASE d.provider = "entra"
  <2>1. short \in SUBSET Scopes
    <3>1. \A s \in S : [resource |-> "", name |-> s.name] \in Scopes
      BY DEF Scopes
    <3> QED
      BY <3>1
  <2>2. /\ larger \in Claims /\ larger.scope = claims.scope
        /\ larger.scp = claims.scp \cup short /\ larger.app = claims.app
    <3> HIDE DEF short
    <3>1. larger = [claims EXCEPT !.scp = claims.scp \cup short]
      BY <1>1 DEF ExtendedIn, short
    <3> QED
      BY <2>1, <3>1 DEF Claims
  <2>3. \A s \in S : \E x \in short : Qualified(x) = s
    <3> SUFFICES ASSUME NEW s \in S PROVE \E x \in short : Qualified(x) = s
      OBVIOUS
    <3> DEFINE x == [resource |-> "", name |-> s.name]
    <3>1. PICK y \in S : s = Qualified(y)
      BY <1>1 DEF Effective
    <3>2. y \in Scopes /\ s \in Scopes /\ y.resource \in {"", OwnResource}
      BY <1>1, <3>1 DEF ExtensibleIn
    <3>3. s.resource = OwnResource
      BY <3>1, <3>2, QualifiedTyped
    <3>4. s = [resource |-> s.resource, name |-> s.name]
      BY <3>2 DEF Scopes
    <3>5. Qualified(x) = s
      BY <3>3, <3>4 DEF Qualified
    <3> QED
      BY <3>5
  <2>4. /\ TokenScopes(d, larger) =
             {Qualified(s) : s \in claims.scope \cup (claims.scp \cup short)}
        /\ TokenScopes(d, claims) = {Qualified(s) : s \in claims.scope \cup claims.scp}
    BY <1>1, <2>2 DEF TokenScopes, Effective
  <2>5. TokenScopes(d, claims) \cup S \subseteq TokenScopes(d, larger)
    <3> HIDE DEF short, larger
    <3> QED
      BY <2>3, <2>4
  <2>6. PrincipalKind(d, larger) = "delegated" => PrincipalKind(d, claims) = "delegated"
    BY <1>1 DEF PrincipalKind, ExtensibleIn
  <2> QED
    BY <2>2, <2>5, <2>6
<1>2. CASE d.provider # "entra"
  <2>1. /\ larger \in Claims /\ larger.scope = claims.scope \cup S
        /\ larger.scp = claims.scp
    BY <1>2 DEF ExtendedIn, Claims
  <2>2. TokenScopes(d, claims) \cup S \subseteq TokenScopes(d, larger)
    BY <1>2, <2>1 DEF TokenScopes, Effective
  <2>3. PrincipalKind(d, larger) # "delegated"
    BY <1>2 DEF PrincipalKind
  <2> QED
    BY <2>1, <2>2, <2>3
<1> QED
  BY <1>1, <1>2

\* Nothing is missing from a token that was extended by a challenge.
LEMMA NothingLeft ==
  ASSUME NEW d \in Deployment, NEW t \in Tools \cup {None}, NEW claims \in Claims,
         ExtensibleIn(d, claims, ChallengeIn(d, t, claims))
  PROVE  ChallengeIn(d, t, ExtendedIn(d, claims, ChallengeIn(d, t, claims))) = {}
<1> DEFINE S == ChallengeIn(d, t, claims)
           larger == ExtendedIn(d, claims, S)
<1>1. S \in SUBSET Scopes /\ Effective(d, S) = S
  <2>1. d.required \in SUBSET Scopes
    BY DEF Deployment
  <2>2. \E A \in SUBSET Scopes : MissingGlobalIn(d, claims) = Effective(d, A)
    <3>1. Effective(d, {}) = {}
      BY DEF Effective
    <3> QED
      BY <2>1, <3>1 DEF MissingGlobalIn, GlobalScopes
  <2>3. \E B \in SUBSET Scopes : MissingToolIn(d, t, claims) = Effective(d, B)
    <3>1. CASE t # None /\ Reason(d, t, Principal(d, claims)) = "missing_permission"
      <4>1. t \in Tools /\ d.policy[t] # None
        BY <3>1, MissingMeans
      <4> QED
        BY <3>1, <4>1, AskedScopes DEF MissingToolIn
    <3>2. CASE ~(t # None /\ Reason(d, t, Principal(d, claims)) = "missing_permission")
      <4>1. MissingToolIn(d, t, claims) = {}
        BY <3>2 DEF MissingToolIn
      <4>2. Effective(d, {}) = {}
        BY DEF Effective
      <4> QED
        BY <4>1, <4>2
    <3> QED
      BY <3>1, <3>2
  <2>4. PICK A \in SUBSET Scopes, B \in SUBSET Scopes :
          S = Effective(d, A) \cup Effective(d, B)
    BY <2>2, <2>3 DEF ChallengeIn
  <2>5. S = Effective(d, A \cup B) /\ A \cup B \in SUBSET Scopes
    BY <2>4, EffectiveAgain
  <2> HIDE DEF S
  <2> QED
    BY <2>5, EffectiveTyped, EffectiveAgain
<1> HIDE DEF S
<1>2. /\ larger \in Claims
      /\ TokenScopes(d, claims) \cup S \subseteq TokenScopes(d, larger)
      /\ PrincipalKind(d, larger) = "delegated" => PrincipalKind(d, claims) = "delegated"
  BY <1>1, ExtensionGrants DEF S
<1> HIDE DEF larger
<1>3. MissingGlobalIn(d, larger) = {}
  <2>1. GlobalScopes(d) \subseteq TokenScopes(d, claims) \/ GlobalScopes(d) \subseteq S
    BY DEF S, ChallengeIn, MissingGlobalIn
  <2> QED
    BY <1>2, <2>1 DEF MissingGlobalIn
<1>4. MissingToolIn(d, t, larger) = {}
  <2> SUFFICES ASSUME t # None, Reason(d, t, Principal(d, larger)) = "missing_permission",
                      PolicyScopes(EffectivePolicy(d, t)) # {}
               PROVE  FALSE
    BY DEF MissingToolIn
  <2> DEFINE asked == EffectivePolicy(d, t).permissions
  <2>1. t \in Tools /\ d.policy[t] # None
    BY <1>2, MissingMeans
  <2>2. /\ d.policy[t].kind \in {"delegated_scopes", "oauth_scopes"}
        /\ PolicyScopes(EffectivePolicy(d, t)) = asked
    BY <2>1, AskedScopes
  <2>3. /\ ~(asked \subseteq TokenScopes(d, larger))
        /\ d.policy[t].kind = "delegated_scopes" => PrincipalKind(d, larger) = "delegated"
    BY <1>2, <2>1, <2>2, MissingMeans
  <2>4. Reason(d, t, Principal(d, claims)) = "missing_permission"
    BY <1>2, <2>1, <2>2, <2>3, MissingMeans
  <2>5. asked \subseteq S
    BY <2>1, <2>2, <2>4 DEF S, ChallengeIn, MissingToolIn
  <2> QED
    BY <1>2, <2>3, <2>5
<1> QED
  BY <1>3, <1>4 DEF ChallengeIn, larger, S

\* A token that may still grow gains nothing a tool denied it after nothing was
\* missing: the policy is absent, or asks for another kind of principal.
LEMMA DenialFinal ==
  ASSUME NEW d \in Deployment, NEW t \in Tools, NEW claims \in Claims,
         ~Permitted(d, t, claims), ChallengeIn(d, t, claims) = {},
         t # None, ExtensibleIn(d, claims, {})
  PROVE  ~Permitted(d, t, ExtendedIn(d, claims, Scopes))
<1> DEFINE p == d.policy[t]
           larger == ExtendedIn(d, claims, Scopes)
<1>1. CASE p = None
  BY <1>1 DEF Permitted
<1>2. CASE p # None
  <2>1. p \in Policies
    BY <1>2, EffectivePolicyShape
  <2>2. CASE p.kind = "authenticated"
    BY <1>2, <2>2 DEF Permitted
  <2>3. CASE p.kind \in {"delegated_scopes", "oauth_scopes"}
    <3>1. Reason(d, t, Principal(d, claims)) # "missing_permission"
      <4>1. /\ PolicyScopes(EffectivePolicy(d, t)) = EffectivePolicy(d, t).permissions
            /\ EffectivePolicy(d, t).permissions # {}
        <5>1. p.permissions \in (SUBSET Scopes) \ {{}}
          BY <2>1, <2>3 DEF Policies
        <5> QED
          BY <1>2, <2>3, <5>1, AskedScopes, EffectivePolicyShape, EffectiveTyped
      <4> QED
        BY <4>1 DEF ChallengeIn, MissingToolIn
    <3>2. /\ EffectivePolicy(d, t).permissions = Effective(d, p.permissions)
          /\ p.permissions \in SUBSET Scopes
      BY <1>2, <2>3, EffectivePolicyShape
    <3>3. ~CarriesAll(d, claims, p.permissions)
            <=> ~(EffectivePolicy(d, t).permissions \subseteq TokenScopes(d, claims))
      BY <3>2, ScopesCarried
    <3>4. p.kind = "delegated_scopes" /\ PrincipalKind(d, claims) # "delegated"
      <4>1. CASE p.kind = "oauth_scopes"
        BY <1>2, <3>1, <3>3, <4>1, MissingMeans DEF Permitted
      <4>2. CASE p.kind = "delegated_scopes" /\ PrincipalKind(d, claims) = "delegated"
        BY <1>2, <3>1, <3>3, <4>2, MissingMeans DEF Permitted, PrincipalKind
      <4> QED
        BY <2>3, <4>1, <4>2
    <3>5. d.provider # "entra"
      BY <3>4 DEF PrincipalKind, ExtensibleIn
    <3> QED
      BY <3>4, <3>5 DEF Permitted
  <2>4. CASE p.kind = "application_roles"
    <3>1. d.provider = "entra" => larger.scp # {}
      BY DEF ExtensibleIn, ExtendedIn, Claims
    <3> QED
      BY <1>2, <2>4, <3>1 DEF Permitted
  <2> QED
    BY <2>1, <2>2, <2>3, <2>4 DEF Policies
<1> QED
  BY <1>1, <1>2

-----------------------------------------------------------------------------
(* The second invariant: how each answer came about.                       *)

Target(s) == IF s.mcp THEN s.header ELSE None

\* What an answer v to the request r can be.
Heard(d, r, v) ==
  LET claims == r.token.claims
      missing == ChallengeIn(d, Target(r.shape), claims)
  IN  /\ v.code = 401 <=> r.shape.mcp /\ ~r.verified
      /\ v.challenge # {} =>
           /\ r.shape.mcp /\ r.token.valid /\ v.code = 403 /\ v.result = "nothing"
           /\ v.challenge = missing
      /\ v.result = "listed" => v.tools = {t \in Tools : Permitted(d, t, claims)}
      /\ v.result = "denied" =>
           /\ r.shape.mcp /\ missing = {}
           /\ r.shape.body.name \in Tools /\ ~Permitted(d, r.shape.body.name, claims)

\* One client's request: it is about the token the client holds; it sees its own
\* context; what was asked for once is not missing from the replay.
Traced(d, tok, p, r, x, out, v) ==
  LET missing == ChallengeIn(d, Target(r.shape), r.token.claims) IN
  /\ p # "idle" => r.token = tok /\ (r.replay /\ r.shape.mcp => missing = {})
  /\ p \in {"verifying", "dispatching"} => x = OpenContext(r.shape)
  /\ p = "verifying" => ~r.verified
  /\ p = "dispatching" => r.verified /\ r.shape.mcp /\ missing = {}
  /\ p = "responding" => Heard(d, r, AnsweredFrom(x, out))
  /\ p = "answered" => Heard(d, r, v)

TraceInv ==
  \A c \in Clients :
    Traced(deployment, token[c], pc[c], request[c], context[c], pending[c], answer[c])

\* The others' parts stay when one client's step keeps its own.
LEMMA OneTrace ==
  ASSUME TraceInv, NEW c \in Clients, deployment' = deployment,
         \A e \in Clients \ {c} :
           /\ token'[e] = token[e] /\ pc'[e] = pc[e] /\ request'[e] = request[e]
           /\ context'[e] = context[e] /\ pending'[e] = pending[e] /\ answer'[e] = answer[e],
         Traced(deployment, token'[c], pc'[c], request'[c], context'[c], pending'[c], answer'[c])
  PROVE  TraceInv'
<1>1. \A e \in Clients :
        Traced(deployment', token'[e], pc'[e], request'[e], context'[e], pending'[e], answer'[e])
  BY DEF TraceInv
<1> QED
  BY <1>1 DEF TraceInv

LEMMA OpenTarget ==
  ASSUME NEW s \in Shape
  PROVE  /\ OpenContext(s).mcp = s.mcp /\ OpenContext(s).target = Target(s)
         /\ OpenContext(s).required = {} /\ Target(s) \in Tools \cup {None}
BY DEF OpenContext, Target, Shape

\* A fresh request.
LEMMA LaunchTraced ==
  ASSUME TypeOK, TraceInv, NEW c \in Clients, NEW s \in Shapes, NEW tok \in Token,
         NEW replay \in BOOLEAN, Launch(c, s, tok, replay),
         replay /\ s.mcp => ChallengeIn(deployment, Target(s), tok.claims) = {},
         token' = [token EXCEPT ![c] = tok], UNCHANGED <<deployment, pending>>
  PROVE  TraceInv'
<1> DEFINE r == [shape |-> s, token |-> tok, replay |-> replay, verified |-> FALSE]
           x == OpenContext(s)
<1>1. /\ r.shape = s /\ r.token = tok /\ r.replay = replay /\ ~r.verified
  OBVIOUS
<1>2. /\ request' = [request EXCEPT ![c] = r]
      /\ context' = [context EXCEPT ![c] = x]
      /\ pc' = [pc EXCEPT ![c] = "verifying"]
      /\ answer' = [answer EXCEPT ![c] = None]
  BY DEF Launch
<1> HIDE DEF r
<1>3. Traced(deployment, tok, "verifying", r, x, pending'[c], answer'[c])
  BY <1>1 DEF Traced
<1> HIDE DEF x
<1>4. /\ token'[c] = tok /\ pc'[c] = "verifying" /\ request'[c] = r /\ context'[c] = x
      /\ \A e \in Clients \ {c} :
           /\ token'[e] = token[e] /\ pc'[e] = pc[e] /\ request'[e] = request[e]
           /\ context'[e] = context[e] /\ pending'[e] = pending[e] /\ answer'[e] = answer[e]
  BY <1>2 DEF TypeOK
<1> QED
  BY <1>3, <1>4, OneTrace

\* A step that decides what is sent.
LEMMA RespondingTraced ==
  ASSUME TypeOK, TraceInv, NEW c \in Clients, NEW r, NEW x, NEW out,
         pc[c] # "idle",
         pc' = [pc EXCEPT ![c] = "responding"],
         request' = [request EXCEPT ![c] = r],
         context' = [context EXCEPT ![c] = x],
         pending' = [pending EXCEPT ![c] = out],
         UNCHANGED <<deployment, token, answer>>,
         r.token = request[c].token, r.shape = request[c].shape, r.replay = request[c].replay,
         Heard(deployment, r, AnsweredFrom(x, out))
  PROVE  TraceInv'
<1>1. Traced(deployment, token[c], pc[c], request[c], context[c], pending[c], answer[c])
  BY DEF TraceInv
<1>2. Traced(deployment, token[c], "responding", r, x, out, answer[c])
  BY <1>1 DEF Traced
<1>3. /\ token'[c] = token[c] /\ pc'[c] = "responding" /\ request'[c] = r /\ context'[c] = x
      /\ pending'[c] = out /\ answer'[c] = answer[c]
      /\ \A e \in Clients \ {c} :
           /\ token'[e] = token[e] /\ pc'[e] = pc[e] /\ request'[e] = request[e]
           /\ context'[e] = context[e] /\ pending'[e] = pending[e] /\ answer'[e] = answer[e]
  BY DEF TypeOK
<1> QED
  BY <1>2, <1>3, OneTrace

LEMMA PlainFacts ==
  ASSUME NEW code, NEW result
  PROVE  /\ Plain(code, result).code = code /\ Plain(code, result).result = result
         /\ Plain(code, result).challenge = {}
BY DEF Plain

LEMMA TraceNext == IInv /\ TraceInv /\ [Next]_vars => TraceInv'
<1> SUFFICES ASSUME IInv, TraceInv, [Next]_vars PROVE TraceInv'
  OBVIOUS
<1>0. TypeOK /\ deployment \in Deployment
  BY DeploymentTyped DEF IInv
<1>1. ASSUME NEW c \in Clients, Send(c) PROVE TraceInv'
  <2>1. PICK s \in Shapes : Launch(c, s, token[c], FALSE)
    BY <1>1 DEF Send
  <2>2. token[c] \in Token /\ FALSE \in BOOLEAN /\ token' = [token EXCEPT ![c] = token[c]]
    BY <1>0, <1>1 DEF Send, TypeOK
  <2>3. UNCHANGED <<deployment, pending>>
    BY <1>1 DEF Send
  <2> QED
    BY <1>0, <2>1, <2>2, <2>3, LaunchTraced
<1>2. ASSUME NEW c \in Clients, StepUp(c) PROVE TraceInv'
  <2> DEFINE S == answer[c].challenge
             claims == token[c].claims
             s == request[c].shape
             tok == [claims |-> Extended(claims, S), valid |-> token[c].valid]
  <2>1. /\ pc[c] = "answered" /\ S # {} /\ Extensible(claims, S)
        /\ token' = [token EXCEPT ![c] = tok] /\ Launch(c, s, tok, TRUE)
        /\ UNCHANGED <<deployment, pending>>
    BY <1>2 DEF StepUp
  <2>2. /\ token[c] \in Token /\ S \in SUBSET Scopes /\ claims \in Claims
        /\ s \in Shapes /\ s \in Shape
    BY <1>0, <2>1, RequestTyped DEF TypeOK, Outcome, Token
  <2>3. S = ChallengeIn(deployment, Target(s), claims)
    BY <2>1 DEF TraceInv, Traced, Heard
  <2>4. ChallengeIn(deployment, Target(s), ExtendedIn(deployment, claims, S)) = {}
    <3>1. ExtensibleIn(deployment, claims, S)
      BY <2>1, SameChallenges
    <3> HIDE DEF S, claims, s
    <3> QED
      BY <1>0, <2>2, <2>3, <3>1, OpenTarget, NothingLeft
  <2>5. tok \in Token /\ tok.claims = ExtendedIn(deployment, claims, S)
    <3>1. Extended(claims, S) \in Claims
      BY <2>2, ExtendedTyped
    <3> QED
      BY <2>2, <3>1, SameChallenges DEF Token
  <2> HIDE DEF tok
  <2>6. TRUE \in BOOLEAN
    OBVIOUS
  <2> QED
    BY <1>0, <2>1, <2>2, <2>4, <2>5, <2>6, LaunchTraced
<1>3. ASSUME NEW c \in Clients, Finish(c) PROVE TraceInv'
  <2>1. /\ pc' = [pc EXCEPT ![c] = "idle"]
        /\ request' = [request EXCEPT ![c] = None]
        /\ answer' = [answer EXCEPT ![c] = None]
        /\ UNCHANGED <<deployment, context, pending>>
        /\ \E tok : token' = [token EXCEPT ![c] = tok]
    BY <1>3 DEF Finish
  <2>2. /\ pc'[c] = "idle"
        /\ \A e \in Clients \ {c} :
             /\ token'[e] = token[e] /\ pc'[e] = pc[e] /\ request'[e] = request[e]
             /\ context'[e] = context[e] /\ pending'[e] = pending[e] /\ answer'[e] = answer[e]
    BY <1>0, <2>1 DEF TypeOK
  <2>3. Traced(deployment, token'[c], "idle", request'[c], context'[c], pending'[c], answer'[c])
    BY DEF Traced
  <2> QED
    BY <2>1, <2>2, <2>3, OneTrace
<1>4. ASSUME NEW c \in Clients, pc[c] = "verifying"
      PROVE  /\ request[c].shape \in Shape /\ request[c].token.claims \in Claims
             /\ context[c] = OpenContext(request[c].shape)
             /\ context[c].mcp = request[c].shape.mcp /\ context[c].required = {}
             /\ context[c].target = Target(request[c].shape)
             /\ ~request[c].verified /\ request[c] \in Request
             /\ Challenge(context[c], request[c].token.claims)
                  = ChallengeIn(deployment, Target(request[c].shape), request[c].token.claims)
  <2>1. request[c].shape \in Shape /\ request[c].token.claims \in Claims /\ request[c] \in Request
    BY <1>0, <1>4, RequestTyped
  <2>2. context[c] = OpenContext(request[c].shape) /\ ~request[c].verified
    BY <1>4 DEF TraceInv, Traced
  <2> QED
    BY <2>1, <2>2, OpenTarget, SameChallenges
<1>5. ASSUME NEW c \in Clients, VerifyFails(c) PROVE TraceInv'
  <2> DEFINE r == request[c]
             x == context[c]
             out == IF x.mcp THEN Plain(401, "nothing") ELSE Plain(200, "public")
  <2>1. /\ pc[c] = "verifying" /\ pc' = [pc EXCEPT ![c] = "responding"]
        /\ pending' = [pending EXCEPT ![c] = out]
        /\ request' = [request EXCEPT ![c] = r]
        /\ context' = [context EXCEPT ![c] = x]
        /\ UNCHANGED <<deployment, token, answer>>
    BY <1>0, <1>5 DEF VerifyFails, TypeOK
  <2>2. /\ AnsweredFrom(x, out) = out /\ out.challenge = {} /\ out.result \in {"nothing", "public"}
        /\ out.code = IF r.shape.mcp THEN 401 ELSE 200
    BY <1>4, <2>1, PlainFacts DEF AnsweredFrom
  <2> HIDE DEF out
  <2>3. Heard(deployment, r, AnsweredFrom(x, out))
    BY <1>4, <2>1, <2>2 DEF Heard
  <2> HIDE DEF r, x
  <2> QED
    BY <1>0, <2>1, <2>3, RespondingTraced DEF r
<1>6. ASSUME NEW c \in Clients, VerifyChallenges(c) PROVE TraceInv'
  <2> DEFINE r == [request[c] EXCEPT !.verified = TRUE]
             S == Challenge(context[c], request[c].token.claims)
             x == [context[c] EXCEPT !.required = S]
             out == Plain(401, "nothing")
  <2>1. /\ pc[c] = "verifying" /\ pc' = [pc EXCEPT ![c] = "responding"]
        /\ request[c].token.valid /\ context[c].mcp /\ S # {}
        /\ request' = [request EXCEPT ![c] = r]
        /\ context' = [context EXCEPT ![c] = x]
        /\ pending' = [pending EXCEPT ![c] = out]
        /\ UNCHANGED <<deployment, token, answer>>
    BY <1>0, <1>6 DEF VerifyChallenges, TypeOK
  <2>2. /\ r.token = request[c].token /\ r.shape = request[c].shape
        /\ r.replay = request[c].replay /\ r.verified
    BY <1>4, <2>1 DEF Request
  <2>3. x.required = S
    BY <1>4, <2>1 DEF OpenContext
  <2>4. AnsweredFrom(x, out) = [Plain(403, "nothing") EXCEPT !.challenge = S]
    BY <2>1, <2>3 DEF AnsweredFrom
  <2>5. /\ AnsweredFrom(x, out).code = 403 /\ AnsweredFrom(x, out).result = "nothing"
        /\ AnsweredFrom(x, out).challenge = S
    BY <2>4 DEF Plain
  <2>6. /\ S = ChallengeIn(deployment, Target(request[c].shape), request[c].token.claims)
        /\ request[c].shape.mcp
    BY <1>4, <2>1
  <2> HIDE DEF r, x, out, S
  <2>7. Heard(deployment, r, AnsweredFrom(x, out))
    BY <2>1, <2>2, <2>5, <2>6 DEF Heard
  <2> QED
    BY <1>0, <2>1, <2>2, <2>7, RespondingTraced
<1>7. ASSUME NEW c \in Clients, VerifyAccepts(c) PROVE TraceInv'
  <2> DEFINE r == [request[c] EXCEPT !.verified = TRUE]
             x == context[c]
  <2>1. /\ pc[c] = "verifying" /\ request[c].token.valid
        /\ request' = [request EXCEPT ![c] = r]
        /\ context' = [context EXCEPT ![c] = x]
        /\ UNCHANGED <<deployment, token, answer>>
    BY <1>0, <1>7 DEF VerifyAccepts, TypeOK
  <2>2. /\ r.token = request[c].token /\ r.shape = request[c].shape
        /\ r.replay = request[c].replay /\ r.verified
    BY <1>4, <2>1 DEF Request
  <2>3. CASE x.mcp
    <3>1. /\ pc' = [pc EXCEPT ![c] = "dispatching"] /\ UNCHANGED pending
          /\ ChallengeIn(deployment, Target(r.shape), r.token.claims) = {}
      BY <1>4, <1>7, <2>1, <2>2, <2>3 DEF VerifyAccepts
    <3>2. r.shape.mcp /\ x = OpenContext(r.shape) /\ r.token = token[c]
      BY <1>4, <2>1, <2>2, <2>3 DEF TraceInv, Traced
    <3> HIDE DEF r, x
    <3>3. Traced(deployment, token[c], "dispatching", r, x, pending[c], answer[c])
      BY <2>2, <3>1, <3>2 DEF Traced
    <3>4. /\ token'[c] = token[c] /\ pc'[c] = "dispatching" /\ request'[c] = r
          /\ context'[c] = x /\ pending'[c] = pending[c] /\ answer'[c] = answer[c]
          /\ \A e \in Clients \ {c} :
               /\ token'[e] = token[e] /\ pc'[e] = pc[e] /\ request'[e] = request[e]
               /\ context'[e] = context[e] /\ pending'[e] = pending[e]
               /\ answer'[e] = answer[e]
      BY <1>0, <2>1, <3>1 DEF TypeOK
    <3> QED
      BY <2>1, <3>3, <3>4, OneTrace
  <2>4. CASE ~x.mcp
    <3> DEFINE out == Plain(200, "public")
    <3>1. /\ pc' = [pc EXCEPT ![c] = "responding"]
          /\ pending' = [pending EXCEPT ![c] = out]
      BY <1>7, <2>4 DEF VerifyAccepts
    <3>2. /\ AnsweredFrom(x, out) = out /\ out.challenge = {} /\ out.result = "public"
          /\ out.code = 200 /\ ~r.shape.mcp
      BY <1>4, <2>1, <2>2, <2>4, PlainFacts DEF AnsweredFrom
    <3> HIDE DEF out, r, x
    <3>3. Heard(deployment, r, AnsweredFrom(x, out))
      BY <3>2 DEF Heard
    <3> QED
      BY <1>0, <2>1, <2>2, <3>1, <3>3, RespondingTraced
  <2> QED
    BY <2>3, <2>4
<1>8. ASSUME NEW c \in Clients, pc[c] = "dispatching"
      PROVE  /\ request[c].shape \in Shape /\ request[c].token.claims \in Claims
             /\ context[c].required = {} /\ request[c].verified /\ request[c].shape.mcp
             /\ ChallengeIn(deployment, Target(request[c].shape), request[c].token.claims) = {}
  <2>1. request[c].shape \in Shape /\ request[c].token.claims \in Claims
    BY <1>0, <1>8, RequestTyped
  <2> QED
    BY <1>8, <2>1, OpenTarget DEF TraceInv, Traced
<1>9. ASSUME NEW c \in Clients, Dispatch(c) PROVE TraceInv'
  <2> DEFINE r == request[c]
             x == context[c]
             q == Principal(deployment, r.token.claims)
             out == Handled(r.shape, q)
  <2>1. /\ pc[c] = "dispatching" /\ pc' = [pc EXCEPT ![c] = "responding"]
        /\ pending' = [pending EXCEPT ![c] = out]
        /\ request' = [request EXCEPT ![c] = r]
        /\ context' = [context EXCEPT ![c] = x]
        /\ UNCHANGED <<deployment, token, answer>>
    BY <1>0, <1>9 DEF Dispatch, TypeOK
  <2>2. AnsweredFrom(x, out) = out
    BY <1>8, <2>1 DEF AnsweredFrom
  <2>3. Visible(deployment, q) = {t \in Tools : Permitted(deployment, t, r.token.claims)}
    BY <1>0, <1>8, <2>1, DecisionSound DEF Visible
  <2>4. /\ out.code = 200 /\ out.challenge = {}
        /\ out.result = "listed" => out.tools = Visible(deployment, q)
        /\ out.result = "denied" =>
             /\ r.shape.body.name \in Tools
             /\ ~Permitted(deployment, r.shape.body.name, r.token.claims)
    <3>1. CASE r.shape.body.method = "tools/list"
      BY <3>1 DEF Handled, Plain
    <3>2. CASE r.shape.body.method = "tools/call" /\ r.shape.body.name # None
      <4>1. r.shape.body.name \in Tools
        BY <1>8, <2>1, <3>2 DEF Shape, Body
      <4>2. out = IF Permitted(deployment, r.shape.body.name, r.token.claims)
                    THEN Plain(200, "ran") ELSE Plain(200, "denied")
        BY <1>0, <1>8, <2>1, <3>2, <4>1, DecisionSound DEF Handled
      <4> HIDE DEF out
      <4> QED
        BY <4>1, <4>2, PlainFacts
    <3>3. CASE ~(r.shape.body.method = "tools/list")
               /\ ~(r.shape.body.method = "tools/call" /\ r.shape.body.name # None)
      BY <3>3, PlainFacts DEF Handled
    <3> QED
      BY <3>1, <3>2, <3>3
  <2> HIDE DEF out, q
  <2>5. Heard(deployment, r, out)
    <3>1. /\ r.verified /\ r.shape.mcp
          /\ ChallengeIn(deployment, Target(r.shape), r.token.claims) = {}
      BY <1>8, <2>1
    <3>2. out.result = "listed" =>
            out.tools = {t \in Tools : Permitted(deployment, t, r.token.claims)}
      BY <2>3, <2>4
    <3>3. (out.code = 401) <=> (r.shape.mcp /\ ~r.verified)
      BY <2>4, <3>1
    <3> HIDE DEF r
    <3> QED
      BY <2>4, <3>1, <3>2, <3>3 DEF Heard
  <2> HIDE DEF r, x
  <2> QED
    BY <1>0, <2>1, <2>2, <2>5, RespondingTraced DEF r
<1>10. ASSUME NEW c \in Clients, SdkRefuses(c) PROVE TraceInv'
  <2> DEFINE r == request[c]
             x == context[c]
             out == Plain(400, "nothing")
  <2>1. /\ pc[c] = "dispatching" /\ pc' = [pc EXCEPT ![c] = "responding"]
        /\ pending' = [pending EXCEPT ![c] = out]
        /\ request' = [request EXCEPT ![c] = r]
        /\ context' = [context EXCEPT ![c] = x]
        /\ UNCHANGED <<deployment, token, answer>>
    BY <1>0, <1>10 DEF SdkRefuses, TypeOK
  <2>2. /\ AnsweredFrom(x, out) = out /\ out.challenge = {} /\ out.result = "nothing"
        /\ out.code = 400
    BY <1>8, <2>1, PlainFacts DEF AnsweredFrom
  <2> HIDE DEF out
  <2>3. Heard(deployment, r, AnsweredFrom(x, out))
    BY <1>8, <2>1, <2>2 DEF Heard
  <2> HIDE DEF r, x
  <2> QED
    BY <1>0, <2>1, <2>3, RespondingTraced DEF r
<1>11. ASSUME NEW c \in Clients, Respond(c) PROVE TraceInv'
  <2> DEFINE v == AnsweredFrom(context[c], pending[c])
  <2>1. /\ pc[c] = "responding" /\ pc' = [pc EXCEPT ![c] = "answered"]
        /\ answer' = [answer EXCEPT ![c] = v]
        /\ context' = [context EXCEPT ![c] = None]
        /\ pending' = [pending EXCEPT ![c] = None]
        /\ UNCHANGED <<deployment, token, request>>
    BY <1>11 DEF Respond
  <2>2. Traced(deployment, token[c], "responding", request[c], context[c], pending[c], answer[c])
    BY <2>1 DEF TraceInv
  <2>3. Traced(deployment, token[c], "answered", request[c], None, None, v)
    BY <2>2 DEF Traced
  <2> HIDE DEF v
  <2>4. /\ token'[c] = token[c] /\ pc'[c] = "answered" /\ request'[c] = request[c]
        /\ context'[c] = None /\ pending'[c] = None /\ answer'[c] = v
        /\ \A e \in Clients \ {c} :
             /\ token'[e] = token[e] /\ pc'[e] = pc[e] /\ request'[e] = request[e]
             /\ context'[e] = context[e] /\ pending'[e] = pending[e] /\ answer'[e] = answer[e]
    BY <1>0, <2>1 DEF TypeOK
  <2> QED
    BY <2>1, <2>3, <2>4, OneTrace
<1>12. CASE UNCHANGED vars
  BY <1>12 DEF vars, TraceInv
<1> QED
  BY <1>1, <1>2, <1>3, <1>5, <1>6, <1>7, <1>9, <1>10, <1>11, <1>12 DEF Next

LEMMA TraceHolds == Spec => [](TypeOK /\ TraceInv)
<1>1. Init => TraceInv
  BY DEF Init, TraceInv, Traced
<1>2. IInv => TypeOK
  BY DEF IInv
<1> QED
  BY <1>1, <1>2, TraceNext, InvariantHolds, PTL DEF Spec

\* What the invariant says of an answered client.
LEMMA AnsweredTraced ==
  ASSUME TypeOK, TraceInv, NEW c \in Answered
  PROVE  LET s == request[c].shape
             missing == ChallengeIn(deployment, Target(s), ClaimsOf(c))
         IN  /\ c \in Clients /\ s \in Shape /\ ClaimsOf(c) \in Claims
             /\ deployment \in Deployment /\ Target(s) \in Tools \cup {None}
             /\ Heard(deployment, request[c], answer[c])
             /\ request[c].replay /\ s.mcp => missing = {}
<1>1. c \in Clients /\ pc[c] = "answered"
  BY DEF Answered
<1>2. request[c].shape \in Shape /\ ClaimsOf(c) \in Claims
  BY <1>1, RequestTyped DEF ClaimsOf
<1> QED
  BY <1>1, <1>2, DeploymentTyped, OpenTarget DEF TraceInv, Traced, ClaimsOf

\* A caller is shown exactly the tools a call would run for it, for any registry
\* and token (_filter_tool_list and the call path use one decision).
THEOREM CatalogExact == Spec => []CatalogMatchesCalls
<1>1. TypeOK /\ TraceInv => CatalogMatchesCalls
  BY AnsweredTraced DEF CatalogMatchesCalls, Heard, ClaimsOf
<1> QED
  BY <1>1, TraceHolds, PTL

\* A challenge answers a POST to /mcp with a valid token before anything was
\* dispatched, names only what the operation needs, and names something the
\* token lacks (ProgressiveAuthorizationTokenVerifier.verify_token).
THEOREM ChallengesFair == Spec => []ChallengesJustified
<1>1. ASSUME TypeOK, TraceInv, NEW c \in Answered, answer[c].challenge # {}
      PROVE  LET s == request[c].shape
                 needed == deployment.required \cup
                   (IF s.header # None /\ deployment.policy[s.header] # None
                      THEN PolicyScopes(deployment.policy[s.header]) ELSE {})
             IN  /\ s.mcp /\ request[c].token.valid
                 /\ answer[c].code = 403 /\ answer[c].result = "nothing"
                 /\ answer[c].challenge \subseteq Effective(deployment, needed)
                 /\ ~CarriesAll(deployment, ClaimsOf(c), answer[c].challenge)
  <2> DEFINE s == request[c].shape
  <2>1. /\ s.mcp /\ request[c].token.valid
        /\ answer[c].code = 403 /\ answer[c].result = "nothing"
        /\ answer[c].challenge = ChallengeIn(deployment, Target(s), ClaimsOf(c))
        /\ ClaimsOf(c) \in Claims /\ deployment \in Deployment
        /\ Target(s) \in Tools \cup {None}
    BY <1>1, AnsweredTraced DEF Heard, ClaimsOf
  <2>2. Target(s) = s.header
    BY <2>1 DEF Target
  <2>3. /\ answer[c].challenge \subseteq Effective(deployment, Needed(deployment, Target(s)))
        /\ ~CarriesAll(deployment, ClaimsOf(c), answer[c].challenge)
    BY <1>1, <2>1, ChallengeFair
  <2> QED
    BY <2>1, <2>2, <2>3 DEF Needed
<1>2. TypeOK /\ TraceInv => ChallengesJustified
  BY <1>1 DEF ChallengesJustified
<1> QED
  BY <1>2, TraceHolds, PTL

\* The client's one replay is never challenged again, whatever the deployment
\* asks for and whoever else is being served (ADR-0017).
THEOREM OneStepUp == Spec => []OneStepUpSuffices
<1>1. TypeOK /\ TraceInv => OneStepUpSuffices
  BY AnsweredTraced DEF OneStepUpSuffices, Heard, ClaimsOf
<1> QED
  BY <1>1, TraceHolds, PTL

\* 401 means a token that was not accepted; a denial inside MCP that no larger
\* token of the same principal would have been spared (ADR-0006).
THEOREM DenialsFinal == Spec => []DenialsAreFinal
<1>1. ASSUME TypeOK, TraceInv, NEW c \in Answered
      PROVE  LET s == request[c].shape
                 larger == Extended(ClaimsOf(c), Scopes)
             IN  /\ (answer[c].code = 401) <=> (s.mcp /\ ~request[c].verified)
                 /\ /\ answer[c].result = "denied"
                    /\ s.header = s.body.name
                    /\ Extensible(ClaimsOf(c), {})
                    => ~Permitted(deployment, s.body.name, larger)
  <2> DEFINE s == request[c].shape
  <2>1. Heard(deployment, request[c], answer[c]) /\ ClaimsOf(c) \in Claims
        /\ deployment \in Deployment
    BY <1>1, AnsweredTraced
  <2>2. (answer[c].code = 401) <=> (s.mcp /\ ~request[c].verified)
    BY <2>1 DEF Heard
  <2>3. ASSUME answer[c].result = "denied", s.header = s.body.name, Extensible(ClaimsOf(c), {})
        PROVE  ~Permitted(deployment, s.body.name, Extended(ClaimsOf(c), Scopes))
    <3>1. /\ s.mcp /\ ChallengeIn(deployment, Target(s), ClaimsOf(c)) = {}
          /\ s.body.name \in Tools /\ ~Permitted(deployment, s.body.name, ClaimsOf(c))
      BY <2>1, <2>3 DEF Heard, ClaimsOf
    <3>2. Target(s) = s.body.name /\ s.body.name # None
      BY <2>3, <3>1, InputAssumption DEF Target
    <3>3. ExtensibleIn(deployment, ClaimsOf(c), {})
      BY <2>3, SameChallenges
    <3>4. ~Permitted(deployment, s.body.name, ExtendedIn(deployment, ClaimsOf(c), Scopes))
      BY <2>1, <3>1, <3>2, <3>3, DenialFinal
    <3> QED
      BY <3>4, SameChallenges
  <2> QED
    BY <2>2, <2>3
<1>2. TypeOK /\ TraceInv => DenialsAreFinal
  BY <1>1 DEF DenialsAreFinal
<1> QED
  BY <1>2, TraceHolds, PTL
=============================================================================
